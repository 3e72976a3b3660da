----------------------------- MODULE RepeatedLab -----------------------------
(***************************************************************************)
(* Evaluations: experiments/run_repeated_lab.sh with the Docker lab it     *)
(* runs (labs/docker-bidirectional: common.sh and the two tests), the      *)
(* checks of lab_metrics.py, the summary of repeated_lab.py and the        *)
(* evaluation manifest.                                                    *)
(*                                                                         *)
(* Three processes work for an evaluation: the runner, the test script it  *)
(* waits for, and the replay that script starts inside the router          *)
(* container, which no signal to the scripts reaches.  All evaluations     *)
(* share the lab and its artifact directory; each has its own result       *)
(* directory.  A file is identified by the runs that had a part in it.     *)
(* The profile is reduced to one state, so a replay logs two lines.        *)
(*                                                                         *)
(* Faults: every command of a script may fail, a `|| true` hides a refused *)
(* one, the containers may refuse to go, and the runner, its test or both  *)
(* may get SIGTERM or SIGKILL at any point.                                *)
(***************************************************************************)
EXTENDS ExecutionLog, EvaluationManifest, FiniteSets

CONSTANTS
  Evaluations,   \* the processes run_repeated_lab.sh
  Repetitions,   \* --repetitions
  MaxRunning,    \* bound on the runners alive at once
  KeepLab,       \* the values KEEP_LAB may have in the environment
  OrphanTests    \* TRUE: a killed runner may leave its test script running

ASSUME RepetitionsAssumption == Repetitions \in Nat \ {0} /\ MaxRunning \in Nat
ASSUME SwitchesAssumption    == KeepLab \subseteq BOOLEAN /\ OrphanTests \in BOOLEAN

VARIABLES
  keep,        \* KEEP_LAB=1
  lab,         \* the containers: "up" or "down"
  shaping,     \* the qdiscs on the router: of which run, in which direction
  artifacts,   \* the shared directory: the runs each file comes from
  log,         \* profile-execution.jsonl in it: who wrote which line
  opened,      \* the evaluations whose replay holds that very file open
  runner, run, \* each runner: where it is, and its repetition
  kind, test,  \* its test script: which one, and where it is
  replay,      \* the replay that script started in the router
  results, manifest,  \* its result directory
  lapsed       \* history: whose clearing was refused or came late, for the
               \* measurement its test makes next

sharedLab == <<lab, shaping>>
shared    == <<sharedLab, artifacts, log, opened>>
own       == <<runner, run, kind, test, replay>>
outcome   == <<results, manifest>>
vars      == <<keep, shared, own, outcome, lapsed>>

This(e) == <<e, run[e]>>

\* fixed-*.txt and fixed-*.json, profile-ping.txt and the two summaries.
FixedFiles   == {"baseline", "impaired", "fixed"}
ProfileFiles == {"ping", "profile"}
Files        == FixedFiles \cup ProfileFiles

\* A file copied to, or written in, the result directory.
File(by, accepted) == [by |-> by, accepted |-> accepted, link |-> FALSE]
Collected == (1..Repetitions) \X {"fixed", "profile", "log"}
Summary   == <<0, "summary">>
Notes     == <<0, "notes">>

\* "stranded": failed, and the cleanup of the trap was refused as well.
Stopped == {"idle", "finished", "refused", "failed", "stranded", "killed"}
Running == {e \in Evaluations : runner[e] \notin Stopped}
Testing == {"up", "clear", "baseline", "shape", "other", "measure", "ping", "replay",
            "verify", "finish"}

SetRunner(e, point) == runner' = [runner EXCEPT ![e] = point]
SetTest(e, point)   == test' = [test EXCEPT ![e] = point]
SetReplay(e, point) == replay' = [replay EXCEPT ![e] = point]

-----------------------------------------------------------------------------
(* The lab.                                                                 *)

Directions == {"forward", "reverse"}
Replaying  == {"opening"} \cup Directions

\* docker compose down: the containers go, their qdiscs and processes too.
TakeDown ==
  /\ lab' = "down" /\ shaping' = {}
  /\ replay' = [e \in Evaluations |->
                  IF replay[e] \in Replaying THEN "broken" ELSE replay[e]]

\* clear_qdisc: the `|| true` lets every device keep what it has.
ClearQdisc == shaping' \in SUBSET shaping

\* The containers stay: KEEP_LAB=1, or compose down is refused.
ClearOnly == ClearQdisc /\ UNCHANGED <<lab, replay>>

\* finish_lab, to its end.
FinishLab == IF keep THEN ClearOnly ELSE TakeDown

\* tc qdisc replace on one device; the condition of a run is on both.
Put(e, direction) ==
  {q \in shaping : q[2] # direction} \cup {<<This(e), direction>>}
Condition(e) == {This(e)} \X Directions

\* The replay in the router; its log goes to the file it opened, which may
\* have been removed since.
OpenLog(e) ==
  /\ replay[e] = "opening"
  /\ opened' = opened \cup {e}
  /\ SetReplay(e, "forward")
  /\ UNCHANGED <<keep, sharedLab, artifacts, log, runner, run, kind, test, outcome,
                 lapsed>>

Line(e) ==
  [by |-> This(e), line |-> LogRecord("timeseries_state", 0, replay[e], 0, 1)]

\* With the last line the replay ends: --cleanup-on-exit, unchecked.
ApplyAndLog(e) ==
  /\ replay[e] \in Directions
  /\ log' = IF e \in opened THEN Append(log, Line(e)) ELSE log
  /\ IF replay[e] = "forward"
       THEN shaping' = Put(e, "forward") /\ SetReplay(e, "reverse")
       ELSE shaping' \in SUBSET Put(e, "reverse") /\ SetReplay(e, "done")
  /\ UNCHANGED <<keep, lab, artifacts, opened, runner, run, kind, test, outcome,
                 lapsed>>

ReplayFails(e) ==
  /\ replay[e] \in Replaying
  /\ SetReplay(e, "broken")
  /\ ClearQdisc
  /\ UNCHANGED <<keep, lab, artifacts, log, opened, runner, run, kind, test,
                 outcome, lapsed>>

-----------------------------------------------------------------------------
(* The test scripts.  A step inside the containers needs them to be up;     *)
(* where they are not, only TestFails is left.                              *)

Write(file, by) == artifacts' = [artifacts EXCEPT ![file] = by]
Remove(files)   == artifacts' = [f \in Files |-> IF f \in files THEN {} ELSE artifacts[f]]

\* Mutant of RemoveLog: the log of an earlier replay is appended to.
KeepLog == UNCHANGED <<log, opened>>

\* A replay that holds the old log open goes on writing to a file without a name.
RemoveLog == log' = <<>> /\ opened' = {}

StartLab(e) ==
  /\ test[e] = "up"
  /\ lab' = "up"
  /\ SetTest(e, "clear")
  /\ UNCHANGED <<keep, shaping, artifacts, log, opened, runner, run, kind, replay,
                 outcome, lapsed>>

\* Mutant of ClearOld: the qdiscs of an earlier test stay.
ClearFilesOnly(e) ==
  /\ test[e] = "clear" /\ lab = "up"
  /\ IF kind[e] = "fixed"
       THEN Remove(FixedFiles) /\ UNCHANGED <<log, opened>> /\ SetTest(e, "baseline")
       ELSE Remove(ProfileFiles) /\ RemoveLog /\ SetTest(e, "ping")
  /\ UNCHANGED <<keep, lab, shaping, runner, run, kind, replay, outcome, lapsed>>

\* detect_devices, the trap, clear_qdisc and rm -f, the last two with `|| true`.
ClearOld(e) ==
  /\ test[e] = "clear" /\ lab = "up"
  /\ ClearQdisc
  /\ IF kind[e] = "fixed"
       THEN /\ Remove(FixedFiles) \/ UNCHANGED artifacts
            /\ UNCHANGED <<log, opened>>
            /\ SetTest(e, "baseline")
            /\ lapsed' = IF shaping' = {} THEN lapsed ELSE lapsed \cup {e}
       ELSE /\ \/ Remove(ProfileFiles) /\ RemoveLog
               \/ UNCHANGED <<artifacts, log, opened>>
            /\ SetTest(e, "ping")
            /\ UNCHANGED lapsed
  /\ UNCHANGED <<keep, lab, runner, run, kind, replay, outcome>>

MeasureBaseline(e) ==
  /\ test[e] = "baseline" /\ lab = "up"
  /\ Write("baseline", {This(e)})
  /\ SetTest(e, "shape")
  /\ lapsed' = lapsed \ {e}
  /\ UNCHANGED <<keep, sharedLab, log, opened, runner, run, kind, replay, outcome>>

Shape(e) ==
  /\ lab = "up"
  /\ \/ test[e] = "shape" /\ shaping' = Put(e, "forward") /\ SetTest(e, "other")
     \/ test[e] = "other" /\ shaping' = Put(e, "reverse") /\ SetTest(e, "measure")
  /\ UNCHANGED <<keep, lab, artifacts, log, opened, runner, run, kind, replay,
                 outcome, lapsed>>

MeasureImpaired(e) ==
  /\ test[e] = "measure" /\ lab = "up"
  /\ Write("impaired", {This(e)})
  /\ SetTest(e, "verify")
  /\ lapsed' = lapsed \ {e}
  /\ UNCHANGED <<keep, sharedLab, log, opened, runner, run, kind, replay, outcome>>

\* ping in the background, then the replay.
StartReplay(e) ==
  /\ test[e] = "ping" /\ lab = "up"
  /\ Write("ping", {This(e)})
  /\ SetReplay(e, "opening")
  /\ SetTest(e, "replay")
  /\ UNCHANGED <<keep, sharedLab, log, opened, runner, run, kind, outcome, lapsed>>

AwaitReplay(e) ==
  /\ test[e] = "replay" /\ replay[e] = "done"
  /\ SetTest(e, "verify")
  /\ UNCHANGED <<keep, shared, runner, run, kind, replay, outcome, lapsed>>

Writers == {log[i].by : i \in 1..Len(log)}
Lines   == [i \in 1..Len(log) |-> log[i].line]

\* What the verdict reads is there: parse_ping, parse_execution_log and, with
\* `passes`, the directions verify_profile asks for.
Readable(e) ==
  IF kind[e] = "fixed"
    THEN artifacts["baseline"] # {} /\ artifacts["impaired"] # {}
    ELSE artifacts["ping"] # {} /\ log # <<>>

Passes(e) ==
  kind[e] = "profile" => {Lines[i].direction : i \in 1..Len(log)} = Directions

\* verify_metrics.py writes its summary whether the test passed or not.
Verify(e) ==
  /\ test[e] = "verify"
  /\ Readable(e)
  /\ IF kind[e] = "fixed"
       THEN Write("fixed", artifacts["baseline"] \cup artifacts["impaired"])
       ELSE Write("profile", artifacts["ping"] \cup Writers)
  /\ \/ /\ Passes(e) /\ SetTest(e, "finish")
        /\ UNCHANGED <<sharedLab, replay>>
     \/ SetTest(e, "failed") /\ (FinishLab \/ ClearOnly)
  /\ UNCHANGED <<keep, log, opened, runner, run, kind, outcome, lapsed>>

Finish(e) ==
  /\ test[e] = "finish"
  /\ FinishLab
  /\ SetTest(e, "passed")
  /\ UNCHANGED <<keep, artifacts, log, opened, runner, run, kind, outcome, lapsed>>

\* set -e: any command may fail, also one of finish_lab in the EXIT trap, which
\* is set behind detect_devices.  SIGKILL is a failure without the trap.
TestFails(e) ==
  /\ test[e] \in Testing
  /\ SetTest(e, "failed")
  /\ \/ UNCHANGED <<sharedLab, replay>>
     \/ test[e] # "up" /\ (FinishLab \/ ClearOnly)
  /\ lapsed' = lapsed \ {e}
  /\ UNCHANGED <<keep, artifacts, log, opened, runner, run, kind, outcome>>

\* SIGTERM to the test: when the command at work has ended, the trap runs
\* finish_lab and the script goes on, in a lab that is down or has lost its qdiscs.
TerminateTest(e) ==
  /\ test[e] \in Testing \ {"up", "clear"}
  /\ test[e] = "replay" => replay[e] \notin Replaying
  /\ FinishLab
  /\ lapsed' = IF keep /\ test[e] \in {"other", "measure"}
                 THEN lapsed \cup {e} ELSE lapsed
  /\ UNCHANGED <<keep, artifacts, log, opened, runner, run, kind, test, outcome>>

-----------------------------------------------------------------------------
(* The runner.                                                              *)

\* A changed worktree, or a result directory of the same second.
Refuse(e) ==
  /\ runner[e] = "idle"
  /\ SetRunner(e, "refused")
  /\ UNCHANGED <<keep, shared, run, kind, test, replay, outcome, lapsed>>

Begin(e) ==
  /\ runner[e] = "idle"
  /\ Cardinality(Running) < MaxRunning
  /\ SetRunner(e, "fixed")
  /\ UNCHANGED <<keep, shared, run, kind, test, replay, outcome, lapsed>>

\* rm -f of what the test is to produce, then the test itself.
RunTest(e) ==
  /\ runner[e] \in {"fixed", "profile"}
  /\ Remove({runner[e]})
  /\ IF runner[e] = "profile" THEN RemoveLog ELSE UNCHANGED <<log, opened>>
  /\ kind' = [kind EXCEPT ![e] = runner[e]]
  /\ SetTest(e, "up")
  /\ SetRunner(e, "await")
  /\ UNCHANGED <<keep, sharedLab, run, replay, outcome, lapsed>>

\* The EXIT trap, whose `|| true` hides a refused cleanup.
Exit(e, how) ==
  \/ SetRunner(e, how) /\ TakeDown
  \/ SetRunner(e, IF how = "failed" THEN "stranded" ELSE how) /\ ClearOnly

TestEnded(e) ==
  /\ runner[e] = "await"
  /\ \/ /\ test[e] = "passed"
        /\ SetRunner(e, IF kind[e] = "fixed" THEN "take_fixed" ELSE "take_profile")
        /\ UNCHANGED <<sharedLab, replay>>
     \/ test[e] = "failed" /\ Exit(e, "failed")
  /\ UNCHANGED <<keep, artifacts, log, opened, run, kind, test, outcome, lapsed>>

Store(e, path, file) ==
  results' = [results EXCEPT ![e] =
    [p \in DOMAIN @ \cup {path} |-> IF p = path THEN file ELSE @[p]]]

\* require_artifact and cp, file by file.
Take(e, point, file, then) ==
  /\ runner[e] = point
  /\ artifacts[file] # {}
  /\ Store(e, <<run[e], file>>, File(artifacts[file], TRUE))
  /\ SetRunner(e, then)
  /\ UNCHANGED <<keep, shared, run, kind, test, replay, manifest, lapsed>>

TakeFixed(e)   == Take(e, "take_fixed", "fixed", "profile")
TakeProfile(e) == Take(e, "take_profile", "profile", "take_log")

TakeLog(e) ==
  /\ runner[e] = "take_log"
  /\ log # <<>>
  /\ Store(e, <<run[e], "log">>, File(Writers, SummaryAccepts(Lines)))
  /\ IF run[e] < Repetitions
       THEN run' = [run EXCEPT ![e] = @ + 1] /\ SetRunner(e, "fixed")
       ELSE UNCHANGED run /\ SetRunner(e, "summarize")
  /\ UNCHANGED <<keep, shared, kind, test, replay, manifest, lapsed>>

\* repeated_lab.summarize: every run has both files, every log pairs up.
RunsWith(e, file) == {i \in 1..Repetitions : <<i, file>> \in DOMAIN results[e]}

Summarizable(e) ==
  /\ RunsWith(e, "fixed") # {}
  /\ RunsWith(e, "fixed") = RunsWith(e, "log")
  /\ \A i \in RunsWith(e, "log") : results[e][<<i, "log">>].accepted

Summarize(e) ==
  /\ runner[e] = "summarize"
  /\ Summarizable(e)
  /\ Store(e, Summary, File(UNION {results[e][p].by : p \in DOMAIN results[e]}, TRUE))
  /\ SetRunner(e, "create")
  /\ UNCHANGED <<keep, shared, run, kind, test, replay, manifest, lapsed>>

CreateManifest(e) ==
  /\ runner[e] = "create"
  /\ ~ HasLink(results[e])
  /\ manifest' = [manifest EXCEPT ![e] = ManifestOf(results[e])]
  /\ SetRunner(e, "verify")
  /\ UNCHANGED <<keep, shared, run, kind, test, replay, results, lapsed>>

VerifyManifest(e) ==
  /\ runner[e] = "verify"
  /\ Verified(results[e], manifest[e])
  /\ Exit(e, "finished")
  /\ UNCHANGED <<keep, artifacts, log, opened, run, kind, test, outcome, lapsed>>

\* A step that is not possible, a full disk: set -e ends the runner.
RunnerFails(e) ==
  /\ e \in Running /\ runner[e] # "await"
  /\ Exit(e, "failed")
  /\ UNCHANGED <<keep, artifacts, log, opened, run, kind, test, outcome, lapsed>>

-----------------------------------------------------------------------------
(* Around the processes.                                                    *)

\* SIGTERM to the runner: once its child has ended, the trap runs cleanup and
\* the script goes on.
Terminate(e) ==
  /\ e \in Running /\ test[e] \notin Testing
  /\ TakeDown \/ ClearOnly
  /\ UNCHANGED <<keep, artifacts, log, opened, runner, run, kind, test, outcome,
                 lapsed>>

\* SIGKILL to the runner, to it alone or to its whole process group.
Kill(e) ==
  /\ e \in Running
  /\ SetRunner(e, "killed")
  /\ \/ OrphanTests /\ UNCHANGED <<test, lapsed>>
     \/ /\ SetTest(e, IF test[e] \in Testing THEN "killed" ELSE test[e])
        /\ lapsed' = lapsed \ {e}
  /\ UNCHANGED <<keep, shared, run, kind, replay, outcome>>

\* Somebody changes, adds, deletes or links a file of the result directory
\* between the hashing and the verification.
Interfere(e) ==
  /\ runner[e] = "verify" /\ results[e] = manifest[e]
  /\ \/ \E p \in DOMAIN results[e] \cup {Notes} : Store(e, p, File({}, TRUE))
     \/ \E p \in DOMAIN results[e] :
          Store(e, p, [results[e][p] EXCEPT !.link = TRUE])
     \/ \E p \in DOMAIN results[e] :
          results' = [results EXCEPT ![e] = [q \in DOMAIN @ \ {p} |-> @[q]]]
  /\ UNCHANGED <<keep, shared, own, manifest, lapsed>>

TestStep(e) ==
  \/ StartLab(e) \/ ClearOld(e) \/ MeasureBaseline(e) \/ Shape(e)
  \/ MeasureImpaired(e) \/ StartReplay(e) \/ AwaitReplay(e) \/ Verify(e)
  \/ Finish(e) \/ TestFails(e) \/ TerminateTest(e)
ReplayStep(e) == OpenLog(e) \/ ApplyAndLog(e) \/ ReplayFails(e)
RunnerStep(e) ==
  \/ Refuse(e) \/ Begin(e) \/ RunTest(e) \/ TestEnded(e) \/ TakeFixed(e)
  \/ TakeProfile(e) \/ TakeLog(e) \/ Summarize(e) \/ CreateManifest(e)
  \/ VerifyManifest(e) \/ RunnerFails(e)

Init ==
  /\ keep \in KeepLab
  /\ lab = "down" /\ shaping = {}
  /\ artifacts = [f \in Files |-> {}] /\ log = <<>> /\ opened = {}
  /\ runner = [e \in Evaluations |-> "idle"]
  /\ run = [e \in Evaluations |-> 1]
  /\ kind = [e \in Evaluations |-> "fixed"]
  /\ test = [e \in Evaluations |-> "none"]
  /\ replay = [e \in Evaluations |-> "none"]
  /\ results = [e \in Evaluations |-> [p \in {} |-> File({}, TRUE)]]
  /\ manifest = [e \in Evaluations |-> [p \in {} |-> File({}, TRUE)]]
  /\ lapsed = {}

Next ==
  \E e \in Evaluations :
    \/ RunnerStep(e) \/ TestStep(e) \/ ReplayStep(e)
    \/ Terminate(e) \/ Kill(e) \/ Interfere(e)

Spec == Init /\ [][Next]_vars

-----------------------------------------------------------------------------
(* Properties.                                                              *)

\* A replay outlives the scripts of an evaluation killed during its profile
\* test, or failed there without a cleanup, as long as the containers are up.
OrphanReplay ==
  \E e \in Evaluations : runner[e] \in {"killed", "stranded"} /\ kind[e] = "profile"

\* The files of an evaluation: as hashed, or as collected so far.
Evidence(e) == IF DOMAIN manifest[e] = {} THEN results[e] ELSE manifest[e]

\* run_repeated_lab.sh:160 "so a partial or failed run can never reuse output
\* from a prior run": what is collected for a run was produced by that run and
\* nothing else, whatever earlier evaluations left in the shared directory.
\* (With KEEP_LAB=1 an orphaned replay could still be about to open its log.)
OwnArtifacts ==
  ~ (keep /\ OrphanReplay) =>
    \A e \in Evaluations : \A p \in DOMAIN Evidence(e) \cap Collected :
      Evidence(e)[p].by = {<<e, p[1]>>}

\* The fixed-condition test measures its baseline without any condition and the
\* rest under its own one, in both directions, whatever earlier tests left on the
\* router because they were killed, were stopped, or could not clear it.  What
\* spoils a measurement is a refused clearing just before the baseline
\* (common.sh:61), SIGTERM to the test itself in a kept lab, which measures on
\* without qdiscs (run-fixed-condition-test.sh:13), and an orphaned replay; the
\* first two spoil this one measurement and no later one.
OwnCondition ==
  ~ OrphanReplay /\ lab = "up" =>
    \A e \in Evaluations \ lapsed :
      /\ test[e] = "baseline" => shaping = {}
      /\ test[e] = "measure" => shaping = Condition(e)

\* A directory with the three files of every repetition, a summary of exactly
\* these runs, and nothing else.
Complete(e) ==
  /\ DOMAIN results[e] = Collected \cup {Summary}
  /\ \A p \in DOMAIN results[e] : ~ results[e][p].link /\ results[e][p].accepted
  /\ results[e][Summary].by = {e} \X (1..Repetitions)

\* An evaluation that reports success leaves a complete directory: failed
\* tests, killed steps and changes made after the hashing are all noticed.
FinishedIsComplete ==
  [][\A e \in Evaluations :
       runner[e] # "finished" /\ runner'[e] = "finished" => Complete(e)']_vars
=============================================================================
