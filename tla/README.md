# leo-replay in TLA+

This directory models [leo-replay](../src/README.md), checks the models with
TLC and proves theorems about them with TLAPS. leo-replay turns Starlink
measurements into profiles of link events, replays those profiles on Linux with
`tc netem` in one or two directions, and collects the evidence (logs,
snapshots, manifests) an experiment is reported with. Paths below are relative
to `src/`; the Python package is `src/src/leo_replay`.

## 1. Inventory: components, state, operations, interactions

| Component | State it keeps | Operations | What is hard about it |
|---|---|---|---|
| Bidirectional replay (`bidirectional_replay.py`, `cli.py:_bidirectional_replay`) | position in the profile, `previous_end`, `previous_event_id`, `_stop_requested`, the open log | prepare, baseline, event loop, time-series loop, final baseline, cleanup | signal at any step, refused commands, pairs of commands that are not atomic, overlapping and nested events |
| tc/ip backend (`tc_backend.py`) | none of its own: the kernel's qdiscs, IFB link, ingress qdisc, redirect filter | set-up and cleanup of the IFB, replace and delete of a root qdisc | unchecked commands, half-made redirects, a kill in between |
| Execution log (written by the replay, read by `repeated_lab.py`) | a JSONL file, two lines per application | append, load, pair the two directions | incomplete pairs, the same key twice |
| Event profiles, directional conversion (`event_profile.py`, `directional_profile.py`) | JSON documents, CSV rows | validate, normalize, convert, split into two directions | boundaries, values that validate and do not convert |
| Profile generation (`scripts/profile`) | sample rows and classified segments | classify, group, merge | off-by-one at segment ends |
| Single-direction replay (`scripts/replay`) | one device, calibration table | event scheduler, CSV replay, learning | no `max` over ends, loops |
| Orbit snapshots (`orbit/snapshot.py`, `orbit/acquisition.py`) | a snapshot directory, its manifest | fetch, publish, reuse, refresh, verify | check-then-act between concurrent fetches, crash while replacing |
| Historical selection (`orbit/selection.py`, `orbit/catalog.py`) | element histories | causal, retrospective and bracketing selection | ties, elements published after the event |
| Annotation, visibility (`orbit/annotation.py`, `orbit/visibility.py`) | windows around events | sample, annotate | interval boundaries |
| Measurement (`measurement.py`, `measure_cli.py`) | an output directory | run tools, write, hash, verify | time-outs, partly written directories |
| Repeated lab (`experiments/run_repeated_lab.sh`, `labs/docker-bidirectional`, `repeated_lab.py`) | per-run artifact directories, a shared work directory | run, copy, summarize | stale artifacts, a failed run in the middle |
| Evaluation manifest, paper bundle (`evaluation_manifest.py`, `paper_bundle.py`, `paper_summary.py`) | hashes of the artifacts | create, verify, assemble | files added or changed after hashing |
| Remote experiment (`scripts/orchestration`) | processes and files on two hosts | start, replay, collect | background measurement that is not waited for |
| Visualization, dashboard (`visualization`, `dashboard`) | a bundle directory, one running script | build, serve, start | the bundle is replaced file by file |

Interactions: profile generation writes an event profile (or a CSV); the replay
loads and validates it and drives the kernel through the tc backend; the replay
writes the execution log; the repeated lab runs the replay in containers,
collects the log of each run and pairs its records; the evaluation manifest
hashes everything collected. Orbit snapshots feed the historical selection, the
selection feeds the annotation, and annotation, measurement and metrics meet in
the visualization and the paper bundle. Almost nothing here locks anything:
processes meet in the kernel's qdiscs, in shared directories and in files, and
that is where the models look.

What makes each component correct:

- **Bidirectional replay, tc backend**: the right condition on both devices at
  the right second; no baseline in the middle of an event; a signal is obeyed
  soon and leaves the baseline; the log tells what the devices carry; set-up and
  cleanup never redirect traffic to a dead link and leave nothing behind.
- **Execution log**: what a completed replay wrote can be paired by the summary.
- **Orbit snapshots**: a directory holds one fetch's files or none; a verified
  reuse answers its own request; a failure does not cost the old snapshot; the
  refresh policy holds across crashes.
- **Repeated lab, evaluation manifest**: what is collected for a run was
  produced by that run under its own condition; a reported success means a
  complete, unmodified directory.
- **Event profiles, directional conversion**: what validation lets pass and the
  conversion refuses is known exactly; the directions mean what the parameters
  meant that they were made from; the two forms of a profile calibrate alike, or
  differ by no more than their starting points.
- **Profile generation**: no loss is counted twice or lost, a worse bin is never
  rated better, an event is the longest run of bins of one kind.
- **Legacy replay**: the same schedule as the bidirectional replay, in a loop as
  well; nothing early; rows in the order of their seconds.
- **Historical selection**: a causal choice is the one that could have been made
  then; a retrospective one is a neighbour of the time.
- **Annotation, visibility**: candidates were in view; a change is a change.
- **Measurement**: what verifies is what was measured by one capture, as long as no
  other of its kind shares the directory.
- **Remote experiment**: a row of the results comes from an iperf3 that had ended
  and a ping log that covers the replay; the router is clean when a measurement
  starts and at the end, or a deletion was refused.
- **Metrics**: a perfect replay has no error, a late one is seen as late, an
  outage that was not reproduced is missed.
- **Visualization**: a frame shows what was in force; a complete bundle holds the
  files its manifest names.

The hazards of each are listed with their lines in `PROJECT.json`.

## 2. Modules

| Module | Models | State |
|---|---|---|
| `TcBackend` | `tc_backend.py`: each ip/tc command that changes something, accepted or refused, checked or not | `qdisc` (the condition on each root), `ifb`, `ingress`, `redirect`; `faults` and `silent` count refusals |
| `ExecutionLog` | the JSONL record and the pairing check of `repeated_lab.py` | none: operators |
| `BidirectionalReplay` | `_bidirectional_replay` and `bidirectional_replay.py`: one process, its clock, a signal, a refusing kernel, SIGKILL | `pc`, `job` (the pair being applied), `next`, `previousEnd`, `previousId`, `stop`, `log`, `outcome`, `clock` |
| `EventSchedule` | the abstract promise of an event replay, whichever program makes it | `profile`, and the last entry of the log: `action`, `event` |
| `LegacyEventReplay` | `tc_event_replay_calibrated.py`: two commands and a line for every step, a loop, no signal handler | `pc`, `job`, `next`, `lastEnd`, `previous`, `clock`, `tbf`, `netem`, `logged` |
| `LegacySeriesReplay` | `tc_csv_replay.py`: one netem for each row, a flag looked at once in a row | `rows`, `next`, `stop`, `clock`, `qdisc`, `mark` |
| `RemoteExperiment` | `run_experiment.sh`, `run_remote_measurement.py`: a script, a measurement in the background of another machine, files fetched | `pc`, `iter`, `tries`, `clock`, `until`, `launched`, `iperf`, `ping`, `qdisc`, `orphan`, `logged`, `fetched`, `inputs`, `rows`, and the history `kept` |
| `OrbitSnapshot` | `acquisition.py` and `snapshot.py`: many fetches into one directory, by single looks, unlinks and renames | `home`, `dir` (the directory), `temp`, and per fetch `pc`, `cmd`, `manifest`, `opened`, `listing` |
| `SnapshotRegister` | the abstract promise: a register of whole snapshots | `value`, `used` |
| `EvaluationManifest` | `evaluation_manifest.py`: create and verify over a directory of files | none: operators |
| `RepeatedLab` | `run_repeated_lab.sh`, both Docker tests, the replay in the container, the summary's acceptance: runner, test script and replay of each evaluation around one shared lab | `lab`, `shaping`, `artifacts`, `log`, `opened`, and per evaluation `runner`, `run`, `kind`, `test`, `replay`, `results`, `manifest`, and the history `lapsed` |
| `DirectionalConversion` | the conversions of `directional_profile.py` and its CSV | none: operators |
| `ProfileDocument` | `event_profile.py`, the commands on profiles, `calibrate_event_delay.py`, `learn_event_delay.py` | `file`, and the histories `twin`, `policy`, `made`, `tuned` |
| `EventSegments` | `iperf_ping_grpc_to_event_profile.py`: binning, classification, segments | `left`, `bins`, `rows`, `current`, `segments` |
| `MergedSeries` | `starlink_merge_realdata_to_profile.py` | `sec`, `lastDelay`, `lastRate`, `rows` |
| `MeasurementCapture` | `measurement.py`, `measure_cli.py`: captures into one directory, verification | `at`, `step`, `digests`, `files`, `manifest`, and the history `shared` |
| `VisualizationBundle` | the output directory of `visualization/bundle.py` | `at`, `force`, `doomed`, `written`, `dir`, `manifest` |
| `VisualizationTimeline` | the frames of `visualization/bundle.py` | `frames` |
| `HistoricalSelection` | `orbit/selection.py` | `documents`, `status` |
| `OrbitAnnotation` | sampling of `orbit/visibility.py`, windows of `orbit/annotation.py` | `pending`, `rows`, `annotations` |
| `EventMetrics` | `event_metrics.py`, `event_replay_summary.py` | `results`, `counts` |
| `SeriesComparison` | `compare_measure_vs_replay.py` on one pair of series | `bins`, `i`, `j`, `pairs` |

Three modules compose tools that share no state: `Artifacts` (what leaves files:
profile documents, the two generators, captures, bundles), `Analyses` (what reads
them: selection, annotation, frames, metrics, comparison) and `FieldReplays` (the
two single-direction replays and the remote experiment). A behaviour of one of
these is a behaviour of one tool, chosen by the initial state; the others rest.
Interleaving tools that cannot see each other would multiply the states and show
nothing new. They name their parameters and the assumptions on them, and their
properties are conjunctions of named parts of the component modules; every part
has a mutant of its own.

TLC: `MCBidirectionalReplay`, `MCOrbitSnapshot`, `MCRepeatedLab`, `MCArtifacts`,
`MCAnalyses` and `MCFieldReplays` give the constants small values and add nothing
else.

Theorems: `BidirectionalReplayProofs` (the schedule, its order, the devices, the
log and the refinement), `LegacyEventReplayProofs`, `FieldReplaysProofs` (which instantiates it),
`OrbitSnapshotProofs`, `RepeatedLabProofs`, `ArtifactsProofs` and
`AnalysesProofs`; the last two rest on the lemmas of `FiniteSums` about sums over
finite sets and the ends of finite sets of numbers.

`BidirectionalReplay` extends `TcBackend` and `ExecutionLog`; `RepeatedLab`
extends `ExecutionLog` (the summary pairs the lines its replays append) and
`EvaluationManifest`; `ProfileDocument` extends `DirectionalConversion`; both
event replays instantiate `EventSchedule`, and `OrbitSnapshot` instantiates
`SnapshotRegister`. Every definition that stands for code is listed with its
lines in the `map` of `PROJECT.json`. Definitions whose comment begins with
"Mutant of" are mistakes the code does not make; each is used to show that a
property would notice it.

### BidirectionalReplay and TcBackend

A step is one command, one line of the log, or one decision between them, in the
order of the code: `LinkSetup`, `LinkUp`, `IngressSetup`, `FilterSetup` and
`ClearExisting` are `prepare_targets`; `Load` opens the log, reads the input and
plans the first baseline; `NextEvent`, `ConvertEvent`, `RejectNegativeStart` and
`FinishEvents` are the loop of `replay_events`, `NextState` that of
`replay_timeseries`; `WaitDone` is `_wait_until`; `ApplyForward`, `LogForward`,
`ApplyReverse`, `LogReverse` are `_apply_direction_pair`; `Finally` and
`Cleanup` are the `finally` block. A checked command that is refused raises
(`Leave`), an unchecked one is forgotten (`silent`). `Signal` sets the flag that
only the head of the loop reads; `Kill` stops the process anywhere.

The data are abstracted to what the properties compare: a condition is the index
of the entry it was built from (0 is the baseline), an input is a sorted
sequence of windows (`WellFormed` is what `validate_document` and
`read_directional_csv` guarantee), and the clock counts profile seconds, so
`time_scale` is its unit.

### OrbitSnapshot

The fetch is modelled by its accesses to the directory: two looks of the
decision, three reads of the manifest on the reuse path, the download, the
writing of the temporary directory, each `unlink` of `shutil.rmtree`, its
`rmdir`, and the rename. A file is identified by the fetch that wrote it, so
comparing hashes is comparing owners. Killing a fetch leaves its temporary
directory and whatever it had removed.

### RepeatedLab

Three processes work for an evaluation and fail separately: the runner, the test
script it waits for, and the replay the script started inside a container, which
no signal to the scripts reaches. A file is identified by the runs that had a
part in it. `Terminate` is a SIGTERM to the runner and `TerminateTest` one to the
test script. The trap of either cleans up and then lets its script go on: a test in
a kept lab (`KEEP_LAB=1`) has lost its qdiscs and measures without them. Clearing
the qdiscs hides a refusal behind `|| true`, so `ClearOld`, `FinishLab` and the traps
may leave what a device has. `lapsed` remembers whose measurement either has
spoilt. `Kill` takes the runner alone (`OrphanTests`) or its process group;
`Interfere` changes, adds, deletes or links a result file between the hashing and
the verification.

### EventSchedule and the two replays that implement it

`EventSchedule` is what the documentation and the tests say of an event replay
without its commands, clock and faults: the baseline first, events in their
order, the baseline in between only after the event that a gap follows, the
baseline last, and, where `Stoppable`, some events at the end left out. Its
state is the last entry of the log. `BidirectionalReplay` implements it with the
last *complete pair* of its log, so that a refused command or a kill between the
two directions is a step that never happened; `LegacyEventReplay` implements it
with the last line of its log, and `Begin` may be taken again because `--loop`
starts another pass. Both refinements are checked and proved.

### LegacyEventReplay and LegacySeriesReplay

The calibrated event replay sets `tbf` and then `netem`, then writes the line:
`SetTbf`, `SetNetem`, `WriteLog`, each of which may fail and then ends the
program, as Ctrl-C does anywhere (`Kill`); `NextJob` is the head of its loop with
the end of the *last* event where the bidirectional replay keeps the latest one.
The series replay sorts its rows, looks at the stop flag once before it sleeps for
a row, and sets that row even when the signal came during the sleep.

### RemoteExperiment

Two machines and one clock. `Launch` starts iperf3 and ping on the client and
returns; nothing waits for them, so `Fetch` copies what is there, and a server
that is still taken refuses the next iperf3 (`ServerTaken`). iperf3's file appears
at its end, `Duration` after the launch. ping is a process of its own: it ends
`Linger` seconds later (5 in the code) whether iperf3 was refused, ran or has
ended, and its log is read as far as it goes (`Seconds`). The two files are
fetched one after the other, each with its own tries.

Every remote command may fail (`MaxFaults`), and the trap is the only thing that
takes the last row off the router. Its deletion, like the one before each
iteration, is `|| true`: it may be refused and leave what is there (`Delete`,
remembered in `kept`). `Interrupt` is Ctrl-C: the event replay dies of it, but the
profile replay handles the signal and still sets the row it sleeps for
(`InterruptSeries`). `subprocess.run` meanwhile kills the `sudo` in front of it and
ends, so that the replay may live on as an `orphan` and set its row after the trap,
or is not allowed to kill it and waits (`stopping`). `Kill` reaches no trap.

### ProfileDocument and DirectionalConversion

One file and the commands that read it and write it back, in any order: validate,
convert legacy rows or a CSV, make directions, calibrate, learn. A loss is a
number of arriving packets in quarters and a share is in halves, so that the
equivalent split is an exact square root; what has no exact root is not among the
inputs. `twin` runs the same commands on the converted document, which is how
"calibrate, then convert" meets "convert, then calibrate". The two calibration
scripts validate nothing, as in the code. `learn_event_delay.py` is not even the
same for the two forms: it starts the jitter of a row at `--default-jitter-ms` and
that of a document at its observation (`CurrentJitter`), and a conversion takes a
jitter learned down to nothing for none. And it leaves directions alone that were
made before: `made` remembers from which parameters.

### EventSegments and MergedSeries

One step is one bin, one classified row, one row appended to a segment. An
average is a sum and a weight, compared with a threshold without dividing. The
five rules of the classification are five operators in their order, each given
the verdict of the ones before. `SegmentsAreRuns` compares the loop with
the set of all maximal runs.

### MeasurementCapture and VisualizationBundle

Both write files and then a manifest, and no write is atomic: a file is there
before it is whole. Captures overlap as they like (the emptiness check is made long
before the first write), and two of one kind write the same names: a digest is
then of whatever the two have left in the file. `shared` remembers the captures
that found the directory empty with another of their kind. Builds come one after
the other and may be killed between any two removals or writes.

### HistoricalSelection, OrbitAnnotation, VisualizationTimeline, EventMetrics, SeriesComparison

These compute from files; a step is one iteration of the outer loop of the code
(an observation, a satellite, a frame, an event, a bin or a pointer move), and
the properties compare what was computed with a reference definition: what an
online controller would have chosen, the samples in force, the nearest bin. What
is a floating-point formula in the code (positions, elevations, rounding,
percentiles) is given or left out.

## 3. Runs

| Run | Question | Bounds | Distinct states |
|---|---|---|---|
| `event_schedule` | right condition, right time, logged; implements `EventSchedule` | all sorted profiles of up to 3 events within 3 s, offsets -1 and 1, one refusal, one signal | 420 104 |
| `targets` | set-up and cleanup of the devices | both modes, all options, used or clean machine, 2 refusals, one event | 27 449 |
| `stop` | the replay ends; a stop leads to the baseline; a series is applied in order | up to 2 events within 2 s, all sorted series of up to 3 states | 83 498 |
| `cleanup_doc` | a promise of the README (violated) | one refusal | |
| `snapshot_concurrent` | concurrent fetches, refinement of the register | 3 fetches at once, 2 requests, both flags | 246 060 |
| `snapshot_sequential` | crashes, reuse, refresh policy | 3 fetches in turn, all flags, both providers, 2 clock ticks | 1 273 504, up to symmetry |
| `snapshot_atomic_doc` | "atomic snapshot writing" (violated) | as `snapshot_sequential` | |
| `lab_sequential` | whose artifacts are collected, under which condition, what success means | 2 evaluations of 2 repetitions in turn, kept or discarded lab, SIGTERM to runner and test, any clearing refused | 423 770, up to symmetry |
| `lab_orphan_doc` | the comment about reused output (violated) | the same with 1 repetition and orphaned tests | |
| `artifacts` | captures, generators, profile documents and bundles keep what they promise | files of two rows or events, every one-field mistake of a document, 7 policies, 3 commands; sessions of 3 intervals off the bins, with a gap of up to a bin or a last interval of no length; 3 overlapping captures, two of them of one kind; 3 builds in turn | 226 938 |
| `analyses` | selections, candidates, frames and metrics agree with reference definitions | all histories of up to 3 records, all stretches of a sky of 8 instants, up to 3 observations, logs of 7 samples | 760 028 |
| `field_replays` | the single-direction replays and the remote experiment | all sorted profiles of up to 3 events within 3 s, looped or not, one failure; 2 iterations of 2 attempts, replays shorter and longer than iperf3, a ping that is longer still | 235 570 |

What the properties of the last three runs consist of:

| Property | Parts | What goes wrong without it |
|---|---|---|
| `DirectionsFaithful` | `LoadedConverts`, `DirectionsFollowParameters`, `PathKept` | a third reason for which a validated profile is not converted; a direction made from neither the old nor the new parameters; a path that loses twice |
| `FormsAgree` | `RowsLearnAsDocuments`, `SameSingleReplay`, `CanonicalCsv` | the order of conversion and calibration matters for a delay, or for a jitter by more than where it starts; a blank rate read as another default |
| `GeneratedFaithful` | `BinsKeepLosses`, `WorseIsRatedWorse`, `SegmentsAreRuns`, `FeedbackOnlyInSilence` | a loss in two bins or none; a mild rule hiding a severe one; an event cut in two; a correction applied to its own result |
| `ManifestsTrue` | `VerifiedIsOneCapture`, `OwnFiles`, `RetryPossible`, `ManifestTells`, `BuiltAlone` | a manifest that vouches for half a capture, or for another's files where no second one of its kind was let in |
| `GoodFilesStay` | `StaysLoadable`, `Immutable`, `KeptUnlessForced` | a sequence of commands that spoils a good file |
| `SelectionSound` | `CausalAdvances`, `OnlineView`, `NearestIsABracket` | elements from the future; a choice that depends on the order in the file |
| `VisibilitySound` | `CandidatesWereInView`, `NoInventedChange`, `PassingChangeSeen` | an event blamed on a satellite that was not there |
| `FramesTrue` | `ShowsWhatWasInForce`, `CommunicationAdvances`, `OwnVisibility`, `EveryLongEventSeen` | a page that shows the sample before or after |
| `ScoresFair` | `PerfectReplayScores`, `LateReplaySeen`, `JitterIsNoEvent`, `OutageIsMissed`, `PairsAreNearest`, `EveryPointCounts` | a number in a paper that means something else |
| `ReplaysTrue` | `LogOneBehind`, `WholeWhileWaiting`, `OnTime`, `LatestRowShown`, `StopIsPrompt` | a device half set, a log that does not tell it, a row early or late |
| `ResultsSound` | `RowsFromEndedMeasurements`, `RowsInOrder`, `LongReplayCompletes`, `RouterCleaned` | a result computed from a measurement that was still to come, a shaped router left behind or measured on |
| `WorkGetsDone` | `EveryEventShown`, `Ends` of the series replay, `Ends` of the script | a loop that stops showing an event, a replay that never ends |

Why the bounds are enough. Three events in three seconds contain every relation of
two windows (gap, adjacent, overlapping, nested, simultaneous) followed by a third
one, which is what makes the *latest* end differ from the *last* one; the offsets
shift one start below zero and every start above it. One refused command per run
reaches every error path, two reach a refused cleanup after a refused set-up.
Three fetches are needed for a victim, a thief and an observer: a snapshot
published, removed by a second fetch that looked too early, and what a third one
finds. Two repetitions give an evaluation stale files of its own, two evaluations
give it those of somebody else. Three commands on a profile are a conversion, a
calibration and the use of both, in every order. Two iterations of the remote
experiment let a measurement of the first meet the second; with an iperf3 of 4
units and a ping of 6, replays of 1 and 4 end (after a lead of 1 and, for events,
a start delay of 2) at 2, 4, 5 and 7: before iperf3, with it, between the two, and
after both. Three captures, two of them of one kind, are a pair that writes the
same names and one that does not. Three records of one satellite have every order
of epoch, publication and place in the file. A sky of eight instants sampled every
second one has an end off the grid, a stretch between two samples, one that covers
a window and one that only touches it. `MaxClock`, `MaxFaults`, `MaxRunning`,
`MaxEntries`, `MaxSec`, `MaxEvents`, `MaxCommands`, `IterMax`, `Tries` and
`Repetitions` are the only bounds, all of them constants, and `Gap`, the two
instants between the frames of a page, the only fixed number (`Tries` is 2 where
the code has 3, and `Linger` 2 where it has 5 seconds). `Fetches` in the
sequential snapshot runs and the two evaluations in `lab_sequential` are
interchangeable, which makes symmetry sound there; these runs check no liveness.

Fairness. Two runs need it. `stop` uses `FairSpec`: the process is scheduled
(`WF_vars(Process)`), which includes that an ip/tc subprocess returns (the code
waits for it without a time-out), and time goes on (`WF_vars(Tick)`, up to
`MaxClock`, which is past the last planned second). `field_replays` asks the same
of each of its programs, and of the remote experiment that the script is
scheduled and that iperf3 and ping, which are given their durations, end. No
fairness is asked of signals, refusals, failures or kills: the properties hold whether they
happen or not.

Deadlock is checked where a program that ended stutters explicitly (the replay
runs and `field_replays`). In the snapshot, lab, `artifacts` and `analyses` runs
the work really comes to an end (a finite number of fetches, evaluations,
captures, commands, or an input that was read), so their `.cfg` files say
`CHECK_DEADLOCK FALSE`.

### What the violated runs show

- `cleanup_doc`: `prepare_targets` is called before the `try`, so a refused
  set-up command ends the program with the ingress qdisc and the IFB device in
  place although `--cleanup-on-exit` was given (`README.md:264`).
- `snapshot_atomic_doc`: between `rmtree` and `rename`, and for good after a
  kill there, no snapshot is in the directory (`docs/V0.4.1_IMPLEMENTATION.md:10`).
- `lab_orphan_doc`: the artifact directory has no lock, so a test script left
  behind by a killed runner writes after the removal of the next evaluation,
  which collects its files (`experiments/run_repeated_lab.sh:160`).

### Met while modelling

Behaviour that surprised us and that the models keep as it is. No text of the
repository that we found promises otherwise, or the text is too loose to be
refuted, so no run expects a violation.

- `write_snapshot` removes an existing directory without looking at `force`
  (`orbit/snapshot.py:286`), so an unforced fetch that looked early removes a
  snapshot published since.
- A tie between two terminal states in a bin is broken by the iteration order of
  a set of strings, which differs from one process to the next
  (`scripts/profile/iperf_ping_grpc_to_event_profile.py:292`).
- The loop that flags the two selections of an observation ends at the first
  stale one, so that a propagation error of it or of the other one is not flagged
  (`orbit/selection.py:514`).
- `scripts/evaluation/compare_measure_vs_replay.py:175` reads legacy event rows;
  given an Event Profile v1 document it fails, which ends the remote experiment
  in its first iteration (`EventTimesLoad`).
- `learn_event_delay.py:198` updates the parameters of an event and leaves its
  directions, which the bidirectional replay prefers: a profile that was
  directionalized before it was learned is replayed as before, in every event.
- `event_profile.py:301` validates the directions of a baseline and neither its
  scalars nor the reordering of an event; a profile with a bad one loads and cannot
  be directionalized. `LoadedConverts` says that nothing else stops one.
- The same script starts the jitter of a legacy row at `--default-jitter-ms` and that
  of a document at its observation (`learn_event_delay.py:147`), and a conversion
  takes a calibrated jitter of zero for none (`event_profile.py:81`). So a profile
  learns another jitter converted early than late; `RowsLearnAsDocuments` bounds by
  how much.
- Nothing reserves the directory of a capture. Two of one kind that overlap write
  the same names, and a manifest that verifies may list files of both
  (`measure_cli.py:46`).
- SIGTERM to a test script in a kept lab clears the qdiscs and goes on: the impaired
  part of the fixed-condition test is then measured without its condition
  (`run-fixed-condition-test.sh:13`).
- In an event experiment a line comes from ping alone, whose log may still grow when
  it is fetched, and is made also where iperf3 was refused (`run_experiment.sh:279`).
- Ping starts the lead and the start delay before the replay, and the learning cuts
  the window of an event out of its log at the event's own seconds: by default 5
  seconds early, against a margin of 0.3 (`learn_event_delay.py:92`).
- A profile replay that survives Ctrl-C behind `sudo` sets its row after the trap has
  cleaned the router.
- An event with no aligned sample has the error 0.0 and counts as a perfect one
  in the averages (`event_metrics.py:143`).

## 4. Theorems

All proofs hold for every value of the constants that meets the named
assumptions. TLC evaluates these on the values of every run.

| Where | Assumed | Why the code justifies it |
|---|---|---|
| `BidirectionalReplay` | `OptionsAssumption`, `ProfilesAssumption`: inputs of any length, well formed and sorted | `validate_document` and `read_directional_csv` refuse the rest |
| `OrbitSnapshot` | any set of fetches and requests; for the last three theorems `OneAtATime` (`MaxRunning = 1`) | nothing in the code prevents two fetches, and the properties fail for two |
| `RepeatedLab` | `RepetitionsAssumption`, `SwitchesAssumption`: at least one repetition, any switches; for the theorems also `OneAtATime`: evaluations in turn, no test script that outlives its runner | as above; `lab_orphan_doc` shows what happens without |
| `LegacyEventReplay`, `FieldReplays` | `InputsTyped`, `InputsAssumption`: sequences of integer windows and of integer seconds, in any order; `WaitsAssumption`: at least one iteration, no wait, replay, iperf3 or remainder of ping (`Linger`) negative | windows need not be sorted, valid or apart, because these programs check nothing; `ITERATIONS`, `DURATION` and the sleeps are given so |
| `Artifacts` | `FilesAssumption`, `OptionsAssumption`: files of any length, with any mistake, in which the observed jitter of a row is not negative; delays are even, an arrival rate has its root in quarters, `MinDelay > 0`, a command line gives a reverse rate, `--default-spike-ms` is zero | the generators compute the jitter as a deviation; the next two are the units of the model: half a delay and the equivalent split have to be numbers; the options have these defaults |
| | `SessionsAssumption`, `MeasurementsAssumption`: any sequence of iperf3 intervals that do not end before they start, in any order, with gaps and overlaps; any pings and gRPC samples; bins of a positive length | iperf3 prints its intervals so; nothing is asked of the rest |
| | `CapturesAssumption`, `BuildsAssumption`: any captures of either kind, overlapping or not; builds in turn, foreign files with names of their own | `measure_cli.py` has these two commands; the bundle names are fixed |
| `Analyses` | `SelectionAssumption`, `VisibilityAssumption`, `PagesAssumption`: any non-empty history, any sky, any list of events that end after they start, any page with an observation; durations and tolerances are not negative, steps are positive | the loaders and the option parsers refuse the rest |
| | `LogsAssumption`: finite logs of samples of distinct times, nothing that timed out has a round trip; any windows and thresholds. `SeriesAssumption`: any two series of points, bins of a positive length | the loader drops the round trip of a timeout (`event_metrics.py:39`); the probes send one packet at a time, and of a series more than one point may have a time |
| both | `NoneAssumption`: `None` is none of the values | it stands for Python's |

| Theorem | Property | Along |
|---|---|---|
| `TypeCorrect`, `NoEarlyBaseline` | `TypeOK`, `NoBaselineDuringEvent` | `ScheduleInv` |
| `NoEventEarly`, `NoHalfPair`, `StopsPromptly`, `RestoredAtEnd` | `NeverEarly`, `LatestEventShown`, `StopIsPrompt`, `CompletedRestoresBaseline` | `OrderInv` on top of `ScheduleInv` |
| `NoDanglingRedirect`, `AlwaysShaped`, `CleanExit` | `RedirectNeedsLink`, `ShapedWhileReplaying`, `CleanupComplete` | `TargetInv` |
| `LogInPlanOrder`, `SeriesInOrder` | `PlannedMonotone`, `SeriesFollowsProfile` | `PlanInv`, `SeriesInv` on top of `ScheduleInv` |
| `LogIsTrue` | `LogTellsDevices` | `TellInv` |
| `BidirectionalReplayProofs!ImplementsEventSchedule` | `ImplementsSchedule` | `ShapeInv`, `StateInv` |
| `CompletedLogIsAccepted` | `CompletedLogAccepted` | `KeyInv` on top of the two |
| `LegacyEventReplayProofs!ImplementsEventSchedule` | `ImplementsSchedule` of the single-direction replay | `PlaceInv` |
| `LogTellsDevice` | `LogOneBehind`, `WholeWhileWaiting` | `DeviceInv` |
| `NothingEarly` | `OnTime` | `TimeInv` |
| `SnapshotTypes`, `NeverMixed`, `ImplementsRegister` | `TypeOK`, `NoMixture`, `IsRegister` | `TypeOK /\ NoMixture` and `DirectoryStep` |
| `TempCleaned` | `NoTempLeft` | `TempWhileWriting` |
| `MeasuredUnderOwnCondition` | `OwnCondition` | `WorkInv`, `ConditionInv` |
| `CollectsOwnArtifacts` | `OwnArtifacts` | `Stored`, `QuietInv`, `FilesInv`, `ResultsInv` |
| `SuccessMeansComplete` | `FinishedIsComplete` | `TrialInv`, `RunsInv`, `ProgressInv` |
| `RefreshIsLimited`, `FailureKeepsSnapshot`, `ReuseIsAnswered` | `RefreshPolicy`, `SurvivesFailure`, `ReusedAnswers` | `SequentialInv` |
| `FieldReplayIsScheduled` | `ImplementsSchedule` of the composition | the theorem of the component |
| `FieldReplaysAreTrue` | `ReplaysTrue` | the theorems of the component, `SeriesInv` |
| `ResultsAreSound` | `ResultsSound` | `RemoteInv` |
| `DirectionsAreFaithful`, `FormsDoAgree` | `DirectionsFaithful`, `FormsAgree` | `DocumentInv` |
| `GeneratedAreFaithful` | `GeneratedFaithful` | `BinsInv`, `RowsInv`, `SegmentsInv`, `MergedInv`, the lemmas of `FiniteSums` |
| `ManifestsHold` | `ManifestsTrue` | `CaptureInv`, `BundleInv` |
| `GoodFilesAreKept` | `GoodFilesStay` | the three of them |
| `SelectionIsSound` | `SelectionSound` | `SelectionInv`, `FirstPlace` |
| `VisibilityIsSound` | `VisibilitySound` | `AnnotationInv`, `SampleNear` |
| `FramesAreTrue` | `FramesTrue` | `TimelineInv`, `FirstPlace` |
| `ScoresAreFair` | `ScoresFair` | `AveragesInv`, `PairsInv`, `MetricsInv`, `MedianOfTwo`, the lemmas of `FiniteSums` |

**ScheduleInv.** `NoBaselineDuringEvent` speaks of what is on the devices, but
whether a step may put a baseline there depends on what was planned. The
strengthening says what the pending pair was planned for (`JobOK`: a baseline is
pending only with `planned = previousEnd`), how far its application got
(`PairOK`: the wait is over, the forward device has the condition once it is
logged) and that `previousEnd` is past the end of every started event (`EndsOK`,
where the maximum of the code is used). A baseline is then applied at a clock
past `previousEnd`, hence past every started event.

**OrderInv.** A signal may fall between any two steps, so the promise to stop
soon needs `PromptOK`: which entries the process is already committed to when
the flag is set. `CarriedOK` bounds what a device may carry by the clock, and
`RunningOK` says that the outcome is open while the body runs.

**TargetInv.** What each set-up step established before the next (`SetupOK`),
which devices belong to which mode (`ModeOK`), and what the cleanup has removed
so far as long as no unchecked command was refused (`RemovedOK`).

**PlanInv and SeriesInv.** That the log is in the order of the plan depends on
what is still to come: every record is bounded by the pair being applied or by
the entry the loop looks at, and sorted inputs do the rest. `SeriesInv` counts
the records of a series against the position of the loop.

**TellInv, ShapeInv, StateInv, KeyInv.** `TellInv` says that the last line of a
direction tells its device, except for the one command whose line is still to be
written. `ShapeInv` says where in a pair the log is (an even number of lines
outside a pair), `StateInv` relates the last complete pair to the place in the
loop; a reverse line is then a step of `EventSchedule` and everything else a
stutter. That the summary can pair a completed log needs keys that do not repeat:
an event is started at most once and ended at most once because its number is
compared with `next` (`KeyInv`).

**PlaceInv, DeviceInv, TimeInv.** The same argument for a program of another
shape: the last line against the job that is due, the two commands against the
line, the end of the wait against the clock, in every pass of the loop.

**WorkInv to ProgressInv.** The shared lab is safe for evaluations one at a time
because of who can still act. `WorkInv` says whose test script and whose replay
may be alive, by the phase of each runner. From it `ConditionInv` follows the
shaping through each test whose measurement nobody has spoilt since (`lapsed`: a
clearing just before the baseline that was refused, or a SIGTERM in a kept lab),
and says that a spoilt one spoils none after it; and `FilesInv` each shared file,
through one test; `QuietInv` says when the log can no longer grow, which is what
makes a copy of it complete. `ResultsInv` carries the ownership over to the
copies. With `KEEP_LAB=1` the replay of a killed evaluation may still write into
the log of the next one, so `OwnArtifacts` makes an exception of it;
`FinishedIsComplete` does not. Its argument is that the log of a run has both
lines of its own replay when it is taken (`TrialInv`: who can remove it is
stopped, and an append removes nothing), that a line of any other replay has the
key of one of the two, and that the summary refuses a key it has seen; so a run
whose log is accepted has all three files from itself alone (`RunsInv`), and
`ProgressInv` counts the runs. The assumption `OneAtATime` is needed:
`lab_orphan_doc` violates `OwnArtifacts` without it.

**The register.** `DirectoryStep` says what any step of anybody may do to the
directory (one file goes, the empty directory goes, a fetch not published before
moves in) and every action of `OrbitSnapshot` is shown to be one. From that and
`NoMixture` each step is a step or a stutter of `SnapshotRegister` under the
mapping `value <- Held`, `used <-` the published fetches. `TempWhileWriting` is
the inductive form of `NoTempLeft`.

**SequentialInv.** A fetch looks, and acts many steps later on what it saw.
`KnownInv` says what it still knows at each of its steps: that the directory
matches its request, that the manifest it read is the one that is there, that the
snapshot it is about to ask for again is old, what `rmtree` has left to remove.
With several fetches none of this is true, which is what `Alone` excludes.
`KeptInv` is then the survival of the snapshot: somebody published one, and it is
there unless it is being replaced or the replacing fetch was killed.

**SeriesInv and RemoteInv.** The series replay is the event replay's argument over
a sorted permutation of the rows. For the script nothing waits for a measurement,
so that a fetched file comes from one that had ended has to follow from the clock:
`ElapsedInv` adds up the waits of the script since the launch and bounds the life
of iperf3 by its duration, `MeasuredInv` ties a fetched file to how iperf3 ended,
`ServerInv` says that what refuses one is older than the experiment, `LogsInv` how
far a fetched ping log reaches, `LinesInv` counts the lines of the results against
the iteration, and `CompleteInv` says that without a fault the script leaves its
loop behind the last line only, or behind none where the times of the events do
not load. `RouterCleaned` is inductive by itself.

**DocumentInv.** It says what a file may be after any sequence of commands (`file`
in one of three sets of records), and for three histories what the commands
remember: rows agree with their twin, which was converted before them, but for the
jitter, whose two values are never further apart than those it is learned from
(`LegacyInv`, `Twin`), and the directions of a document are those of the parameters
they were made from (`made`), which are its own until somebody tunes them
(`DirectedInv`). `DirectionsFaithful` and `FormsAgree` are then arithmetic on
parameters, loss by loss.

**CaptureInv and BundleInv.** Both writers have the same shape: how far the writer
is decides which files are whole, which are begun, and which are not there
(`ProgressInv`, `WritingInv`), and the digests kept in memory are those of the whole
files (`DigestInv`). For captures all of this is said of those that are alone of
their kind; of the others `OrderInv` says that each of them is in `shared`, and only
the names of their files are known.

**BinsInv, RowsInv, SegmentsInv, MergedInv.** `BinsInv` says that the bins so far
are in order and hold what the intervals lost up to `left`: an interval overlaps
two adjacent stretches by what it overlaps both together (`OverlapSplits`), and
sums are added term by term (`SumOfSums`). That no loss is in two bins or in none
is then the sum up to the end of the last interval. The sums are the folds of the
community modules, whose recursion runs over subsets; `FiniteSums` first shows
that such a function exists (`SumsExist`) and then what it returns, each time from
a least set for which it would not: of the subsets of a finite set that violate a
claim one has no element whose removal leaves another (`LeastSubset`). This
replaces the induction over data that the provers cannot instantiate. `RowsInv`
says that every row has the verdict of the rules on its bin; that a worse bin is
not rated milder is a comparison through the five rules, one lemma for each. For
the segments, the longest runs of one event are those that neither neighbour
continues (`EndsAreLongest`), which can be followed row by row: `SegmentsInv` says
that the segments so far are the runs that ended before the open one, and that
what is being collected is the open run. `MergedInv` says of every second of the
other generator that a delay beyond twice any measured one was made up where
neither ping nor gRPC answered.

**SelectionInv, AnnotationInv, TimelineInv.** These tools append one computed
document at a time, so the invariants say that every document so far is the
operator of its input; the work is in what the operators return. A nearest or
latest record is the least place under an order of tuples with a missing date or
number in it: `LessIsOrder` shows Python's comparison of these tuples to be a
strict order on the places, and `FirstPlace` that every set of places has a first
one under such an order, by well-foundedness of the numbers and no induction over
data. The causal choice is then monotone in time and equal to the choice among
the records published by then. For the visibility, `TableInv` gives the sampled
table and `SampleNear` that any stretch as long as the step holds a sample. For
the page, the frames are the shown times in order, and an event as long as the
frames are apart cannot fall between two of them.

**AveragesInv, PairsInv, MetricsInv.** `AveragesInv` follows the edge of the bins:
the bins of a series hold the points before it, counted and summed, by the lemmas
of `FiniteSums`; `LastBinPassed` shows that the edge has passed every point when
the loop ends. `PairsInv` is about the pointer that never goes back: no bin behind
it is nearer than the one it is at, which stays so for later bins because the bins
are in order (`NearerStays`), and once the next one is farther all after it are
(`FartherStays`). `MetricsInv` says that each result is what the two logs say of
its window. The rest is about the threshold: twice a median is the sum of two of
the numbers (`MedianOfTwo`), so that the threshold lies at least 10 ms and at most
40.03 ms above the mean of two samples before the event (`ThresholdNear`), and
samples within 10 ms of each other do not reach it. `LateReplaySeen` is stated for
decisive logs because it is false of others: the thresholds of the two logs are
medians of different samples and may differ by the noise, so that a sample
between them may start an event in one log and not in the other.

## 5. Only model-checked

- Liveness (`Terminates`, `StopRestoresBaseline`, `WorkGetsDone`): out of the
  prover's reach, since fairness is about `ENABLED`. Every other property of a
  passing run is stated by a theorem.

## 6. Not modelled, and why

- In the modelled components: the dry run (runs no command and never waits), a
  replay without `--execution-log`, the numbers inside a netem command, the
  namespaces variant of the lab, the tolerances and statistics of the
  measurements, malformed and hand-written manifests, malformed JSON and column
  aliases, the requests to and bodies from the providers. The profile of the lab
  is reduced to one state, so its replay logs two lines. Correlation, severity,
  confidence and metadata of a profile follow fields that are modelled or are only
  checked for a range. The frames of a page are two instants apart (`Gap`). `OnTime`
  bounds the baseline of the old event replay by the end of the last event it showed:
  that the baseline comes back inside a longer, earlier one is what this program does
  (the bidirectional one does not), and is not forbidden.
- `summarize_replay_metrics.py`, the percentiles, the rmse and the correlation:
  numbers computed once from a finished file.
- Orbit propagation, elevations and distances: real numbers; the models take
  their outcome (in view or not, fails or not) as given. `catalog.py` only reads
  records.
- Paper bundle and summaries: straight-line code that checks fields and counts
  of finished summaries; a model would repeat its guards.
- Dashboard prototype: one flag and one time under a lock, and no connection to
  a replay yet. Plots: output only. `legacy/`: called by nothing. Schemas, lab
  set-up, collector notes: configuration.

## 7. Plan

Done, in this order: the replay with its backend and log; the snapshot store with
its register; the repeated lab with its manifest; `EventSchedule` and both replays
as implementations of it; profiles and their conversion; the generators; the
single-direction replays and the remote experiment; captures and bundles; the
selection, the annotation, the frames and the metrics; the proofs of everything
about the replay, of both refinements, of the lab and of the single-direction
replay; the proofs of the sequential snapshot properties, of the series replay
and the remote experiment, of documents, generators, captures and bundles, and
of the selection, the visibility, the frames and the metrics.

Left:

1. The namespaces variant of the lab, should it come to share state between runs.
