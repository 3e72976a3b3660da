------------------------------ MODULE Artifacts ------------------------------
(***************************************************************************)
(* The tools that leave files: the captures of a measurement, the two      *)
(* generators that make an event profile or a merged series of one, the    *)
(* commands on a profile document, and the builds of a bundle.  They meet  *)
(* only through finished files, so a behaviour is that of one of them; the *)
(* others rest in an initial state of theirs.                              *)
(***************************************************************************)
EXTENDS Integers, Sequences

CONSTANTS
  None,
  ProfileFiles, Policies, Corrections, MaxCommands,        \* of ProfileDocument
  DefaultDelay, DefaultJitter, DefaultRate,
  MinDelay, MaxDelay, MaxJitter, MaxSpike,
  Sessions, BinSec, MinDuration,                           \* of EventSegments
  Degraded, Severe, Collapse,
  Measurements, Gap, LongestDelay, LeastRate,              \* of MergedSeries
  FirstDelay, FirstRate,
  Captures, Kind,                                          \* of MeasurementCapture
  Builds, Strange                                          \* of VisualizationBundle

VARIABLES
  tool,                                                    \* the one that runs
  file, twin, policy, made, tuned, commands,               \* of ProfileDocument
  session, left, bins, rows, current, segments,            \* of EventSegments
  input, sec, lastDelay, lastRate, series,                 \* of MergedSeries
  shared, at, step, digests, files, manifest,              \* of MeasurementCapture
  stage, force, doomed, written, dir, contents             \* of VisualizationBundle

documentVars == <<file, twin, policy, made, tuned, commands>>
segmentsVars == <<session, left, bins, rows, current, segments>>
mergedVars   == <<input, sec, lastDelay, lastRate, series>>
captureVars  == <<shared, at, step, digests, files, manifest>>
bundleVars   == <<stage, force, doomed, written, dir, contents>>
vars == <<tool, documentVars, segmentsVars, mergedVars, captureVars, bundleVars>>

Document == INSTANCE ProfileDocument WITH Files <- ProfileFiles
Segments == INSTANCE EventSegments
Merged   == INSTANCE MergedSeries WITH
  rows <- series, MaxDelay <- LongestDelay, MinRate <- LeastRate
Capture  == INSTANCE MeasurementCapture
Bundle   == INSTANCE VisualizationBundle WITH at <- stage, manifest <- contents

(***************************************************************************)
(* What the inputs are                                                     *)
(***************************************************************************)

Maybe(S) == S \cup {None}

\* Delays are even numbers, so that half of one is a number, and of the losses
\* those are left out whose survival has no root in quarters.
Even     == {n \in Int : n % 2 = 0}
Arrivals == Int \ {2, 3}

Calibrations == [delay : Maybe(Even), jitter : Maybe(Int), spike : Maybe(Even)]
Scalars      == [delay : Int, arrive : Arrivals, rate : Maybe(Int), reorder : Int]
Conditions   == [delay : Int, arrive : Int, rate : Maybe(Int), reorder : Int]
Pairs        == [forward : Conditions, reverse : Conditions]
EventParameters == [delay : Even, jitter : Int, spike : Even, arrive : Arrivals, rate : Maybe(Int),
                    reorder : Int]

LegacyRows   == [start : Int, end : Int, rtt : Even, delay : Even, jitter : Nat, arrive : Arrivals,
                 rate : Int, cal : Calibrations]
Events       == [id : Int, start : Int, end : Int, rtt : Even, observed : Even, par : EventParameters,
                 cal : Calibrations, directions : {None}]
Baselines    == [delay : Int, arrive : Arrivals, rate : Maybe(Int), reorder : Int, directions : {None}]
CsvRows      == [sec : Int, forward : Maybe(Conditions), reverse : Maybe(Conditions), path : Scalars]

\* A file holds legacy rows, whose observed jitter is a deviation and not negative, a
\* document nobody has directionalized, or a CSV.
ASSUME FilesAssumption ==
  ProfileFiles \subseteq [kind : {"rows"}, events : Seq(LegacyRows)]
                    \cup [kind : {"v1"}, baseline : Baselines, events : Seq(Events)]
                    \cup [kind : {"csv"}, events : Seq(CsvRows)]

\* A command line always gives a reverse rate, no calibrated delay reaches zero, and
\* --default-spike-ms is zero.
ASSUME OptionsAssumption ==
  /\ Policies \subseteq [delay : STRING, loss : STRING, rate : STRING, share : Int, reverseRate : Int]
  /\ DefaultDelay \in Even /\ MinDelay \in Even /\ MaxDelay \in Even /\ MaxSpike \in Even
  /\ 0 < MinDelay /\ MinDelay <= MaxDelay /\ 0 <= MaxSpike
  /\ DefaultJitter \in Int /\ MaxJitter \in Nat /\ DefaultRate \in Nat \ {0}
  /\ Corrections \subseteq Maybe([delay : Even, jitter : Int, spike : Even])

\* An interval of iperf3 does not end before it starts.
Intervals == {x \in [start : Nat, end : Nat, loss : Int, rate : Int] : x.start <= x.end}

ASSUME SessionsAssumption ==
  /\ \A s \in Sessions : s.intervals \in Seq(Intervals)
  /\ BinSec \in Nat \ {0} /\ MinDuration \in Int

ASSUME MeasurementsAssumption ==
  /\ Measurements \subseteq [ping  : Seq([time : Int, delay : Maybe(Int), timeout : BOOLEAN]),
                             iperf : Seq([time : Int, rate : Int]),
                             grpc  : Seq([time : Int, latency : Maybe(Int), downlink : Int, bad : BOOLEAN])]
  /\ FirstDelay \in Nat /\ FirstRate \in Nat /\ LongestDelay \in Int /\ LeastRate \in Int

ASSUME CapturesAssumption == Kind \in [Captures -> {"ping", "traceroute"}]

\* The files of others have names of their own.
ASSUME BuildsAssumption == Builds \subseteq Nat /\ Strange \cap Bundle!Own = {}

\* Nothing that is there is None.
ASSUME NoneAssumption ==
  /\ None \notin Int /\ None \notin Conditions /\ None \notin Pairs /\ None \notin Policies
  /\ None \notin [by : SUBSET Captures, whole : BOOLEAN]
  /\ None \notin [by : Captures, whole : BOOLEAN,
                  files : [Capture!Names -> Maybe([by : SUBSET Captures, whole : BOOLEAN])]]
  /\ None \notin [by : Maybe(Builds), whole : BOOLEAN]

(***************************************************************************)
(* One of them at a time                                                   *)
(***************************************************************************)

Any(S) == CHOOSE x \in S : TRUE

DocumentRests == file = Any(ProfileFiles) /\ Document!Init
SegmentsRests == session = Any(Sessions) /\ Segments!Init
MergedRests   == input = Any(Measurements) /\ Merged!Init
CaptureRests  == Capture!Init
BundleRests   == Bundle!Init /\ Bundle!Present = {}

Init ==
  \/ tool = "document" /\ SegmentsRests /\ MergedRests /\ CaptureRests /\ BundleRests
     /\ Document!Init
  \/ tool = "segments" /\ DocumentRests /\ MergedRests /\ CaptureRests /\ BundleRests
     /\ Segments!Init
  \/ tool = "merged" /\ DocumentRests /\ SegmentsRests /\ CaptureRests /\ BundleRests
     /\ Merged!Init
  \/ tool = "capture" /\ DocumentRests /\ SegmentsRests /\ MergedRests /\ BundleRests
     /\ Capture!Init
  \/ tool = "bundle" /\ DocumentRests /\ SegmentsRests /\ MergedRests /\ CaptureRests
     /\ Bundle!Init

Next ==
  /\ UNCHANGED tool
  /\ \/ tool = "document" /\ Document!Next
        /\ UNCHANGED <<segmentsVars, mergedVars, captureVars, bundleVars>>
     \/ tool = "segments" /\ Segments!Next
        /\ UNCHANGED <<documentVars, mergedVars, captureVars, bundleVars>>
     \/ tool = "merged" /\ Merged!Next
        /\ UNCHANGED <<documentVars, segmentsVars, captureVars, bundleVars>>
     \/ tool = "capture" /\ Capture!Next
        /\ UNCHANGED <<documentVars, segmentsVars, mergedVars, bundleVars>>
     \/ tool = "bundle" /\ Bundle!Next
        /\ UNCHANGED <<documentVars, segmentsVars, mergedVars, captureVars>>

Spec == Init /\ [][Next]_vars

(***************************************************************************)
(* Properties: what the tools promise, out of the parts of their modules   *)
(***************************************************************************)

\* Of what validation accepts exactly the profiles with a sound baseline and
\* reordering are converted without an error; the directions follow, in every event
\* and also after a calibration, the parameters they were made from, and together
\* delay and drop as the path of these does.
DirectionsFaithful ==
  /\ Document!LoadedConverts
  /\ Document!DirectionsFollowParameters
  /\ Document!PathKept

\* The forms of a profile agree: legacy rows may be calibrated before or after
\* their conversion, but for the jitter, which differs by no more than where it is
\* learned from; flattening a document changes nothing for the old replay; and a
\* directional CSV means the same to every program that reads it.
FormsAgree ==
  /\ Document!RowsLearnAsDocuments
  /\ Document!SameSingleReplay
  /\ Document!CanonicalCsv

\* The generators neither lose nor invent: every loss is in exactly one bin, a
\* bin that is worse is never rated better, the events are the longest runs of
\* bins of one kind, and a correction feeds on itself only while no answer comes.
GeneratedFaithful ==
  /\ Segments!BinsKeepLosses
  /\ Segments!WorseIsRatedWorse
  /\ Segments!SegmentsAreRuns
  /\ Merged!FeedbackOnlyInSilence

\* A manifest vouches for what is there: a directory that verifies holds two files
\* of the manifest's kind, and they are those of its capture unless another of that
\* kind had found the directory empty too; a directory where nothing was written
\* can be tried again; a complete bundle has the files its manifest names, and a
\* finished build is alone in its directory.
ManifestsTrue ==
  /\ Capture!VerifiedIsOneCapture
  /\ Capture!OwnFiles
  /\ Capture!RetryPossible
  /\ Bundle!ManifestTells
  /\ Bundle!BuiltAlone

\* What is good stays good: no command makes a document that loads one that does
\* not, a directory that verifies changes only through a capture that had found it
\* empty too, and only a build with --force touches the files of another.
GoodFilesStay ==
  /\ Document!StaysLoadable
  /\ Capture!Immutable
  /\ Bundle!KeptUnlessForced
=============================================================================
