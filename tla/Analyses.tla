------------------------------ MODULE Analyses ------------------------------
(***************************************************************************)
(* The tools that read what was measured and compute from it: which orbit  *)
(* elements were known, which satellites were in view of an event, what a  *)
(* page shows at an instant, and how well a replay matches a measurement.  *)
(* They share no state, so a behaviour is that of one of them; the others  *)
(* rest with nothing to work on.                                           *)
(***************************************************************************)
EXTENDS Integers, Sequences, FiniteSets

CONSTANTS
  None,
  Histories, Starts, Steps, ObservedFor, Lags, StaleAfter, Unpropagable,   \* of HistoricalSelection
  Visible, Skies, Failures, EventLists,                              \* of OrbitAnnotation
  Duration, Step, WindowBefore, WindowAfter,
  Inputs, Nearby,                                                    \* of VisualizationTimeline
  NoRtt, Logs, WindowLists, Thresholds, Margin, Alignment,           \* of EventMetrics
  Series, BinSize, PairTolerance                                     \* of SeriesComparison

VARIABLES
  tool,                                                              \* the one that runs
  history, times, mode, missingPolicy, lag, documents, status,       \* of HistoricalSelection
  sky, failing, onlyVisible, events, pending, rows, annotations,     \* of OrbitAnnotation
  input, frames,                                                     \* of VisualizationTimeline
  measured, replayed, windows, threshold, results, counts,           \* of EventMetrics
  original, replay, pc, left, bins, place, pointer, pairs            \* of SeriesComparison

selectionVars  == <<history, times, mode, missingPolicy, lag, documents, status>>
annotationVars == <<sky, failing, onlyVisible, events, pending, rows, annotations>>
timelineVars   == <<input, frames>>
metricsVars    == <<measured, replayed, windows, threshold, results, counts>>
comparisonVars == <<original, replay, pc, left, bins, place, pointer, pairs>>
vars == <<tool, selectionVars, annotationVars, timelineVars, metricsVars, comparisonVars>>

Selection  == INSTANCE HistoricalSelection WITH Duration <- ObservedFor
Annotation == INSTANCE OrbitAnnotation WITH Sats <- Visible
Timeline   == INSTANCE VisualizationTimeline WITH Tolerance <- Nearby
Metrics    == INSTANCE EventMetrics WITH
  EventLists <- WindowLists, Tolerance <- Alignment, events <- windows
Comparison == INSTANCE SeriesComparison WITH
  Tolerance <- PairTolerance, measured <- original, i <- place, j <- pointer

(***************************************************************************)
(* What the inputs are                                                     *)
(***************************************************************************)

Maybe(S) == S \cup {None}

\* A file of orbit elements; the creation date and the number may be missing.
Elements == [sat : Visible, epoch : Int, created : Maybe(Int), id : Maybe(Int)]

\* An event of a document ends after it starts.
Stretches == {e \in [start : Int, end : Int] : e.start < e.end}

Pages == [observations : Seq(Int) \ {<<>>}, start : Maybe(Int), profile : Seq(Int),
          visibility : Seq([sat : Visible, t : Int]), events : Seq([start : Int, end : Int])]

ASSUME NoneAssumption == None \notin Int

ASSUME SelectionAssumption ==
  /\ Histories \subseteq Seq(Elements) \ {<<>>}
  /\ Starts \subseteq Int /\ Steps \subseteq Nat \ {0} /\ ObservedFor \in Nat /\ Lags \subseteq Nat

ASSUME VisibilityAssumption ==
  /\ Skies \subseteq [Visible -> SUBSET Int] /\ Failures \subseteq [Visible -> SUBSET Int]
  /\ EventLists \subseteq Seq(Stretches)
  /\ Duration \in Nat /\ Step \in Nat \ {0} /\ WindowBefore \in Nat /\ WindowAfter \in Nat

ASSUME PagesAssumption == Inputs \subseteq Pages /\ Nearby \in Nat

\* A line of a ping log; nothing that timed out has a round trip.
Samples == {s \in [t : Nat, rtt : Int \cup {NoRtt}, timeout : BOOLEAN] : s.timeout => s.rtt = NoRtt}

ASSUME LogsAssumption ==
  /\ NoRtt \notin Int
  /\ \A log \in Logs : /\ log \subseteq Samples /\ IsFiniteSet(log)
                       /\ \A s, o \in log : s.t = o.t => s = o
  /\ WindowLists \subseteq Seq([start : Int, end : Int])
  /\ Thresholds \subseteq Maybe(Int) /\ Margin \in Nat /\ Alignment \in Nat

ASSUME SeriesAssumption ==
  Series \subseteq Seq([t : Nat, v : Int]) /\ BinSize \in Nat \ {0} /\ PairTolerance \in Nat

(***************************************************************************)
(* One of them at a time                                                   *)
(***************************************************************************)

SelectionRests ==
  /\ history = <<>> /\ times = <<>> /\ mode = "causal" /\ missingPolicy = "exclude" /\ lag = 0
  /\ documents = <<>> /\ status = "running"
AnnotationRests ==
  /\ sky = <<>> /\ failing = <<>> /\ onlyVisible = FALSE /\ events = <<>>
  /\ pending = {} /\ rows = {} /\ annotations = <<>>
TimelineRests ==
  /\ input = [observations |-> <<>>, start |-> 0, profile |-> <<>>, visibility |-> <<>>, events |-> <<>>]
  /\ frames = <<>>
MetricsRests ==
  /\ measured = {} /\ replayed = {} /\ windows = <<>> /\ threshold = None
  /\ results = <<>> /\ counts = None
ComparisonRests ==
  /\ original = <<>> /\ replay = <<>> /\ pc = "measured" /\ left = 0 /\ place = 1 /\ pointer = 1
  /\ bins = [s \in {"measured", "replay"} |-> <<>>] /\ pairs = <<>>

Init ==
  \/ tool = "selection" /\ Selection!Init
     /\ AnnotationRests /\ TimelineRests /\ MetricsRests /\ ComparisonRests
  \/ tool = "annotation" /\ Annotation!Init
     /\ SelectionRests /\ TimelineRests /\ MetricsRests /\ ComparisonRests
  \/ tool = "timeline" /\ Timeline!Init
     /\ SelectionRests /\ AnnotationRests /\ MetricsRests /\ ComparisonRests
  \/ tool = "metrics" /\ Metrics!Init
     /\ SelectionRests /\ AnnotationRests /\ TimelineRests /\ ComparisonRests
  \/ tool = "comparison" /\ Comparison!Init
     /\ SelectionRests /\ AnnotationRests /\ TimelineRests /\ MetricsRests

Next ==
  /\ UNCHANGED tool
  /\ \/ tool = "selection" /\ Selection!Next
        /\ UNCHANGED <<annotationVars, timelineVars, metricsVars, comparisonVars>>
     \/ tool = "annotation" /\ Annotation!Next
        /\ UNCHANGED <<selectionVars, timelineVars, metricsVars, comparisonVars>>
     \/ tool = "timeline" /\ Timeline!Next
        /\ UNCHANGED <<selectionVars, annotationVars, metricsVars, comparisonVars>>
     \/ tool = "metrics" /\ Metrics!Next
        /\ UNCHANGED <<selectionVars, annotationVars, timelineVars, comparisonVars>>
     \/ tool = "comparison" /\ Comparison!Next
        /\ UNCHANGED <<selectionVars, annotationVars, timelineVars, metricsVars>>

Spec == Init /\ [][Next]_vars

(***************************************************************************)
(* Properties: what the analyses promise, out of the parts of their modules *)
(***************************************************************************)

\* The causal element never goes back to an older one, is the one an online
\* controller with the records published by then selects, and the retrospective
\* one is a neighbour of the time, not farther from it than the causal one.
SelectionSound ==
  /\ Selection!CausalAdvances
  /\ Selection!OnlineView
  /\ Selection!NearestIsABracket

\* The candidates of an event were in view in its window, a sky that stays as it
\* is does not change for an event, and a satellite that is there, or away, for
\* the event alone is a change.
VisibilitySound ==
  /\ Annotation!CandidatesWereInView
  /\ Annotation!NoInventedChange
  /\ Annotation!PassingChangeSeen

\* A frame shows the sample a replay had in force at its time, samples advance
\* with the frames, the visibility is that of the very time and not a stale one,
\* and every event that lasts as long as the frames are apart is in a frame.
FramesTrue ==
  /\ Timeline!ShowsWhatWasInForce
  /\ Timeline!CommunicationAdvances
  /\ Timeline!OwnVisibility
  /\ Timeline!EveryLongEventSeen

\* A perfect replay has no error, a late one shows as late by its delay and as
\* long as it was, jitter is no event, and an outage that was not reproduced is
\* missed; a measured bin is paired with a nearest one, and every point counts.
ScoresFair ==
  /\ Metrics!PerfectReplayScores
  /\ Metrics!LateReplaySeen
  /\ Metrics!JitterIsNoEvent
  /\ Metrics!OutageIsMissed
  /\ Comparison!PairsAreNearest
  /\ Comparison!EveryPointCounts
=============================================================================
