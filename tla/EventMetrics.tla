----------------------------- MODULE EventMetrics -----------------------------
(***************************************************************************)
(* event_metrics.py and event_replay_summary.py: each event is looked for  *)
(* in the measured and in the replayed ping log, what was found is         *)
(* compared, and the events are counted.  A log is a set of samples        *)
(* [t, rtt, timeout] of distinct times, in whole units; rtt is NoRtt for a *)
(* timeout and for an empty cell.  The factors of the threshold are        *)
(* multiplied out; rounding, the ratio of timeouts and the means but mae    *)
(* are left out.                                                           *)
(***************************************************************************)
EXTENDS Integers, Sequences, FiniteSets, FiniteSetsExt

CONSTANTS
  Logs, EventLists,     \* the two inputs; an event is [start, end]
  Thresholds,           \* of --threshold-ms, or None
  Margin, Tolerance,
  NoRtt, None

VARIABLES measured, replayed, events, threshold, results, counts

vars == <<measured, replayed, events, threshold, results, counts>>

Larger(a, b) == IF a < b THEN b ELSE a
Distance(a, b) == IF a < b THEN b - a ELSE a - b

\* A number for each element, and twice the median of the numbers.
TwiceMedian(S, f) ==
  LET AtMost(x) == Cardinality({y \in S : f[y] <= f[x]})
      Rank(r) == f[CHOOSE x \in S : AtMost(x) >= r /\ \A y \in S : AtMost(y) >= r => f[x] <= f[y]]
      n == Cardinality(S)
  IN  Rank((n + 1) \div 2) + Rank(n \div 2 + 1)

Usable(log) == {s \in log : s.rtt # NoRtt}
Before(log, start, margin) ==
  LET near == {s \in Usable(log) : start - margin <= s.t /\ s.t < start}
  IN  IF Cardinality(near) < 3 THEN {s \in Usable(log) : s.t < start} ELSE near

\* Forty thousand times baseline_threshold.
\* Mutant of BaselineThreshold: no least distance from the median.
BaselineTight(log, start, margin) ==
  LET S == Before(log, start, margin)
      m == TwiceMedian(S, [s \in S |-> s.rtt])
  IN  IF S = {} THEN 0 ELSE 20000 * m + 44478 * TwiceMedian(S, [s \in S |-> Distance(2 * s.rtt, m)])
BaselineThreshold(log, start, margin) ==
  LET S == Before(log, start, margin)
      m == TwiceMedian(S, [s \in S |-> s.rtt])
  IN  IF S = {} THEN 0
      ELSE 20000 * m + Larger(400000, 44478 * TwiceMedian(S, [s \in S |-> Distance(2 * s.rtt, m)]))

EffectiveThreshold(log, event) ==
  IF threshold # None THEN 40000 * threshold ELSE BaselineThreshold(log, event.start, Larger(2, 2 * Margin))

\* Mutant of Window: what came after the event is not searched.
WindowUnto(log, event) == {s \in log : event.start - Margin <= s.t /\ s.t <= event.end}
Window(log, event) == {s \in log : event.start - Margin <= s.t /\ s.t <= event.end + Margin}

\* Mutant of Abnormal: a timeout has no round trip to compare.
AbnormalRtt(log, event) ==
  {s \in Window(log, event) : s.rtt # NoRtt /\ 40000 * s.rtt >= EffectiveThreshold(log, event)}
Abnormal(log, event) ==
  {s \in Window(log, event) : s.timeout \/ (s.rtt # NoRtt /\ 40000 * s.rtt >= EffectiveThreshold(log, event))}

\* summarize_window; None where there is nothing.
Summary(log, event) ==
  LET times == {s.t : s \in Abnormal(log, event)}
      rtts == {s \in Window(log, event) : s.rtt # NoRtt}
      peak == CHOOSE s \in rtts : \A o \in rtts : o.rtt < s.rtt \/ (o.rtt = s.rtt /\ s.t <= o.t)
      found == times # {}
  IN  [ detected |-> found,
        start |-> IF found THEN Min(times) ELSE None,
        end |-> IF found THEN Max(times) ELSE None,
        duration |-> IF found THEN Max(times) - Min(times) ELSE None,
        peak |-> IF Window(log, event) = {} THEN None ELSE IF rtts = {} THEN 0 ELSE peak.rtt,
        peakTime |-> IF rtts = {} THEN None ELSE peak.t ]

\* aligned_event_errors: a replayed sample may answer several measured ones.
\* Mutant of Nearest: the first candidate.
NearestFirst(p, R) == CHOOSE r \in R : \A o \in R : r.t <= o.t
Nearest(p, R) ==
  CHOOSE r \in R : \A o \in R :
    Distance(r.t, p.t) < Distance(o.t, p.t) \/ (Distance(r.t, p.t) = Distance(o.t, p.t) /\ r.t <= o.t)

AlignedErrors(event) ==
  LET M == {s \in Window(measured, event) : s.rtt # NoRtt}
      R(p) == {r \in Window(replayed, event) : r.rtt # NoRtt /\ Distance(r.t, p.t) <= Tolerance}
      aligned == {p \in M : R(p) # {}}
  IN  [ points |-> Cardinality(aligned),
        absolute |-> SumFunction([p \in aligned |-> Distance(p.rtt, Nearest(p, R(p)).rtt)]) ]

Difference(a, b, key) == IF a[key] = None \/ b[key] = None THEN None ELSE b[key] - a[key]

\* evaluate_events, an event at a time.
EvaluateEvent ==
  /\ Len(results) < Len(events)
  /\ LET event == events[Len(results) + 1]
         m == Summary(measured, event)
         r == Summary(replayed, event)
     IN  results' = Append(results,
           [ measured |-> m, replayed |-> r, aligned |-> AlignedErrors(event),
             errors |-> [k \in {"start", "end", "duration", "peak", "peakTime"} |-> Difference(m, r, k)] ])
  /\ UNCHANGED <<measured, replayed, events, threshold, counts>>

\* summarize_event_documents.
CountEvents ==
  /\ Len(results) = Len(events) /\ counts = None
  /\ LET Number(m, r) == Cardinality({k \in DOMAIN results :
                           results[k].measured.detected = m /\ results[k].replayed.detected = r})
     IN  counts' = [ matched |-> Number(TRUE, TRUE), missed |-> Number(TRUE, FALSE),
                     spurious |-> Number(FALSE, TRUE) ]
  /\ UNCHANGED <<measured, replayed, events, threshold, results>>

Init ==
  /\ measured \in Logs /\ replayed \in Logs
  /\ events \in EventLists /\ threshold \in Thresholds
  /\ results = <<>> /\ counts = None

Next == EvaluateEvent \/ CountEvents
Spec == Init /\ [][Next]_vars

(***************************************************************************)
(* Properties                                                              *)
(***************************************************************************)

Inside(s, event) == event.start <= s.t /\ s.t <= event.end
\* The samples but those of the event are near one round trip.
Calm(log, event) ==
  /\ \E s \in log : s.t < event.start
  /\ \A s, o \in {x \in log : ~ Inside(x, event)} : s.rtt # NoRtt /\ o.rtt # NoRtt /\ Distance(s.rtt, o.rtt) < 10

\* A sample of the event is as near as these, or above every threshold that the
\* noise of these can lead to.
Decisive(log, event) ==
  \A s \in {x \in log : Inside(x, event) /\ x.rtt # NoRtt}, o \in {x \in log : ~ Inside(x, event)} :
    Distance(s.rtt, o.rtt) < 10 \/ s.rtt > o.rtt + 40

\* The measured log replayed perfectly has no error in any event, every event
\* that was measured is matched and none is spurious.
PerfectReplayScores ==
  measured = replayed =>
    /\ \A k \in DOMAIN results :
         /\ results[k].aligned.absolute = 0
         /\ \A e \in DOMAIN results[k].errors : results[k].errors[e] \in {0, None}
    /\ counts # None => counts.missed = 0 /\ counts.spurious = 0

\* A replay that is late by no more than the margin shows as late: the error of
\* the start is the delay, and the event is as long as it was.  (The threshold
\* moves with the samples before the event, so what is between may be in one
\* log an event and in the other not.)
Late(d) == replayed = {[s EXCEPT !.t = @ + d] : s \in measured}
LateReplaySeen ==
  threshold = None => \A d \in 1..Margin : \A k \in DOMAIN results :
    /\ Late(d) /\ Calm(measured, events[k]) /\ Decisive(measured, events[k])
    /\ (\E s \in replayed : s.t < events[k].start) /\ results[k].measured.detected
    => results[k].errors["start"] = d /\ results[k].errors["duration"] = 0

\* Jitter is no event, in either log.
JitterIsNoEvent ==
  threshold = None => \A k \in DOMAIN results :
    /\ Calm(measured, events[k]) /\ (\A s, o \in measured : s.rtt # NoRtt /\ Distance(s.rtt, o.rtt) < 10)
       => ~ results[k].measured.detected
    /\ Calm(replayed, events[k]) /\ (\A s, o \in replayed : s.rtt # NoRtt /\ Distance(s.rtt, o.rtt) < 10)
       => ~ results[k].replayed.detected

\* An outage that the replay does not reproduce is missed, not left out of the
\* count because no round trip was measured in it.
OutageIsMissed ==
  threshold = None /\ counts # None => \A k \in DOMAIN results :
    /\ \E s \in measured : Inside(s, events[k])
    /\ \A s \in measured : Inside(s, events[k]) => s.timeout
    /\ Calm(replayed, events[k]) /\ \A s, o \in replayed : s.rtt # NoRtt /\ Distance(s.rtt, o.rtt) < 10
    => counts.missed > 0
=============================================================================
