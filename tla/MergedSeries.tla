----------------------------- MODULE MergedSeries -----------------------------
(***************************************************************************)
(* starlink_merge_realdata_to_profile.py: three measured series become one *)
(* row for every step of a timeline.  A row uses the nearest value of each *)
(* series, or the last one before it, or else what the row before it held, *)
(* which was already corrected for the state of the terminal.              *)
(*                                                                         *)
(* Obstruction and a terminal that is not connected correct a row in the   *)
(* same way; here a correction doubles the delay and halves the rate.      *)
(***************************************************************************)
EXTENDS Integers, SequencesExt

CONSTANTS
  None,
  Measurements,          \* what the three files are read as; a blank rate is read as 0
  Gap,                   \* --max-gap-ping, --max-gap-iperf, --max-gap-grpc
  MaxDelay, MinRate,     \* the clamps of a row
  FirstDelay, FirstRate  \* what the first row falls back on

VARIABLES
  input,       \* ping, iperf and grpc
  sec,         \* the next point of the timeline
  lastDelay, lastRate,
  rows

vars == <<input, sec, lastDelay, lastRate, rows>>

Distance(p, t) == IF p.time < t THEN t - p.time ELSE p.time - t

\* The first of the nearest points, unless it is too far away.
Nearest(points, t) ==
  {i \in DOMAIN points :
     /\ Distance(points[i], t) <= Gap
     /\ \A j \in DOMAIN points :
          \/ Distance(points[i], t) < Distance(points[j], t)
          \/ Distance(points[i], t) = Distance(points[j], t) /\ i <= j}
\* The last point of those up to t that the file begins with.
Before(points, t) ==
  {i \in DOMAIN points :
     /\ \A j \in 1..i : points[j].time <= t
     /\ i < Len(points) => points[i + 1].time > t}

\* nearest(...) or prev_value(...) or {}
Used(points, t, empty) ==
  LET found == IF Nearest(points, t) # {} THEN Nearest(points, t) ELSE Before(points, t)
  IN  IF found = {} THEN empty ELSE points[CHOOSE i \in found : TRUE]

Ping(t)  == Used(input.ping, t, [delay |-> None, timeout |-> FALSE])
Iperf(t) == Used(input.iperf, t, [rate |-> None])
Grpc(t)  == Used(input.grpc, t, [latency |-> None, downlink |-> None, bad |-> FALSE])

Or(value, default) == IF value = None THEN default ELSE value

\* Mutant of MeasuredDelay: what the terminal reports does not count.
PingDelay(t) == IF Ping(t).timeout THEN None ELSE Ping(t).delay
MeasuredDelay(t) == Or(IF Ping(t).timeout THEN None ELSE Ping(t).delay, Grpc(t).latency)
MeasuredRate(t) ==
  IF Iperf(t).rate # None /\ Iperf(t).rate > 0 THEN Iperf(t).rate ELSE Grpc(t).downlink

Corrected(delay, rate, bad) ==
  LET d == IF bad THEN 2 * delay ELSE delay
      r == IF bad THEN rate \div 2 ELSE rate
  IN  [delay |-> IF d > MaxDelay THEN MaxDelay ELSE d, rate |-> IF r < MinRate THEN MinRate ELSE r]

End == LET LastTime(points) == IF points = <<>> THEN 0 ELSE Last(points).time
       IN  Max({LastTime(input.ping), LastTime(input.iperf), LastTime(input.grpc)})

Step ==
  /\ sec <= End
  /\ LET row == Corrected(Or(MeasuredDelay(sec), lastDelay), Or(MeasuredRate(sec), lastRate), Grpc(sec).bad)
     IN  /\ rows' = Append(rows, row)
         /\ lastDelay' = row.delay /\ lastRate' = row.rate
  /\ sec' = sec + 1
  /\ UNCHANGED input

Init ==
  /\ input \in Measurements
  /\ sec = 0 /\ rows = <<>> /\ lastDelay = FirstDelay /\ lastRate = FirstRate

Next == Step
Spec == Init /\ [][Next]_vars

(***************************************************************************)
(* Properties                                                              *)
(***************************************************************************)

Delays == {FirstDelay} \cup {p.delay : p \in {x \in ToSet(input.ping) : x.delay # None}}
                       \cup {p.latency : p \in {x \in ToSet(input.grpc) : x.latency # None}}

\* A row that was measured is corrected once.  Only while nothing is measured
\* does a correction feed on itself from row to row, and then up to the clamp
\* that keeps the row replayable.
FeedbackOnlyInSilence ==
  \A k \in DOMAIN rows :
    /\ rows[k].delay > 2 * Max(Delays) =>
         /\ Ping(k - 1).timeout \/ Ping(k - 1).delay = None
         /\ Grpc(k - 1).latency = None
    /\ rows[k].delay <= MaxDelay /\ rows[k].rate >= MinRate
=============================================================================
