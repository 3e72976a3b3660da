---------------------------- MODULE EventSegments ----------------------------
(***************************************************************************)
(* iperf_ping_grpc_to_event_profile.py: measurements of one session are    *)
(* averaged into bins, each bin is classified, and bins of one kind that   *)
(* follow each other become an event.                                      *)
(*                                                                         *)
(* Times are integers.  An average is kept as a pair of a sum and a        *)
(* weight, and compared with a threshold without dividing.  Rates are      *)
(* tenths of the target rate.                                              *)
(***************************************************************************)
EXTENDS Integers, Sequences, SequencesExt, FiniteSetsExt

CONSTANTS
  Sessions,               \* what may have been measured
  BinSec, MinDuration,    \* --bin-sec, --min-event-duration-sec
  Degraded, Severe, Collapse   \* the loss thresholds

VARIABLES
  session,    \* the three files: intervals, pings, grpc
  left,       \* aggregate_iperf: the left end of the next bin
  bins,       \* the bins so far
  rows,       \* the classified bins so far
  current,    \* build_segments: the rows of the open segment
  segments    \* the events so far

vars == <<session, left, bins, rows, current, segments>>

Smaller(x, y) == IF x < y THEN x ELSE y
Larger(x, y)  == IF x > y THEN x ELSE y

(***************************************************************************)
(* Binning                                                                 *)
(***************************************************************************)

TotalEnd == Max({x.end : x \in ToSet(session.intervals)})

Overlapping == {x \in ToSet(session.intervals) : x.start < left + BinSec /\ x.end > left}

\* Mutant of Overlap: an interval is weighed whole in every bin it reaches.
WholeInterval(x, from, to) == x.end - x.start
Overlap(x, from, to) == Larger(0, Smaller(x.end, to) - Larger(x.start, from))

Weighed(Field(_), from, to) ==
  SumFunction([i \in DOMAIN session.intervals |->
                 Field(session.intervals[i]) * Overlap(session.intervals[i], from, to)])

Bin(from, to) ==
  [start |-> from, end |-> to,
   weight |-> Weighed(LAMBDA x : 1, from, to),
   loss   |-> Weighed(LAMBDA x : x.loss, from, to),
   rate   |-> Weighed(LAMBDA x : x.rate, from, to)]

Binning == session.intervals # <<>> /\ left < TotalEnd

FillBin ==
  /\ Binning /\ Overlapping # {}
  /\ bins' = Append(bins, Bin(left, Smaller(left + BinSec, TotalEnd)))
  /\ left' = left + BinSec
  /\ UNCHANGED <<session, rows, current, segments>>

SkipBin ==
  /\ Binning /\ Overlapping = {}
  /\ left' = left + BinSec
  /\ UNCHANGED <<session, bins, rows, current, segments>>

(***************************************************************************)
(* Classification                                                          *)
(***************************************************************************)

Within(points, b) == {p \in points : b.start <= p.time /\ p.time < b.end}

TimeoutShare(b, num, den) ==   \* ping_timeout_ratio(b) >= num / den
  LET pings == Within(session.pings, b)
  IN  pings # {} /\ Cardinality({p \in pings : p.timeout}) * den >= num * Cardinality(pings)

\* Where nothing is weighed the averages are zero.
Weight(b) == Larger(1, b.weight)
LossAtLeast(b, limit) == b.loss >= limit * Weight(b)
RateAtMost(b, limit)  == b.rate <= limit * Weight(b)

Obstructed(b) == \E p \in Within(session.grpc, b) : p.obstructed
HighLatency(b) ==
  LET points == Within(session.grpc, b)
  IN  points # {} /\ SumFunction([p \in points |-> p.latency]) >= Cardinality(points)

\* max(set(states), key=count): which of two equally frequent states it is
\* depends on the hash of a string, which differs from process to process.
Dominant(b) ==
  LET points    == Within(session.grpc, b)
      States    == {p.state : p \in points}
      Count(s)  == Cardinality({p \in points : p.state = s})
  IN  {s \in States : \A other \in States : Count(other) <= Count(s)}
Disconnections(b) == IF Dominant(b) = {} THEN {FALSE} ELSE {s # "CONNECTED" : s \in Dominant(b)}

NoEvent == ""
Else(event, default) == IF event = NoEvent THEN default ELSE event
Verdict(state, event, severity) == [state |-> state, event |-> event, severity |-> severity]

ByTerminal(b, disconnected) ==
  IF disconnected       THEN Verdict("degraded", "handover", 2)
  ELSE IF Obstructed(b) THEN Verdict("degraded", "obstruction", 2)
  ELSE Verdict("normal", NoEvent, 0)

\* Mutant of ByPing: an outage replaces the verdict only of a normal bin.
ByPingIfNormal(b, v) ==
  IF v.state = "normal" /\ TimeoutShare(b, 4, 5) THEN Verdict("collapse", "outage", 4)
  ELSE IF TimeoutShare(b, 1, 4) THEN Verdict("degraded", Else(v.event, "handover"), Larger(v.severity, 2))
  ELSE v
ByPing(b, v) ==
  IF TimeoutShare(b, 4, 5) THEN Verdict("collapse", "outage", 4)
  ELSE IF TimeoutShare(b, 1, 4) THEN Verdict("degraded", Else(v.event, "handover"), Larger(v.severity, 2))
  ELSE v

ByIperf(b, v) ==
  IF LossAtLeast(b, Collapse) \/ RateAtMost(b, 3) THEN
         Verdict("collapse", Else(v.event, "collapse"), Larger(v.severity, 3))
  ELSE IF LossAtLeast(b, Severe) THEN
         Verdict(IF v.state = "collapse" THEN v.state ELSE "severe_loss", Else(v.event, "handover"), Larger(v.severity, 2))
  ELSE IF LossAtLeast(b, Degraded) \/ RateAtMost(b, 7) THEN
         Verdict(IF v.state = "normal" THEN "degraded" ELSE v.state, Else(v.event, "degradation"), Larger(v.severity, 1))
  ELSE v

ByPop(b, v) ==
  IF HighLatency(b)
    THEN Verdict(IF v.state = "normal" THEN "degraded" ELSE v.state, Else(v.event, "backhaul"), Larger(v.severity, 1))
    ELSE v

Classified(b, disconnected) == ByPop(b, ByIperf(b, ByPing(b, ByTerminal(b, disconnected))))

ClassifyRow ==
  /\ ~Binning /\ Len(rows) < Len(bins)
  /\ LET b == bins[Len(rows) + 1]
     IN  \E d \in Disconnections(b) :
           rows' = Append(rows, [start |-> b.start, end |-> b.end, disconnected |-> d, verdict |-> Classified(b, d)])
  /\ UNCHANGED <<session, left, bins, current, segments>>

(***************************************************************************)
(* Segmentation                                                            *)
(***************************************************************************)

Segment(chunk) ==
  [start |-> chunk[1].start, end |-> Last(chunk).end, event |-> chunk[1].verdict.event,
   severity |-> Max({r.verdict.severity : r \in ToSet(chunk)})]

Flushed(chunk) ==
  IF chunk = <<>> \/ Last(chunk).end - chunk[1].start < MinDuration
    THEN segments ELSE Append(segments, Segment(chunk))

\* Mutant of Follows: rows of one event are merged across a gap.
FollowsAnywhere(row, prev) == row.verdict.event = prev.verdict.event
Follows(row, prev) == row.start = prev.end /\ row.verdict.event = prev.verdict.event

Continues(row, chunk) == chunk # <<>> /\ Follows(row, Last(chunk))

\* The loop reads rows in order; those behind the open segment were decided.
SegmentRow ==
  /\ ~Binning /\ Len(rows) = Len(bins) /\ current.next <= Len(rows)
  /\ LET row == rows[current.next]
         chunk == current.chunk
     IN  \/ /\ row.verdict.state = "normal"
            /\ segments' = Flushed(chunk) /\ current' = [next |-> current.next + 1, chunk |-> <<>>]
         \/ /\ row.verdict.state # "normal" /\ Continues(row, chunk)
            /\ current' = [next |-> current.next + 1, chunk |-> Append(chunk, row)]
            /\ UNCHANGED segments
         \/ /\ row.verdict.state # "normal" /\ ~Continues(row, chunk)
            /\ segments' = Flushed(chunk) /\ current' = [next |-> current.next + 1, chunk |-> <<row>>]
  /\ UNCHANGED <<session, left, bins, rows>>

LastSegment ==
  /\ ~Binning /\ Len(rows) = Len(bins) /\ current.next = Len(rows) + 1
  /\ segments' = Flushed(current.chunk)
  /\ current' = [next |-> current.next + 1, chunk |-> <<>>]
  /\ UNCHANGED <<session, left, bins, rows>>

Init ==
  /\ session \in Sessions
  /\ left = 0 /\ bins = <<>> /\ rows = <<>> /\ segments = <<>>
  /\ current = [next |-> 1, chunk |-> <<>>]

Next == FillBin \/ SkipBin \/ ClassifyRow \/ SegmentRow \/ LastSegment

Spec == Init /\ [][Next]_vars

Segmented == ~Binning /\ current.next = Len(bins) + 2

(***************************************************************************)
(* Properties                                                              *)
(***************************************************************************)

\* Bins neither overlap nor leave out anything iperf measured, and weigh
\* every loss exactly once, however the intervals and the bins are aligned.
BinsKeepLosses ==
  /\ \A i, j \in DOMAIN bins : i < j => bins[i].end <= bins[j].start
  /\ ~Binning =>
       SumFunction([k \in DOMAIN bins |-> bins[k].loss])
         = SumFunction([i \in DOMAIN session.intervals |->
                          LET x == session.intervals[i] IN x.loss * (x.end - x.start)])

AsBad(b, c) ==   \* b is in nothing but its connection better than c
  /\ Obstructed(c) => Obstructed(b)
  /\ HighLatency(c) => HighLatency(b)
  /\ \A share \in {<<4, 5>>, <<1, 4>>} : TimeoutShare(c, share[1], share[2]) => TimeoutShare(b, share[1], share[2])
  /\ \A limit \in {Degraded, Severe, Collapse} : LossAtLeast(c, limit) => LossAtLeast(b, limit)
  /\ \A limit \in {3, 7} : RateAtMost(c, limit) => RateAtMost(b, limit)

\* A bin that is in nothing better than another is not rated better, although
\* the rules overwrite each other's verdicts; and the three parts of a verdict
\* agree on what is normal, because the segments only look at one of them.
WorseIsRatedWorse ==
  \A i, j \in DOMAIN rows :
    /\ AsBad(bins[i], bins[j]) /\ (rows[j].disconnected => rows[i].disconnected)
         => rows[i].verdict.severity >= rows[j].verdict.severity
    /\ (rows[i].verdict.state = "normal") <=> (rows[i].verdict.severity = 0)
    /\ (rows[i].verdict.state = "normal") <=> (rows[i].verdict.event = NoEvent)
    /\ (rows[i].verdict.state = "collapse") <=> (rows[i].verdict.severity >= 3)

\* The runs of rows that are abnormal, of one event and without a gap, and
\* cannot be made longer.
IsRun(a, b) ==
  /\ rows[a].verdict.event # NoEvent
  /\ \A i \in (a + 1)..b : rows[i].start = rows[i - 1].end /\ rows[i].verdict.event = rows[a].verdict.event
LongestRuns ==
  {ab \in (DOMAIN rows) \X (DOMAIN rows) :
     /\ ab[1] <= ab[2] /\ IsRun(ab[1], ab[2])
     /\ \A i, j \in DOMAIN rows : i <= ab[1] /\ ab[2] <= j /\ IsRun(i, j) => <<i, j>> = ab}

\* The events are exactly the longest runs that last long enough, in order and
\* apart from each other, as the replay requires of a profile.
SegmentsAreRuns ==
  Segmented =>
    /\ \A k \in DOMAIN segments :
         /\ segments[k].start >= 0 /\ segments[k].end > segments[k].start
         /\ k > 1 => segments[k - 1].end <= segments[k].start
    /\ ToSet(segments) =
         {Segment(SubSeq(rows, r[1], r[2])) :
            r \in {ab \in LongestRuns : rows[ab[2]].end - rows[ab[1]].start >= MinDuration}}
=============================================================================
