----------------------------- MODULE MCAnalyses -----------------------------
(***************************************************************************)
(* Analyses on small instances of its five tools.                          *)
(***************************************************************************)
EXTENDS Analyses

\* Every history of up to two records of one satellite, of three without an
\* identifier, and of one record of each of two.
RecordOf(sats, epochs, dates, ids) ==
  [sat : sats, epoch : epochs, created : dates \cup {None}, id : ids]
SomeHistories ==
  [1..3 -> RecordOf({1}, 0..2, {0, 1}, {None})]
  \cup UNION {[1..n -> RecordOf({1}, 0..2, {0, 1}, {None, 1})] : n \in 1..2}
  \cup [1..2 -> RecordOf({1, 2}, {0, 3}, {1}, {None, 1})]

\* A series of seven units sampled every second one, so that the end is off the
\* grid, and two satellites that are in view in one stretch or in all but one.
Passes == {a..b : a, b \in 0..7}
Gaps == {0..7 \ s : s \in {3..5, 4..6}}
SomeSkies == [Visible -> Passes \cup Gaps]
SomeFailures == {[s \in Visible |-> IF s = 1 THEN f ELSE {}] : f \in {{}, {4}, 0..7}}
SomeEvents == {<<[start |-> 3, end |-> 5], [start |-> 5, end |-> 7]>>, <<[start |-> 4, end |-> 6]>>,
                 <<[start |-> 1, end |-> 2]>>}

\* Profile, visibility and events do not meet but in the frame, so that each is
\* varied by itself, over observations in any order.
Seqs(S, n) == UNION {[1..m -> S] : m \in 0..n}
Observations == {o \in Seqs(0..4, 3) : Len(o) > 0 /\ \A i, j \in DOMAIN o : i # j => o[i] # o[j]}
InputOf(profiles, visibilities, marks) ==
  [observations : Observations, start : {None, 1}, profile : profiles,
   visibility : visibilities, events : marks]

SomeInputs ==
  InputOf(Seqs(0..2, 3), {<<>>}, {<<>>})
  \cup InputOf({<<>>}, Seqs([sat : {1}, t : 0..4], 3) \cup Seqs([sat : {1, 2}, t : {1, 2}], 2), {<<>>})
  \cup InputOf({<<>>}, {<<>>}, Seqs({e \in [start : 0..3, end : 0..4] : e.start <= e.end}, 1))

\* Seven samples, of a steady or an alternating round trip, with one run of
\* samples that are slow, timed out or empty; a log may begin late.
Value(t, jitter) == IF jitter THEN 20 + 5 * (t % 2) ELSE 20
Sample(t, jitter, kind) ==
  CASE kind = "calm" -> [t |-> t, rtt |-> Value(t, jitter), timeout |-> FALSE]
    [] kind = "slow" -> [t |-> t, rtt |-> 80, timeout |-> FALSE]
    [] kind = "timeout" -> [t |-> t, rtt |-> NoRtt, timeout |-> TRUE]
    [] kind = "empty" -> [t |-> t, rtt |-> NoRtt, timeout |-> FALSE]

Log(jitter, a, b, kind, late) ==
  {[Sample(t, jitter, IF a <= t /\ t <= b THEN kind ELSE "calm") EXCEPT !.t = t + late] : t \in 0..6}
SomeLogs == {Log(j, a, b, kind, late) : j \in BOOLEAN, a \in {2, 3, 5}, b \in {3, 4},
                                      kind \in {"slow", "timeout", "empty"}, late \in 0..1}
SomeWindows == {<<[start |-> 2, end |-> 4]>>,
                 <<[start |-> 0, end |-> 1], [start |-> 3, end |-> 3]>>}
SomeThresholds == {None, 40}

\* Two series of up to three points, in four bins; several points may be of one
\* instant, and a value tells the early points from the late ones.
Instants == 0..7
Ordered == {s \in UNION {[1..n -> Instants] : n \in 0..3} :
              \A a, b \in DOMAIN s : a < b => s[a] <= s[b]}
SomeSeries == {[k \in DOMAIN s |-> [t |-> s[k], v |-> 1 + s[k]]] : s \in Ordered}
=============================================================================
