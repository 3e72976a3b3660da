----------------------------- MODULE MCArtifacts -----------------------------
(***************************************************************************)
(* Artifacts on small instances of its five tools.                         *)
(***************************************************************************)
EXTENDS Artifacts

(***************************************************************************)
(* Profile documents                                                       *)
(***************************************************************************)

NoCalibration == [delay |-> None, jitter |-> None, spike |-> None]
Row(start, end, delay, arrive, rate) ==
  [start |-> start, end |-> end, rtt |-> 6, delay |-> delay, jitter |-> 2, arrive |-> arrive,
   rate |-> rate, cal |-> NoCalibration]
RowFile(list) == [kind |-> "rows", events |-> list]

\* Every pair of short rows in any order: unsorted and overlapping ones too.
RowFiles ==
  {RowFile(<<Row(s1, s1 + d1, 4, a, r), Row(s2, s2 + 1, 2, 4, 2)>>) :
     s1 \in 0..1, d1 \in 0..2, s2 \in 0..1, a \in {0, 1, 4}, r \in {0, 2}}

\* Rows observed with the default's jitter, less and more, and rows that come with a
\* calibrated jitter, which may be nothing.
Swinging(jitter, calibrated) ==
  [Row(0, 2, 4, 4, 2) EXCEPT !.jitter = jitter, !.cal = [@ EXCEPT !.jitter = calibrated]]
SwingingFiles ==
  {RowFile(<<Swinging(j, None), [Swinging(j, c) EXCEPT !.start = 1]>>) : j \in {0, 2, 5}, c \in {None, 0, 4}}

Parameters(delay, spike, arrive, reorder) ==
  [delay |-> delay, jitter |-> 0, spike |-> spike, arrive |-> arrive, rate |-> 2, reorder |-> reorder]
Event(id, start, par) ==
  [id |-> id, start |-> start, end |-> start + 1, rtt |-> 6, observed |-> 2, par |-> par,
   cal |-> NoCalibration, directions |-> None]
Baseline(delay, rate) ==
  [delay |-> delay, arrive |-> 4, rate |-> rate, reorder |-> 0, directions |-> None]

\* Documents written by hand, with every mistake of one field.
HandFiles ==
  {[kind |-> "v1", baseline |-> Baseline(b, r), events |-> <<Event(1, 0, p), Event(i, 1, Parameters(2, 2, 4, 0))>>] :
     b \in {-2, 0}, r \in {None, 2}, i \in {1, 2},
     p \in {Parameters(4, 2, 1, 0), Parameters(-2, 0, 4, 0), Parameters(4, 0, 5, 0), Parameters(4, 0, 4, 150)}}

C(delay, arrive, rate) == [delay |-> delay, arrive |-> arrive, rate |-> rate, reorder |-> 0]
CsvRow(second, forward, reverse, path) ==
  [sec |-> second, forward |-> forward, reverse |-> reverse, path |-> path]
CsvFiles ==
  {[kind |-> "csv", events |-> <<CsvRow(1, f, r, C(4, a, rate)), CsvRow(s, None, None, C(2, 4, None))>>] :
     s \in 0..1, f \in {None, C(2, 1, None)}, r \in {None, C(4, 4, 0), C(4, 4, None)}, a \in {1, 5}, rate \in {None, 0, 2}}

AllFiles == RowFiles \cup SwingingFiles \cup HandFiles \cup CsvFiles

\* Policies that differ from the default in one choice, in some, and two refused.
Some == [delay |-> "split", loss |-> "equivalent", rate |-> "forward-only", share |-> 1, reverseRate |-> 6]
ChosenPolicies ==
  {Some, [Some EXCEPT !.share = 0], [Some EXCEPT !.share = 2, !.reverseRate = 8],
   [Some EXCEPT !.delay = "mirror", !.loss = "mirror", !.rate = "mirror"],
   [Some EXCEPT !.delay = "forward-only", !.loss = "forward-only", !.reverseRate = 0],
   [Some EXCEPT !.share = 3], [Some EXCEPT !.reverseRate = -1]}
Step(delay, jitter, spike) == [delay |-> delay, jitter |-> jitter, spike |-> spike]
Steps == {None, Step(-4, 4, -4), Step(4, -4, 4)}

(***************************************************************************)
(* Measurements of one session                                             *)
(***************************************************************************)

Interval(start, end, loss, rate) == [start |-> start, end |-> end, loss |-> loss, rate |-> rate]
Ping(time, timeout) == [time |-> time, timeout |-> timeout]
Grpc(time, state, obstructed, latency) ==
  [time |-> time, state |-> state, obstructed |-> obstructed, latency |-> latency]

\* Three intervals that do not fit the bins, with or without a gap between
\* the second and the third, which may last a whole bin.
Measured(l1, l2, l3, rate, gap) ==
  <<Interval(0, 1, l1, 10), Interval(1, 3, l2, rate), Interval(3 + gap, 5 + gap, l3, 10)>>

Quiet == {Ping(t, FALSE) : t \in {0, 2, 4}}
PingsOf(f) == {Ping(t, f[t] = "lost") : t \in {u \in DOMAIN f : f[u] # "none"}} \cup {Ping(1, FALSE)}
Answers(kind, t) ==
  CASE kind = "good"        -> Grpc(t, "CONNECTED", FALSE, 0)
    [] kind = "obstructed"  -> Grpc(t, "CONNECTED", TRUE, 0)
    [] kind = "searching"   -> Grpc(t, "SEARCHING", FALSE, 1)
    [] kind = "slow"        -> Grpc(t, "CONNECTED", FALSE, 2)
GrpcOf(f) == {Answers(f[t], t) : t \in DOMAIN f}

\* All losses and rates with a good terminal, all terminals with two losses, and
\* a last interval without a length.
SomeSessions ==
  {[intervals |-> Measured(l1, l2, l3, r, g), pings |-> Quiet, grpc |-> {}] :
     l1 \in 0..3, l2 \in 0..3, l3 \in 0..3, r \in {2, 6, 10}, g \in {0, 1, 3}}
  \cup
  {[intervals |-> Measured(0, l, 1, 10, g), pings |-> PingsOf(p), grpc |-> GrpcOf(q)] :
     l \in {0, 3}, g \in {0, 1}, p \in [{2, 4} -> {"none", "ok", "lost"}],
     q \in [{0, 2, 3} -> {"good", "obstructed", "searching", "slow"}]}
  \cup
  {[intervals |-> <<Interval(0, 2, l, 10), Interval(t, t, 3, 10)>>, pings |-> Quiet, grpc |-> {}] :
     l \in {0, 3}, t \in {2, 3, 4}}

\* Three seconds measured by each tool, answers missing in any of them, and two
\* silent seconds at the end.
PingPoint(t, d)  == [time |-> t, delay |-> d, timeout |-> d = None]
IperfPoint(t, r) == [time |-> t, rate |-> r]
GrpcPoint(t, l, bad) == [time |-> t, latency |-> l, downlink |-> 0, bad |-> bad]

SomeMeasurements ==
  {[ping  |-> <<PingPoint(0, d[1]), PingPoint(2, d[2]), PingPoint(6, d[3])>>,
    iperf |-> <<IperfPoint(1, r), IperfPoint(4, 0)>>,
    grpc  |-> <<GrpcPoint(g, l[1], b[1]), GrpcPoint(3, l[2], b[2])>>] :
     d \in [1..3 -> {None, 4}], r \in {0, 16}, g \in 0..2, l \in [1..2 -> {None, 6}], b \in [1..2 -> BOOLEAN]}

(***************************************************************************)
(* Directories                                                             *)
(***************************************************************************)

\* Three captures on one directory, of which two have the same kind.
SomeCaptures == 1..3
SomeKinds == <<"ping", "ping", "traceroute">>

\* Three builds one after the other, with and without --force, each of them
\* killed at any step, over a directory that may hold another file.
SomeBuilds == 1..3
OtherFiles == {"notes.txt"}
=============================================================================
