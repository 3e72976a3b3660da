--------------------------- MODULE ProfileDocument ---------------------------
(***************************************************************************)
(* A profile on its way from the generator to the replay: one file, and    *)
(* the commands that read it and write it back, in any order.  Three       *)
(* formats meet: legacy event rows, the Event Profile v1 document and the  *)
(* directional CSV.  leo-replay validates what it loads and saves; the two *)
(* calibration scripts (calibrate_event_delay.py, learn_event_delay.py)    *)
(* validate nothing.  A file may also have been written by hand.           *)
(*                                                                         *)
(* Times are seconds, delays milliseconds.  Of an event's parameters one   *)
(* is kept for each treatment.                                             *)
(***************************************************************************)
EXTENDS DirectionalConversion

CONSTANTS
  Files,                          \* what the file may hold at first
  Policies,                       \* the conversion policies on command lines
  DefaultDelay, DefaultJitter, DefaultRate,    \* --default-delay-ms, -jitter-ms, -rate-mbps
  MinDelay, MaxDelay, MaxJitter, MaxSpike,     \* the bounds of the calibration scripts
  Corrections,                    \* what a learning step may add; None: too few samples
  MaxCommands                     \* bound on the length of a history

VARIABLES
  file,       \* the profile
  twin,       \* history: the rows converted at the start, given the same commands
  policy,     \* history: the policy its directions were made with, or None
  made,       \* history: the parameters they were made from, or None
  tuned,      \* history: calibrated since then
  commands    \* how many commands have run

vars == <<file, twin, policy, made, tuned, commands>>

Clamp(value, low, high) == IF value < low THEN low ELSE IF value > high THEN high ELSE value
OrZero(value) == IF value = None THEN 0 ELSE value

(***************************************************************************)
(* The two forms of an event.                                              *)
(***************************************************************************)

FromRow(row, i) ==
  [id |-> i, start |-> row.start, end |-> row.end, rtt |-> row.rtt, observed |-> row.delay,
   par |-> [delay |-> IF OrZero(row.cal.delay) > 0 THEN row.cal.delay ELSE row.delay,
            jitter |-> IF OrZero(row.cal.jitter) > 0 THEN row.cal.jitter ELSE row.jitter,
            spike |-> OrZero(row.cal.spike), arrive |-> row.arrive, rate |-> row.rate, reorder |-> 0],
   cal |-> row.cal, directions |-> None]

Create(rows) ==
  [kind |-> "v1", baseline |-> [delay |-> 0, arrive |-> 4, rate |-> 0, reorder |-> 0, directions |-> None],
   events |-> [i \in DOMAIN rows |-> FromRow(rows[i], i)]]

Normalized(f) == IF f.kind = "rows" THEN Create(f.events) ELSE f

\* Mutant of Flat: the spike is not handed over.
FlatSpikeless(e) ==
  [start |-> e.start, end |-> e.end, rtt |-> e.rtt, delay |-> e.observed, arrive |-> e.par.arrive,
   rate |-> e.par.rate, cal |-> e.cal, replay |-> [e.par EXCEPT !.spike = 0]]
\* v1_event_to_legacy, by which the command line hands a document to the old replay.
Flat(e) ==
  [start |-> e.start, end |-> e.end, rtt |-> e.rtt, delay |-> e.observed, arrive |-> e.par.arrive,
   rate |-> e.par.rate, cal |-> e.cal, replay |-> e.par]

\* _flatten_v1_event, by which the old replay reads a document itself.
FlattenV1(e) ==
  [replay |-> [f \in {"delay", "jitter", "spike", "arrive", "rate", "reorder"} |-> e.par[f]],
   delay |-> e.observed, cal |-> e.cal, start |-> e.start, end |-> e.end, rtt |-> e.rtt,
   arrive |-> e.par.arrive, rate |-> e.par.rate]

\* What the old replay applies for a row: a value of zero means the default.
TcParams(row) ==
  LET known == OrZero(row.cal.delay)
      base  == IF row.replay.delay > 0 THEN row.replay.delay
               ELSE IF known > 0 /\ known > DefaultDelay THEN known ELSE DefaultDelay
      spike == IF row.replay.spike > 0 THEN row.replay.spike ELSE OrZero(row.cal.spike)
      swing == IF row.replay.jitter > 0 THEN row.replay.jitter
               ELSE IF OrZero(row.cal.jitter) > 0 THEN row.cal.jitter ELSE DefaultJitter
  IN  [jitter |-> swing, delay |-> base + Clamp(spike, 0, MaxSpike), arrive |-> row.replay.arrive,
       rate |-> IF row.replay.rate > 0 THEN row.replay.rate ELSE DefaultRate]

(***************************************************************************)
(* Validation and conversion.                                              *)
(***************************************************************************)

ValidDirections(d) ==
  \A side \in {"forward", "reverse"} : d[side].rate # None /\ ValidCondition(d[side])

\* Mutant of ValidParameters: a loss is not bounded by 100.
ValidParametersAnyLoss(par) ==
  par.rate # None /\ par.rate >= 0 /\ par.delay >= 0 /\ par.jitter >= 0 /\ par.spike >= 0
ValidParameters(par) ==
  /\ par.rate # None /\ par.rate >= 0
  /\ par.delay >= 0 /\ par.jitter >= 0 /\ par.spike >= 0 /\ par.arrive \in 0..4

Valid(doc) ==
  /\ doc.baseline.directions # None => ValidDirections(doc.baseline.directions)
  /\ \A i \in DOMAIN doc.events :
       LET e == doc.events[i]
       IN  /\ e.start >= 0 /\ e.end > e.start
           /\ i > 1 => doc.events[i - 1].start <= e.start
           /\ \A j \in 1..(i - 1) : doc.events[j].id # e.id
           /\ ValidParameters(e.par)
           /\ e.directions # None => ValidDirections(e.directions)

Loads(f) == IF f.kind = "csv" THEN CsvConverts(f.events) ELSE Valid(Normalized(f))

Scalar(m) == [delay |-> m.delay, arrive |-> m.arrive, rate |-> m.rate, reorder |-> m.reorder]
\* Mutant of WithSpike: the spike is forgotten.
WithoutSpike(par) == Scalar(par)
WithSpike(par) == [Scalar(par) EXCEPT !.delay = @ + par.spike]

\* An absent rate is stored as zero.
Stored(pair) == [side \in {"forward", "reverse"} |-> Filled(pair[side], 0)]

Directionalized(doc, p) ==
  LET rate     == IF OrZero(doc.baseline.rate) = 0 THEN DefaultRate ELSE doc.baseline.rate
      baseline == [doc.baseline EXCEPT !.rate = rate]
  IN  [doc EXCEPT !.baseline = [baseline EXCEPT !.directions = Stored(Directional(Scalar(baseline), p))],
                  !.events   = [i \in DOMAIN @ |->
                                 [@[i] EXCEPT !.directions = Stored(Directional(WithSpike(doc.events[i].par), p))]]]

\* What keeps the conversion from raising.
Converts(doc) ==
  /\ ValidCondition(Scalar(doc.baseline))
  /\ \A i \in DOMAIN doc.events : ValidCondition(WithSpike(doc.events[i].par))

\* What the bidirectional replay applies for an event.
Replayed(e, p) ==
  IF e.directions # None THEN e.directions
  ELSE LET scalar == IF e.par.spike > 0 THEN [Scalar(e.par) EXCEPT !.delay = @ + e.par.spike] ELSE Scalar(e.par)
       IN  Directional(scalar, p)

(***************************************************************************)
(* The calibration scripts, on either form of an event.                    *)
(***************************************************************************)

IsEvent(e) == "par" \in DOMAIN e

\* What a script gives an event: its calibration and, in a document, its parameters.
SetDelay(e, delay) == IF IsEvent(e) THEN [e EXCEPT !.par = [@ EXCEPT !.delay = delay]] ELSE e
SetPar(e, cal) ==
  IF IsEvent(e)
    THEN [e EXCEPT !.par = [@ EXCEPT !.delay = cal.delay, !.jitter = cal.jitter, !.spike = cal.spike]]
    ELSE e

Calibrated(e) ==
  LET target == Clamp(IF e.rtt > DefaultDelay THEN e.rtt ELSE DefaultDelay, MinDelay, MaxDelay)
  IN  SetDelay([e EXCEPT !.cal = [@ EXCEPT !.delay = target]], target)

CurrentDelay(e) ==
  IF e.cal.delay # None THEN e.cal.delay ELSE IF IsEvent(e) THEN e.par.delay ELSE e.delay

\* Mutant of CurrentJitter: a row always starts from the default.
ForgottenJitter(e) ==
  IF ~IsEvent(e) THEN DefaultJitter ELSE IF e.cal.jitter # None THEN e.cal.jitter ELSE e.par.jitter
\* A row is learned from the default, not from its observation as an event is.
CurrentJitter(e) ==
  IF e.cal.jitter # None THEN e.cal.jitter ELSE IF IsEvent(e) THEN e.par.jitter ELSE DefaultJitter

CurrentSpike(e) ==
  IF e.cal.spike # None THEN e.cal.spike ELSE IF IsEvent(e) THEN e.par.spike ELSE 0

LearnedDelay(e, c)  == Clamp(CurrentDelay(e) + c.delay, MinDelay, MaxDelay)
LearnedJitter(e, c) == Clamp(CurrentJitter(e) + c.jitter, 0, MaxJitter)
\* Mutant of LearnedSpike: no clamp.
LearnedSpikeFreely(e, c) == CurrentSpike(e) + c.spike
LearnedSpike(e, c)  == Clamp(CurrentSpike(e) + c.spike, 0, MaxSpike)

Learned(e, c) ==
  IF c = None THEN e
  ELSE LET cal == [delay |-> LearnedDelay(e, c), jitter |-> LearnedJitter(e, c), spike |-> LearnedSpike(e, c)]
       IN  SetPar([e EXCEPT !.cal = cal], cal)

(***************************************************************************)
(* The commands.                                                           *)
(***************************************************************************)

Command == commands < MaxCommands /\ commands' = commands + 1

\* leo-replay validate --normalized-output.
Validate ==
  /\ Command /\ file.kind # "csv" /\ Loads(file)
  /\ file' = Normalized(file)
  /\ UNCHANGED <<twin, policy, made, tuned>>

\* leo-replay profile directionalize --mode event; what would not load is not saved.
DirectionalizeEvents(p) ==
  /\ Command /\ ValidPolicy(p)
  /\ file.kind # "csv" /\ Loads(file) /\ Converts(Normalized(file))
  /\ file' = Directionalized(Normalized(file), p) /\ Valid(file')
  /\ policy' = p /\ made' = [i \in DOMAIN file.events |-> Normalized(file).events[i].par]
  /\ tuned' = FALSE
  /\ UNCHANGED twin

\* leo-replay profile directionalize --mode timeseries.
DirectionalizeSeries(p) ==
  /\ Command /\ ValidPolicy(p) /\ file.kind = "csv" /\ Loads(file)
  /\ \E states \in ReadCsv(file.events, p, DefaultRate) :
       file' = [file EXCEPT !.events = WriteCsv(states)]
  /\ policy' = p
  /\ UNCHANGED <<twin, made, tuned>>

Tune(T(_, _)) ==
  /\ Command /\ file.kind # "csv"
  /\ file' = [file EXCEPT !.events = [i \in DOMAIN @ |-> T(@[i], i)]]
  /\ twin' = [twin EXCEPT !.events = [i \in DOMAIN @ |-> T(@[i], i)]]
  /\ tuned' = TRUE
  /\ UNCHANGED <<policy, made>>

CalibrateDelays == Tune(LAMBDA e, i : Calibrated(e))
LearnFromReplay(c) == Tune(LAMBDA e, i : Learned(e, c[i]))

Init ==
  /\ file \in Files
  /\ twin = Normalized(file)
  /\ policy = None /\ made = None /\ tuned = FALSE /\ commands = 0

Next ==
  \/ Validate
  \/ \E p \in Policies : DirectionalizeEvents(p)
  \/ \E p \in Policies : DirectionalizeSeries(p)
  \/ CalibrateDelays
  \/ \E c \in [DOMAIN file.events -> Corrections] : LearnFromReplay(c)

Spec == Init /\ [][Next]_vars

(***************************************************************************)
(* Properties                                                              *)
(***************************************************************************)

\* A profile that loads goes on loading, although two of the commands write
\* it without validating it (learn_event_delay.py, calibrate_event_delay.py).
StaysLoadable == [][Loads(file) => Loads(file')]_vars

\* Of a profile that validate_document accepts exactly two things decide whether
\* it can be directionalized, both of which it does not look at: a scalar baseline
\* that is no condition, and a reordering that is no percentage.
LoadedConverts ==
  file.kind # "csv" /\ Loads(file) =>
    LET doc == Normalized(file)
    IN  Converts(doc) <=> /\ ValidCondition(Scalar(doc.baseline))
                          /\ \A i \in DOMAIN doc.events : doc.events[i].par.reorder \in 0..100

\* A directionalized profile is replayed as the profile it was made from would be
\* under the same policy.  A calibration leaves the directions, which the replay
\* prefers: then it is the profile before the calibration, in every event and both
\* directions, and otherwise the profile as it is.
DirectionsFollowParameters ==
  file.kind = "v1" /\ policy # None =>
    \A i \in DOMAIN file.events :
      LET e == file.events[i]
      IN  /\ Replayed(e, policy) = Stored(Replayed([e EXCEPT !.par = made[i], !.directions = None], policy))
          /\ ~tuned => made[i] = e.par

\* Splitting loses nothing of a path: both directions together delay a packet,
\* and let it arrive, as the parameters said that they were made from.
PathKept ==
  file.kind = "v1" /\ policy # None =>
    \A i \in DOMAIN file.events :
      LET f == file.events[i].directions.forward
          r == file.events[i].directions.reverse
      IN  /\ policy.loss = "equivalent" => EndToEnd(f.arrive, r.arrive) = made[i].arrive
          /\ policy.delay = "split" => f.delay + r.delay = made[i].delay + made[i].spike

Distance(a, b) == IF a < b THEN b - a ELSE a - b
ButJitter(par) == [par EXCEPT !.jitter = 0]

\* Whether a profile is converted before it is calibrated, early, or after it,
\* late, does not matter for its delays and spikes, however often it is calibrated.
\* Its jitter is learned from an event's observation but from a row's default: the
\* two never come further apart than these are.  One learned down to nothing is
\* forgotten by the late conversion, which takes the observation instead.
RowsLearnAsDocuments ==
  file.kind = "rows" =>
    \A i \in DOMAIN file.events :
      LET row   == file.events[i]
          late  == FromRow(row, i)
          early == twin.events[i]
          apart == Distance(row.jitter, DefaultJitter)
      IN  /\ ButJitter(late.par) = ButJitter(early.par) /\ ButJitter(late.cal) = ButJitter(early.cal)
          /\ late.cal.jitter = None <=> early.cal.jitter = None
          /\ late.cal.jitter = None => late.par.jitter = early.par.jitter
          /\ late.cal.jitter # None => Distance(late.cal.jitter, early.cal.jitter) <= apart
          /\ OrZero(late.cal.jitter) > 0 => Distance(late.par.jitter, early.par.jitter) <= apart

\* The old replay applies the same for a document it reads itself as for one
\* the command line flattens for it.
SameSingleReplay ==
  file.kind = "v1" =>
    \A i \in DOMAIN file.events : TcParams(Flat(file.events[i])) = TcParams(FlattenV1(file.events[i]))

\* What a directional CSV says does not depend on the policy of its reader.
CanonicalCsv ==
  file.kind = "csv" /\ policy # None =>
    \A p, q \in {x \in Policies : ValidPolicy(x)} :
      ReadCsv(file.events, p, DefaultRate) = ReadCsv(file.events, q, DefaultRate)
=============================================================================
