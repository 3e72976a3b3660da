-------------------------- MODULE HistoricalSelection --------------------------
(***************************************************************************)
(* orbit/selection.py: for every observation time and satellite the element*)
(* set that could have been known then (causal), the one nearest in epoch  *)
(* (retrospective), and the two that bracket the observation.              *)
(*                                                                         *)
(* Times are integers.  A record is [sat, epoch, created, id], where       *)
(* created and id may be missing; GP_ID and ELEMENT_SET_NO are one id.  A  *)
(* position is only the question whether SGP4 gives one.                   *)
(***************************************************************************)
EXTENDS Integers, Sequences, FiniteSets

CONSTANTS
  Histories,        \* the files: non-empty sequences of records
  Starts, Steps, Duration,
  Lags, StaleAfter,
  Unpropagable,     \* the epochs whose elements SGP4 rejects
  None

VARIABLES
  history,
  times,            \* of observation
  mode, missingPolicy, lag,
  documents,        \* what the observations so far gave
  status

vars == <<history, times, mode, missingPolicy, lag, documents, status>>

Sats == {history[i].sat : i \in DOMAIN history}
Group(sat) == {i \in DOMAIN history : history[i].sat = sat}

\* build_observation_times: the end of the range counts as well.
ObservationTimes(start, step) ==
  [k \in 1..((Duration \div step) + 1) |-> start + (k - 1) * step]

Abs(x) == IF x < 0 THEN -x ELSE x
Distance(r, t) == Abs(r.epoch - t)
IdOf(r) == IF r.id = None THEN -1 ELSE r.id

\* Tuples of numbers in the order of Python.
Less(a, b) == \E k \in DOMAIN a : a[k] < b[k] /\ \A m \in 1..(k - 1) : a[m] = b[m]
Greatest(S, Key(_)) == CHOOSE i \in S : \A j \in S : ~ Less(Key(i), Key(j))
Least(S, Key(_)) == CHOOSE i \in S : \A j \in S : ~ Less(Key(j), Key(i))

\* _numeric_tiebreak: the place in the file comes last.
Tiebreak(h, i) == <<IdOf(h[i]), i>>

\* Mutant of Eligible: what was measured by then counts.
EligibleByEpoch(h, S, t) == {i \in S : h[i].created # None /\ h[i].epoch <= t - lag}
Eligible(h, S, t) == {i \in S : h[i].created # None /\ h[i].created <= t - lag}

\* _select_causal, None without an eligible record.
\* Mutant of Causal: the nearest epoch comes before the creation date.
CausalNearest(h, S, t) ==
  LET E == Eligible(h, S, t)
      Key(i) == <<-Distance(h[i], t), h[i].created>> \o Tiebreak(h, i)
  IN  IF E = {} THEN None ELSE Greatest(E, Key)
Causal(h, S, t) ==
  LET E == Eligible(h, S, t)
      Key(i) == <<h[i].created, -Distance(h[i], t)>> \o Tiebreak(h, i)
  IN  IF E = {} THEN None ELSE Greatest(E, Key)

\* _select_retrospective; a missing creation date is the oldest.
Infinity == 1000
\* Mutant of Retrospective: the first epoch that is not earlier.
RetrospectiveLatest(h, S, t) ==
  LET Key(i) == <<h[i].epoch, i>> IN Greatest(S, Key)
Retrospective(h, S, t) ==
  LET Created(r) == IF r.created = None THEN Infinity ELSE -r.created
      Key(i) == <<Distance(h[i], t), Created(h[i]), -IdOf(h[i]), -i>>
  IN  Least(S, Key)

\* _bracketing_sensitivity.
Bracket(h, S, t) ==
  LET Before == {i \in S : h[i].epoch <= t}
      After  == {i \in S : h[i].epoch >= t}
      KeyBefore(i) == <<h[i].epoch>> \o Tiebreak(h, i)
      KeyAfter(i)  == <<h[i].epoch, -IdOf(h[i]), -i>>
  IN  [before |-> IF Before = {} THEN None ELSE Greatest(Before, KeyBefore),
       after  |-> IF After = {} THEN None ELSE Least(After, KeyAfter)]

Missing(S) == {i \in S : history[i].created = None}
Stale(i, t) == Distance(history[i], t) > StaleAfter
Fails(i) == history[i].epoch \in Unpropagable

\* The causal selection first; the first stale one ends the loop.
SelectionFlags(c, r, t) ==
  IF c # None /\ Stale(c, t)
    THEN {"stale_selected_element"}
    ELSE (IF c # None /\ Fails(c) THEN {"propagation_error"} ELSE {})
         \cup (IF r # None /\ Stale(r, t) THEN {"stale_selected_element"}
               ELSE IF r # None /\ Fails(r) THEN {"propagation_error"} ELSE {})

Document(sat, t) ==
  LET S == Group(sat)
      c == IF mode = "retrospective" THEN None ELSE Causal(history, S, t)
      r == IF mode = "causal" THEN None ELSE Retrospective(history, S, t)
  IN  [sat |-> sat, t |-> t, causal |-> c, retrospective |-> r, bracket |-> Bracket(history, S, t),
       compared |-> c # None /\ r # None /\ ~ Fails(c) /\ ~ Fails(r),
       flags |-> SelectionFlags(c, r, t)
                 \cup (IF mode # "retrospective" /\ c = None THEN {"causal_element_unavailable"} ELSE {})
                 \cup (IF Missing(S) # {} THEN {"records_missing_creation_date"} ELSE {})]

Init ==
  /\ history \in Histories
  /\ mode \in {"causal", "retrospective", "compare"}
  /\ missingPolicy \in {"exclude", "error"}
  /\ lag \in Lags
  /\ \E start \in Starts, step \in Steps : times = ObservationTimes(start, step)
  /\ documents = <<>> /\ status = "running"

\* One observation; nothing is saved when the policy makes it an error.
Observe ==
  /\ status = "running" /\ Len(documents) < Len(times)
  /\ LET t == times[Len(documents) + 1] IN
       IF mode # "retrospective" /\ missingPolicy = "error" /\ Missing(DOMAIN history) # {}
         THEN status' = "failed" /\ UNCHANGED documents
         ELSE documents' = Append(documents, [sat \in Sats |-> Document(sat, t)])
              /\ UNCHANGED status
  /\ UNCHANGED <<history, times, mode, missingPolicy, lag>>

Save ==
  /\ status = "running" /\ Len(documents) = Len(times)
  /\ status' = "saved"
  /\ UNCHANGED <<history, times, mode, missingPolicy, lag, documents>>

Next == Observe \/ Save
Spec == Init /\ [][Next]_vars

(***************************************************************************)
(* Properties                                                              *)
(***************************************************************************)

All == {documents[k][sat] : k \in DOMAIN documents, sat \in Sats}

\* Later observations never fall back: once a causal element exists it goes on
\* existing, and its creation date never decreases from one time to the next,
\* although ties are resolved by a distance that depends on the time.
CausalAdvances ==
  \A d, e \in All : d.sat = e.sat /\ d.t <= e.t /\ d.causal # None =>
    e.causal # None /\ history[e.causal].created >= history[d.causal].created

\* An online controller that holds the records published by then and no other,
\* in whatever order they were stored, selects the same record; records that
\* agree in creation date, distance and identifiers are left to the order.
Arranged(S) == {h \in [1..Cardinality(S) -> S] : \A i, j \in DOMAIN h : i # j => h[i] # h[j]}
Distinguished(S, t) ==
  \A i, j \in S : i # j => \/ history[i].created # history[j].created
                           \/ Distance(history[i], t) # Distance(history[j], t)
                           \/ IdOf(history[i]) # IdOf(history[j])
OnlineView ==
  \A d \in All :
    LET S == Group(d.sat)
        Published == {i \in S : history[i].created # None /\ history[i].created + lag <= d.t}
    IN  mode # "retrospective" /\ Distinguished(Published, d.t) =>
          \A order \in Arranged(Published) :
            LET known == [k \in DOMAIN order |-> history[order[k]]]
                own == Causal(known, DOMAIN known, d.t)
            IN  d.causal = IF own = None THEN None ELSE order[own]

\* The retrospective element is never farther than the causal one, and its
\* epoch is one of the two the sensitivity indicator brackets the time with.
NearestIsABracket ==
  \A d \in All : d.retrospective # None =>
    LET r == history[d.retrospective] IN
    /\ d.causal # None => Distance(r, d.t) <= Distance(history[d.causal], d.t)
    /\ r.epoch \in {history[i].epoch : i \in {d.bracket.before, d.bracket.after} \ {None}}
=============================================================================
