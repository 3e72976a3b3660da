-------------------------- MODULE LegacySeriesReplay --------------------------
(***************************************************************************)
(* tc_csv_replay.py, the single-direction time-series replay: one netem    *)
(* for every row of the file, in the order of their seconds.  SIGINT and   *)
(* SIGTERM set a flag that is looked at once in a row, before the sleep.   *)
(***************************************************************************)
EXTENDS Integers, Sequences, FiniteSets

CONSTANTS Files, MaxClock

VARIABLES
  file,       \* the rows, as seconds, in the order of the file
  preserve,   \* --preserve-existing
  setupOnly,  \* --setup-only
  rows, pc, next, stop, clock, qdisc,
  mark        \* history: `next` when the signal arrived

options == <<file, preserve, setupOnly>>
vars == <<options, rows, pc, next, stop, clock, qdisc, mark>>

NoQdisc == 0
Foreign == -1

\* Mutant of Sortings: the rows as they stand in the file.
AsWritten(s) == {s}
\* rows.sort(key=sec): the rows, which differ by their seconds only, in order.
Sortings(s) ==
  {r \in [DOMAIN s -> {s[k] : k \in DOMAIN s}] :
     /\ \A i, j \in DOMAIN s : i < j => r[i] <= r[j]
     /\ \A k \in DOMAIN s :
          Cardinality({i \in DOMAIN s : r[i] = s[k]}) = Cardinality({i \in DOMAIN s : s[i] = s[k]})}

Read ==
  /\ pc = "read"
  /\ IF file = <<>>
       THEN pc' = "failed" /\ UNCHANGED rows
       ELSE pc' = (IF preserve THEN "row" ELSE "clear") /\ rows' \in Sortings(file)
  /\ UNCHANGED <<options, next, stop, clock, qdisc, mark>>

\* The result of the deletion is not looked at.
Clear ==
  /\ pc = "clear"
  /\ qdisc' \in {NoQdisc, qdisc}
  /\ pc' = "row"
  /\ UNCHANGED <<options, rows, next, stop, clock, mark>>

\* Mutant of Row: the flag is not looked at.
RowDeaf ==
  /\ pc = "row"
  /\ pc' = IF next > Len(rows) THEN "done" ELSE "sleep"
  /\ UNCHANGED <<options, rows, next, stop, clock, qdisc, mark>>
Row ==
  /\ pc = "row"
  /\ pc' = IF next > Len(rows) \/ stop THEN "done" ELSE "sleep"
  /\ UNCHANGED <<options, rows, next, stop, clock, qdisc, mark>>

\* A signal does not cut the sleep short: the row it waits for is still set.
Sleep ==
  /\ pc = "sleep"
  /\ clock >= rows[next]
  /\ pc' = "apply"
  /\ UNCHANGED <<options, rows, next, stop, clock, qdisc, mark>>

\* Mutant of Apply: a refused row is tried again.
ApplyUntilAccepted ==
  /\ pc = "apply"
  /\ \/ qdisc' = next /\ next' = next + 1 /\ pc' = IF setupOnly THEN "done" ELSE "row"
     \/ pc' = "row" /\ UNCHANGED <<qdisc, next>>
  /\ UNCHANGED <<options, rows, stop, clock, mark>>
Apply ==
  /\ pc = "apply"
  /\ \/ qdisc' = next /\ next' = next + 1 /\ pc' = IF setupOnly THEN "done" ELSE "row"
     \/ pc' = "failed" /\ UNCHANGED <<qdisc, next>>
  /\ UNCHANGED <<options, rows, stop, clock, mark>>

Ended == pc \in {"done", "failed"}

Signal ==
  /\ ~ Ended /\ ~ stop
  /\ stop' = TRUE /\ mark' = next
  /\ UNCHANGED <<options, rows, pc, next, clock, qdisc>>

Tick ==
  /\ pc \in {"row", "sleep", "apply"} /\ clock < MaxClock
  /\ clock' = clock + 1
  /\ UNCHANGED <<options, rows, pc, next, stop, qdisc, mark>>

Init ==
  /\ file \in Files /\ preserve \in BOOLEAN /\ setupOnly \in BOOLEAN
  /\ rows = <<>> /\ pc = "read" /\ next = 1 /\ stop = FALSE /\ mark = 0
  /\ clock = 0 /\ qdisc \in {NoQdisc, Foreign}

Process == Read \/ Clear \/ Row \/ Sleep \/ Apply
Next == Process \/ Signal \/ Tick \/ (Ended /\ UNCHANGED vars)
Spec == Init /\ [][Next]_vars /\ WF_vars(Process) /\ WF_vars(Tick)

(***************************************************************************)
(* Properties                                                              *)
(***************************************************************************)

\* After a signal at most the row that was slept for is still set.
StopIsPrompt == stop => next <= mark + 1

\* Between two rows the device carries the row whose second came last, whatever
\* the order in the file; no row is skipped and none is early.
LatestRowShown ==
  pc = "row" /\ next > 1 =>
    /\ qdisc = next - 1
    /\ \A k \in 1..(next - 1) : rows[k] <= clock
    /\ \A k \in next..Len(rows) : rows[k] >= rows[next - 1]

\* The replay ends, with or without a signal.
Ends == <>Ended
=============================================================================
