----------------------------- MODULE ExecutionLog -----------------------------
(***************************************************************************)
(* The JSONL execution log a replay writes and the check the repeated-lab  *)
(* summary makes of it before it measures the skew between the two         *)
(* directions (repeated_lab.py).                                           *)
(***************************************************************************)
EXTENDS Integers, Sequences

\* One line of the log.  id is 0 where the code writes null.
LogRecord(action, id, direction, planned, condition) ==
  [action |-> action, id |-> id, direction |-> direction,
   planned |-> planned, parameters |-> condition]

\* Mutant of PairKey: the action is left out of the key.
PairKeyNoAction(r) == <<r.id, r.planned>>

\* The key under which _pair_skews files a record.
PairKey(r) == <<r.action, r.id, r.planned>>

\* The same direction applied twice under one key.
DuplicateApplication(log) ==
  \E i, j \in 1..Len(log) :
    /\ i < j
    /\ PairKey(log[i]) = PairKey(log[j])
    /\ log[i].direction = log[j].direction

\* A key with one direction only.
IncompletePair(log) ==
  \E i \in 1..Len(log) :
    \A j \in 1..Len(log) :
      PairKey(log[i]) = PairKey(log[j]) => log[i].direction = log[j].direction

\* _load_execution refuses an empty log, _pair_skews the other two.  That the
\* two directions name different devices is fixed by DirectionTargets.
SummaryAccepts(log) ==
  /\ log # <<>>
  /\ ~ DuplicateApplication(log)
  /\ ~ IncompletePair(log)
=============================================================================
