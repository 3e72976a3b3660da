------------------------ MODULE DirectionalConversion ------------------------
(***************************************************************************)
(* directional_profile.py: a condition of a path split into one condition  *)
(* for each direction, and the CSV that holds such pairs.                  *)
(*                                                                         *)
(* A condition keeps one field of each kind the conversion treats in its   *)
(* own way: a delay (jitter is split the same way, under its own policy),  *)
(* a loss, a rate that may be absent, and reordering, which is not split.  *)
(* A loss is given by the packets that arrive, in quarters; a share is in  *)
(* halves, so that splitting a survival needs square roots only.           *)
(***************************************************************************)
EXTENDS Integers, Sequences

CONSTANT None   \* no value

\* LinkCondition.validate: nothing negative, percentages at most 100.
ValidCondition(c) ==
  /\ c.delay >= 0
  /\ c.arrive \in 0..4
  /\ c.rate # None => c.rate >= 0
  /\ c.reorder \in 0..100

\* ConversionPolicy.validate; every command does it first.
ValidPolicy(p) ==
  /\ p.delay \in {"split", "mirror", "forward-only"}
  /\ p.loss \in {"equivalent", "mirror", "forward-only"}
  /\ p.rate \in {"mirror", "forward-only"}
  /\ p.share \in 0..2
  /\ p.reverseRate # None => p.reverseRate >= 0

SplitLinear(value, policy, share) ==
  CASE policy = "mirror"       -> <<value, value>>
    [] policy = "forward-only" -> <<value, 0>>
    [] OTHER                   -> <<(value * share) \div 2, (value * (2 - share)) \div 2>>

\* survival ** (share / 2), in quarters.
Power(survival, share) ==
  CASE share = 0 -> 4
    [] share = 1 -> CHOOSE r \in 0..4 : r * r = 4 * survival
    [] share = 2 -> survival

\* Mutant of SplitLoss: the loss is halved instead of its survival rooted.
SplitLossLinearly(arrive, policy, share) ==
  LET lost == SplitLinear(4 - arrive, IF policy = "equivalent" THEN "split" ELSE policy, share)
  IN  <<4 - lost[1], 4 - lost[2]>>
SplitLoss(arrive, policy, share) ==
  CASE policy = "mirror"       -> <<arrive, arrive>>
    [] policy = "forward-only" -> <<arrive, 4>>
    [] policy = "equivalent" /\ arrive = 0 -> <<0, 0>>
    [] OTHER                   -> <<Power(arrive, share), Power(arrive, 2 - share)>>

EndToEnd(forward, reverse) == (forward * reverse) \div 4

Directional(c, p) ==
  LET delays == SplitLinear(c.delay, p.delay, p.share)
      losses == SplitLoss(c.arrive, p.loss, p.share)
  IN  [forward |-> [delay |-> delays[1], arrive |-> losses[1], rate |-> c.rate, reorder |-> c.reorder],
       reverse |-> [delay |-> delays[2], arrive |-> losses[2],
                    rate |-> IF p.rate = "mirror" THEN c.rate ELSE p.reverseRate, reorder |-> 0]]

(***************************************************************************)
(* The CSV: a row gives the condition of both directions, or one for the   *)
(* path.  A rate left blank is read as a default.                          *)
(***************************************************************************)

Filled(c, default) == IF c.rate = None THEN [c EXCEPT !.rate = default] ELSE c

RowConverts(row) ==
  /\ row.sec >= 0
  /\ IF row.forward = None /\ row.reverse = None
       THEN ValidCondition(row.path)
       ELSE /\ row.forward # None /\ ValidCondition(row.forward)
            /\ row.reverse # None /\ ValidCondition(row.reverse)

RowState(row, p, default) ==
  LET pair == IF row.forward = None
                THEN Directional(Filled(row.path, default), p)
                ELSE [forward |-> Filled(row.forward, default),
                      reverse |-> Filled(row.reverse, p.reverseRate)]
  IN  [sec |-> row.sec, forward |-> pair.forward, reverse |-> pair.reverse]

\* list.sort by sec, which keeps the order of equal keys.
Precedes(states, a, b) ==
  states[a].sec < states[b].sec \/ (states[a].sec = states[b].sec /\ a < b)
SortedBySec(states) ==
  {[i \in DOMAIN states |-> states[order[i]]] :
     order \in {o \in [DOMAIN states -> DOMAIN states] :
                 \A i, j \in DOMAIN states : i < j => Precedes(states, o[i], o[j])}}

CsvConverts(rows) == rows # <<>> /\ \A i \in DOMAIN rows : RowConverts(rows[i])

\* A set of one: the states in their only order.
ReadCsv(rows, p, default) == SortedBySec([i \in DOMAIN rows |-> RowState(rows[i], p, default)])

\* Mutant of WriteCsv: a reverse rate of zero is written as a blank.
WriteCsvBlankZero(states) ==
  [i \in DOMAIN states |->
    [sec |-> states[i].sec, forward |-> states[i].forward, path |-> None,
     reverse |-> [states[i].reverse EXCEPT !.rate = IF @ = 0 THEN None ELSE @]]]
WriteCsv(states) ==
  [i \in DOMAIN states |->
    [sec |-> states[i].sec, forward |-> states[i].forward, reverse |-> states[i].reverse, path |-> None]]

=============================================================================
