--------------------------- MODULE SeriesComparison ---------------------------
(***************************************************************************)
(* compare_measure_vs_replay.py on one pair of series: each is averaged in *)
(* bins of its own, then one pointer into the replay follows the measured  *)
(* bins and pairs those that are near enough, and the error is the mean    *)
(* over the pairs.  Times are integers and the size of a bin is even; an   *)
(* average is kept as a sum and a number.                                  *)
(***************************************************************************)
EXTENDS Integers, Sequences, FiniteSets, Functions

CONSTANTS
  Series,       \* sequences of points [t, v], t >= 0; the sort of each
                \* is in the sets of places that follow
  BinSize, Tolerance

VARIABLES
  measured, replay,
  pc,
  left,         \* the edge of the next bin
  bins,         \* of the measured series and of the replay, [t, sum, n]
  i, j,         \* the measured bin to be paired, and the replay's pointer
  pairs         \* [a, b]: places in the two sequences of bins

vars == <<measured, replay, pc, left, bins, i, j, pairs>>

Points(s) == IF s = "measured" THEN measured ELSE replay
InBin(P) == {k \in DOMAIN P : left <= P[k].t /\ P[k].t < left + BinSize}
\* Mutant of MoreBins: the bin that begins at the last point is left out.
MoreBinsInside(P) == \E k \in DOMAIN P : left < P[k].t
MoreBins(P) == \E k \in DOMAIN P : left <= P[k].t

BinOf(P, K) ==
  [t |-> left + (BinSize \div 2), n |-> Cardinality(K), sum |-> SumFunction([k \in K |-> P[k].v])]

\* aggregate_series_mean, a bin at a time; the last edge is that of the last
\* point, and the second series starts again at zero.
Aggregate(s, next) ==
  /\ pc = s
  /\ LET P == Points(s) IN
     IF MoreBins(P)
       THEN /\ bins' = IF InBin(P) = {} THEN bins ELSE [bins EXCEPT ![s] = Append(@, BinOf(P, InBin(P)))]
            /\ left' = left + BinSize /\ UNCHANGED pc
       ELSE pc' = next /\ left' = 0 /\ UNCHANGED bins
  /\ UNCHANGED <<measured, replay, i, j, pairs>>

A == bins["measured"]
B == bins["replay"]
Off(a, b) == IF A[a].t < B[b].t THEN B[b].t - A[a].t ELSE A[a].t - B[b].t

\* Mutant of NextIsNearer: the pointer never passes the measured time.
NextIsPast == j < Len(B) /\ B[j + 1].t <= A[i].t
NextIsNearer == j < Len(B) /\ Off(i, j + 1) <= Off(i, j)

\* align_by_nearest; nothing is aligned with an empty series.
Advance ==
  /\ pc = "align" /\ B # <<>> /\ i <= Len(A) /\ NextIsNearer
  /\ j' = j + 1
  /\ UNCHANGED <<measured, replay, pc, left, bins, i, pairs>>

Pair ==
  /\ pc = "align" /\ B # <<>> /\ i <= Len(A) /\ ~ NextIsNearer
  /\ pairs' = IF Off(i, j) <= Tolerance THEN Append(pairs, [a |-> i, b |-> j]) ELSE pairs
  /\ i' = i + 1
  /\ UNCHANGED <<measured, replay, pc, left, bins, j>>

Compare ==
  /\ pc = "align" /\ (B = <<>> \/ i > Len(A))
  /\ pc' = "compared"
  /\ UNCHANGED <<measured, replay, left, bins, i, j, pairs>>

Init ==
  /\ measured \in Series /\ replay \in Series
  /\ pc = "measured" /\ left = 0 /\ i = 1 /\ j = 1
  /\ bins = [s \in {"measured", "replay"} |-> <<>>] /\ pairs = <<>>

Next == Aggregate("measured", "replay") \/ Aggregate("replay", "align") \/ Advance \/ Pair \/ Compare
Spec == Init /\ [][Next]_vars

(***************************************************************************)
(* Properties                                                              *)
(***************************************************************************)

\* One pass with a pointer that never returns finds what a search from the
\* start would: a measured bin has a pair if and only if some bin of the replay
\* is within the tolerance, and the pair is a nearest one.
PairsAreNearest ==
  /\ \A k \in DOMAIN pairs : \A b \in DOMAIN B : Off(pairs[k].a, pairs[k].b) <= Off(pairs[k].a, b)
  /\ pc = "compared" => {pairs[k].a : k \in DOMAIN pairs}
                        = {a \in DOMAIN A : \E b \in DOMAIN B : Off(a, b) <= Tolerance}

\* Every point of both series is in one bin and only one, the one on the last
\* edge as well: the averages neither lose a value nor count one twice.
EveryPointCounts ==
  pc = "align" => \A s \in {"measured", "replay"} :
    /\ SumFunction([k \in DOMAIN bins[s] |-> bins[s][k].n]) = Len(Points(s))
    /\ SumFunction([k \in DOMAIN bins[s] |-> bins[s][k].sum])
         = SumFunction([k \in DOMAIN Points(s) |-> Points(s)[k].v])
=============================================================================
