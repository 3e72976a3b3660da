---------------------------- MODULE MCRepeatedLab ----------------------------
(* Values for the runs of RepeatedLab.                                      *)
EXTENDS RepeatedLab, TLC

CONSTANTS a, b   \* two evaluations, a before b in no order

NotKept == {FALSE}
MayKeep == BOOLEAN

\* Nothing tells one evaluation from the other before it begins.
Alike == Permutations(Evaluations)
=============================================================================
