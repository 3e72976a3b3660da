--------------------------- MODULE MCOrbitSnapshot ---------------------------
(* Command lines for the runs of OrbitSnapshot.                             *)
EXTENDS OrbitSnapshot, TLC

CONSTANTS f1, f2, f3, gp, other, history

AllCommands == Command

\* Concurrent processes: the flags that decide whether a directory is replaced.
ForceCommands ==
  {c \in Command : c.request \in {gp, other} /\ ~ c.override}

\* Any process may run any command: the fetches are interchangeable.
Symmetry == Permutations(Fetches)
=============================================================================
