--------------------------- MODULE MCFieldReplays ---------------------------
(* Profiles, files and settings for the run of FieldReplays.                *)
EXTENDS FieldReplays

CONSTANTS MaxEvents, MaxSec   \* bounds of the profiles below

\* Every sorted profile of up to MaxEvents events within MaxSec seconds.
Windows == {e \in [start : 0..MaxSec, end : 0..MaxSec] : e.start < e.end}
AllProfiles ==
  {p \in UNION {[1..n -> Windows] : n \in 1..MaxEvents} :
     \A a, b \in DOMAIN p : a <= b => p[a].start <= p[b].start}
SomeOffsets == {-1, 0}

\* Files of up to three rows within two seconds, in any order.
SomeFiles == UNION {[1..n -> 0..2] : n \in 0..3}
=============================================================================
