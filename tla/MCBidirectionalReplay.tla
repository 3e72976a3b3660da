------------------------ MODULE MCBidirectionalReplay ------------------------
(* Command lines and profiles for the runs of BidirectionalReplay.          *)
EXTENDS BidirectionalReplay

CONSTANTS MaxEntries, MaxSec   \* bounds of the profiles below

\* Every sorted profile of up to MaxEntries entries within MaxSec seconds:
\* gaps, adjacent, overlapping, nested and simultaneous entries.
Entries == {e \in [start : 0..MaxSec, end : 0..MaxSec] : e.start < e.end}

AllProfiles ==
  {p \in UNION {[1..n -> Entries] : n \in 1..MaxEntries} : WellFormed(p)}

OneEntry == {<<[start |-> 0, end |-> 1]>>}

CommandLine(mode, direction, offset, restore, setup, preserve, cleanup, delete) ==
  [mode |-> mode, direction |-> direction, offset |-> offset,
   restore |-> restore, setup_only |-> setup, preserve |-> preserve,
   cleanup |-> cleanup, delete |-> delete]

\* The schedule: the options that change what is applied and when.
EventOptions ==
  {CommandLine("event", "dual-egress", offset, restore, FALSE, TRUE, FALSE, FALSE) :
     offset \in {-1, 1}, restore \in BOOLEAN}

\* The devices: the options that change how they are set up and left.
TargetOptions ==
  {CommandLine("event", direction, 0, FALSE, FALSE, preserve, cleanup, delete) :
     direction \in {"dual-egress", "ifb"},
     preserve \in BOOLEAN, cleanup \in BOOLEAN, delete \in BOOLEAN}

SeriesOptions ==
  {CommandLine("timeseries", "dual-egress", 0, FALSE, setup, TRUE, cleanup, FALSE) :
     setup \in BOOLEAN, cleanup \in BOOLEAN}

\* Events and series (of which only the start counts), for what must happen.
StopOptions ==
  SeriesOptions \cup
  {CommandLine("event", "dual-egress", 0, restore, FALSE, TRUE, FALSE, FALSE) :
     restore \in BOOLEAN}
=============================================================================
