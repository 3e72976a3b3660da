--------------------------- MODULE SnapshotRegister ---------------------------
(***************************************************************************)
(* What an orbit snapshot directory promises: it holds the snapshot of one *)
(* fetch or none, every snapshot is put there at most once, and the next   *)
(* one goes in only when the one before is out.                            *)
(***************************************************************************)
CONSTANTS
  Fetches,
  Nothing    \* the value of an empty register, not a fetch

VARIABLES value, used   \* the snapshot held, the snapshots put so far

Init == value = Nothing /\ used = {}

Put(f) ==
  /\ value = Nothing
  /\ f \notin used
  /\ value' = f
  /\ used' = used \cup {f}

Withdraw ==
  /\ value # Nothing
  /\ value' = Nothing
  /\ UNCHANGED used

Next == Withdraw \/ \E f \in Fetches : Put(f)

Spec == Init /\ [][Next]_<<value, used>>
=============================================================================
