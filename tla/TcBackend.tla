------------------------------ MODULE TcBackend ------------------------------
(***************************************************************************)
(* The kernel state a bidirectional replay controls, and the ip/tc         *)
(* commands src/leo_replay/tc_backend.py runs against it.                  *)
(*                                                                         *)
(* A root qdisc is abstracted to the condition it carries: which entry of  *)
(* the profile it was built from.  The kernel itself is external: only     *)
(* what the commands of the program do to it is modelled.  The two root    *)
(* qdiscs are indexed by direction; in ifb mode the "reverse" one sits on  *)
(* the IFB device and disappears with that device.                         *)
(***************************************************************************)
EXTENDS Integers

CONSTANT MaxFaults   \* bound on the commands the kernel may refuse

ASSUME MaxFaultsAssumption == MaxFaults \in Nat

VARIABLES
  qdisc,      \* direction -> the condition of its root qdisc
  ifb,        \* the IFB link: "absent", "down" or "up"
  ingress,    \* the physical device has an ingress qdisc
  redirect,   \* that ingress qdisc redirects to the IFB device
  faults,     \* commands refused so far
  silent      \* the refused ones nobody checked (check=False)

kernel == <<qdisc, ifb, ingress, redirect>>
kernelVars == <<qdisc, ifb, ingress, redirect, faults, silent>>

Directions == {"forward", "reverse"}
Links      == {"absent", "down", "up"}

\* Conditions: entry k > 0 of the profile, its baseline, a qdisc of somebody
\* else, or none at all.
NoQdisc      == -2
ForeignQdisc == -1
Baseline     == 0

KernelTypeOK ==
  /\ qdisc \in [Directions -> Int]
  /\ ifb \in Links
  /\ ingress \in BOOLEAN
  /\ redirect \in BOOLEAN
  /\ faults \in 0..MaxFaults
  /\ silent \in 0..faults

-----------------------------------------------------------------------------
(* The two ways a command fails.  A checked one raises TcBackendError in    *)
(* the caller, an unchecked one is forgotten.                               *)

Refused ==
  /\ faults < MaxFaults
  /\ faults' = faults + 1
  /\ UNCHANGED <<kernel, silent>>

RefusedSilently ==
  /\ faults < MaxFaults
  /\ faults' = faults + 1
  /\ silent' = silent + 1
  /\ UNCHANGED kernel

Accepted == UNCHANGED <<faults, silent>>

-----------------------------------------------------------------------------
(* Effects of the commands that succeed.                                    *)

\* tc qdisc replace dev <device> root netem ...
ReplaceRoot(d, condition) ==
  /\ qdisc' = [qdisc EXCEPT ![d] = condition]
  /\ Accepted
  /\ UNCHANGED <<ifb, ingress, redirect>>

\* tc qdisc del dev <device> root, with check=False: deleting a qdisc that
\* is not there is refused by the kernel too, and changes nothing.
ClearRoot(d) ==
  \/ /\ qdisc' = [qdisc EXCEPT ![d] = NoQdisc]
     /\ Accepted
     /\ UNCHANGED <<ifb, ingress, redirect>>
  \/ RefusedSilently

\* ip link show || ip link add: modprobe's own result is ignored.
EnsureIfbLink ==
  /\ ifb' = IF ifb = "absent" THEN "down" ELSE ifb
  /\ Accepted
  /\ UNCHANGED <<qdisc, ingress, redirect>>

SetIfbUp ==
  /\ ifb' = "up"
  /\ Accepted
  /\ UNCHANGED <<qdisc, ingress, redirect>>

ReplaceIngress ==
  /\ ingress' = TRUE
  /\ Accepted
  /\ UNCHANGED <<qdisc, ifb, redirect>>

ReplaceRedirectFilter ==
  /\ redirect' = TRUE
  /\ Accepted
  /\ UNCHANGED <<qdisc, ifb, ingress>>

\* tc qdisc del dev <physical> ingress: the filters attached to it go too.
ClearIngress ==
  \/ /\ ingress' = FALSE
     /\ redirect' = FALSE
     /\ Accepted
     /\ UNCHANGED <<qdisc, ifb>>
  \/ RefusedSilently

SetIfbDown ==
  \/ /\ ifb' = "down"
     /\ Accepted
     /\ UNCHANGED <<qdisc, ingress, redirect>>
  \/ RefusedSilently

\* ip link delete: the device's root qdisc is destroyed with it.
DeleteIfbLink ==
  \/ /\ ifb' = "absent"
     /\ qdisc' = [qdisc EXCEPT !["reverse"] = NoQdisc]
     /\ Accepted
     /\ UNCHANGED <<ingress, redirect>>
  \/ RefusedSilently
=============================================================================
