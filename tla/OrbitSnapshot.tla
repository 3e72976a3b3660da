---------------------------- MODULE OrbitSnapshot ----------------------------
(***************************************************************************)
(* Fetches of orbit elements into one snapshot directory:                  *)
(* fetch_celestrak_snapshot and fetch_space_track_snapshot                 *)
(* (orbit/acquisition.py) with write_snapshot, verify_snapshot and the     *)
(* manifest readers (orbit/snapshot.py).                                   *)
(*                                                                         *)
(* Every process runs one fetch.  A step is one look at the directory, one *)
(* unlink of rmtree or one rename; processes interleave, fail and are      *)
(* killed between them.  The provider is external: it answers or it does   *)
(* not.  A file is identified by the fetch that wrote it, so the hash      *)
(* checks of verify_snapshot compare owners.                               *)
(***************************************************************************)
EXTENDS Integers, FiniteSets

CONSTANTS
  Fetches,      \* the processes; each runs one fetch
  Requests,     \* fingerprints of requests
  Celestrak,    \* the requests that go to CelesTrak, the others to Space-Track
  Commands,     \* command lines: see Command
  Nobody,       \* the owner of a file that is not there
  Refresh,      \* CELESTRAK_MINIMUM_REFRESH_SEC
  MaxRunning,   \* bound on the processes that run at once
  MaxClock      \* bound on the clock

Command == [request : Requests, force : BOOLEAN, override : BOOLEAN]

ASSUME CommandsAssumption == Commands \subseteq Command
ASSUME NobodyAssumption   == Nobody \notin Fetches
ASSUME BoundsAssumption   == Refresh \in Nat /\ MaxRunning \in Nat /\ MaxClock \in Nat

VARIABLES
  home,        \* the output directory: the fetch that renamed it into place
  dir,         \* its files: the fetch that wrote each
  temp,        \* the temporary directory of each process
  pc, cmd,
  manifest,    \* the owner of the manifest a process read last
  opened,      \* the directory rmtree works on
  listing,     \* the files rmtree still has to unlink there
  retrieved,   \* retrieved_at_utc in the manifest of each fetch
  clock

directory == <<home, dir>>
local     == <<pc, cmd, manifest, opened, listing>>
removal   == <<opened, listing>>
vars      == <<directory, temp, local, retrieved, clock>>

\* The manifest, and everything it lists: request, bodies, headers.
Files  == {"manifest", "data"}
Owners == Fetches \cup {Nobody}

Ended   == {"published", "reused", "refused", "failed", "killed"}
Points  == {"idle", "look", "exists", "load", "verify", "verify_data", "age",
            "download", "write", "fill", "swap", "remove", "rename"} \cup Ended
Present == home # Nobody
Running == {f \in Fetches : pc[f] \notin Ended \cup {"idle"}}

Asks(f) == cmd[f].request

\* The manifest.json in the directory: its owner, or Nobody.
Manifest == IF Present THEN dir["manifest"] ELSE Nobody

At(f, point) == pc[f] = point
Goto(f, point) == pc' = [pc EXCEPT ![f] = point]

\* Mutant of Fail: the temporary directory is left to somebody else.
FailUntidy(f) == Goto(f, "failed") /\ UNCHANGED temp

\* An exception inside write_snapshot removes the temporary directory.
Fail(f) ==
  /\ Goto(f, "failed")
  /\ temp' = [temp EXCEPT ![f] = "none"]

-----------------------------------------------------------------------------
(* The decision: reuse, refuse or download.                                 *)

Start(f) ==
  /\ At(f, "idle")
  /\ Cardinality(Running) < MaxRunning
  /\ Goto(f, "look")
  /\ UNCHANGED <<directory, temp, cmd, manifest, removal, retrieved, clock>>

\* existing_snapshot_matches: no manifest is no match, not an error.
Matches(f) == Manifest # Nobody /\ cmd[Manifest].request = Asks(f)

Look(f) ==
  /\ At(f, "look")
  /\ Goto(f, IF ~ Matches(f) THEN "exists"
             ELSE IF ~ cmd[f].force THEN "load"
             ELSE IF Asks(f) \in Celestrak THEN "age"
             ELSE "download")
  /\ UNCHANGED <<directory, temp, cmd, manifest, removal, retrieved, clock>>

\* The elif: a directory with another request, or without a manifest.
LookAgain(f) ==
  /\ At(f, "exists")
  /\ Goto(f, IF Present /\ ~ cmd[f].force THEN "refused" ELSE "download")
  /\ UNCHANGED <<directory, temp, cmd, manifest, removal, retrieved, clock>>

\* Mutant of LoadManifest: a matching manifest is taken for the snapshot.
LoadUnverified(f) ==
  /\ At(f, "load")
  /\ Goto(f, IF Manifest = Nobody THEN "failed" ELSE "reused")
  /\ UNCHANGED <<directory, temp, cmd, manifest, removal, retrieved, clock>>

\* load_manifest, a second read of the same file.
LoadManifest(f) ==
  /\ At(f, "load")
  /\ Goto(f, IF Manifest = Nobody THEN "failed" ELSE "verify")
  /\ UNCHANGED <<directory, temp, cmd, manifest, removal, retrieved, clock>>

\* verify_snapshot: the manifest once more ...
VerifyManifest(f) ==
  /\ At(f, "verify")
  /\ Goto(f, IF Manifest = Nobody THEN "failed" ELSE "verify_data")
  /\ manifest' = [manifest EXCEPT ![f] = Manifest]
  /\ UNCHANGED <<directory, temp, cmd, removal, retrieved, clock>>

\* ... then every file against its hash.
DataMatches(f) == Present /\ dir["data"] = manifest[f]

VerifyData(f) ==
  /\ At(f, "verify_data")
  /\ Goto(f, IF DataMatches(f) THEN "reused" ELSE "failed")
  /\ UNCHANGED <<directory, temp, cmd, manifest, removal, retrieved, clock>>

\* Mutant of TooYoung: the override flag is taken for the force flag.
TooYoungUnlessForced(f) ==
  clock - retrieved[Manifest] < Refresh /\ ~ cmd[f].force

TooYoung(f) == clock - retrieved[Manifest] < Refresh /\ ~ cmd[f].override

\* snapshot_age_seconds against the refresh policy of CelesTrak.
CheckAge(f) ==
  /\ At(f, "age")
  /\ Goto(f, IF Manifest = Nobody THEN "failed"
             ELSE IF TooYoung(f) THEN "refused" ELSE "download")
  /\ UNCHANGED <<directory, temp, cmd, manifest, removal, retrieved, clock>>

\* The whole exchange with the provider, login and every batch: one answer
\* that is not a 200 fails the fetch, and nothing is stored before the last.
Download(f) ==
  /\ At(f, "download")
  /\ Goto(f, "write") \/ Goto(f, "failed")
  /\ UNCHANGED <<directory, temp, cmd, manifest, removal, retrieved, clock>>

-----------------------------------------------------------------------------
(* write_snapshot.                                                          *)

\* Mutant of BeginWrite: the retrieval time is rounded up.
BeginWriteRounded(f) ==
  /\ At(f, "write")
  /\ \/ /\ ~ (Present /\ ~ cmd[f].force)
        /\ retrieved' = [retrieved EXCEPT ![f] = clock + 1]
        /\ temp' = [temp EXCEPT ![f] = "partial"]
        /\ Goto(f, "fill")
     \/ Goto(f, "failed") /\ UNCHANGED <<retrieved, temp>>
  /\ UNCHANGED <<directory, cmd, manifest, removal, clock>>

\* The directory is looked at again, the parts are merged (a malformed body
\* raises), the retrieval time is taken and the temporary directory made.
BeginWrite(f) ==
  /\ At(f, "write")
  /\ \/ /\ ~ (Present /\ ~ cmd[f].force)
        /\ retrieved' = [retrieved EXCEPT ![f] = clock]
        /\ temp' = [temp EXCEPT ![f] = "partial"]
        /\ Goto(f, "fill")
     \/ Goto(f, "failed") /\ UNCHANGED <<retrieved, temp>>
  /\ UNCHANGED <<directory, cmd, manifest, removal, clock>>

\* Mutant of FillTemp: the old snapshot goes before the new one is written.
FillAfterRemoval(f) ==
  /\ At(f, "fill")
  /\ home' = Nobody /\ dir' = [x \in Files |-> Nobody]
  /\ \/ temp' = [temp EXCEPT ![f] = "whole"] /\ Goto(f, "swap")
     \/ Fail(f)
  /\ UNCHANGED <<cmd, manifest, removal, retrieved, clock>>

\* Every file, the manifest last, and verify_snapshot on them; a full disk raises half way.
FillTemp(f) ==
  /\ At(f, "fill")
  /\ \/ temp' = [temp EXCEPT ![f] = "whole"] /\ Goto(f, "swap")
     \/ Fail(f)
  /\ UNCHANGED <<directory, cmd, manifest, removal, retrieved, clock>>

\* if output_dir.exists(), whatever --force says: rmtree opens and lists it.
Swap(f) ==
  /\ At(f, "swap")
  /\ IF Present
       THEN /\ opened' = [opened EXCEPT ![f] = home]
            /\ listing' = [listing EXCEPT ![f] = {x \in Files : dir[x] # Nobody}]
            /\ Goto(f, "remove")
       ELSE Goto(f, "rename") /\ UNCHANGED removal
  /\ UNCHANGED <<directory, temp, cmd, manifest, retrieved, clock>>

\* rmtree unlinks what it listed, in any order.  A file that another process
\* unlinked first is an error, or is passed over by newer versions of Python.
Unlink(f) ==
  /\ At(f, "remove")
  /\ \E x \in listing[f] :
       IF home = opened[f] /\ dir[x] # Nobody
         THEN /\ dir' = [dir EXCEPT ![x] = Nobody]
              /\ listing' = [listing EXCEPT ![f] = @ \ {x}]
              /\ UNCHANGED <<pc, temp>>
         ELSE /\ \/ Fail(f) /\ UNCHANGED listing
                 \/ /\ listing' = [listing EXCEPT ![f] = @ \ {x}]
                    /\ UNCHANGED <<pc, temp>>
              /\ UNCHANGED dir
  /\ UNCHANGED <<home, cmd, manifest, opened, retrieved, clock>>

Empty == \A x \in Files : dir[x] = Nobody

\* The directory itself goes last, by name; one that is gone, or filled again
\* by somebody else's rename, is an error.
RemoveDirectory(f) ==
  /\ At(f, "remove") /\ listing[f] = {}
  /\ \/ /\ Present /\ Empty
        /\ home' = Nobody
        /\ Goto(f, "rename")
        /\ UNCHANGED temp
     \/ ~ (Present /\ Empty) /\ Fail(f) /\ UNCHANGED home
  /\ UNCHANGED <<dir, cmd, manifest, removal, retrieved, clock>>

\* Mutant of Rename: moves the files one by one into what is there.
MoveInto(f) ==
  /\ At(f, "rename")
  /\ home' = f
  /\ dir' = [x \in Files |-> IF dir[x] = Nobody THEN f ELSE dir[x]]
  /\ temp' = [temp EXCEPT ![f] = "none"]
  /\ Goto(f, "published")
  /\ UNCHANGED <<cmd, manifest, removal, retrieved, clock>>

\* Mutant of Rename: a directory that is there again is replaced (mv -T).
RenameOver(f) ==
  /\ At(f, "rename")
  /\ home' = f
  /\ dir' = [x \in Files |-> f]
  /\ temp' = [temp EXCEPT ![f] = "none"]
  /\ Goto(f, "published")
  /\ UNCHANGED <<cmd, manifest, removal, retrieved, clock>>

\* temp_dir.rename(output_dir): replaces nothing or an empty directory.
Rename(f) ==
  /\ At(f, "rename")
  /\ \/ /\ Empty
        /\ home' = f
        /\ dir' = [x \in Files |-> f]
        /\ temp' = [temp EXCEPT ![f] = "none"]
        /\ Goto(f, "published")
     \/ ~ Empty /\ Fail(f) /\ UNCHANGED directory
  /\ UNCHANGED <<cmd, manifest, removal, retrieved, clock>>

-----------------------------------------------------------------------------
(* Around the processes.                                                    *)

\* A kill, a power cut or a KeyboardInterrupt, which `except Exception` does
\* not catch: the temporary directory stays.
Kill(f) ==
  /\ f \in Running
  /\ Goto(f, "killed")
  /\ UNCHANGED <<directory, temp, cmd, manifest, removal, retrieved, clock>>

Tick ==
  /\ clock < MaxClock
  /\ clock' = clock + 1
  /\ UNCHANGED <<directory, temp, local, retrieved>>

Fetch(f) ==
  \/ Look(f) \/ LookAgain(f) \/ LoadManifest(f) \/ VerifyManifest(f)
  \/ VerifyData(f) \/ CheckAge(f) \/ Download(f) \/ BeginWrite(f)
  \/ FillTemp(f) \/ Swap(f) \/ Unlink(f) \/ RemoveDirectory(f) \/ Rename(f)

Init ==
  /\ home = Nobody /\ dir = [x \in Files |-> Nobody]
  /\ temp = [f \in Fetches |-> "none"]
  /\ pc = [f \in Fetches |-> "idle"]
  /\ cmd \in [Fetches -> Commands]
  /\ manifest = [f \in Fetches |-> Nobody]
  /\ opened = [f \in Fetches |-> Nobody]
  /\ listing = [f \in Fetches |-> {}]
  /\ retrieved = [f \in Fetches |-> 0]
  /\ clock = 0

Next == Tick \/ \E f \in Fetches : Start(f) \/ Fetch(f) \/ Kill(f)

Spec == Init /\ [][Next]_vars

-----------------------------------------------------------------------------
(* Properties.                                                              *)

\* Every variable has the values its code can give it; no snapshot carries a
\* retrieval time in the future.
TypeOK ==
  /\ home \in Owners /\ dir \in [Files -> Owners]
  /\ temp \in [Fetches -> {"none", "partial", "whole"}]
  /\ pc \in [Fetches -> Points] /\ cmd \in [Fetches -> Commands]
  /\ manifest \in [Fetches -> Owners] /\ opened \in [Fetches -> Owners]
  /\ listing \in [Fetches -> SUBSET Files]
  /\ clock \in 0..MaxClock
  /\ retrieved \in [Fetches -> 0..clock]

\* The snapshot a reader finds: the fetch all files come from, or Nobody.
Held ==
  IF Present /\ \A x \in Files : dir[x] = home THEN home ELSE Nobody

\* No interleaving of fetches, kills and half-finished removals puts files of
\* two fetches side by side: what is there is the home fetch's own.
NoMixture == \A x \in Files : dir[x] \in {home, Nobody}

Register == INSTANCE SnapshotRegister WITH
  Nothing <- Nobody, value <- Held, used <- {f \in Fetches : pc[f] = "published"}

\* The directory is a register of snapshots: one at a time, each put once,
\* never one straight over another.
IsRegister == Register!Spec

\* A process that ends, other than by a kill, leaves no temporary directory.
NoTempLeft ==
  \A f \in Fetches : pc[f] \in Ended \ {"killed"} => temp[f] = "none"

\* One process at a time: a fetch reports reuse only of a whole snapshot of its
\* own request, also when an earlier process was killed inside rmtree.
ReusedAnswers ==
  [][\A f \in Fetches :
       pc[f] # "reused" /\ pc'[f] = "reused" =>
         Held # Nobody /\ cmd[Held].request = Asks(f)]_vars

\* One process at a time: a snapshot published is never lost to a fetch that
\* is refused or fails (a bad answer, a malformed body, a full disk).
SurvivesFailure ==
  /\ Running = {} /\ \A f \in Fetches : pc[f] # "killed"
  /\ \E f \in Fetches : pc[f] = "published"
  => Held # Nobody

\* One process at a time: CelesTrak is not asked again for the request of a
\* snapshot younger than Refresh without --override-refresh-policy.
RefreshPolicy ==
  \A f \in Fetches :
    /\ pc[f] = "download" /\ ~ cmd[f].override
    /\ Asks(f) \in Celestrak
    /\ Held # Nobody /\ cmd[Held].request = Asks(f)
    => clock - retrieved[Held] >= Refresh

\* docs/V0.4.1_IMPLEMENTATION.md:10 "atomic snapshot writing": once a snapshot
\* was published, a reader finds a whole snapshot at every moment.
AlwaysHeld ==
  (\E f \in Fetches : pc[f] = "published") => Held # Nobody
=============================================================================
