-------------------------- MODULE MeasurementCapture --------------------------
(***************************************************************************)
(* measure_cli.py with measurement.py: captures that write into one output *)
(* directory, any number of them at a time.  A capture checks that the     *)
(* directory is empty, runs ping or traceroute under a timeout, and writes *)
(* the raw output, the parsed data and at last a manifest with the digest  *)
(* of the two.  No write is atomic: a file is truncated and then written.  *)
(* Nothing keeps a second capture out once both found the directory empty; *)
(* two of one kind then write the same names, and of two that have opened  *)
(* a file the longer may leave its tail behind the shorter.                *)
(***************************************************************************)
EXTENDS Naturals, Sequences

CONSTANTS
  Captures,             \* the captures ever started on the directory
  Kind,                 \* [Captures -> {"ping", "traceroute"}]
  None

\* A digest stands for the content: whose bytes they are and whether the last
\* of their writers had come to an end.
Part(c) == [by |-> {c}, whole |-> FALSE]
All(c)  == [by |-> {c}, whole |-> TRUE]

Raw(c)  == IF Kind[c] = "ping" THEN "ping.txt" ELSE "traceroute.txt"
Data(c) == IF Kind[c] = "ping" THEN "ping.csv" ELSE "traceroute.json"
Names   == {Raw(c) : c \in Captures} \cup {Data(c) : c \in Captures}

VARIABLES
  shared,     \* history: those that found the directory empty with another of their kind
  at,         \* what each capture does next, or how it ended
  step,       \* the next of its Steps
  digests,    \* the files its manifest will list
  files,      \* the content of each data file, None where there is none
  manifest    \* [by, whole, files], None where there is none

vars == <<shared, at, step, digests, files, manifest>>

Empty == manifest = None /\ \A n \in Names : files[n] = None
Running == {c \in Captures : at[c] \in {"check", "command", "write"}}
Stop(c, how) == at' = [at EXCEPT ![c] = how] /\ UNCHANGED step

Begin(c) ==
  /\ at[c] = "idle"
  /\ Stop(c, "check")
  /\ UNCHANGED <<shared, digests, files, manifest>>

\* Those of its kind that have passed the check and not yet ended.
Admitted == {c \in Captures : at[c] \in {"command", "write"}}
Peers(c) == {d \in Admitted : Kind[d] = Kind[c]}

\* _ensure_empty_output_dir: an empty directory may be used again.
\* Mutant of EnsureEmpty: the directory need only exist.
EnsureDirectory(c) ==
  /\ at[c] = "check"
  /\ Stop(c, "command")
  /\ shared' = IF Peers(c) = {} THEN shared ELSE shared \cup {c} \cup Peers(c)
  /\ UNCHANGED <<digests, files, manifest>>
EnsureEmpty(c) ==
  /\ at[c] = "check"
  /\ Stop(c, IF Empty THEN "command" ELSE "refused")
  /\ shared' = IF ~ Empty \/ Peers(c) = {} THEN shared ELSE shared \cup {c} \cup Peers(c)
  /\ UNCHANGED <<digests, files, manifest>>

\* Any return code is as good; TimeoutExpired is caught by nobody.
\* Mutant of RunCommand: the output so far is kept on a timeout.
RunCommandKeep(c) ==
  /\ at[c] = "command"
  /\ \/ at' = [at EXCEPT ![c] = "write"] /\ UNCHANGED files
     \/ at' = [at EXCEPT ![c] = "timeout"] /\ files' = [files EXCEPT ![Raw(c)] = Part(c)]
  /\ UNCHANGED <<shared, step, digests, manifest>>
RunCommand(c) ==
  /\ at[c] = "command"
  /\ \E how \in {"write", "timeout"} : Stop(c, how)
  /\ UNCHANGED <<shared, digests, files, manifest>>

\* The digests are taken in the order of the names.
\* Mutant of Steps: the manifest is written with the raw output.
EarlyManifest(c) ==
  << <<"open", Raw(c)>>, <<"write", Raw(c)>>, <<"digest", Raw(c)>>,
     <<"open", "manifest.json">>, <<"write", "manifest.json">>,
     <<"open", Data(c)>>, <<"write", Data(c)>> >>
\* Mutant of Steps: the manifest is written, and written again when all is done.
ManifestTwice(c) ==
  << <<"open", Raw(c)>>, <<"write", Raw(c)>>, <<"open", Data(c)>>, <<"write", Data(c)>>,
     <<"digest", Data(c)>>, <<"digest", Raw(c)>>,
     <<"open", "manifest.json">>, <<"write", "manifest.json">>,
     <<"open", "manifest.json">>, <<"write", "manifest.json">> >>
Steps(c) ==
  << <<"open", Raw(c)>>, <<"write", Raw(c)>>, <<"open", Data(c)>>, <<"write", Data(c)>>,
     <<"digest", Data(c)>>, <<"digest", Raw(c)>>,
     <<"open", "manifest.json">>, <<"write", "manifest.json">> >>

Doing(c, what, name) == at[c] = "write" /\ Steps(c)[step[c]] = <<what, name>>
NextStep(c) ==
  /\ step' = [step EXCEPT ![c] = @ + 1]
  /\ at' = [at EXCEPT ![c] = IF step[c] = Len(Steps(c)) THEN "done" ELSE @]

WriteFile(c, name) ==
  /\ \/ Doing(c, "open", name) /\ files' = [files EXCEPT ![name] = Part(c)]
     \/ /\ Doing(c, "write", name)
        /\ \E others \in SUBSET files[name].by :
             files' = [files EXCEPT ![name] = [by |-> {c} \cup others, whole |-> TRUE]]
  /\ NextStep(c)
  /\ UNCHANGED <<shared, digests, manifest>>

\* sha256_file fails where the file is gone, which no capture causes.
Digest(c, name) ==
  /\ Doing(c, "digest", name)
  /\ digests' = [digests EXCEPT ![c] = [@ EXCEPT ![name] = files[name]]]
  /\ NextStep(c)
  /\ UNCHANGED <<shared, files, manifest>>

\* What is left of another writer behind its end makes it no JSON.
WriteManifest(c) ==
  /\ \E whole \in BOOLEAN :
       /\ \/ Doing(c, "open", "manifest.json") /\ ~ whole
          \/ Doing(c, "write", "manifest.json") /\ (whole \/ manifest.by # c)
       /\ manifest' = [by |-> c, whole |-> whole, files |-> digests[c]]
  /\ NextStep(c)
  /\ UNCHANGED <<shared, digests, files>>

Kill(c) ==
  /\ c \in Running
  /\ Stop(c, "killed")
  /\ UNCHANGED <<shared, digests, files, manifest>>

Init ==
  /\ shared = {}
  /\ at = [c \in Captures |-> "idle"]
  /\ step = [c \in Captures |-> 1]
  /\ digests = [c \in Captures |-> [n \in Names |-> None]]
  /\ files = [n \in Names |-> None]
  /\ manifest = None

Next ==
  \E c \in Captures :
    \/ Begin(c) \/ EnsureEmpty(c) \/ RunCommand(c) \/ WriteManifest(c) \/ Kill(c)
    \/ \E name \in Names : WriteFile(c, name) \/ Digest(c, name)

Spec == Init /\ [][Next]_vars

\* verify_measurement_snapshot: every file of the manifest is there and has its
\* digest.  Files the manifest does not list are not looked at.
Listed == {n \in Names : manifest.files[n] # None}
Verifies ==
  /\ manifest # None /\ manifest.whole
  /\ \A n \in Listed : files[n] = manifest.files[n]

(***************************************************************************)
(* Properties                                                              *)
(***************************************************************************)

\* What a manifest that verifies vouches for are a raw output and the data of
\* its own kind, and they are whole and of the capture that wrote it, whenever
\* one looks: in the middle of a capture, after a crash, or with captures of the
\* other kind beside it.  Where another of its kind had found the directory
\* empty as well, only the kind is sure: the files may be of both of them, or
\* half written, under a manifest that verifies.
VerifiedIsOneCapture ==
  Verifies => LET c == manifest.by IN
    /\ Listed = {Raw(c), Data(c)}
    /\ \A n \in Listed : \A d \in files[n].by : Kind[d] = Kind[c]
    /\ c \notin shared => \A n \in Listed : files[n] = All(c)

\* A directory that verifies does not change any more, whatever is started on
\* it later ("separate, immutable directories", docs/VTCA2026_EVALUATION.md:17),
\* unless a capture that had found it empty as well has not ended yet.
Immutable ==
  [][Verifies /\ Admitted \subseteq {manifest.by} => UNCHANGED <<files, manifest>>]_vars

\* A capture that timed out, or was killed before the command had ended, is no
\* obstacle to the next one.
RetryPossible ==
  (\A c \in Captures : at[c] # "write" /\ step[c] = 1) => \A c \in Captures : at[c] # "refused"

\* A capture that ended keeps its own files, whole, whatever runs beside it or
\* after it; unless another of its kind had found the directory empty too.
OwnFiles ==
  \A c \in Captures : at[c] = "done" /\ c \notin shared =>
    files[Raw(c)] = All(c) /\ files[Data(c)] = All(c)
=============================================================================
