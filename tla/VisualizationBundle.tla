-------------------------- MODULE VisualizationBundle --------------------------
(***************************************************************************)
(* visualization/bundle.py on its output directory: a build computes the   *)
(* whole document first, then empties the directory (with --force) or finds*)
(* it empty, and writes data, page, README and at last the manifest, which *)
(* lists the other three.  No write and no removal is atomic.  Builds come *)
(* one after the other; a server may hand out the files at any time.       *)
(***************************************************************************)
EXTENDS Naturals, Sequences

CONSTANTS
  Builds,       \* 1..N, in the order in which they are started
  Strange,      \* files of others that may lie in the directory
  None

Listed == {"index.html", "data.json", "README.txt"}
Own == Listed \cup {"manifest.json"}
Files == Own \cup Strange

VARIABLES
  at,           \* what each build does next, or how it ended
  force,        \* was it started with --force?
  doomed,       \* what it still has to remove
  written,      \* how many of its files it has written
  dir,          \* [by, whole] of every file there, None otherwise
  manifest      \* what the manifest says of the files it lists

vars == <<at, force, doomed, written, dir, manifest>>

Present == {f \in Files : dir[f] # None}
Ended == {"idle", "invalid", "refused", "killed", "built"}
Goto(b, where) == at' = [at EXCEPT ![b] = where]

Begin(b) ==
  /\ at[b] = "idle" /\ \A c \in Builds : at[c] \in Ended /\ (c < b => at[c] # "idle")
  /\ Goto(b, "load")
  /\ \E forced \in BOOLEAN : force' = [force EXCEPT ![b] = forced]
  /\ UNCHANGED <<doomed, written, dir, manifest>>

\* Reading the inputs, and all that is computed from them.
Load(b) ==
  /\ at[b] = "load"
  /\ Goto(b, "prepare") \/ Goto(b, "invalid")
  /\ UNCHANGED <<force, doomed, written, dir, manifest>>

\* _prepare_output_dir.
\* Mutant of Prepare: --force is not asked for.
PrepareAnyway(b) ==
  /\ at[b] = "prepare"
  /\ Goto(b, "remove") /\ doomed' = [doomed EXCEPT ![b] = Present]
  /\ UNCHANGED <<force, written, dir, manifest>>
\* Mutant of Prepare: --force only overwrites.
PrepareOverwrite(b) ==
  /\ at[b] = "prepare"
  /\ Goto(b, IF Present # {} /\ ~ force[b] THEN "refused" ELSE "write")
  /\ UNCHANGED <<force, doomed, written, dir, manifest>>
Prepare(b) ==
  /\ at[b] = "prepare"
  /\ IF Present # {} /\ ~ force[b]
       THEN Goto(b, "refused") /\ UNCHANGED doomed
       ELSE Goto(b, "remove") /\ doomed' = [doomed EXCEPT ![b] = Present]
  /\ UNCHANGED <<force, written, dir, manifest>>

\* In the order of iterdir, which is any.
Remove(b) ==
  /\ at[b] = "remove"
  /\ IF doomed[b] = {}
       THEN Goto(b, "write") /\ UNCHANGED <<doomed, dir>>
       ELSE /\ \E f \in doomed[b] :
                 /\ doomed' = [doomed EXCEPT ![b] = @ \ {f}]
                 /\ dir' = [dir EXCEPT ![f] = None]
            /\ UNCHANGED at
  /\ UNCHANGED <<force, written, manifest>>

\* Mutant of Order: the manifest is not the last.
OrderPageLast == <<"data.json", "README.txt", "manifest.json", "index.html">>
Order == <<"data.json", "index.html", "README.txt", "manifest.json">>

\* write_text: truncated first, then complete.
Write(b) ==
  /\ at[b] = "write"
  /\ LET f == Order[written[b] + 1]
         begun == dir[f] = [by |-> b, whole |-> FALSE]
     IN  /\ dir' = [dir EXCEPT ![f] = [by |-> b, whole |-> begun]]
         /\ manifest' = IF f = "manifest.json" THEN [g \in Listed |-> dir[g]] ELSE manifest
         /\ written' = IF begun THEN [written EXCEPT ![b] = @ + 1] ELSE written
         /\ IF begun /\ written[b] + 1 = Len(Order) THEN Goto(b, "built") ELSE UNCHANGED at
  /\ UNCHANGED <<force, doomed>>

Kill(b) ==
  /\ at[b] \notin Ended
  /\ Goto(b, "killed")
  /\ UNCHANGED <<force, doomed, written, dir, manifest>>

Init ==
  /\ at = [b \in Builds |-> "idle"]
  /\ force = [b \in Builds |-> FALSE]
  /\ doomed = [b \in Builds |-> {}]
  /\ written = [b \in Builds |-> 0]
  /\ \E S \in SUBSET Strange : dir = [f \in Files |-> IF f \in S THEN [by |-> None, whole |-> TRUE] ELSE None]
  /\ manifest = [g \in Listed |-> None]

Next == \E b \in Builds : Begin(b) \/ Load(b) \/ Prepare(b) \/ Remove(b) \/ Write(b) \/ Kill(b)
Spec == Init /\ [][Next]_vars

(***************************************************************************)
(* Properties                                                              *)
(***************************************************************************)

\* Whenever somebody looks, a complete manifest tells the truth of every file
\* it lists that is there: none is of another build, or half written.
ManifestTells ==
  dir["manifest.json"] # None /\ dir["manifest.json"].whole =>
    \A g \in Listed : dir[g] # None => dir[g].whole /\ dir[g] = manifest[g]

\* A bundle is complete once its build says so, and nothing else is left in the
\* directory, whatever an interrupted build or somebody else had left there.
BuiltAlone ==
  \A b \in Builds :
    at[b] = "built" /\ (\A c \in Builds : c > b => at[c] \in {"idle", "load", "prepare", "invalid", "refused"})
    => Present = Own /\ \A f \in Own : dir[f] = [by |-> b, whole |-> TRUE]

\* Only a build with --force whose inputs were read without error takes away or
\* changes what is there.
KeptUnlessForced ==
  [][\A f \in Files : dir[f] # None /\ dir[f].whole /\ dir'[f] # dir[f] =>
       \E b \in Builds : force[b] /\ at[b] \in {"remove", "write"}]_vars
=============================================================================
