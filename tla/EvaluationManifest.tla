-------------------------- MODULE EvaluationManifest --------------------------
(***************************************************************************)
(* evaluation-manifest.json (evaluation_manifest.py): the hash of every    *)
(* file below a directory, and the check of a directory against it.        *)
(*                                                                         *)
(* A directory is a function from paths to files; a file is a record with  *)
(* a field `link` (it is a symbolic link).  Files with the same bytes are  *)
(* the same record, so comparing hashes is comparing records.  Manifests   *)
(* are those create_evaluation_manifest writes: the checks for malformed   *)
(* and hand-written entries are left out.                                  *)
(***************************************************************************)

\* create_evaluation_manifest refuses symbolic links ...
HasLink(files) == \E p \in DOMAIN files : files[p].link

\* ... and otherwise hashes every file iter_artifacts finds.
ManifestOf(files) == files

Missing(files, manifest) == DOMAIN manifest \ DOMAIN files

Mismatched(files, manifest) ==
  {p \in DOMAIN files \cap DOMAIN manifest :
     files[p].link \/ files[p] # manifest[p]}

\* Mutant of Untracked: only the listed files are looked at.
UntrackedIgnored(files, manifest) == {}

Untracked(files, manifest) == DOMAIN files \ DOMAIN manifest

\* verify_evaluation_manifest returns no error.
Verified(files, manifest) ==
  /\ Missing(files, manifest) = {}
  /\ Mismatched(files, manifest) = {}
  /\ Untracked(files, manifest) = {}
=============================================================================
