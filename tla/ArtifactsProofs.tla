--------------------------- MODULE ArtifactsProofs ---------------------------
(***************************************************************************)
(* The tools that leave files, for every input, every number of captures   *)
(* and of builds, killed at any step.  A step of the composition is a step *)
(* of one tool and leaves the others alone, so each tool is proved by      *)
(* itself.                                                                 *)
(***************************************************************************)
EXTENDS Artifacts, FiniteSums

-----------------------------------------------------------------------------
(* The parts.                                                               *)

LEMMA InitParts ==
  Init => Document!Init /\ Segments!Init /\ Merged!Init /\ Capture!Init /\ Bundle!Init
  BY DEF Init, DocumentRests, SegmentsRests, MergedRests, CaptureRests, BundleRests

LEMMA NextParts ==
  [Next]_vars =>
    /\ [Document!Next]_(Document!vars) /\ [Segments!Next]_(Segments!vars)
    /\ [Merged!Next]_(Merged!vars) /\ [Capture!Next]_(Capture!vars)
    /\ [Bundle!Next]_(Bundle!vars)
  BY DEF Next, vars, documentVars, segmentsVars, mergedVars, captureVars, bundleVars,
     Document!vars, Segments!vars, Merged!vars, Capture!vars, Bundle!vars

-----------------------------------------------------------------------------
(* The bundle.                                                              *)

Entries == [by : Maybe(Builds), whole : BOOLEAN]

\* Builds come in their order, one at a time.
BundleTyped ==
  /\ stage \in [Builds -> {"load", "prepare", "remove", "write"} \cup Bundle!Ended]
  /\ force \in [Builds -> BOOLEAN]
  /\ doomed \in [Builds -> SUBSET Bundle!Files]
  /\ written \in [Builds -> Nat]
  /\ dir \in [Bundle!Files -> Maybe(Entries)]
  /\ contents \in [Bundle!Listed -> Maybe(Entries)]

InOrder ==
  /\ \A b \in Builds : stage[b] # "idle" => \A c \in Builds : c < b => stage[c] # "idle"
  /\ \A b, c \in Builds : stage[b] \notin Bundle!Ended /\ stage[c] \notin Bundle!Ended => b = c
  /\ \A b, c \in Builds : stage[b] \notin Bundle!Ended /\ c > b => stage[c] = "idle"

\* What a build still has to remove is what is there, and there is something
\* only where it was forced.
RemovingInv ==
  \A b \in Builds : stage[b] = "remove" =>
    doomed[b] = Bundle!Present /\ (doomed[b] # {} => force[b])

Place(f) == CASE f = "data.json"     -> 1
              [] f = "index.html"    -> 2
              [] f = "README.txt"    -> 3
              [] f = "manifest.json" -> 4
              [] OTHER               -> 5

Done(b, f)  == dir[f] = [by |-> b, whole |-> TRUE]
Begun(b, f) == dir[f] = None \/ dir[f] = [by |-> b, whole |-> FALSE]

\* The files are there up to the one that is being written, and nothing else.
WritingInv ==
  /\ \A b \in Builds : stage[b] \in {"idle", "load", "prepare", "remove"} => written[b] = 0
  /\ \A b \in Builds : stage[b] = "write" =>
       /\ written[b] \in 0..3
       /\ \A f \in Bundle!Files :
            /\ Place(f) <= written[b] => Done(b, f)
            /\ Place(f) = written[b] + 1 => Begun(b, f)
            /\ Place(f) > written[b] + 1 => dir[f] = None

BundleInv ==
  BundleTyped /\ InOrder /\ RemovingInv /\ WritingInv /\ Bundle!ManifestTells /\ Bundle!BuiltAlone

LEMMA Places ==
  /\ \A f \in Bundle!Files : Place(f) \in 1..5 /\ (Place(f) = 5 <=> f \notin Bundle!Own)
  /\ \A k \in 1..4 : Bundle!Order[k] \in Bundle!Own /\ Place(Bundle!Order[k]) = k
  /\ \A f, g \in Bundle!Own : Place(f) = Place(g) => f = g
  /\ Place("manifest.json") = 4 /\ \A f \in Bundle!Listed : Place(f) <= 3
<1> USE DEF Place, Bundle!Own, Bundle!Listed, Bundle!Order
<1>1. \A f \in Bundle!Files : Place(f) \in 1..5 /\ (Place(f) = 5 <=> f \notin Bundle!Own)
  OBVIOUS
<1>2. \A k \in 1..4 : Bundle!Order[k] \in Bundle!Own /\ Place(Bundle!Order[k]) = k
  <2> SUFFICES ASSUME NEW k \in 1..4
               PROVE  Bundle!Order[k] \in Bundle!Own /\ Place(Bundle!Order[k]) = k
    OBVIOUS
  <2>1. k = 1 \/ k = 2 \/ k = 3 \/ k = 4
    OBVIOUS
  <2>2. CASE k = 1
    BY <2>2
  <2>3. CASE k = 2
    BY <2>3
  <2>4. CASE k = 3
    BY <2>4
  <2>5. CASE k = 4
    BY <2>5
  <2> QED
    BY <2>1, <2>2, <2>3, <2>4, <2>5
<1>3. \A f, g \in Bundle!Own : Place(f) = Place(g) => f = g
  OBVIOUS
<1>4. Place("manifest.json") = 4 /\ \A f \in Bundle!Listed : Place(f) <= 3
  OBVIOUS
<1> QED
  BY <1>1, <1>2, <1>3, <1>4

LEMMA BundleInit == Bundle!Init => BundleInv
<1> SUFFICES ASSUME Bundle!Init PROVE BundleInv
  OBVIOUS
<1> USE NoneAssumption DEF NoneAssumption, Bundle!Init, Maybe
<1>1. PICK S \in SUBSET Strange :
        dir = [f \in Bundle!Files |-> IF f \in S THEN [by |-> None, whole |-> TRUE] ELSE None]
  OBVIOUS
<1>2. BundleTyped
  BY <1>1 DEF BundleTyped, Bundle!Ended, Entries
<1>3. dir["manifest.json"] = None
  BY <1>1, BuildsAssumption DEF BuildsAssumption, Bundle!Files, Bundle!Own
<1>4. InOrder /\ RemovingInv /\ WritingInv
  BY DEF InOrder, RemovingInv, WritingInv, Bundle!Ended
<1> QED
  BY <1>2, <1>3, <1>4 DEF BundleInv, Bundle!ManifestTells, Bundle!BuiltAlone

LEMMA BundleWrites ==
  ASSUME BundleInv, NEW b \in Builds, Bundle!Write(b)
  PROVE  BundleInv'
<1> USE DEF BundleInv
<1>1. /\ stage[b] = "write" /\ written[b] \in 0..3 /\ UNCHANGED <<force, doomed>>
      /\ \A c \in Builds : c # b => stage[c] \in Bundle!Ended
      /\ \A c \in Builds : c > b => stage[c] = "idle"
  BY DEF Bundle!Write, WritingInv, InOrder, Bundle!Ended
<1> DEFINE f == Bundle!Order[written[b] + 1]
           begun == dir[f] = [by |-> b, whole |-> FALSE]
<1>2. /\ dir' = [dir EXCEPT ![f] = [by |-> b, whole |-> begun]]
      /\ contents' = IF f = "manifest.json" THEN [g \in Bundle!Listed |-> dir[g]] ELSE contents
      /\ written' = IF begun THEN [written EXCEPT ![b] = @ + 1] ELSE written
      /\ IF begun /\ written[b] + 1 = 4 THEN stage' = [stage EXCEPT ![b] = "built"] ELSE stage' = stage
  BY DEF Bundle!Write, Bundle!Goto, Bundle!Order
<1>3. /\ f \in Bundle!Own /\ Place(f) = written[b] + 1 /\ f \in Bundle!Files
      /\ \A g \in Bundle!Files : Place(g) = written[b] + 1 <=> g = f
      /\ f = "manifest.json" <=> written[b] = 3
  <2>1. f \in Bundle!Own /\ Place(f) = written[b] + 1
    BY <1>1, Places
  <2>2. \A g \in Bundle!Files : Place(g) = written[b] + 1 => g = f
    BY <1>1, <2>1, Places
  <2>3. "manifest.json" \in Bundle!Own /\ Place("manifest.json") = 4
    BY Places DEF Bundle!Own
  <2> QED
    BY <1>1, <2>1, <2>2, <2>3, Places DEF Bundle!Files
<1> HIDE DEF f
<1>4. \A g \in Bundle!Files : dir'[g] = IF g = f THEN [by |-> b, whole |-> begun] ELSE dir[g]
  BY <1>2 DEF BundleTyped
<1>5. BundleTyped'
  <2>1. begun \in BOOLEAN /\ [by |-> b, whole |-> begun] \in Entries
    BY DEF Entries, Maybe
  <2>2. dir' \in [Bundle!Files -> Maybe(Entries)]
    BY <1>2, <1>3, <2>1 DEF BundleTyped, Maybe
  <2>3. contents' \in [Bundle!Listed -> Maybe(Entries)]
    BY <1>2 DEF BundleTyped, Bundle!Files, Bundle!Own
  <2>4. written' \in [Builds -> Nat] /\ stage' \in [Builds -> {"load", "prepare", "remove", "write"} \cup Bundle!Ended]
    BY <1>1, <1>2 DEF BundleTyped, Bundle!Ended
  <2> QED
    BY <1>1, <2>2, <2>3, <2>4 DEF BundleTyped
<1>6. InOrder' /\ RemovingInv'
  BY <1>1, <1>2, BuildsAssumption DEF BuildsAssumption, BundleTyped, InOrder, RemovingInv, Bundle!Ended
<1>7. WritingInv'
  <2>1. \A c \in Builds : c # b => stage'[c] = stage[c] /\ written'[c] = written[c]
    BY <1>2 DEF BundleTyped
  <2>2. \A c \in Builds : c # b => stage'[c] # "write"
    BY <1>1, <2>1 DEF Bundle!Ended
  <2>3. stage'[b] \in {"write", "built"}
    BY <1>1, <1>2 DEF BundleTyped
  <2>4. ASSUME stage'[b] = "write", NEW g \in Bundle!Files
        PROVE  /\ written'[b] \in 0..3
               /\ Place(g) <= written'[b] => Done(b, g)'
               /\ Place(g) = written'[b] + 1 => Begun(b, g)'
               /\ Place(g) > written'[b] + 1 => dir'[g] = None
    <3>0. /\ Place(g) <= written[b] => Done(b, g)
          /\ Place(g) = written[b] + 1 => Begun(b, g)
          /\ Place(g) > written[b] + 1 => dir[g] = None
          /\ Place(g) \in 1..5
      BY <1>1, Places DEF WritingInv
    <3>1. CASE begun
      <4>1. written'[b] = written[b] + 1 /\ written[b] \in 0..2
        BY <1>1, <1>2, <2>4, <3>1 DEF BundleTyped
      <4>2. dir'[g] = IF g = f THEN [by |-> b, whole |-> TRUE] ELSE dir[g]
        BY <1>4, <3>1
      <4> QED
        BY <1>3, <3>0, <4>1, <4>2 DEF Done, Begun
    <3>2. CASE ~ begun
      <4>1. written'[b] = written[b]
        BY <1>2, <3>2
      <4>2. dir'[g] = IF g = f THEN [by |-> b, whole |-> FALSE] ELSE dir[g]
        BY <1>4, <3>2
      <4> QED
        BY <1>1, <1>3, <3>0, <4>1, <4>2 DEF Done, Begun
    <3> QED
      BY <3>1, <3>2
  <2>5. \A c \in Builds : stage'[c] = "write" => c = b
    BY <2>2
  <2>6. \A c \in Builds : stage'[c] \in {"idle", "load", "prepare", "remove"} => written'[c] = 0
    BY <2>1, <2>3 DEF WritingInv
  <2>7. stage'[b] = "write" => written'[b] \in 0..3
    BY <1>1, <1>2 DEF BundleTyped
  <2> QED
    BY <2>4, <2>5, <2>6, <2>7 DEF WritingInv, Done, Begun
<1>8. Bundle!ManifestTells'
  <2>1. CASE written[b] = 3
    <3>1. \A g \in Bundle!Listed : dir'[g] = dir[g] /\ contents'[g] = dir[g]
      BY <1>2, <1>3, <1>4, <2>1 DEF Bundle!Files, Bundle!Own, Bundle!Listed
    <3>2. \A g \in Bundle!Listed : dir[g] = [by |-> b, whole |-> TRUE]
      BY <1>1, <2>1, Places DEF WritingInv, Done, Bundle!Files, Bundle!Own
    <3> QED
      BY <3>1, <3>2 DEF Bundle!ManifestTells
  <2>2. CASE written[b] # 3
    <3>1. "manifest.json" \in Bundle!Files /\ f # "manifest.json" /\ Place("manifest.json") > written[b] + 1
      BY <1>1, <1>3, <2>2, Places DEF Bundle!Files, Bundle!Own
    <3>2. dir'["manifest.json"] = None
      BY <1>1, <1>4, <3>1 DEF WritingInv
    <3> QED
      BY <3>2 DEF Bundle!ManifestTells
  <2> QED
    BY <2>1, <2>2
<1>9. Bundle!BuiltAlone'
  <2> SUFFICES ASSUME NEW c \in Builds, stage'[c] = "built",
                      \A d \in Builds : d > c => stage'[d] \in {"idle", "load", "prepare", "invalid", "refused"}
               PROVE  Bundle!Present' = Bundle!Own /\ \A g \in Bundle!Own : dir'[g] = [by |-> c, whole |-> TRUE]
    BY DEF Bundle!BuiltAlone
  <2>1. c = b
    <3>1. stage'[b] \in {"write", "built"}
      BY <1>1, <1>2 DEF BundleTyped
    <3>2. ~ (b > c)
      BY <3>1
    <3>3. ~ (c > b)
      BY <1>1, <1>2 DEF BundleTyped
    <3> QED
      BY <3>2, <3>3, BuildsAssumption DEF BuildsAssumption
  <2>2. begun /\ written[b] = 3
    BY <1>1, <1>2, <2>1
  <2>3. \A g \in Bundle!Own : dir'[g] = [by |-> b, whole |-> TRUE]
    <3>1. \A g \in Bundle!Own : g # f => Place(g) <= 3 /\ g \in Bundle!Files
      BY <1>3, <2>2, Places DEF Bundle!Files, Bundle!Own
    <3>2. \A g \in Bundle!Own : g # f => Done(b, g)
      BY <1>1, <2>2, <3>1 DEF WritingInv
    <3>3. \A g \in Bundle!Own : g # f => dir'[g] = dir[g]
      BY <1>4, <3>1
    <3>4. dir'[f] = [by |-> b, whole |-> TRUE]
      <4>1. begun = TRUE
        BY <2>2
      <4> QED
        BY <1>3, <1>4, <4>1
    <3> QED
      BY <3>2, <3>3, <3>4 DEF Done
  <2>4. \A g \in Bundle!Files : g \notin Bundle!Own => dir'[g] = None
    BY <1>1, <1>3, <1>4, <2>2, Places DEF WritingInv
  <2>5. [by |-> b, whole |-> TRUE] # None
    <3>1. [by |-> b, whole |-> TRUE] \in [by : Maybe(Builds), whole : BOOLEAN]
      BY DEF Maybe
    <3> QED
      BY <3>1, NoneAssumption DEF NoneAssumption
  <2> QED
    BY <2>1, <2>3, <2>4, <2>5 DEF Bundle!Present, Bundle!Files
<1> QED
  BY <1>5, <1>6, <1>7, <1>8, <1>9

LEMMA BundleNext == BundleInv /\ [Bundle!Next]_(Bundle!vars) => BundleInv'
<1> SUFFICES ASSUME BundleInv, [Bundle!Next]_(Bundle!vars) PROVE BundleInv'
  OBVIOUS
<1> USE DEF BundleInv, Bundle!Goto
<1>1. CASE UNCHANGED Bundle!vars
  BY <1>1 DEF Bundle!vars, BundleTyped, InOrder, RemovingInv, WritingInv, Done, Begun,
     Bundle!ManifestTells, Bundle!BuiltAlone, Bundle!Present
<1>2. ASSUME NEW b \in Builds, Bundle!Begin(b) PROVE BundleInv'
  <2> USE <1>2 DEF Bundle!Begin
  <2>1. /\ stage' = [stage EXCEPT ![b] = "load"] /\ stage[b] = "idle"
        /\ UNCHANGED <<doomed, written, dir, contents>>
        /\ \A c \in Builds : stage[c] \in Bundle!Ended /\ (c < b => stage[c] # "idle")
    OBVIOUS
  <2>2. BundleTyped'
    BY <2>1 DEF BundleTyped, Bundle!Ended
  <2>3. InOrder'
    BY <2>1, BuildsAssumption DEF BuildsAssumption, BundleTyped, InOrder, Bundle!Ended
  <2>4. RemovingInv' /\ WritingInv' /\ Bundle!ManifestTells'
    BY <2>1 DEF BundleTyped, RemovingInv, WritingInv, Done, Begun, Bundle!ManifestTells,
       Bundle!Present, Bundle!Ended
  <2>5. Bundle!BuiltAlone'
    BY <2>1 DEF BundleTyped, Bundle!BuiltAlone, Bundle!Present
  <2> QED
    BY <2>2, <2>3, <2>4, <2>5
<1>3. ASSUME NEW b \in Builds, Bundle!Load(b) \/ Bundle!Kill(b) PROVE BundleInv'
  <2>1. PICK where \in {"prepare", "invalid", "killed"} :
          /\ stage' = [stage EXCEPT ![b] = where] /\ stage[b] \notin Bundle!Ended
          /\ where # "killed" => stage[b] = "load"
          /\ UNCHANGED <<force, doomed, written, dir, contents>>
    BY <1>3 DEF Bundle!Load, Bundle!Kill, Bundle!Ended
  <2>2. BundleTyped' /\ InOrder'
    BY <2>1, BuildsAssumption DEF BuildsAssumption, BundleTyped, InOrder, Bundle!Ended
  <2>3. RemovingInv' /\ WritingInv' /\ Bundle!ManifestTells'
    BY <2>1 DEF BundleTyped, RemovingInv, WritingInv, Done, Begun, Bundle!ManifestTells,
       Bundle!Present
  <2>4. Bundle!BuiltAlone'
    <3> SUFFICES ASSUME NEW c \in Builds, stage'[c] = "built",
                        \A d \in Builds : d > c => stage'[d] \in {"idle", "load", "prepare", "invalid", "refused"}
                 PROVE  \A d \in Builds : d > c => stage[d] \in {"idle", "load", "prepare", "invalid", "refused"}
      BY <2>1 DEF BundleTyped, Bundle!BuiltAlone, Bundle!Present
    <3>1. c # b /\ stage[c] = "built"
      BY <2>1 DEF BundleTyped
    <3>2. ~ (b > c /\ stage'[b] = "killed")
      OBVIOUS
    <3> QED
      BY <2>1, <3>1, <3>2 DEF BundleTyped
  <2> QED
    BY <2>2, <2>3, <2>4
<1>4. ASSUME NEW b \in Builds, Bundle!Prepare(b) PROVE BundleInv'
  <2>1. PICK where \in {"refused", "remove"} :
          /\ stage' = [stage EXCEPT ![b] = where] /\ stage[b] = "prepare"
          /\ UNCHANGED <<force, written, dir, contents>>
          /\ where = "remove" => /\ doomed' = [doomed EXCEPT ![b] = Bundle!Present]
                                 /\ Bundle!Present # {} => force[b]
          /\ where = "refused" => doomed' = doomed
    BY <1>4 DEF Bundle!Prepare
  <2>2. Bundle!Present \subseteq Bundle!Files /\ Bundle!Present' = Bundle!Present
    BY <2>1 DEF Bundle!Present
  <2>3. BundleTyped' /\ InOrder'
    BY <2>1, <2>2, BuildsAssumption DEF BuildsAssumption, BundleTyped, InOrder, Bundle!Ended
  <2>4. RemovingInv' /\ WritingInv' /\ Bundle!ManifestTells'
    BY <2>1, <2>2 DEF BundleTyped, RemovingInv, WritingInv, Done, Begun, Bundle!ManifestTells
  <2>5. Bundle!BuiltAlone'
    BY <2>1, <2>2 DEF BundleTyped, Bundle!BuiltAlone
  <2> QED
    BY <2>3, <2>4, <2>5
<1>5. ASSUME NEW b \in Builds, Bundle!Remove(b) PROVE BundleInv'
  <2>1. stage[b] = "remove" /\ UNCHANGED <<force, written, contents>> /\ written[b] = 0
        /\ doomed[b] = Bundle!Present
    BY <1>5 DEF Bundle!Remove, RemovingInv, WritingInv
  <2>2. CASE doomed[b] = {}
    <3>1. stage' = [stage EXCEPT ![b] = "write"] /\ UNCHANGED <<doomed, dir>>
      BY <1>5, <2>2 DEF Bundle!Remove
    <3>2. \A f \in Bundle!Files : dir[f] = None
      BY <2>1, <2>2 DEF Bundle!Present
    <3>3. BundleTyped' /\ InOrder'
      BY <2>1, <3>1, BuildsAssumption DEF BuildsAssumption, BundleTyped, InOrder, Bundle!Ended
    <3>4. RemovingInv' /\ Bundle!ManifestTells'
      BY <2>1, <3>1 DEF BundleTyped, RemovingInv, Bundle!ManifestTells, Bundle!Present
    <3>5. WritingInv'
      <4>1. \A c \in Builds : c # b => stage'[c] = stage[c] /\ stage[c] # "write"
        BY <2>1, <3>1 DEF BundleTyped, InOrder, Bundle!Ended
      <4>2. \A c \in Builds : stage'[c] \in {"idle", "load", "prepare", "remove"} => written'[c] = 0
        BY <2>1, <3>1, <4>1 DEF BundleTyped, WritingInv
      <4>3. \A c \in Builds : stage'[c] = "write" => written'[c] = 0
        BY <2>1, <3>1, <4>1
      <4> QED
        BY <2>1, <3>1, <3>2, <4>2, <4>3, Places DEF WritingInv, Done, Begun
    <3>6. Bundle!BuiltAlone'
      BY <2>1, <3>1 DEF BundleTyped, InOrder, Bundle!Ended, Bundle!BuiltAlone, Bundle!Present
    <3> QED
      BY <3>3, <3>4, <3>5, <3>6
  <2>3. CASE doomed[b] # {}
    <3>1. PICK f \in doomed[b] : /\ doomed' = [doomed EXCEPT ![b] = @ \ {f}]
                                 /\ dir' = [dir EXCEPT ![f] = None] /\ stage' = stage
      BY <1>5, <2>3 DEF Bundle!Remove
    <3>2. f \in Bundle!Files /\ \A g \in Bundle!Files : dir'[g] = IF g = f THEN None ELSE dir[g]
      BY <2>1, <3>1 DEF BundleTyped, Bundle!Present
    <3>3. BundleTyped' /\ InOrder'
      BY <2>1, <3>1, <3>2 DEF BundleTyped, InOrder, Maybe
    <3>4. \A c \in Builds : c # b => stage[c] \in Bundle!Ended
      BY <2>1 DEF InOrder, Bundle!Ended
    <3>5. RemovingInv'
      <4>1. Bundle!Present' = Bundle!Present \ {f}
        BY <3>2 DEF Bundle!Present
      <4> QED
        BY <2>1, <2>3, <3>1, <3>4, <4>1 DEF BundleTyped, RemovingInv, Bundle!Ended
    <3>6. WritingInv'
      BY <2>1, <3>1, <3>4 DEF BundleTyped, WritingInv, Bundle!Ended
    <3>7. Bundle!ManifestTells'
      BY <2>1, <3>2 DEF Bundle!ManifestTells, Bundle!Files, Bundle!Own
    <3>8. Bundle!BuiltAlone'
      <4> SUFFICES ASSUME NEW c \in Builds, stage[c] = "built",
                          \A d \in Builds : d > c => stage[d] \in {"idle", "load", "prepare", "invalid", "refused"}
                   PROVE  FALSE
        BY <3>1 DEF Bundle!BuiltAlone
      <4>1. c # b /\ ~ (b > c) /\ ~ (c > b)
        BY <2>1 DEF InOrder, Bundle!Ended
      <4> QED
        BY <4>1, BuildsAssumption DEF BuildsAssumption
    <3> QED
      BY <3>3, <3>5, <3>6, <3>7, <3>8
  <2> QED
    BY <2>2, <2>3
<1>6. ASSUME NEW b \in Builds, Bundle!Write(b) PROVE BundleInv'
  BY <1>6, BundleWrites
<1> QED
  BY <1>1, <1>2, <1>3, <1>4, <1>5, <1>6 DEF Bundle!Next

\* What is changed was forced to be.
LEMMA BundleKeeps ==
  BundleInv /\ [Bundle!Next]_(Bundle!vars) =>
    \A f \in Bundle!Files : dir[f] # None /\ dir[f].whole /\ dir'[f] # dir[f] =>
      \E b \in Builds : force[b] /\ stage[b] \in {"remove", "write"}
<1> SUFFICES ASSUME BundleInv, [Bundle!Next]_(Bundle!vars), NEW f \in Bundle!Files,
                    dir[f] # None, dir[f].whole, dir'[f] # dir[f]
             PROVE  \E b \in Builds : force[b] /\ stage[b] \in {"remove", "write"}
  OBVIOUS
<1> USE DEF BundleInv
<1>1. PICK b \in Builds : Bundle!Remove(b) \/ Bundle!Write(b)
  BY DEF Bundle!Next, Bundle!vars, Bundle!Begin, Bundle!Load, Bundle!Prepare, Bundle!Kill
<1>2. CASE Bundle!Remove(b)
  <2>1. doomed[b] # {} /\ stage[b] = "remove"
    BY <1>2 DEF Bundle!Remove
  <2> QED
    BY <2>1 DEF RemovingInv
<1>3. CASE Bundle!Write(b)
  <2>1. stage[b] = "write" /\ dir' = [dir EXCEPT ![Bundle!Order[written[b] + 1]] =
                                        [by |-> b, whole |-> dir[Bundle!Order[written[b] + 1]] = [by |-> b, whole |-> FALSE]]]
    BY <1>3 DEF Bundle!Write
  <2>2. f = Bundle!Order[written[b] + 1]
    BY <2>1 DEF BundleTyped
  <2>3. dir[f] = [by |-> b, whole |-> FALSE]
    BY <2>1, <2>2, Places DEF WritingInv, Begun
  <2> QED
    BY <2>3
<1> QED
  BY <1>1, <1>2, <1>3

-----------------------------------------------------------------------------
(* The captures.                                                            *)

Contents == [by : SUBSET Captures, whole : BOOLEAN]
Manifests == [by : Captures, whole : BOOLEAN, files : [Capture!Names -> Maybe(Contents)]]

CaptureTyped ==
  /\ at \in [Captures -> {"idle", "check", "command", "write", "done", "refused", "timeout", "killed"}]
  /\ step \in [Captures -> 1..9]
  /\ digests \in [Captures -> [Capture!Names -> Maybe(Contents)]]
  /\ files \in [Capture!Names -> Maybe(Contents)]
  /\ manifest \in Maybe(Manifests)

\* Who meets whom: of two of one kind that are both past the check, one of them
\* still at work, each had found the directory empty beside the other.
OrderInv ==
  /\ \A c \in Captures : at[c] \in {"idle", "check", "command"} => step[c] = 1
  /\ \A c \in Captures : at[c] = "write" => step[c] \in 1..8
  /\ \A c \in Captures : at[c] = "done" => step[c] = 9
  /\ \A c, d \in Captures :
       c # d /\ at[c] \in {"command", "write", "done"} /\ at[d] \in {"command", "write"}
         /\ Kind[c] = Kind[d] => c \in shared /\ d \in shared

\* Every file was written by captures that give it this name, and those of a
\* capture that writes alone are as far as it is.
ProgressInv ==
  /\ \A n \in Capture!Names : files[n] # None =>
       \A d \in files[n].by : n \in {Capture!Raw(d), Capture!Data(d)}
  /\ \A c \in Captures : step[c] >= 2 => files[Capture!Raw(c)] # None
  /\ \A c \in Captures : step[c] >= 4 => files[Capture!Data(c)] # None
  /\ \A c \in Captures : at[c] = "write" /\ c \notin shared =>
       /\ step[c] = 2 => files[Capture!Raw(c)] = Capture!Part(c)
       /\ step[c] >= 3 => files[Capture!Raw(c)] = Capture!All(c)
       /\ step[c] = 4 => files[Capture!Data(c)] = Capture!Part(c)
       /\ step[c] >= 5 => files[Capture!Data(c)] = Capture!All(c)

\* The digests of a capture are of its two files, and of what it wrote itself
\* where it writes alone.
DigestInv ==
  \A c \in Captures :
    /\ \A n \in Capture!Names :
         digests[c][n] # None <=> \/ step[c] >= 6 /\ n = Capture!Data(c)
                                  \/ step[c] >= 7 /\ n = Capture!Raw(c)
    /\ at[c] = "write" /\ c \notin shared =>
         \A n \in Capture!Names : digests[c][n] # None => digests[c][n] = Capture!All(c)

ManifestInv ==
  manifest # None => LET c == manifest.by IN
    /\ manifest.whole => at[c] \notin {"command", "write"}
    /\ Capture!Listed = {Capture!Raw(c), Capture!Data(c)}
    /\ c \notin shared => \A n \in Capture!Listed : manifest.files[n] = Capture!All(c)

\* What is there was written by somebody.
WrittenInv ==
  /\ ~ Capture!Empty => \E c \in Captures : step[c] > 1
  /\ \A c \in Captures : at[c] = "refused" => \E d \in Captures : step[d] > 1

CaptureInv ==
  CaptureTyped /\ OrderInv /\ ProgressInv /\ DigestInv /\ ManifestInv /\ WrittenInv /\ Capture!OwnFiles

LEMMA NameFacts ==
  /\ \A c, d \in Captures : Capture!Raw(c) = Capture!Raw(d) => Kind[c] = Kind[d]
  /\ \A c, d \in Captures : Capture!Data(c) = Capture!Data(d) => Kind[c] = Kind[d]
  /\ \A c, d \in Captures : Capture!Raw(c) # Capture!Data(d)
  /\ \A c \in Captures : Capture!Raw(c) \in Capture!Names /\ Capture!Data(c) \in Capture!Names
  /\ \A c \in Captures : Capture!Raw(c) # "manifest.json" /\ Capture!Data(c) # "manifest.json"
  /\ \A S \in SUBSET Captures, w \in BOOLEAN : [by |-> S, whole |-> w] \in Contents
  /\ None \notin Contents /\ None \notin Manifests
  BY CapturesAssumption, NoneAssumption DEF CapturesAssumption, NoneAssumption, Capture!Raw,
     Capture!Data, Capture!Names, Contents, Manifests, Maybe

LEMMA Wholes ==
  \A c \in Captures : /\ Capture!All(c) \in Contents /\ Capture!All(c) # None
                      /\ Capture!Part(c) \in Contents /\ Capture!Part(c) # None
  BY NameFacts DEF Capture!All, Capture!Part

LEMMA CaptureInit == Capture!Init => CaptureInv
<1> SUFFICES ASSUME Capture!Init PROVE CaptureInv
  OBVIOUS
<1> USE DEF Capture!Init
<1>1. CaptureTyped
  BY DEF CaptureTyped, Maybe
<1>2. OrderInv /\ ProgressInv /\ DigestInv /\ ManifestInv /\ Capture!OwnFiles
  BY DEF OrderInv, ProgressInv, DigestInv, ManifestInv, Capture!OwnFiles
<1>3. WrittenInv
  BY DEF WrittenInv, Capture!Empty
<1> QED
  BY <1>1, <1>2, <1>3 DEF CaptureInv

\* The steps that only change what a capture does.
LEMMA CaptureStops ==
  ASSUME CaptureInv, NEW c \in Captures, at[c] \in {"idle", "check", "command", "write"},
         NEW how \in {"check", "command", "write", "refused", "timeout", "killed"},
         at' = [at EXCEPT ![c] = how],
         UNCHANGED <<step, digests, files, manifest>>, shared \subseteq shared',
         how = "check" => at[c] = "idle",
         how = "command" => /\ at[c] = "check" /\ Capture!Empty
                            /\ Capture!Peers(c) = {} \/ {c} \cup Capture!Peers(c) \subseteq shared',
         how = "write" => at[c] = "command",
         how = "refused" => ~ Capture!Empty
  PROVE  CaptureInv'
<1> USE DEF CaptureInv
<1>1. \A d \in Captures : at'[d] = IF d = c THEN how ELSE at[d]
  BY DEF CaptureTyped
<1>2. CaptureTyped'
  BY DEF CaptureTyped
<1>3. OrderInv'
  <2>1. /\ \A d \in Captures : at'[d] \in {"idle", "check", "command"} => step'[d] = 1
        /\ \A d \in Captures : at'[d] = "write" => step'[d] \in 1..8
        /\ \A d \in Captures : at'[d] = "done" => step'[d] = 9
    BY <1>1 DEF OrderInv
  <2>2. ASSUME NEW d \in Captures, NEW e \in Captures, d # e, at'[d] \in {"command", "write", "done"},
               at'[e] \in {"command", "write"}, Kind[d] = Kind[e]
        PROVE  d \in shared' /\ e \in shared'
    <3>1. CASE at[d] \in {"command", "write", "done"} /\ at[e] \in {"command", "write"}
      BY <2>2, <3>1 DEF OrderInv
    <3>2. CASE ~ (at[d] \in {"command", "write", "done"} /\ at[e] \in {"command", "write"})
      <4>1. c \in {d, e} /\ how = "command"
        BY <1>1, <2>2, <3>2
      <4>2. at[d] # "done"
        <5> SUFFICES ASSUME at[d] = "done" PROVE FALSE
          OBVIOUS
        <5>1. step[d] = 9 /\ files[Capture!Raw(d)] # None
          BY DEF OrderInv, ProgressInv
        <5> QED
          BY <4>1, <5>1, NameFacts DEF Capture!Empty
      <4>3. \A f \in {d, e} : f = c \/ f \in Capture!Peers(c)
        BY <1>1, <2>2, <4>1, <4>2 DEF Capture!Peers, Capture!Admitted
      <4> QED
        BY <2>2, <4>1, <4>3
    <3> QED
      BY <3>1, <3>2
  <2> QED
    BY <2>1, <2>2 DEF OrderInv
<1>4. \A d \in Captures : at'[d] = "write" /\ at[d] # "write" => step[d] = 1
  BY <1>1 DEF OrderInv
<1>5. ProgressInv'
  BY <1>4 DEF ProgressInv, Capture!Part, Capture!All
<1>6. DigestInv'
  BY <1>4 DEF DigestInv, Capture!All
<1>7. ManifestInv'
  <2> SUFFICES ASSUME manifest # None
               PROVE  /\ manifest.whole => at'[manifest.by] \notin {"command", "write"}
                      /\ Capture!Listed' = {Capture!Raw(manifest.by), Capture!Data(manifest.by)}
                      /\ manifest.by \notin shared' =>
                           \A n \in Capture!Listed' : manifest.files[n] = Capture!All(manifest.by)
    BY DEF ManifestInv, Capture!All
  <2>1. Capture!Listed' = Capture!Listed
    BY DEF Capture!Listed
  <2>2. manifest.by \in Captures /\ ~ Capture!Empty
    BY DEF CaptureTyped, Manifests, Maybe, Capture!Empty
  <2>3. manifest.whole => at'[manifest.by] \notin {"command", "write"}
    BY <1>1, <2>2 DEF ManifestInv
  <2> QED
    BY <2>1, <2>3 DEF ManifestInv
<1>8. WrittenInv'
  BY <1>1 DEF WrittenInv, Capture!Empty
<1>9. Capture!OwnFiles'
  BY <1>1 DEF Capture!OwnFiles, Capture!All
<1> QED
  BY <1>2, <1>3, <1>5, <1>6, <1>7, <1>8, <1>9

\* The next step of a capture that writes.
LEMMA NextSteps ==
  ASSUME CaptureInv, NEW c \in Captures, at[c] = "write", Capture!NextStep(c), UNCHANGED shared
  PROVE  /\ step[c] \in 1..8
         /\ \A d \in Captures : step'[d] = IF d = c THEN step[c] + 1 ELSE step[d]
         /\ \A d \in Captures : at'[d] = IF d = c /\ step[c] = 8 THEN "done" ELSE at[d]
         /\ step' \in [Captures -> 1..9]
         /\ at' \in [Captures -> {"idle", "check", "command", "write", "done", "refused", "timeout", "killed"}]
         /\ OrderInv'
<1>1. /\ step[c] \in 1..8 /\ \A d \in Captures : step'[d] = IF d = c THEN step[c] + 1 ELSE step[d]
      /\ \A d \in Captures : at'[d] = IF d = c /\ step[c] = 8 THEN "done" ELSE at[d]
      /\ step' \in [Captures -> 1..9]
      /\ at' \in [Captures -> {"idle", "check", "command", "write", "done", "refused", "timeout", "killed"}]
  BY DEF CaptureInv, OrderInv, CaptureTyped, Capture!NextStep, Capture!Steps
<1>2. OrderInv'
  BY <1>1 DEF CaptureInv, OrderInv
<1> QED
  BY <1>1, <1>2

LEMMA Doings ==
  ASSUME CaptureInv, NEW c \in Captures, NEW what, NEW name, Capture!Doing(c, what, name)
  PROVE  /\ at[c] = "write" /\ step[c] \in 1..8
         /\ what = "open"   => \/ step[c] = 1 /\ name = Capture!Raw(c)
                               \/ step[c] = 3 /\ name = Capture!Data(c)
                               \/ step[c] = 7 /\ name = "manifest.json"
         /\ what = "write"  => \/ step[c] = 2 /\ name = Capture!Raw(c)
                               \/ step[c] = 4 /\ name = Capture!Data(c)
                               \/ step[c] = 8 /\ name = "manifest.json"
         /\ what = "digest" => \/ step[c] = 5 /\ name = Capture!Data(c)
                               \/ step[c] = 6 /\ name = Capture!Raw(c)
<1>1. at[c] = "write" /\ step[c] \in 1..8 /\ Capture!Steps(c)[step[c]] = <<what, name>>
  BY DEF Capture!Doing, CaptureInv, OrderInv
<1> QED
  BY <1>1 DEF Capture!Steps

\* Nobody else writes the files of a capture that found the directory empty
\* without one of its kind.
LEMMA AloneOfItsKind ==
  ASSUME CaptureInv, NEW c \in Captures, NEW d \in Captures, c # d, d \notin shared,
         at[c] = "write", at[d] \in {"write", "done"}
  PROVE  {Capture!Raw(c), Capture!Data(c)} \cap {Capture!Raw(d), Capture!Data(d)} = {}
<1>1. Kind[c] # Kind[d]
  BY DEF CaptureInv, OrderInv
<1> QED
  BY <1>1, NameFacts

LEMMA CaptureWrites ==
  ASSUME CaptureInv, NEW c \in Captures, NEW name \in Capture!Names, Capture!WriteFile(c, name)
  PROVE  CaptureInv'
<1> USE DEF CaptureInv
<1>1. PICK what \in {"open", "write"}, others \in SUBSET Captures :
        /\ Capture!Doing(c, what, name)
        /\ files' = [files EXCEPT ![name] = [by |-> {c} \cup others, whole |-> (what = "write")]]
        /\ what = "open" => others = {}
        /\ what = "write" => others \subseteq files[name].by /\ files[name] # None
  <2>1. CASE Capture!Doing(c, "open", name) /\ files' = [files EXCEPT ![name] = Capture!Part(c)]
    <3>1. Capture!Part(c) = [by |-> {c} \cup {}, whole |-> ("open" = "write")]
      <4>1. ("open" = "write") = FALSE /\ {c} \cup {} = {c}
        OBVIOUS
      <4> QED
        BY <4>1 DEF Capture!Part
    <3>2. files' = [files EXCEPT ![name] = [by |-> {c} \cup {}, whole |-> ("open" = "write")]]
      BY <2>1, <3>1
    <3>3. {} \in SUBSET Captures /\ "open" \in {"open", "write"} /\ "open" # "write"
      OBVIOUS
    <3> QED
      BY <2>1, <3>2, <3>3
  <2>2. CASE /\ Capture!Doing(c, "write", name)
             /\ \E others \in SUBSET files[name].by :
                  files' = [files EXCEPT ![name] = [by |-> {c} \cup others, whole |-> TRUE]]
    <3>1. PICK others \in SUBSET files[name].by :
            files' = [files EXCEPT ![name] = [by |-> {c} \cup others, whole |-> TRUE]]
      BY <2>2
    <3>2. name \in {Capture!Raw(c), Capture!Data(c)} /\ files[name] # None
      <4>1. Capture!Doing(c, "write", name) /\ name # "manifest.json"
        BY <2>2, NameFacts DEF Capture!Names
      <4>2. \/ step[c] = 2 /\ name = Capture!Raw(c)
            \/ step[c] = 4 /\ name = Capture!Data(c)
        BY <4>1, Doings
      <4> QED
        BY <4>2 DEF ProgressInv
    <3>3. files[name] \in Contents /\ others \in SUBSET Captures
      BY <3>1, <3>2 DEF CaptureTyped, Maybe, Contents
    <3>4. ("write" = "write") = TRUE
      OBVIOUS
    <3> QED
      BY <2>2, <3>1, <3>2, <3>3, <3>4
  <2> QED
    BY <2>1, <2>2 DEF Capture!WriteFile
<1>2. /\ at[c] = "write" /\ step[c] \in {1, 2, 3, 4} /\ UNCHANGED <<shared, digests, manifest>>
      /\ what = "open"  => \/ step[c] = 1 /\ name = Capture!Raw(c)
                           \/ step[c] = 3 /\ name = Capture!Data(c)
      /\ what = "write" => \/ step[c] = 2 /\ name = Capture!Raw(c)
                           \/ step[c] = 4 /\ name = Capture!Data(c)
      /\ Capture!NextStep(c)
  <2>1. name # "manifest.json"
    BY NameFacts DEF Capture!Names
  <2>2. Capture!NextStep(c) /\ UNCHANGED <<shared, digests, manifest>>
    BY DEF Capture!WriteFile
  <2> QED
    BY <1>1, <2>1, <2>2, Doings
<1>3. /\ \A d \in Captures : step'[d] = IF d = c THEN step[c] + 1 ELSE step[d]
      /\ at' = at /\ step' \in [Captures -> 1..9] /\ OrderInv'
  BY <1>2, NextSteps DEF CaptureTyped
<1> DEFINE new == [by |-> {c} \cup others, whole |-> (what = "write")]
<1>4. new \in Contents /\ new # None
  <2>1. {c} \cup others \in SUBSET Captures /\ (what = "write") \in BOOLEAN
    OBVIOUS
  <2> QED
    BY <2>1, NameFacts
<1>5. \A n \in Capture!Names : files'[n] = IF n = name THEN new ELSE files[n]
  BY <1>1 DEF CaptureTyped
<1>6. new.by = {c} \cup others
  OBVIOUS
<1>7. c \notin shared => new = IF what = "write" THEN Capture!All(c) ELSE Capture!Part(c)
  <2> SUFFICES ASSUME c \notin shared PROVE new = IF what = "write" THEN Capture!All(c) ELSE Capture!Part(c)
    OBVIOUS
  <2>1. what = "write" => files[name] = Capture!Part(c)
    BY <1>2 DEF ProgressInv
  <2>2. {c} \cup others = {c}
    BY <1>1, <2>1 DEF Capture!Part
  <2> QED
    BY <2>2 DEF Capture!All, Capture!Part
<1> HIDE DEF new
<1>8. CaptureTyped'
  <2>1. files' \in [Capture!Names -> Maybe(Contents)]
    BY <1>1, <1>4 DEF CaptureTyped, Maybe, new
  <2> QED
    BY <1>2, <1>3, <2>1 DEF CaptureTyped
<1>9. ProgressInv'
  <2>1. ASSUME NEW n \in Capture!Names, files'[n] # None, NEW d \in files'[n].by
        PROVE  n \in {Capture!Raw(d), Capture!Data(d)}
    <3>1. CASE n # name
      BY <1>5, <2>1, <3>1 DEF ProgressInv
    <3>2. CASE n = name /\ d = c
      BY <1>2, <3>2
    <3>3. CASE n = name /\ d # c
      <4>1. d \in others /\ others \subseteq files[name].by /\ files[name] # None
        BY <1>1, <1>5, <1>6, <2>1, <3>3
      <4> QED
        BY <3>3, <4>1 DEF ProgressInv
    <3> QED
      BY <3>1, <3>2, <3>3
  <2>2. ASSUME NEW d \in Captures
        PROVE  /\ step'[d] >= 2 => files'[Capture!Raw(d)] # None
               /\ step'[d] >= 4 => files'[Capture!Data(d)] # None
    <3>1. /\ d = c /\ step'[d] >= 2 => name = Capture!Raw(d) \/ step[d] >= 2
          /\ d = c /\ step'[d] >= 4 => name = Capture!Data(d) \/ step[d] >= 4
      BY <1>2, <1>3
    <3>2. Capture!Raw(d) \in Capture!Names /\ Capture!Data(d) \in Capture!Names
      BY NameFacts
    <3>3. /\ step[d] >= 2 => files[Capture!Raw(d)] # None
          /\ step[d] >= 4 => files[Capture!Data(d)] # None
      BY DEF ProgressInv
    <3>4. d # c => step'[d] = step[d]
      BY <1>3
    <3> QED
      BY <1>4, <1>5, <3>1, <3>2, <3>3, <3>4
  <2>3. ASSUME NEW d \in Captures, at[d] = "write", d \notin shared
        PROVE  /\ step'[d] = 2 => files'[Capture!Raw(d)] = Capture!Part(d)
               /\ step'[d] >= 3 => files'[Capture!Raw(d)] = Capture!All(d)
               /\ step'[d] = 4 => files'[Capture!Data(d)] = Capture!Part(d)
               /\ step'[d] >= 5 => files'[Capture!Data(d)] = Capture!All(d)
    <3>1. /\ Capture!Raw(d) \in Capture!Names /\ Capture!Data(d) \in Capture!Names
          /\ Capture!Raw(d) # Capture!Data(d)
      BY NameFacts
    <3>2. /\ step[d] = 2 => files[Capture!Raw(d)] = Capture!Part(d)
          /\ step[d] >= 3 => files[Capture!Raw(d)] = Capture!All(d)
          /\ step[d] = 4 => files[Capture!Data(d)] = Capture!Part(d)
          /\ step[d] >= 5 => files[Capture!Data(d)] = Capture!All(d)
      BY <2>3 DEF ProgressInv
    <3>3. CASE d # c
      <4>1. name \notin {Capture!Raw(d), Capture!Data(d)}
        BY <1>2, <2>3, <3>3, AloneOfItsKind
      <4>2. step'[d] = step[d]
        BY <1>3, <3>3
      <4> QED
        BY <1>5, <3>1, <3>2, <4>1, <4>2
    <3>4. CASE d = c
      <4>1. files'[name] = IF what = "write" THEN Capture!All(d) ELSE Capture!Part(d)
        BY <1>5, <1>7, <2>3, <3>4
      <4>2. \A n \in Capture!Names : n # name => files'[n] = files[n]
        BY <1>5
      <4>3. \/ step[d] = 1 /\ step'[d] = 2 /\ name = Capture!Raw(d) /\ what = "open"
            \/ step[d] = 2 /\ step'[d] = 3 /\ name = Capture!Raw(d) /\ what = "write"
            \/ step[d] = 3 /\ step'[d] = 4 /\ name = Capture!Data(d) /\ what = "open"
            \/ step[d] = 4 /\ step'[d] = 5 /\ name = Capture!Data(d) /\ what = "write"
        BY <1>2, <1>3, <3>4
      <4>4. CASE step[d] = 1
        BY <3>1, <4>1, <4>2, <4>3, <4>4
      <4>5. CASE step[d] = 2
        BY <3>1, <4>1, <4>2, <4>3, <4>5
      <4>6. CASE step[d] = 3
        BY <3>1, <3>2, <4>1, <4>2, <4>3, <4>6
      <4>7. CASE step[d] = 4
        BY <3>1, <3>2, <4>1, <4>2, <4>3, <4>7
      <4> QED
        BY <4>3, <4>4, <4>5, <4>6, <4>7
    <3> QED
      BY <3>3, <3>4
  <2> QED
    BY <1>2, <1>3, <2>1, <2>2, <2>3 DEF ProgressInv, Capture!Part, Capture!All
<1>10. DigestInv'
  BY <1>2, <1>3 DEF DigestInv, Capture!All
<1>11. ManifestInv'
  BY <1>2, <1>3 DEF ManifestInv, Capture!Listed, Capture!All
<1>12. WrittenInv'
  BY <1>2, <1>3 DEF WrittenInv
<1>13. Capture!OwnFiles'
  <2> SUFFICES ASSUME NEW d \in Captures, at[d] = "done", d \notin shared
               PROVE  files'[Capture!Raw(d)] = Capture!All(d) /\ files'[Capture!Data(d)] = Capture!All(d)
    BY <1>2, <1>3 DEF Capture!OwnFiles, Capture!All
  <2>1. name \notin {Capture!Raw(d), Capture!Data(d)}
    BY <1>2, AloneOfItsKind
  <2> QED
    BY <1>5, <2>1, NameFacts DEF Capture!OwnFiles
<1> QED
  BY <1>3, <1>8, <1>9, <1>10, <1>11, <1>12, <1>13

LEMMA CaptureDigests ==
  ASSUME CaptureInv, NEW c \in Captures, NEW name \in Capture!Names, Capture!Digest(c, name)
  PROVE  CaptureInv'
<1> USE DEF CaptureInv
<1>1. /\ at[c] = "write" /\ UNCHANGED <<shared, files, manifest>>
      /\ \/ step[c] = 5 /\ name = Capture!Data(c)
         \/ step[c] = 6 /\ name = Capture!Raw(c)
      /\ digests' = [digests EXCEPT ![c] = [@ EXCEPT ![name] = files[name]]]
      /\ Capture!NextStep(c)
  <2>1. /\ Capture!Doing(c, "digest", name) /\ UNCHANGED <<shared, files, manifest>>
        /\ digests' = [digests EXCEPT ![c] = [@ EXCEPT ![name] = files[name]]]
        /\ Capture!NextStep(c)
    BY DEF Capture!Digest
  <2> QED
    BY <2>1, Doings
<1>2. /\ \A d \in Captures : step'[d] = IF d = c THEN step[c] + 1 ELSE step[d]
      /\ at' = at /\ step' \in [Captures -> 1..9] /\ OrderInv'
  BY <1>1, NextSteps DEF CaptureTyped
<1>3. /\ \A d \in Captures : d # c => digests'[d] = digests[d]
      /\ \A n \in Capture!Names : digests'[c][n] = IF n = name THEN files[name] ELSE digests[c][n]
      /\ digests' \in [Captures -> [Capture!Names -> Maybe(Contents)]]
  BY <1>1 DEF CaptureTyped
<1>4. CaptureTyped'
  BY <1>1, <1>2, <1>3 DEF CaptureTyped
<1>5. ProgressInv'
  <2>1. ASSUME NEW d \in Captures
        PROVE  /\ step'[d] >= 2 => step[d] >= 2
               /\ step'[d] >= 4 => step[d] >= 4
               /\ step'[d] = 2 => step[d] = 2
               /\ step'[d] >= 3 => step[d] >= 3
               /\ step'[d] = 4 => step[d] = 4
               /\ step'[d] >= 5 => step[d] >= 5
    BY <1>1, <1>2
  <2> QED
    BY <1>1, <1>2, <2>1 DEF ProgressInv, Capture!Part, Capture!All
<1>6. DigestInv'
  <2>1. ASSUME NEW d \in Captures, NEW n \in Capture!Names
        PROVE  digests'[d][n] # None <=> \/ step'[d] >= 6 /\ n = Capture!Data(d)
                                         \/ step'[d] >= 7 /\ n = Capture!Raw(d)
    <3>1. digests[d][n] # None <=> \/ step[d] >= 6 /\ n = Capture!Data(d)
                                   \/ step[d] >= 7 /\ n = Capture!Raw(d)
      BY DEF DigestInv
    <3>2. CASE d # c
      BY <1>2, <1>3, <3>1, <3>2
    <3>3. CASE d = c
      <4>1. files[name] # None
        BY <1>1 DEF ProgressInv
      <4>2. digests'[d][n] # None <=> n = name \/ digests[d][n] # None
        BY <1>3, <3>3, <4>1
      <4>3. Capture!Raw(d) # Capture!Data(d)
        BY NameFacts
      <4> QED
        BY <1>1, <1>2, <3>1, <3>3, <4>2, <4>3
    <3> QED
      BY <3>2, <3>3
  <2>2. ASSUME NEW d \in Captures, at[d] = "write", d \notin shared, NEW n \in Capture!Names, digests'[d][n] # None
        PROVE  digests'[d][n] = Capture!All(d)
    <3>1. CASE d = c /\ n = name
      <4>1. files[name] = Capture!All(c)
        BY <1>1, <2>2, <3>1 DEF ProgressInv
      <4> QED
        BY <1>3, <3>1, <4>1
    <3>2. CASE ~ (d = c /\ n = name)
      BY <1>3, <2>2, <3>2 DEF DigestInv
    <3> QED
      BY <3>1, <3>2
  <2> QED
    BY <1>1, <1>2, <2>1, <2>2 DEF DigestInv, Capture!All
<1>7. ManifestInv'
  BY <1>1, <1>2 DEF ManifestInv, Capture!Listed, Capture!All
<1>8. WrittenInv' /\ Capture!OwnFiles'
  BY <1>1, <1>2 DEF WrittenInv, Capture!OwnFiles, Capture!All, Capture!Empty
<1> QED
  BY <1>2, <1>4, <1>5, <1>6, <1>7, <1>8

LEMMA CaptureCloses ==
  ASSUME CaptureInv, NEW c \in Captures, Capture!WriteManifest(c)
  PROVE  CaptureInv'
<1> USE DEF CaptureInv
<1>1. PICK whole \in BOOLEAN :
        /\ \/ Capture!Doing(c, "open", "manifest.json") /\ ~ whole
           \/ Capture!Doing(c, "write", "manifest.json")
        /\ manifest' = [by |-> c, whole |-> whole, files |-> digests[c]]
  BY DEF Capture!WriteManifest
<1>2. /\ at[c] = "write" /\ step[c] \in {7, 8} /\ (whole => step[c] = 8)
      /\ Capture!NextStep(c) /\ UNCHANGED <<shared, digests, files>>
  <2>1. Capture!NextStep(c) /\ UNCHANGED <<shared, digests, files>>
    BY DEF Capture!WriteManifest
  <2>2. "manifest.json" # Capture!Raw(c) /\ "manifest.json" # Capture!Data(c)
    BY NameFacts
  <2> QED
    BY <1>1, <2>1, <2>2, Doings
<1>3. /\ \A d \in Captures : step'[d] = IF d = c THEN step[c] + 1 ELSE step[d]
      /\ \A d \in Captures : at'[d] = IF d = c /\ step[c] = 8 THEN "done" ELSE at[d]
      /\ at' \in [Captures -> {"idle", "check", "command", "write", "done", "refused", "timeout", "killed"}]
      /\ step' \in [Captures -> 1..9] /\ OrderInv'
  BY <1>2, NextSteps
<1>4. manifest' \in Manifests
  <2>1. digests[c] \in [Capture!Names -> Maybe(Contents)]
    BY DEF CaptureTyped
  <2> QED
    BY <1>1, <2>1 DEF Manifests
<1>5. CaptureTyped'
  BY <1>2, <1>3, <1>4 DEF CaptureTyped, Maybe
<1>6. ProgressInv'
  <2>1. ASSUME NEW d \in Captures
        PROVE  /\ step'[d] >= 2 => step[d] >= 2
               /\ step'[d] >= 4 => step[d] >= 4
               /\ step'[d] = 2 => step[d] = 2
               /\ step'[d] >= 3 => step[d] >= 3
               /\ step'[d] = 4 => step[d] = 4
               /\ step'[d] >= 5 => step[d] >= 5
               /\ at'[d] = "write" => at[d] = "write"
    BY <1>2, <1>3
  <2> QED
    BY <1>2, <2>1 DEF ProgressInv, Capture!Part, Capture!All
<1>7. DigestInv'
  <2>1. ASSUME NEW d \in Captures
        PROVE  /\ step'[d] >= 6 <=> step[d] >= 6
               /\ step'[d] >= 7 <=> step[d] >= 7
               /\ at'[d] = "write" => at[d] = "write"
    BY <1>2, <1>3
  <2> QED
    BY <1>2, <2>1 DEF DigestInv, Capture!All
<1>8. ManifestInv'
  <2>1. manifest'.by = c /\ manifest'.whole = whole /\ manifest'.files = digests[c]
    BY <1>1
  <2>2. Capture!Listed' = {n \in Capture!Names : digests[c][n] # None}
    BY <2>1 DEF Capture!Listed, Capture!Names
  <2>3. \A n \in Capture!Names : digests[c][n] # None <=> n \in {Capture!Raw(c), Capture!Data(c)}
    BY <1>2 DEF DigestInv
  <2>4. Capture!Listed' = {Capture!Raw(c), Capture!Data(c)}
    BY <2>2, <2>3, NameFacts
  <2>5. c \notin shared => \A n \in Capture!Listed' : digests[c][n] = Capture!All(c)
    BY <1>2, <2>2 DEF DigestInv
  <2>6. whole => at'[c] \notin {"command", "write"}
    BY <1>2, <1>3
  <2>7. Capture!All(c)' = Capture!All(c)
    BY DEF Capture!All
  <2> QED
    BY <1>2, <2>1, <2>4, <2>5, <2>6, <2>7 DEF ManifestInv
<1>9. WrittenInv'
  BY <1>2, <1>3 DEF WrittenInv
<1>10. Capture!OwnFiles'
  <2> SUFFICES ASSUME NEW d \in Captures, at'[d] = "done", d \notin shared
               PROVE  files[Capture!Raw(d)] = Capture!All(d) /\ files[Capture!Data(d)] = Capture!All(d)
    BY <1>2 DEF Capture!OwnFiles, Capture!All
  <2>1. CASE d = c
    BY <1>2, <2>1 DEF ProgressInv
  <2>2. CASE d # c
    BY <1>3, <2>2 DEF Capture!OwnFiles
  <2> QED
    BY <2>1, <2>2
<1> QED
  BY <1>3, <1>5, <1>6, <1>7, <1>8, <1>9, <1>10

LEMMA CaptureNext == CaptureInv /\ [Capture!Next]_(Capture!vars) => CaptureInv'
<1> SUFFICES ASSUME CaptureInv, [Capture!Next]_(Capture!vars) PROVE CaptureInv'
  OBVIOUS
<1>1. CASE UNCHANGED Capture!vars
  <2>1. CaptureTyped' /\ OrderInv' /\ DigestInv'
    BY <1>1 DEF Capture!vars, CaptureInv, CaptureTyped, OrderInv, DigestInv, Capture!All
  <2>2. ProgressInv' /\ Capture!OwnFiles'
    BY <1>1 DEF Capture!vars, CaptureInv, ProgressInv, Capture!OwnFiles, Capture!Part, Capture!All
  <2>3. ManifestInv'
    BY <1>1 DEF Capture!vars, CaptureInv, ManifestInv, Capture!Listed, Capture!All
  <2>4. WrittenInv'
    BY <1>1 DEF Capture!vars, CaptureInv, WrittenInv, Capture!Empty
  <2> QED
    BY <2>1, <2>2, <2>3, <2>4 DEF CaptureInv
<1>2. ASSUME NEW c \in Captures, Capture!Begin(c) \/ Capture!RunCommand(c) \/ Capture!Kill(c)
      PROVE  CaptureInv'
  BY <1>2, CaptureStops DEF Capture!Begin, Capture!RunCommand, Capture!Kill, Capture!Stop, Capture!Running
<1>3. ASSUME NEW c \in Captures, Capture!EnsureEmpty(c) PROVE CaptureInv'
  <2>1. /\ at[c] = "check" /\ UNCHANGED <<step, digests, files, manifest>>
        /\ at' = [at EXCEPT ![c] = IF Capture!Empty THEN "command" ELSE "refused"]
        /\ shared' = IF ~ Capture!Empty \/ Capture!Peers(c) = {} THEN shared
                     ELSE shared \cup {c} \cup Capture!Peers(c)
    BY <1>3 DEF Capture!EnsureEmpty, Capture!Stop
  <2>2. shared \subseteq shared'
    BY <2>1
  <2>3. CASE Capture!Empty
    <3>1. Capture!Peers(c) = {} \/ {c} \cup Capture!Peers(c) \subseteq shared'
      BY <2>1, <2>3
    <3>2. at' = [at EXCEPT ![c] = "command"]
      BY <2>1, <2>3
    <3> QED
      BY <2>1, <2>2, <2>3, <3>1, <3>2, CaptureStops
  <2>4. CASE ~ Capture!Empty
    <3>1. at' = [at EXCEPT ![c] = "refused"]
      BY <2>1, <2>4
    <3> QED
      BY <2>1, <2>2, <2>4, <3>1, CaptureStops
  <2> QED
    BY <2>3, <2>4
<1> QED
  BY <1>1, <1>2, <1>3, CaptureWrites, CaptureDigests, CaptureCloses DEF Capture!Next

LEMMA CaptureShown ==
  CaptureInv => Capture!VerifiedIsOneCapture /\ Capture!OwnFiles /\ Capture!RetryPossible
<1> SUFFICES ASSUME CaptureInv PROVE Capture!VerifiedIsOneCapture /\ Capture!RetryPossible
  BY DEF CaptureInv
<1>1. Capture!VerifiedIsOneCapture
  <2> SUFFICES ASSUME Capture!Verifies, NEW c, c = manifest.by
               PROVE  /\ Capture!Listed = {Capture!Raw(c), Capture!Data(c)}
                      /\ \A n \in Capture!Listed : \A d \in files[n].by : Kind[d] = Kind[c]
                      /\ c \notin shared => \A n \in Capture!Listed : files[n] = Capture!All(c)
    BY DEF Capture!VerifiedIsOneCapture
  <2>1. manifest # None /\ manifest \in Manifests /\ c \in Captures
    BY DEF Capture!Verifies, CaptureInv, CaptureTyped, Manifests, Maybe
  <2>2. /\ Capture!Listed = {Capture!Raw(c), Capture!Data(c)}
        /\ c \notin shared => \A n \in Capture!Listed : manifest.files[n] = Capture!All(c)
    BY <2>1 DEF CaptureInv, ManifestInv
  <2>3. \A n \in Capture!Listed : n \in Capture!Names /\ files[n] = manifest.files[n] /\ files[n] # None
    BY DEF Capture!Verifies, Capture!Listed
  <2>4. ASSUME NEW n \in Capture!Listed, NEW d \in files[n].by PROVE Kind[d] = Kind[c]
    <3>1. n \in {Capture!Raw(c), Capture!Data(c)} /\ n \in {Capture!Raw(d), Capture!Data(d)}
      BY <2>2, <2>3 DEF CaptureInv, ProgressInv
    <3>2. files[n] \in Contents
      BY <2>3 DEF CaptureInv, CaptureTyped, Maybe
    <3>3. d \in Captures
      BY <3>2 DEF Contents
    <3> QED
      BY <2>1, <3>1, <3>3, NameFacts
  <2> QED
    BY <2>2, <2>3, <2>4
<1>2. Capture!RetryPossible
  BY DEF CaptureInv, CaptureTyped, WrittenInv, Capture!RetryPossible
<1> QED
  BY <1>1, <1>2

LEMMA CaptureKeeps ==
  CaptureInv /\ [Capture!Next]_(Capture!vars) =>
    (Capture!Verifies /\ Capture!Admitted \subseteq {manifest.by} => UNCHANGED <<files, manifest>>)
<1> SUFFICES ASSUME CaptureInv, [Capture!Next]_(Capture!vars), Capture!Verifies,
                    Capture!Admitted \subseteq {manifest.by}
             PROVE  UNCHANGED <<files, manifest>>
  OBVIOUS
<1>1. at[manifest.by] \notin {"command", "write"}
  BY DEF CaptureInv, ManifestInv, Capture!Verifies
<1>2. \A c \in Captures : at[c] # "write"
  BY <1>1 DEF Capture!Admitted
<1> QED
  BY <1>2 DEF Capture!Next, Capture!vars, Capture!Begin, Capture!EnsureEmpty, Capture!RunCommand,
     Capture!WriteManifest, Capture!Kill, Capture!WriteFile, Capture!Digest, Capture!Doing

-----------------------------------------------------------------------------
(* Conditions of a path, and of its two directions.                         *)

LEMMA Roots ==
  ASSUME NEW s \in {0, 1, 4}, NEW share \in 0..2
  PROVE  Document!Power(s, share) \in 0..4 /\ (Document!Power(s, share) * Document!Power(s, 2 - share)) \div 4 = s
<1>1. PICK r \in 0..4 : r * r = 4 * s
  <2>1. CASE s = 0
    BY <2>1, 0 * 0 = 4 * 0
  <2>2. CASE s = 1
    BY <2>2, 2 * 2 = 4 * 1
  <2>3. CASE s = 4
    BY <2>3, 4 * 4 = 4 * 4
  <2> QED
    BY <2>1, <2>2, <2>3
<1> DEFINE root == CHOOSE x \in 0..4 : x * x = 4 * s
<1>2. root \in 0..4 /\ root * root = 4 * s
  BY <1>1
<1> HIDE DEF root
<1>3. (root * root) \div 4 = s
  BY <1>2
<1>4. CASE share = 0
  <2>1. Document!Power(s, share) = 4 /\ Document!Power(s, 2 - share) = s
    BY <1>4 DEF Document!Power
  <2> QED
    BY <2>1
<1>5. CASE share = 1
  <2>1. Document!Power(s, share) = root /\ Document!Power(s, 2 - share) = root
    BY <1>5 DEF Document!Power, root
  <2> QED
    BY <1>2, <1>3, <2>1
<1>6. CASE share = 2
  <2>1. Document!Power(s, share) = s /\ Document!Power(s, 2 - share) = 4
    BY <1>6 DEF Document!Power
  <2> QED
    BY <2>1
<1> QED
  BY <1>4, <1>5, <1>6

\* A split is of the same kind as what is split, and valid if that is.
LEMMA Splits ==
  ASSUME NEW c \in Scalars, Document!ValidCondition(c), NEW p \in Policies, Document!ValidPolicy(p)
  PROVE  LET pair == Document!Directional(c, p) IN
         /\ pair \in Pairs
         /\ Document!ValidCondition(pair.forward) /\ Document!ValidCondition(pair.reverse)
         /\ c.rate # None => pair.forward.rate # None /\ pair.reverse.rate # None
         /\ p.delay = "split" /\ c.delay \in Even => pair.forward.delay + pair.reverse.delay = c.delay
         /\ p.loss = "equivalent" =>
              Document!EndToEnd(pair.forward.arrive, pair.reverse.arrive) = c.arrive
<1>1. /\ c.delay \in Nat /\ c.arrive \in {0, 1, 4} /\ c.rate \in Maybe(Nat) /\ c.reorder \in 0..100
  BY DEF Scalars, Arrivals, Maybe, Document!ValidCondition
<1>2. /\ p.share \in 0..2 /\ p.reverseRate \in Nat /\ p.reverseRate # None
      /\ p.delay \in {"split", "mirror", "forward-only"}
      /\ p.loss \in {"equivalent", "mirror", "forward-only"}
  BY OptionsAssumption, NoneAssumption DEF OptionsAssumption, NoneAssumption, Document!ValidPolicy
<1> DEFINE delays == Document!SplitLinear(c.delay, p.delay, p.share)
           losses == Document!SplitLoss(c.arrive, p.loss, p.share)
           pair   == Document!Directional(c, p)
<1>3. /\ delays[1] \in Nat /\ delays[2] \in Nat
      /\ p.delay = "split" /\ c.delay \in Even => delays[1] + delays[2] = c.delay
  <2>1. CASE p.delay = "mirror"
    <3>1. delays = <<c.delay, c.delay>>
      BY <2>1 DEF Document!SplitLinear
    <3> QED
      BY <1>1, <2>1, <3>1
  <2>2. CASE p.delay = "forward-only"
    <3>1. delays = <<c.delay, 0>>
      BY <2>2 DEF Document!SplitLinear
    <3> QED
      BY <1>1, <2>2, <3>1
  <2>3. CASE p.delay = "split"
    <3>1. delays = <<(c.delay * p.share) \div 2, (c.delay * (2 - p.share)) \div 2>>
      BY <2>3 DEF Document!SplitLinear
    <3> HIDE DEF delays
    <3>2. p.share = 0 \/ p.share = 1 \/ p.share = 2
      BY <1>2
    <3> DEFINE d == c.delay
    <3>3. d \in Nat /\ (c.delay \in Even => d % 2 = 0)
      BY <1>1 DEF Even
    <3> HIDE DEF d
    <3>4. /\ (d * 0) \div 2 = 0 /\ (d * 2) \div 2 = d /\ (d * 1) \div 2 \in Nat
          /\ d % 2 = 0 => (d * 1) \div 2 + (d * 1) \div 2 = d
      BY <3>3
    <3>5. delays = <<(d * p.share) \div 2, (d * (2 - p.share)) \div 2>>
      BY <3>1 DEF d
    <3>6. /\ delays[1] \in Nat /\ delays[2] \in Nat
          /\ d % 2 = 0 => delays[1] + delays[2] = d
      <4>1. CASE p.share = 0
        BY <3>3, <3>4, <3>5, <4>1
      <4>2. CASE p.share = 1
        BY <3>3, <3>4, <3>5, <4>2
      <4>3. CASE p.share = 2
        BY <3>3, <3>4, <3>5, <4>3
      <4> QED
        BY <3>2, <4>1, <4>2, <4>3
    <3> QED
      BY <3>3, <3>6 DEF d
  <2> QED
    BY <1>2, <2>1, <2>2, <2>3
<1>4. /\ losses[1] \in 0..4 /\ losses[2] \in 0..4
      /\ p.loss = "equivalent" => (losses[1] * losses[2]) \div 4 = c.arrive
  <2>1. CASE p.loss = "mirror"
    <3>1. losses = <<c.arrive, c.arrive>>
      BY <2>1 DEF Document!SplitLoss
    <3> QED
      BY <1>1, <2>1, <3>1
  <2>2. CASE p.loss = "forward-only"
    <3>0. p.loss # "mirror"
      BY <2>2
    <3>1. losses = <<c.arrive, 4>>
      BY <2>2, <3>0, Zenon DEF Document!SplitLoss
    <3> QED
      BY <1>1, <2>2, <3>1
  <2>3. CASE p.loss = "equivalent" /\ c.arrive = 0
    <3>1. losses = <<0, 0>>
      BY <2>3 DEF Document!SplitLoss
    <3> QED
      BY <2>3, <3>1
  <2>4. CASE p.loss = "equivalent" /\ c.arrive # 0
    <3>1. losses = <<Document!Power(c.arrive, p.share), Document!Power(c.arrive, 2 - p.share)>>
      BY <2>4 DEF Document!SplitLoss
    <3>2. 2 - p.share \in 0..2
      BY <1>2
    <3>3. /\ Document!Power(c.arrive, p.share) \in 0..4 /\ Document!Power(c.arrive, 2 - p.share) \in 0..4
          /\ (Document!Power(c.arrive, p.share) * Document!Power(c.arrive, 2 - p.share)) \div 4 = c.arrive
      BY <1>1, <1>2, <3>2, Roots
    <3> QED
      BY <3>1, <3>3
  <2> QED
    BY <1>2, <2>1, <2>2, <2>3, <2>4
<1>5. /\ pair.forward = [delay |-> delays[1], arrive |-> losses[1], rate |-> c.rate, reorder |-> c.reorder]
      /\ pair.reverse = [delay |-> delays[2], arrive |-> losses[2],
                         rate |-> IF p.rate = "mirror" THEN c.rate ELSE p.reverseRate, reorder |-> 0]
      /\ pair = [forward |-> pair.forward, reverse |-> pair.reverse]
  BY DEF Document!Directional
<1> HIDE DEF delays, losses, pair
<1>6. pair.forward \in Conditions /\ Document!ValidCondition(pair.forward)
  BY <1>1, <1>3, <1>4, <1>5 DEF Conditions, Maybe, Document!ValidCondition
<1>7. pair.reverse \in Conditions /\ Document!ValidCondition(pair.reverse)
  <2> DEFINE rate == IF p.rate = "mirror" THEN c.rate ELSE p.reverseRate
  <2>1. rate \in Maybe(Nat)
    BY <1>1, <1>2 DEF Maybe
  <2> HIDE DEF rate
  <2>2. pair.reverse = [delay |-> delays[2], arrive |-> losses[2], rate |-> rate, reorder |-> 0]
    BY <1>5 DEF rate
  <2> QED
    BY <1>3, <1>4, <2>1, <2>2 DEF Conditions, Maybe, Document!ValidCondition
<1>8. pair \in Pairs
  BY <1>5, <1>6, <1>7 DEF Pairs
<1>9. c.rate # None => pair.forward.rate # None /\ pair.reverse.rate # None
  BY <1>2, <1>5
<1>10. p.delay = "split" /\ c.delay \in Even => pair.forward.delay + pair.reverse.delay = c.delay
  BY <1>3, <1>5
<1>11. p.loss = "equivalent" => Document!EndToEnd(pair.forward.arrive, pair.reverse.arrive) = c.arrive
  BY <1>4, <1>5 DEF Document!EndToEnd
<1> QED
  BY <1>6, <1>7, <1>8, <1>9, <1>10, <1>11 DEF pair

-----------------------------------------------------------------------------
(* A profile document.                                                      *)

AnyBaselines == [delay : Int, arrive : Arrivals, rate : Maybe(Int), reorder : Int, directions : Maybe(Pairs)]
AnyEvents    == [id : Int, start : Int, end : Int, rtt : Even, observed : Even, par : EventParameters,
                 cal : Calibrations, directions : Maybe(Pairs)]
AnyCsvRows   == CsvRows \cup [sec : Int, forward : Conditions, reverse : Conditions, path : {None}]

LegacyFiles == [kind : {"rows"}, events : Seq(LegacyRows)]
Documents   == [kind : {"v1"}, baseline : AnyBaselines, events : Seq(AnyEvents)]
SeriesFiles == [kind : {"csv"}, events : Seq(AnyCsvRows)]

\* The delay and the jitter that a conversion takes of a row.
LateDelay(row)  == IF Document!OrZero(row.cal.delay) > 0 THEN row.cal.delay ELSE row.delay
LateJitter(row) == IF Document!OrZero(row.cal.jitter) > 0 THEN row.cal.jitter ELSE row.jitter

\* An event that was converted early agrees with its row but for the jitter, and
\* there as far as the values agree that it is learned from.
Twin(row, e) ==
  /\ e.rtt = row.rtt /\ e.cal.delay = row.cal.delay /\ e.cal.spike = row.cal.spike
  /\ e.par.delay = LateDelay(row) /\ e.par.spike = Document!OrZero(row.cal.spike)
  /\ e.par.arrive = row.arrive /\ e.par.rate = row.rate /\ e.par.reorder = 0
  /\ (row.cal.jitter = None) <=> (e.cal.jitter = None)
  /\ row.cal.jitter = None => e.par.jitter = row.jitter
  /\ row.cal.jitter # None =>
       /\ Document!Distance(row.cal.jitter, e.cal.jitter) <= Document!Distance(row.jitter, DefaultJitter)
       /\ \/ e.par.jitter = e.cal.jitter
          \/ row.cal.jitter = e.cal.jitter /\ row.cal.jitter <= 0

\* Rows have not been directionalized, and what was converted of them at the start
\* has been tuned with them.
LegacyInv ==
  file.kind = "rows" =>
    /\ policy = None /\ twin \in Documents /\ DOMAIN twin.events = DOMAIN file.events
    /\ \A i \in DOMAIN file.events : Twin(file.events[i], twin.events[i])

\* The directions are those of the parameters they were made from.
DirectedInv ==
  file.kind = "v1" /\ policy # None =>
    \A i \in DOMAIN file.events :
      /\ made[i] \in EventParameters /\ Document!ValidParameters(made[i])
      /\ Document!ValidCondition(Document!WithSpike(made[i]))
      /\ file.events[i].directions
           = Document!Stored(Document!Directional(Document!WithSpike(made[i]), policy))
      /\ ~ tuned => made[i] = file.events[i].par

\* A CSV that was written holds both directions, with their rates.
Canonical(row) ==
  /\ row.forward \in Conditions /\ row.forward.rate # None
  /\ row.reverse \in Conditions /\ row.reverse.rate # None
CanonicalInv ==
  file.kind = "csv" /\ policy # None => \A i \in DOMAIN file.events : Canonical(file.events[i])

DocumentInv ==
  /\ file \in LegacyFiles \cup Documents \cup SeriesFiles
  /\ policy \in Maybe({p \in Policies : Document!ValidPolicy(p)})
  /\ LegacyInv /\ DirectedInv /\ CanonicalInv

LEMMA Nothing ==
  /\ \A n \in Int : n # None
  /\ \A c \in Conditions : c # None
  /\ \A c \in Pairs : c # None
  /\ \A p \in Policies : p # None
  BY NoneAssumption DEF NoneAssumption

LEMMA EvenFacts ==
  0 \in Even /\ (\A a \in Even : a \in Int) /\ (\A a, b \in Even : a + b \in Even)
  BY DEF Even

LEMMA ParameterFacts ==
  ASSUME NEW par \in EventParameters
  PROVE  /\ Document!Scalar(par) \in Scalars /\ Document!WithSpike(par) \in Scalars
         /\ Document!WithSpike(par).delay = par.delay + par.spike
         /\ Document!WithSpike(par).delay \in Even
         /\ Document!WithSpike(par).arrive = par.arrive
         /\ Document!WithSpike(par).rate = par.rate
         /\ Document!WithSpike(par).reorder = par.reorder
<1>1. par.delay \in Int /\ par.spike \in Int /\ par.delay + par.spike \in Even
  BY EvenFacts DEF EventParameters
<1>2. Document!WithSpike(par) =
        [delay |-> par.delay + par.spike, arrive |-> par.arrive, rate |-> par.rate, reorder |-> par.reorder]
  BY DEF Document!WithSpike, Document!Scalar
<1>3. par.delay + par.spike \in Int
  BY <1>1
<1> QED
  BY <1>1, <1>2, <1>3 DEF EventParameters, Scalars, Document!Scalar

LEMMA StoredFacts ==
  ASSUME NEW pair \in Pairs
  PROVE  LET s == Document!Stored(pair) IN
         /\ s \in Pairs /\ s.forward.rate # None /\ s.reverse.rate # None
         /\ s.forward.delay = pair.forward.delay /\ s.reverse.delay = pair.reverse.delay
         /\ s.forward.arrive = pair.forward.arrive /\ s.reverse.arrive = pair.reverse.arrive
<1> DEFINE s == Document!Stored(pair)
<1>1. \A c \in Conditions :
        LET f == Document!Filled(c, 0) IN
          f \in Conditions /\ f.rate # None /\ f.delay = c.delay /\ f.arrive = c.arrive
  BY Nothing DEF Conditions, Maybe, Document!Filled
<1>2. pair.forward \in Conditions /\ pair.reverse \in Conditions
  BY DEF Pairs
<1>3. s.forward = Document!Filled(pair.forward, 0) /\ s.reverse = Document!Filled(pair.reverse, 0)
  BY DEF Document!Stored
<1>4. s = [forward |-> s.forward, reverse |-> s.reverse]
  BY DEF Document!Stored
<1> HIDE DEF s
<1>5. s \in Pairs
  BY <1>1, <1>2, <1>3, <1>4 DEF Pairs
<1> QED
  BY <1>1, <1>2, <1>3, <1>5 DEF s

LEMMA RowFacts ==
  ASSUME NEW row \in LegacyRows, NEW i \in Int
  PROVE  /\ Document!FromRow(row, i) \in AnyEvents
         /\ Document!FromRow(row, i) =
              [id |-> i, start |-> row.start, end |-> row.end, rtt |-> row.rtt, observed |-> row.delay,
               par |-> [delay |-> LateDelay(row), jitter |-> LateJitter(row),
                        spike |-> Document!OrZero(row.cal.spike), arrive |-> row.arrive,
                        rate |-> row.rate, reorder |-> 0],
               cal |-> row.cal, directions |-> None]
<1>1. /\ row.rtt \in Even /\ row.delay \in Even /\ row.cal \in Calibrations /\ row.arrive \in Arrivals
      /\ row.rate \in Maybe(Int) /\ row.start \in Int /\ row.end \in Int /\ row.jitter \in Nat
  BY DEF LegacyRows, Maybe
<1>2. /\ row.cal.delay \in Maybe(Even) /\ row.cal.spike \in Maybe(Even) /\ row.cal.jitter \in Maybe(Int)
  BY <1>1 DEF Calibrations
<1> DEFINE delay  == LateDelay(row)
           jitter == LateJitter(row)
           spike  == Document!OrZero(row.cal.spike)
<1>3. delay \in Even
  BY <1>1, <1>2 DEF Maybe, Document!OrZero, LateDelay
<1>4. spike \in Even
  BY <1>2, EvenFacts DEF Maybe, Document!OrZero
<1>5. jitter \in Int
  BY <1>1, <1>2 DEF Maybe, Document!OrZero, LateJitter
<1>6. Document!FromRow(row, i) =
        [id |-> i, start |-> row.start, end |-> row.end, rtt |-> row.rtt, observed |-> row.delay,
         par |-> [delay |-> delay, jitter |-> jitter, spike |-> spike, arrive |-> row.arrive,
                  rate |-> row.rate, reorder |-> 0],
         cal |-> row.cal, directions |-> None]
  BY DEF Document!FromRow, LateDelay, LateJitter
<1> HIDE DEF delay, jitter, spike
<1>7. [delay |-> delay, jitter |-> jitter, spike |-> spike, arrive |-> row.arrive, rate |-> row.rate,
       reorder |-> 0] \in EventParameters
  BY <1>1, <1>3, <1>4, <1>5 DEF EventParameters
<1>8. Document!FromRow(row, i) \in AnyEvents
  BY <1>1, <1>6, <1>7 DEF AnyEvents, Maybe
<1> QED
  BY <1>6, <1>8 DEF delay, jitter, spike

LEMMA CreateFacts ==
  ASSUME NEW list \in Seq(LegacyRows)
  PROVE  LET doc == Document!Create(list) IN
         /\ doc \in Documents /\ DOMAIN doc.events = DOMAIN list
         /\ \A i \in DOMAIN list : doc.events[i] = Document!FromRow(list[i], i)
<1> DEFINE n == Len(list)
           events == [i \in 1..n |-> Document!FromRow(list[i], i)]
           doc == Document!Create(list)
<1>1. n \in Nat /\ DOMAIN list = 1..n /\ \A i \in 1..n : list[i] \in LegacyRows /\ i \in Int
  OBVIOUS
<1>2. doc = [kind |-> "v1",
             baseline |-> [delay |-> 0, arrive |-> 4, rate |-> 0, reorder |-> 0, directions |-> None],
             events |-> events]
  BY <1>1 DEF Document!Create
<1>3. events \in Seq(AnyEvents)
  BY <1>1, RowFacts
<1>4. [delay |-> 0, arrive |-> 4, rate |-> 0, reorder |-> 0, directions |-> None] \in AnyBaselines
  BY DEF AnyBaselines, Arrivals, Maybe
<1> HIDE DEF doc
<1>5. doc \in Documents
  BY <1>2, <1>3, <1>4 DEF Documents
<1> QED
  BY <1>1, <1>2, <1>5 DEF doc

-----------------------------------------------------------------------------
(* Calibration and learning.                                                *)

\* What the two scripts leave alone, and the validity they keep.
Kept(e, t) ==
  /\ t.id = e.id /\ t.start = e.start /\ t.end = e.end /\ t.directions = e.directions
  /\ Document!ValidParameters(e.par) => Document!ValidParameters(t.par)

LEMMA Clamped ==
  ASSUME NEW value \in Even, NEW low \in Even, NEW high \in Even, low <= high
  PROVE  LET v == Document!Clamp(value, low, high) IN v \in Even /\ low <= v /\ v <= high
  BY EvenFacts DEF Document!Clamp

LEMMA UpdatedDelay ==
  ASSUME NEW par \in EventParameters, NEW d
  PROVE  [par EXCEPT !.delay = d]
           = [delay |-> d, jitter |-> par.jitter, spike |-> par.spike, arrive |-> par.arrive,
              rate |-> par.rate, reorder |-> par.reorder]
  BY DEF EventParameters

LEMMA Updated ==
  ASSUME NEW par \in EventParameters, NEW d, NEW j, NEW s
  PROVE  [par EXCEPT !.delay = d, !.jitter = j, !.spike = s]
           = [delay |-> d, jitter |-> j, spike |-> s, arrive |-> par.arrive, rate |-> par.rate,
              reorder |-> par.reorder]
<1> DEFINE x == [par EXCEPT !.delay = d]
           y == [x EXCEPT !.jitter = j]
<1>1. x = [delay |-> d, jitter |-> par.jitter, spike |-> par.spike, arrive |-> par.arrive,
           rate |-> par.rate, reorder |-> par.reorder]
  BY UpdatedDelay
<1>2. [par EXCEPT !.delay = d, !.jitter = j, !.spike = s] = [y EXCEPT !.spike = s]
  OBVIOUS
<1> HIDE DEF x
<1>3. y = [delay |-> d, jitter |-> j, spike |-> par.spike, arrive |-> par.arrive,
           rate |-> par.rate, reorder |-> par.reorder]
  BY <1>1
<1> HIDE DEF y
<1>4. [y EXCEPT !.spike = s] = [delay |-> d, jitter |-> j, spike |-> s, arrive |-> par.arrive,
                                rate |-> par.rate, reorder |-> par.reorder]
  BY <1>3
<1> QED
  BY <1>2, <1>4

\* A conversion and its row agree at first.
LEMMA FirstTwins ==
  ASSUME NEW row \in LegacyRows, NEW i \in Int
  PROVE  Twin(row, Document!FromRow(row, i))
<1> DEFINE e == Document!FromRow(row, i)
<1>1. /\ e.rtt = row.rtt /\ e.cal = row.cal /\ e.par.delay = LateDelay(row)
      /\ e.par.jitter = LateJitter(row) /\ e.par.spike = Document!OrZero(row.cal.spike)
      /\ e.par.arrive = row.arrive /\ e.par.rate = row.rate /\ e.par.reorder = 0
  BY RowFacts
<1> HIDE DEF e
<1>2. row.cal \in Calibrations /\ row.jitter \in Int
  BY DEF LegacyRows
<1>3. row.cal.jitter \in Maybe(Int)
  BY <1>2 DEF Calibrations
<1>4. row.cal.jitter = None => e.par.jitter = row.jitter
  BY <1>1 DEF LateJitter, Document!OrZero
<1>5. row.cal.jitter # None =>
        /\ Document!Distance(row.cal.jitter, e.cal.jitter) <= Document!Distance(row.jitter, DefaultJitter)
        /\ \/ e.par.jitter = e.cal.jitter
           \/ row.cal.jitter = e.cal.jitter /\ row.cal.jitter <= 0
  <2> SUFFICES ASSUME row.cal.jitter # None
               PROVE  /\ Document!Distance(row.cal.jitter, row.cal.jitter) <= Document!Distance(row.jitter, DefaultJitter)
                      /\ \/ LateJitter(row) = row.cal.jitter
                         \/ row.cal.jitter <= 0
    BY <1>1
  <2>1. row.cal.jitter \in Int /\ DefaultJitter \in Int
    BY <1>3, OptionsAssumption DEF Maybe, OptionsAssumption
  <2>2. Document!Distance(row.cal.jitter, row.cal.jitter) <= Document!Distance(row.jitter, DefaultJitter)
    BY <1>2, <2>1 DEF Document!Distance
  <2>3. LateJitter(row) = row.cal.jitter \/ row.cal.jitter <= 0
    BY <2>1 DEF LateJitter, Document!OrZero
  <2> QED
    BY <2>2, <2>3
<1>6. e.cal.delay = row.cal.delay /\ e.cal.spike = row.cal.spike /\ e.cal.jitter = row.cal.jitter
  BY <1>1
<1> QED
  BY <1>1, <1>4, <1>5, <1>6 DEF Twin, e

\* Only an event of a document has parameters.
LEMMA Parametrized ==
  /\ \A e \in AnyEvents : Document!IsEvent(e)
  /\ \A row \in LegacyRows : ~ Document!IsEvent(row)
  BY DEF AnyEvents, LegacyRows, Document!IsEvent

\* What tuning may change of a row keeps it loadable.
LEMMA RowKept ==
  ASSUME NEW row \in LegacyRows, NEW t \in LegacyRows, NEW i \in Int,
         t.start = row.start, t.end = row.end, t.arrive = row.arrive, t.rate = row.rate,
         LateDelay(t) >= 0, LateJitter(row) >= 0 => LateJitter(t) >= 0,
         Document!OrZero(row.cal.spike) >= 0 => Document!OrZero(t.cal.spike) >= 0
  PROVE  Kept(Document!FromRow(row, i), Document!FromRow(t, i))
<1> DEFINE e == Document!FromRow(row, i)
           f == Document!FromRow(t, i)
<1>1. /\ e.id = i /\ e.start = row.start /\ e.end = row.end /\ e.directions = None
      /\ e.par.jitter = LateJitter(row) /\ e.par.spike = Document!OrZero(row.cal.spike)
      /\ e.par.arrive = row.arrive /\ e.par.rate = row.rate
  BY RowFacts
<1>2. /\ f.id = i /\ f.start = t.start /\ f.end = t.end /\ f.directions = None
      /\ f.par.delay = LateDelay(t)
      /\ f.par.jitter = LateJitter(t) /\ f.par.spike = Document!OrZero(t.cal.spike)
      /\ f.par.arrive = t.arrive /\ f.par.rate = t.rate
  BY RowFacts
<1> HIDE DEF e, f
<1>3. Document!ValidParameters(e.par) => Document!ValidParameters(f.par)
  BY <1>1, <1>2 DEF Document!ValidParameters
<1> QED
  BY <1>1, <1>2, <1>3 DEF Kept, e, f

\* A document and a row are calibrated to the same delay.
LEMMA CalibratedFacts ==
  /\ \A e \in AnyEvents : Document!Calibrated(e) \in AnyEvents /\ Kept(e, Document!Calibrated(e))
  /\ \A row \in LegacyRows :
       /\ Document!Calibrated(row) \in LegacyRows
       /\ \A i \in Int : Kept(Document!FromRow(row, i), Document!FromRow(Document!Calibrated(row), i))
       /\ \A e \in AnyEvents : Twin(row, e) => Twin(Document!Calibrated(row), Document!Calibrated(e))
<1> DEFINE Target(rtt) == Document!Clamp(IF rtt > DefaultDelay THEN rtt ELSE DefaultDelay, MinDelay, MaxDelay)
<1>1. \A rtt \in Even : Target(rtt) \in Even /\ Target(rtt) > 0
  BY OptionsAssumption, EvenFacts, Clamped DEF OptionsAssumption
<1> HIDE DEF Target
<1>2. ASSUME NEW e \in AnyEvents
      PROVE  /\ Document!Calibrated(e) \in AnyEvents /\ Kept(e, Document!Calibrated(e))
             /\ Document!Calibrated(e).rtt = e.rtt
             /\ Document!Calibrated(e).cal = [e.cal EXCEPT !.delay = Target(e.rtt)]
             /\ Document!Calibrated(e).par = [e.par EXCEPT !.delay = Target(e.rtt)]
  <2> DEFINE t == Target(e.rtt)
             par == [e.par EXCEPT !.delay = t]
             cal == [e.cal EXCEPT !.delay = t]
             x   == [e EXCEPT !.cal = cal]
  <2>1. t \in Even /\ t > 0 /\ t \in Int
    BY <1>1, EvenFacts DEF AnyEvents
  <2>2. e.par \in EventParameters /\ e.cal \in Calibrations
    BY DEF AnyEvents
  <2>3. x = [id |-> e.id, start |-> e.start, end |-> e.end, rtt |-> e.rtt, observed |-> e.observed,
             par |-> e.par, cal |-> cal, directions |-> e.directions]
    BY DEF AnyEvents
  <2>4. Document!Calibrated(e) = IF Document!IsEvent(x) THEN [x EXCEPT !.par = [@ EXCEPT !.delay = t]] ELSE x
    BY DEF Document!Calibrated, Document!SetDelay, Target
  <2> HIDE DEF t, x, cal
  <2>5. Document!IsEvent(x) /\ [x EXCEPT !.par = [@ EXCEPT !.delay = t]] = [x EXCEPT !.par = par]
    BY <2>3 DEF Document!IsEvent
  <2>6. /\ par \in EventParameters
        /\ Document!ValidParameters(e.par) => Document!ValidParameters(par)
    <3>1. par = [delay |-> t, jitter |-> e.par.jitter, spike |-> e.par.spike, arrive |-> e.par.arrive,
                 rate |-> e.par.rate, reorder |-> e.par.reorder]
      BY <2>2, UpdatedDelay
    <3> HIDE DEF par
    <3> QED
      BY <2>1, <2>2, <3>1 DEF EventParameters, Document!ValidParameters
  <2>7. cal \in Calibrations
    BY <2>1, <2>2 DEF Calibrations, Maybe, cal
  <2> HIDE DEF par
  <2>8. Document!Calibrated(e)
          = [id |-> e.id, start |-> e.start, end |-> e.end, rtt |-> e.rtt, observed |-> e.observed,
             par |-> par, cal |-> cal, directions |-> e.directions]
    BY <2>3, <2>4, <2>5
  <2>9. Document!Calibrated(e) \in AnyEvents
    BY <2>6, <2>7, <2>8 DEF AnyEvents
  <2>10. Kept(e, Document!Calibrated(e))
    BY <2>6, <2>8 DEF Kept
  <2> QED
    BY <2>8, <2>9, <2>10 DEF t, par, cal
<1>3. ASSUME NEW row \in LegacyRows
      PROVE  /\ Document!Calibrated(row) \in LegacyRows
             /\ \A i \in Int : Kept(Document!FromRow(row, i), Document!FromRow(Document!Calibrated(row), i))
             /\ \A e \in AnyEvents : Twin(row, e) => Twin(Document!Calibrated(row), Document!Calibrated(e))
  <2> DEFINE t == Target(row.rtt)
             cal == [row.cal EXCEPT !.delay = t]
             new == Document!Calibrated(row)
  <2>1. t \in Even /\ t > 0 /\ t # None /\ t \in Int
    BY <1>1, EvenFacts, Nothing DEF LegacyRows
  <2>2. new = [row EXCEPT !.cal = cal]
    BY DEF Document!Calibrated, Document!SetDelay, Document!IsEvent, LegacyRows, Target
  <2>3. row.cal \in Calibrations /\ cal \in Calibrations
    BY <2>1 DEF LegacyRows, Calibrations, Maybe
  <2>4. cal.delay = t /\ cal.spike = row.cal.spike /\ cal.jitter = row.cal.jitter
    BY <2>3 DEF Calibrations
  <2> HIDE DEF t, cal, new
  <2>5. /\ new \in LegacyRows /\ new.cal = cal /\ new.start = row.start /\ new.end = row.end
        /\ new.rtt = row.rtt /\ new.delay = row.delay /\ new.jitter = row.jitter
        /\ new.arrive = row.arrive /\ new.rate = row.rate
    BY <2>2, <2>3 DEF LegacyRows
  <2>6. LateDelay(new) = t /\ LateJitter(new) = LateJitter(row)
    BY <2>1, <2>4, <2>5 DEF LateDelay, LateJitter, Document!OrZero
  <2>7. new.cal.spike = row.cal.spike /\ new.cal.jitter = row.cal.jitter /\ new.cal.delay = t
    BY <2>4, <2>5
  <2>8. \A i \in Int : Kept(Document!FromRow(row, i), Document!FromRow(new, i))
    BY <2>1, <2>5, <2>6, <2>7, RowKept
  <2>9. ASSUME NEW e \in AnyEvents, Twin(row, e)
        PROVE  Twin(new, Document!Calibrated(e))
    <3> DEFINE f == Document!Calibrated(e)
    <3>1. e.rtt = row.rtt /\ e.par \in EventParameters /\ e.cal \in Calibrations
      BY <2>9 DEF Twin, AnyEvents
    <3>2. f.rtt = e.rtt /\ f.cal = [e.cal EXCEPT !.delay = t] /\ f.par = [e.par EXCEPT !.delay = t]
      BY <1>2, <3>1 DEF t
    <3> HIDE DEF f
    <3>3. f.cal.delay = t /\ f.cal.spike = e.cal.spike /\ f.cal.jitter = e.cal.jitter
      BY <3>1, <3>2 DEF Calibrations
    <3>4. /\ f.par.delay = t /\ f.par.jitter = e.par.jitter /\ f.par.spike = e.par.spike
          /\ f.par.arrive = e.par.arrive /\ f.par.rate = e.par.rate /\ f.par.reorder = e.par.reorder
      BY <3>1, <3>2 DEF EventParameters
    <3>5. Twin(new, f)
      BY <2>5, <2>6, <2>7, <2>9, <3>1, <3>2, <3>3, <3>4 DEF Twin
    <3> QED
      BY <3>5 DEF f
  <2> QED
    BY <2>5, <2>8, <2>9 DEF new
<1> QED
  BY <1>2, <1>3

\* Two jitters learned alike do not come further apart.
LEMMA JittersStay ==
  ASSUME NEW a \in Int, NEW b \in Int, NEW c \in Int
  PROVE  /\ Document!Clamp(a + c, 0, MaxJitter) \in Nat /\ Document!Clamp(b + c, 0, MaxJitter) \in Nat
         /\ Document!Distance(Document!Clamp(a + c, 0, MaxJitter), Document!Clamp(b + c, 0, MaxJitter))
              <= Document!Distance(a, b)
  BY OptionsAssumption DEF OptionsAssumption, Document!Clamp, Document!Distance

\* They learn the same, but for the jitter.
LEMMA LearnedFacts ==
  ASSUME NEW c \in Corrections
  PROVE  /\ \A e \in AnyEvents : Document!Learned(e, c) \in AnyEvents /\ Kept(e, Document!Learned(e, c))
         /\ \A row \in LegacyRows :
              /\ Document!Learned(row, c) \in LegacyRows
              /\ \A i \in Int : Kept(Document!FromRow(row, i), Document!FromRow(Document!Learned(row, c), i))
              /\ \A e \in AnyEvents : Twin(row, e) => Twin(Document!Learned(row, c), Document!Learned(e, c))
<1>1. CASE c = None
  <2>1. \A e : Document!Learned(e, c) = e
    BY <1>1 DEF Document!Learned
  <2> QED
    BY <2>1 DEF Kept
<1>2. CASE c # None
  <2> DEFINE D(e)   == Document!LearnedDelay(e, c)
             J(e)   == Document!LearnedJitter(e, c)
             S(e)   == Document!LearnedSpike(e, c)
             Cal(e) == [delay |-> D(e), jitter |-> J(e), spike |-> S(e)]
  <2>1. c.delay \in Even /\ c.jitter \in Int /\ c.spike \in Even
    BY <1>2, OptionsAssumption DEF OptionsAssumption, Maybe
  <2>2. ASSUME NEW e, Document!CurrentDelay(e) \in Even, Document!CurrentJitter(e) \in Int,
               Document!CurrentSpike(e) \in Even
        PROVE  /\ D(e) \in Even /\ D(e) > 0 /\ D(e) \in Int /\ D(e) # None
               /\ J(e) \in Nat /\ J(e) # None
               /\ S(e) \in Even /\ S(e) >= 0 /\ S(e) \in Int /\ S(e) # None
               /\ Cal(e) \in Calibrations
    <3>1. Document!CurrentDelay(e) + c.delay \in Even /\ Document!CurrentSpike(e) + c.spike \in Even
      BY <2>1, <2>2, EvenFacts
    <3>2. /\ D(e) \in Even /\ MinDelay <= D(e) /\ S(e) \in Even /\ 0 <= S(e)
      BY <3>1, OptionsAssumption, EvenFacts, Clamped
         DEF OptionsAssumption, Document!LearnedDelay, Document!LearnedSpike
    <3>3. J(e) \in Nat
      BY <2>1, <2>2, JittersStay DEF Document!LearnedJitter
    <3> HIDE DEF D, J, S
    <3>4. D(e) > 0
      BY <3>2, OptionsAssumption, EvenFacts DEF OptionsAssumption
    <3> QED
      BY <3>2, <3>3, <3>4, EvenFacts, Nothing DEF Calibrations, Maybe
  <2>3. ASSUME NEW e \in AnyEvents
        PROVE  /\ Document!CurrentDelay(e) \in Even /\ Document!CurrentJitter(e) \in Int
               /\ Document!CurrentSpike(e) \in Even
               /\ Document!Learned(e, c) \in AnyEvents /\ Kept(e, Document!Learned(e, c))
               /\ Document!Learned(e, c).rtt = e.rtt
               /\ Document!Learned(e, c).cal = Cal(e)
               /\ Document!Learned(e, c).par
                    = [delay |-> D(e), jitter |-> J(e), spike |-> S(e), arrive |-> e.par.arrive,
                       rate |-> e.par.rate, reorder |-> e.par.reorder]
    <3>1. e.par \in EventParameters /\ e.cal \in Calibrations /\ Document!IsEvent(e)
      BY Parametrized DEF AnyEvents
    <3>2. /\ e.cal.delay \in Maybe(Even) /\ e.cal.jitter \in Maybe(Int) /\ e.cal.spike \in Maybe(Even)
          /\ e.par.delay \in Even /\ e.par.jitter \in Int /\ e.par.spike \in Even
      BY <3>1 DEF Calibrations, EventParameters
    <3>3. /\ Document!CurrentDelay(e) \in Even /\ Document!CurrentJitter(e) \in Int
          /\ Document!CurrentSpike(e) \in Even
      BY <3>1, <3>2 DEF Maybe, Document!CurrentDelay, Document!CurrentJitter, Document!CurrentSpike
    <3> DEFINE d   == D(e)
               j   == J(e)
               s   == S(e)
               cal == Cal(e)
               par == [e.par EXCEPT !.delay = d, !.jitter = j, !.spike = s]
               x   == [e EXCEPT !.cal = cal]
    <3>4. /\ d \in Even /\ d > 0 /\ d \in Int /\ j \in Nat /\ s \in Even /\ s >= 0 /\ s \in Int
          /\ cal \in Calibrations
      BY <2>2, <3>3
    <3>5. /\ x = [id |-> e.id, start |-> e.start, end |-> e.end, rtt |-> e.rtt, observed |-> e.observed,
                  par |-> e.par, cal |-> cal, directions |-> e.directions]
      BY DEF AnyEvents
    <3>6. Document!Learned(e, c)
            = IF Document!IsEvent(x)
                THEN [x EXCEPT !.par = [@ EXCEPT !.delay = cal.delay, !.jitter = cal.jitter, !.spike = cal.spike]]
                ELSE x
      BY <1>2 DEF Document!Learned, Document!SetPar
    <3>7. cal.delay = d /\ cal.jitter = j /\ cal.spike = s
      OBVIOUS
    <3> HIDE DEF d, j, s, cal, x, D, J, S, Cal
    <3>8. /\ Document!IsEvent(x) /\ x.par = e.par
          /\ [x EXCEPT !.par = [@ EXCEPT !.delay = cal.delay, !.jitter = cal.jitter, !.spike = cal.spike]]
               = [x EXCEPT !.par = par]
      BY <3>5, <3>7 DEF Document!IsEvent
    <3>9. par = [delay |-> d, jitter |-> j, spike |-> s, arrive |-> e.par.arrive, rate |-> e.par.rate,
                 reorder |-> e.par.reorder]
      BY <3>1, Updated
    <3> HIDE DEF par
    <3>10. /\ par \in EventParameters
           /\ Document!ValidParameters(e.par) => Document!ValidParameters(par)
      BY <3>1, <3>4, <3>9 DEF EventParameters, Document!ValidParameters
    <3>11. Document!Learned(e, c)
             = [id |-> e.id, start |-> e.start, end |-> e.end, rtt |-> e.rtt, observed |-> e.observed,
                par |-> par, cal |-> cal, directions |-> e.directions]
      BY <3>5, <3>6, <3>8
    <3>12. Document!Learned(e, c) \in AnyEvents
      BY <3>4, <3>10, <3>11 DEF AnyEvents
    <3>13. Kept(e, Document!Learned(e, c))
      BY <3>10, <3>11 DEF Kept
    <3>14. /\ Document!Learned(e, c).rtt = e.rtt /\ Document!Learned(e, c).cal = cal
           /\ Document!Learned(e, c).par = par
      BY <3>11
    <3> QED
      BY <3>3, <3>9, <3>12, <3>13, <3>14 DEF d, j, s, cal
  <2>4. ASSUME NEW row \in LegacyRows
        PROVE  /\ Document!Learned(row, c) \in LegacyRows
               /\ \A i \in Int : Kept(Document!FromRow(row, i), Document!FromRow(Document!Learned(row, c), i))
               /\ \A e \in AnyEvents : Twin(row, e) => Twin(Document!Learned(row, c), Document!Learned(e, c))
    <3>1. /\ row.cal \in Calibrations /\ ~ Document!IsEvent(row) /\ row.delay \in Even /\ row.jitter \in Nat
      BY Parametrized DEF LegacyRows
    <3>2. /\ row.cal.delay \in Maybe(Even) /\ row.cal.jitter \in Maybe(Int) /\ row.cal.spike \in Maybe(Even)
      BY <3>1 DEF Calibrations
    <3>3. /\ Document!CurrentDelay(row) \in Even /\ Document!CurrentJitter(row) \in Int
          /\ Document!CurrentSpike(row) \in Even
      BY <3>1, <3>2, EvenFacts, OptionsAssumption
         DEF OptionsAssumption, Maybe, Document!CurrentDelay, Document!CurrentJitter, Document!CurrentSpike
    <3> DEFINE d   == D(row)
               j   == J(row)
               s   == S(row)
               cal == Cal(row)
               new == Document!Learned(row, c)
    <3>4. /\ d \in Even /\ d > 0 /\ d \in Int /\ d # None /\ j \in Nat /\ j # None
          /\ s \in Even /\ s >= 0 /\ s \in Int /\ s # None /\ cal \in Calibrations
      BY <2>2, <3>3
    <3>5. cal.delay = d /\ cal.jitter = j /\ cal.spike = s
      OBVIOUS
    <3>6. new = [row EXCEPT !.cal = cal]
      BY <1>2 DEF Document!Learned, Document!SetPar, Document!IsEvent, LegacyRows
    <3> HIDE DEF d, j, s, cal, new, D, J, S, Cal
    <3>7. /\ new \in LegacyRows /\ new.cal = cal /\ new.start = row.start /\ new.end = row.end
          /\ new.rtt = row.rtt /\ new.delay = row.delay /\ new.jitter = row.jitter
          /\ new.arrive = row.arrive /\ new.rate = row.rate
      BY <3>4, <3>6 DEF LegacyRows
    <3>8. /\ LateDelay(new) = d /\ Document!OrZero(new.cal.spike) = s
          /\ LateJitter(new) = IF j > 0 THEN j ELSE row.jitter
      BY <3>4, <3>5, <3>7 DEF LateDelay, LateJitter, Document!OrZero
    <3>9. LateJitter(new) >= 0
      BY <3>1, <3>4, <3>8
    <3>10. \A i \in Int : Kept(Document!FromRow(row, i), Document!FromRow(new, i))
      BY <3>4, <3>7, <3>8, <3>9, RowKept
    <3>11. ASSUME NEW e \in AnyEvents, Twin(row, e)
           PROVE  Twin(new, Document!Learned(e, c))
      <4> DEFINE f == Document!Learned(e, c)
      <4>1. /\ f.rtt = e.rtt /\ f.cal = Cal(e)
            /\ f.par = [delay |-> D(e), jitter |-> J(e), spike |-> S(e), arrive |-> e.par.arrive,
                        rate |-> e.par.rate, reorder |-> e.par.reorder]
            /\ Document!CurrentJitter(e) \in Int
        BY <2>3
      <4>2. f.cal.delay = D(e) /\ f.cal.jitter = J(e) /\ f.cal.spike = S(e)
        BY <4>1 DEF Cal
      <4>3. Document!IsEvent(e) /\ e.par \in EventParameters /\ e.cal \in Calibrations
        BY Parametrized DEF AnyEvents
      <4>4. e.cal.delay = row.cal.delay /\ e.par.delay = LateDelay(row)
        BY <3>11 DEF Twin
      <4>5. Document!CurrentDelay(e) = Document!CurrentDelay(row)
        BY <3>1, <4>3, <4>4 DEF Document!CurrentDelay, LateDelay, Document!OrZero
      <4>6. e.cal.spike = row.cal.spike /\ e.par.spike = Document!OrZero(row.cal.spike)
        BY <3>11 DEF Twin
      <4>7. Document!CurrentSpike(e) = Document!CurrentSpike(row)
        BY <3>1, <4>3, <4>6 DEF Document!CurrentSpike, Document!OrZero
      <4>8. D(e) = d /\ S(e) = s
        BY <4>5, <4>7 DEF D, S, d, s, Document!LearnedDelay, Document!LearnedSpike
      <4>9. Document!Distance(j, J(e)) <= Document!Distance(row.jitter, DefaultJitter) /\ J(e) \in Nat
        <5> DEFINE a == Document!CurrentJitter(row)
                   b == Document!CurrentJitter(e)
        <5>1. a \in Int /\ b \in Int
          BY <3>3, <4>1
        <5>2. Document!Distance(a, b) <= Document!Distance(row.jitter, DefaultJitter)
          <6>1. CASE row.cal.jitter = None
            <7>1. a = DefaultJitter /\ b = row.jitter
              BY <3>1, <3>11, <4>3, <6>1 DEF Twin, Document!CurrentJitter
            <7> QED
              BY <3>1, <7>1, OptionsAssumption DEF OptionsAssumption, Document!Distance
          <6>2. CASE row.cal.jitter # None
            <7>1. a = row.cal.jitter /\ b = e.cal.jitter
              BY <3>1, <3>11, <4>3, <6>2 DEF Twin, Document!CurrentJitter
            <7> QED
              BY <3>11, <6>2, <7>1 DEF Twin
          <6> QED
            BY <6>1, <6>2
        <5>3. j = Document!Clamp(a + c.jitter, 0, MaxJitter) /\ J(e) = Document!Clamp(b + c.jitter, 0, MaxJitter)
          BY DEF j, J, Document!LearnedJitter
        <5> HIDE DEF a, b
        <5>4. Document!Distance(j, J(e)) <= Document!Distance(a, b) /\ J(e) \in Nat
          BY <2>1, <5>1, <5>3, JittersStay
        <5>5. /\ Document!Distance(j, J(e)) \in Int /\ Document!Distance(a, b) \in Int
              /\ Document!Distance(row.jitter, DefaultJitter) \in Int
          BY <3>1, <3>4, <5>1, <5>4, OptionsAssumption DEF OptionsAssumption, Document!Distance
        <5> QED
          BY <5>2, <5>4, <5>5
      <4>10. J(e) # None
        BY <4>9, Nothing
      <4>11. e.rtt = row.rtt /\ e.par.arrive = row.arrive /\ e.par.rate = row.rate /\ e.par.reorder = 0
        BY <3>11 DEF Twin
      <4>12. /\ f.par.delay = D(e) /\ f.par.jitter = J(e) /\ f.par.spike = S(e)
             /\ f.par.arrive = e.par.arrive /\ f.par.rate = e.par.rate /\ f.par.reorder = e.par.reorder
        BY <4>1
      <4>13. new.cal.delay = d /\ new.cal.jitter = j /\ new.cal.spike = s
        BY <3>5, <3>7
      <4> HIDE DEF f
      <4>14. Twin(new, f)
        BY <3>4, <3>7, <3>8, <4>1, <4>2, <4>8, <4>9, <4>10, <4>11, <4>12, <4>13 DEF Twin
      <4> QED
        BY <4>14 DEF f
    <3> QED
      BY <3>7, <3>10, <3>11 DEF new
  <2> QED
    BY <2>3, <2>4
<1> QED
  BY <1>1, <1>2

-----------------------------------------------------------------------------
(* What the commands make of a document, of a CSV, and of a tuned profile.  *)

LEMMA DirectionalizedFacts ==
  ASSUME NEW doc \in Documents, Document!Converts(doc), NEW p \in Policies, Document!ValidPolicy(p)
  PROVE  LET new == Document!Directionalized(doc, p) IN
         /\ new \in Documents /\ DOMAIN new.events = DOMAIN doc.events
         /\ \A i \in DOMAIN doc.events :
              /\ new.events[i].par = doc.events[i].par
              /\ new.events[i].directions
                   = Document!Stored(Document!Directional(Document!WithSpike(doc.events[i].par), p))
<1> DEFINE new == Document!Directionalized(doc, p)
           rate == IF Document!OrZero(doc.baseline.rate) = 0 THEN DefaultRate ELSE doc.baseline.rate
           baseline == [doc.baseline EXCEPT !.rate = rate]
           whole == [baseline EXCEPT !.directions = Document!Stored(Document!Directional(Document!Scalar(baseline), p))]
           D(i) == Document!Stored(Document!Directional(Document!WithSpike(doc.events[i].par), p))
           n == Len(doc.events)
           events == [i \in 1..n |-> [doc.events[i] EXCEPT !.directions = D(i)]]
<1>1. /\ doc.baseline \in AnyBaselines /\ doc.events \in Seq(AnyEvents) /\ n \in Nat /\ DOMAIN doc.events = 1..n
      /\ \A i \in 1..n : doc.events[i] \in AnyEvents /\ doc.events[i].par \in EventParameters
  <2>1. doc.events \in Seq(AnyEvents) /\ doc.baseline \in AnyBaselines
    BY DEF Documents
  <2>2. n \in Nat /\ DOMAIN doc.events = 1..n /\ \A i \in 1..n : doc.events[i] \in AnyEvents
    BY <2>1
  <2> QED
    BY <2>1, <2>2 DEF AnyEvents
<1>2. new = [doc EXCEPT !.baseline = whole, !.events = events]
  BY <1>1 DEF Document!Directionalized
<1>3. baseline \in AnyBaselines /\ Document!ValidCondition(Document!Scalar(baseline))
  <2>1. rate \in Maybe(Int) /\ (doc.baseline.rate # None => doc.baseline.rate >= 0) =>
          rate \in Nat
    BY <1>1, OptionsAssumption DEF OptionsAssumption, AnyBaselines, Maybe, Document!OrZero
  <2>2. /\ doc.baseline.delay >= 0 /\ doc.baseline.arrive \in 0..4 /\ doc.baseline.reorder \in 0..100
        /\ doc.baseline.rate # None => doc.baseline.rate >= 0
    BY DEF Document!Converts, Document!ValidCondition, Document!Scalar
  <2>3. rate \in Nat
    BY <1>1, <2>1, <2>2, OptionsAssumption DEF OptionsAssumption, AnyBaselines, Maybe
  <2> HIDE DEF rate
  <2>4. baseline = [delay |-> doc.baseline.delay, arrive |-> doc.baseline.arrive, rate |-> rate,
                    reorder |-> doc.baseline.reorder, directions |-> doc.baseline.directions]
    BY <1>1 DEF AnyBaselines
  <2> HIDE DEF baseline
  <2>5. baseline \in AnyBaselines
    BY <1>1, <2>3, <2>4 DEF AnyBaselines, Maybe
  <2>6. Document!ValidCondition(Document!Scalar(baseline))
    BY <2>2, <2>3, <2>4 DEF Document!ValidCondition, Document!Scalar
  <2> QED
    BY <2>5, <2>6
<1> HIDE DEF baseline
<1>4. whole \in AnyBaselines
  <2>1. Document!Scalar(baseline) \in Scalars
    BY <1>3 DEF AnyBaselines, Scalars, Document!Scalar
  <2>2. Document!Stored(Document!Directional(Document!Scalar(baseline), p)) \in Pairs
    BY <1>3, <2>1, Splits, StoredFacts
  <2> QED
    BY <1>3, <2>2 DEF AnyBaselines, Maybe
<1> HIDE DEF whole
<1>5. \A i \in 1..n : D(i) \in Pairs
  <2> SUFFICES ASSUME NEW i \in 1..n PROVE D(i) \in Pairs
    OBVIOUS
  <2> DEFINE c == Document!WithSpike(doc.events[i].par)
  <2>1. c \in Scalars /\ Document!ValidCondition(c)
    BY <1>1, ParameterFacts DEF Document!Converts
  <2> HIDE DEF c
  <2>2. Document!Directional(c, p) \in Pairs
    BY <2>1, Splits
  <2>3. Document!Stored(Document!Directional(c, p)) \in Pairs
    BY <2>2, StoredFacts
  <2> QED
    BY <2>3 DEF c
<1>6. \A i \in 1..n : events[i] \in AnyEvents /\ events[i].par = doc.events[i].par /\ events[i].directions = D(i)
  <2> HIDE DEF D
  <2> QED
    BY <1>1, <1>5 DEF AnyEvents, Maybe
<1>7. events \in Seq(AnyEvents) /\ DOMAIN events = 1..n
  <2>1. n \in Nat /\ \A i \in 1..n : events[i] \in AnyEvents
    BY <1>1, <1>6
  <2>2. events = [i \in 1..n |-> events[i]]
    OBVIOUS
  <2> HIDE DEF events, n
  <2>3. events \in [1..n -> AnyEvents]
    BY <2>1, <2>2
  <2> QED
    BY <2>1, <2>3
<1> HIDE DEF events, new
<1>8. new.kind = "v1" /\ new.events = events /\ new \in Documents
  BY <1>2, <1>4, <1>7 DEF Documents
<1> QED
  BY <1>1, <1>6, <1>7, <1>8 DEF new

LEMMA RowStateFacts ==
  ASSUME NEW row \in AnyCsvRows, Document!RowConverts(row), NEW p \in Policies, Document!ValidPolicy(p)
  PROVE  LET state == Document!RowState(row, p, DefaultRate) IN
         /\ state.sec = row.sec /\ Canonical(state)
         /\ Document!ValidCondition(state.forward) /\ Document!ValidCondition(state.reverse)
<1> DEFINE state == Document!RowState(row, p, DefaultRate)
<1>1. /\ DefaultRate \in Nat /\ p.reverseRate \in Nat
  BY OptionsAssumption, Nothing DEF OptionsAssumption, Document!ValidPolicy
<1>2. ASSUME NEW c, Document!ValidCondition(c), NEW rate \in Nat, c \in Conditions \cup Scalars
      PROVE  LET f == Document!Filled(c, rate) IN
             /\ f.rate # None /\ Document!ValidCondition(f)
             /\ c \in Conditions => f \in Conditions
             /\ c \in Scalars => f \in Scalars
  <2>1. CASE c.rate = None
    <3>1. Document!Filled(c, rate) = [delay |-> c.delay, arrive |-> c.arrive, rate |-> rate, reorder |-> c.reorder]
      BY <1>2, <2>1 DEF Document!Filled, Conditions, Scalars
    <3> QED
      BY <1>2, <3>1, Nothing DEF Conditions, Scalars, Maybe, Document!ValidCondition
  <2>2. CASE c.rate # None
    BY <1>2, <2>2 DEF Document!Filled
  <2> QED
    BY <2>1, <2>2
<1>3. CASE row.forward = None
  <2>1. row \in CsvRows /\ Document!ValidCondition(row.path) /\ row.path \in Scalars
    <3>1. row \in CsvRows
      BY <1>3, Nothing DEF AnyCsvRows
    <3> QED
      BY <1>3, <3>1 DEF CsvRows, Document!RowConverts
  <2> DEFINE c == Document!Filled(row.path, DefaultRate)
  <2>2. c \in Scalars /\ Document!ValidCondition(c) /\ c.rate # None
    BY <1>1, <1>2, <2>1
  <2>3. /\ state.sec = row.sec /\ state.forward = Document!Directional(c, p).forward
        /\ state.reverse = Document!Directional(c, p).reverse
    BY <1>3 DEF Document!RowState
  <2> HIDE DEF c, state
  <2>4. /\ Document!Directional(c, p) \in Pairs
        /\ Document!ValidCondition(Document!Directional(c, p).forward)
        /\ Document!ValidCondition(Document!Directional(c, p).reverse)
        /\ Document!Directional(c, p).forward.rate # None /\ Document!Directional(c, p).reverse.rate # None
    BY <2>2, Splits
  <2>5. state.forward \in Conditions /\ state.reverse \in Conditions
    BY <2>3, <2>4 DEF Pairs
  <2> QED
    BY <2>3, <2>4, <2>5 DEF Canonical, state
<1>4. CASE row.forward # None
  <2>1. /\ row.forward \in Conditions /\ Document!ValidCondition(row.forward)
        /\ row.reverse \in Conditions /\ Document!ValidCondition(row.reverse)
    BY <1>4 DEF AnyCsvRows, CsvRows, Maybe, Document!RowConverts
  <2>2. /\ state.sec = row.sec /\ state.forward = Document!Filled(row.forward, DefaultRate)
        /\ state.reverse = Document!Filled(row.reverse, p.reverseRate)
    BY <1>4 DEF Document!RowState
  <2> HIDE DEF state
  <2>3. /\ state.forward.rate # None /\ Document!ValidCondition(state.forward) /\ state.forward \in Conditions
        /\ state.reverse.rate # None /\ Document!ValidCondition(state.reverse) /\ state.reverse \in Conditions
    BY <1>1, <1>2, <2>1, <2>2
  <2> QED
    BY <2>2, <2>3 DEF Canonical, state
<1> QED
  BY <1>3, <1>4

LEMMA SeriesFacts ==
  ASSUME NEW list \in Seq(AnyCsvRows), Document!CsvConverts(list), NEW p \in Policies, Document!ValidPolicy(p),
         NEW states \in Document!ReadCsv(list, p, DefaultRate)
  PROVE  LET new == Document!WriteCsv(states) IN
         /\ new \in Seq(AnyCsvRows) /\ Document!CsvConverts(new)
         /\ \A i \in DOMAIN new : Canonical(new[i])
<1> DEFINE n == Len(list)
           read == [i \in DOMAIN list |-> Document!RowState(list[i], p, DefaultRate)]
           new == Document!WriteCsv(states)
<1>1. n \in Nat /\ n # 0 /\ DOMAIN list = 1..n /\ \A i \in 1..n : list[i] \in AnyCsvRows /\ Document!RowConverts(list[i])
  BY DEF Document!CsvConverts
<1>2. \A i \in 1..n :
        /\ read[i].sec = list[i].sec /\ Canonical(read[i])
        /\ Document!ValidCondition(read[i].forward) /\ Document!ValidCondition(read[i].reverse)
  BY <1>1, RowStateFacts
<1>3. DOMAIN read = 1..n
  BY <1>1
<1>4. states \in Document!SortedBySec(read)
  BY DEF Document!ReadCsv
<1> HIDE DEF read
<1>5. PICK order \in [1..n -> 1..n] : states = [i \in 1..n |-> read[order[i]]]
  BY <1>3, <1>4 DEF Document!SortedBySec
<1>6. DOMAIN states = 1..n /\ \A i \in 1..n : order[i] \in 1..n /\ states[i] = read[order[i]]
  BY <1>5
<1>7. new = [i \in 1..n |-> [sec |-> states[i].sec, forward |-> states[i].forward, reverse |-> states[i].reverse,
                             path |-> None]]
  BY <1>6 DEF Document!WriteCsv
<1> HIDE DEF new, n
<1>8. \A i \in 1..n :
        /\ new[i] \in AnyCsvRows /\ Canonical(new[i]) /\ Document!RowConverts(new[i])
        /\ new[i] = [sec |-> states[i].sec, forward |-> states[i].forward, reverse |-> states[i].reverse, path |-> None]
  <2> SUFFICES ASSUME NEW i \in 1..n
               PROVE  /\ new[i] \in AnyCsvRows /\ Canonical(new[i]) /\ Document!RowConverts(new[i])
                      /\ new[i] = [sec |-> states[i].sec, forward |-> states[i].forward, reverse |-> states[i].reverse,
                                   path |-> None]
    OBVIOUS
  <2>1. new[i] = [sec |-> states[i].sec, forward |-> states[i].forward, reverse |-> states[i].reverse, path |-> None]
    BY <1>7
  <2>2. /\ states[i].sec = list[order[i]].sec /\ Canonical(states[i])
        /\ Document!ValidCondition(states[i].forward) /\ Document!ValidCondition(states[i].reverse)
    BY <1>2, <1>6
  <2>3. list[order[i]].sec \in Int /\ list[order[i]].sec >= 0
    BY <1>1, <1>6 DEF AnyCsvRows, CsvRows, Document!RowConverts
  <2>4. /\ new[i].sec = states[i].sec /\ new[i].forward = states[i].forward /\ new[i].reverse = states[i].reverse
    BY <2>1
  <2>5. new[i] \in AnyCsvRows
    BY <2>1, <2>2, <2>3 DEF AnyCsvRows, Canonical
  <2>6. Canonical(new[i])
    BY <2>2, <2>4 DEF Canonical
  <2>7. Document!RowConverts(new[i])
    BY <2>2, <2>3, <2>4, <2>6, Nothing DEF Document!RowConverts, Canonical
  <2> QED
    BY <2>1, <2>5, <2>6, <2>7
<1>9. new \in Seq(AnyCsvRows) /\ DOMAIN new = 1..n /\ new # <<>>
  <2>1. n \in Nat /\ n # 0
    BY <1>1
  <2>2. new \in [1..n -> AnyCsvRows]
    BY <1>7, <1>8
  <2> QED
    BY <2>1, <2>2
<1> QED
  BY <1>8, <1>9 DEF new, Document!CsvConverts

\* Tuning keeps what validation looks at.
LEMMA ValidKept ==
  ASSUME NEW doc \in Documents, NEW new \in Seq(AnyEvents), DOMAIN new = DOMAIN doc.events,
         \A i \in DOMAIN new : Kept(doc.events[i], new[i]), Document!Valid(doc)
  PROVE  Document!Valid([doc EXCEPT !.events = new])
<1> DEFINE d == [doc EXCEPT !.events = new]
           n == Len(doc.events)
<1>1. d.baseline = doc.baseline /\ d.events = new /\ DOMAIN new = 1..n /\ n \in Nat
  BY DEF Documents
<1>2. doc.baseline.directions # None => Document!ValidDirections(doc.baseline.directions)
  BY DEF Document!Valid
<1>3. \A i \in 1..n :
         LET e == doc.events[i]
         IN  /\ e.start >= 0 /\ e.end > e.start
             /\ i > 1 => doc.events[i - 1].start <= e.start
             /\ \A j \in 1..(i - 1) : doc.events[j].id # e.id
             /\ Document!ValidParameters(e.par)
             /\ e.directions # None => Document!ValidDirections(e.directions)
  BY <1>1 DEF Document!Valid
<1> HIDE DEF d, n
<1>4. ASSUME NEW i \in 1..n
      PROVE  /\ new[i].start >= 0 /\ new[i].end > new[i].start
             /\ i > 1 => new[i - 1].start <= new[i].start
             /\ \A j \in 1..(i - 1) : new[j].id # new[i].id
             /\ Document!ValidParameters(new[i].par)
             /\ new[i].directions # None => Document!ValidDirections(new[i].directions)
  <2>1. Kept(doc.events[i], new[i])
    BY <1>1
  <2>2. i > 1 => i - 1 \in 1..n /\ new[i - 1].start = doc.events[i - 1].start
    BY <1>1 DEF Kept
  <2>3. \A j \in 1..(i - 1) : j \in 1..n /\ new[j].id = doc.events[j].id
    BY <1>1 DEF Kept
  <2> QED
    BY <1>3, <2>1, <2>2, <2>3 DEF Kept
<1> QED
  BY <1>1, <1>2, <1>4 DEF Document!Valid, d

-----------------------------------------------------------------------------
(* The commands keep the invariant, and what loads.                         *)

LEMMA DocumentInit == Document!Init => DocumentInv
<1> SUFFICES ASSUME Document!Init PROVE DocumentInv
  OBVIOUS
<1>1. file \in ProfileFiles /\ twin = Document!Normalized(file) /\ policy = None
  BY DEF Document!Init
<1>2. \A s : s \in Seq(Events) => s \in Seq(AnyEvents)
  <2>1. \A e \in Events : e \in AnyEvents
    BY DEF Events, AnyEvents, Maybe
  <2> QED
    BY <2>1
<1>3. \A s : s \in Seq(CsvRows) => s \in Seq(AnyCsvRows)
  BY DEF AnyCsvRows
<1>4. \A b \in Baselines : b \in AnyBaselines
  BY DEF Baselines, AnyBaselines, Maybe
<1>5. file \in LegacyFiles \cup Documents \cup SeriesFiles
  <2>1. \/ file \in [kind : {"rows"}, events : Seq(LegacyRows)]
        \/ file \in [kind : {"v1"}, baseline : Baselines, events : Seq(Events)]
        \/ file \in [kind : {"csv"}, events : Seq(CsvRows)]
    BY <1>1, FilesAssumption DEF FilesAssumption
  <2>2. CASE file \in [kind : {"rows"}, events : Seq(LegacyRows)]
    BY <2>2 DEF LegacyFiles
  <2>3. CASE file \in [kind : {"v1"}, baseline : Baselines, events : Seq(Events)]
    BY <1>2, <1>4, <2>3 DEF Documents
  <2>4. CASE file \in [kind : {"csv"}, events : Seq(CsvRows)]
    BY <1>3, <2>4 DEF SeriesFiles
  <2> QED
    BY <2>1, <2>2, <2>3, <2>4
<1>6. LegacyInv /\ DirectedInv /\ CanonicalInv
  <2>1. DirectedInv /\ CanonicalInv
    BY <1>1 DEF DirectedInv, CanonicalInv
  <2>2. LegacyInv
    <3> SUFFICES ASSUME file.kind = "rows"
                 PROVE  /\ twin \in Documents /\ DOMAIN twin.events = DOMAIN file.events
                        /\ \A i \in DOMAIN file.events : Twin(file.events[i], twin.events[i])
      BY <1>1 DEF LegacyInv
    <3>1. file.events \in Seq(LegacyRows) /\ twin = Document!Create(file.events)
      BY <1>1, <1>5 DEF LegacyFiles, Documents, SeriesFiles, Document!Normalized
    <3>2. /\ twin \in Documents /\ DOMAIN twin.events = DOMAIN file.events
          /\ \A i \in DOMAIN file.events : twin.events[i] = Document!FromRow(file.events[i], i)
      BY <3>1, CreateFacts
    <3>3. \A i \in DOMAIN file.events : file.events[i] \in LegacyRows /\ i \in Int
      BY <3>1
    <3>4. \A i \in DOMAIN file.events : Twin(file.events[i], twin.events[i])
      BY <3>2, <3>3, FirstTwins
    <3> QED
      BY <3>2, <3>4
  <2> QED
    BY <2>1, <2>2
<1> QED
  BY <1>1, <1>5, <1>6 DEF DocumentInv, Maybe

LEMMA KindFacts ==
  ASSUME DocumentInv
  PROVE  /\ file.kind = "rows" => file \in LegacyFiles
         /\ file.kind = "v1" => file \in Documents
         /\ file.kind = "csv" => file \in SeriesFiles
         /\ file.kind \in {"rows", "v1", "csv"}
         /\ file.kind # "csv" => Document!Normalized(file) \in Documents
<1>1. /\ file.kind = "rows" => file \in LegacyFiles
      /\ file.kind = "v1" => file \in Documents
      /\ file.kind = "csv" => file \in SeriesFiles
      /\ file.kind \in {"rows", "v1", "csv"}
  BY DEF DocumentInv, LegacyFiles, Documents, SeriesFiles
<1>2. file.kind = "rows" => Document!Normalized(file) \in Documents
  <2> SUFFICES ASSUME file.kind = "rows" PROVE Document!Create(file.events) \in Documents
    BY DEF Document!Normalized
  <2>1. file.events \in Seq(LegacyRows)
    BY <1>1 DEF LegacyFiles
  <2> QED
    BY <2>1, CreateFacts
<1>3. file.kind = "v1" => Document!Normalized(file) \in Documents
  BY <1>1 DEF Document!Normalized
<1> QED
  BY <1>1, <1>2, <1>3

\* A file that is a document now, with no directions of the last policy.
LEMMA Undirected ==
  ASSUME file' \in Documents, policy' \in Maybe({p \in Policies : Document!ValidPolicy(p)}), DirectedInv'
  PROVE  DocumentInv'
  BY DEF DocumentInv, LegacyInv, CanonicalInv, Documents

LEMMA ValidateKeeps ==
  ASSUME DocumentInv, Document!Validate
  PROVE  DocumentInv' /\ (Document!Loads(file) => Document!Loads(file'))
<1>1. /\ file.kind # "csv" /\ file' = Document!Normalized(file) /\ Document!Loads(file)
      /\ UNCHANGED <<twin, policy, made, tuned>>
  BY DEF Document!Validate
<1>2. file' \in Documents
  BY <1>1, KindFacts
<1>3. DirectedInv'
  <2>1. CASE file.kind = "rows"
    <3>1. policy' = None
      BY <1>1, <2>1 DEF DocumentInv, LegacyInv
    <3> QED
      BY <3>1 DEF DirectedInv
  <2>2. CASE file.kind # "rows"
    <3>1. file' = file
      BY <1>1, <2>2 DEF Document!Normalized
    <3> QED
      BY <1>1, <3>1 DEF DocumentInv, DirectedInv
  <2> QED
    BY <2>1, <2>2
<1>4. Document!Loads(file')
  <2>1. file'.kind = "v1"
    BY <1>2 DEF Documents
  <2>2. Document!Valid(file')
    BY <1>1 DEF Document!Loads
  <2> QED
    BY <2>1, <2>2 DEF Document!Loads, Document!Normalized
<1>5. policy' \in Maybe({p \in Policies : Document!ValidPolicy(p)})
  BY <1>1 DEF DocumentInv
<1> QED
  BY <1>2, <1>3, <1>4, <1>5, Undirected

LEMMA DirectionalizeEventsKeeps ==
  ASSUME DocumentInv, NEW p \in Policies, Document!DirectionalizeEvents(p)
  PROVE  DocumentInv' /\ (Document!Loads(file) => Document!Loads(file'))
<1> DEFINE doc == Document!Normalized(file)
<1>1. /\ Document!ValidPolicy(p) /\ file.kind # "csv" /\ Document!Loads(file) /\ Document!Converts(doc)
      /\ file' = Document!Directionalized(doc, p) /\ Document!Valid(file') /\ policy' = p
      /\ made' = [i \in DOMAIN file.events |-> doc.events[i].par]
  BY DEF Document!DirectionalizeEvents
<1>2. doc \in Documents /\ Document!Valid(doc)
  BY <1>1, KindFacts DEF Document!Loads
<1>0. DOMAIN doc.events = DOMAIN file.events
  <2>1. CASE file.kind = "rows"
    <3>1. file.events \in Seq(LegacyRows) /\ doc = Document!Create(file.events)
      BY <2>1, KindFacts DEF LegacyFiles, Document!Normalized
    <3> QED
      BY <3>1, CreateFacts
  <2>2. CASE file.kind # "rows"
    BY <2>2 DEF Document!Normalized
  <2> QED
    BY <2>1, <2>2
<1> HIDE DEF doc
<1>3. /\ file' \in Documents /\ DOMAIN file'.events = DOMAIN doc.events
      /\ \A i \in DOMAIN doc.events :
           /\ file'.events[i].par = doc.events[i].par
           /\ file'.events[i].directions
                = Document!Stored(Document!Directional(Document!WithSpike(doc.events[i].par), p))
  BY <1>1, <1>2, DirectionalizedFacts
<1>4. \A i \in DOMAIN doc.events :
        /\ Document!ValidParameters(doc.events[i].par)
        /\ Document!ValidCondition(Document!WithSpike(doc.events[i].par))
        /\ doc.events[i].par \in EventParameters
  <2>1. \A i \in DOMAIN doc.events : doc.events[i].par \in EventParameters
    <3>1. \A i \in DOMAIN doc.events : doc.events[i] \in AnyEvents
      BY <1>2 DEF Documents
    <3> QED
      BY <3>1 DEF AnyEvents
  <2> QED
    BY <1>1, <1>2, <2>1 DEF Document!Valid, Document!Converts
<1>5. DirectedInv'
  <2>1. \A i \in DOMAIN file'.events : made'[i] = doc.events[i].par
    BY <1>0, <1>1, <1>3
  <2> QED
    BY <1>1, <1>3, <1>4, <2>1 DEF DirectedInv
<1>6. Document!Loads(file')
  <2>1. file'.kind = "v1"
    BY <1>3 DEF Documents
  <2> QED
    BY <1>1, <2>1 DEF Document!Loads, Document!Normalized
<1> QED
  BY <1>1, <1>3, <1>5, <1>6, Undirected DEF Maybe

LEMMA DirectionalizeSeriesKeeps ==
  ASSUME DocumentInv, NEW p \in Policies, Document!DirectionalizeSeries(p)
  PROVE  DocumentInv' /\ (Document!Loads(file) => Document!Loads(file'))
<1>1. /\ Document!ValidPolicy(p) /\ file.kind = "csv" /\ Document!CsvConverts(file.events) /\ policy' = p
  BY DEF Document!DirectionalizeSeries, Document!Loads
<1>2. PICK states \in Document!ReadCsv(file.events, p, DefaultRate) :
        file' = [file EXCEPT !.events = Document!WriteCsv(states)]
  BY DEF Document!DirectionalizeSeries
<1>3. file \in SeriesFiles /\ file.events \in Seq(AnyCsvRows)
  BY <1>1, KindFacts DEF SeriesFiles
<1> DEFINE new == Document!WriteCsv(states)
<1>4. /\ new \in Seq(AnyCsvRows) /\ Document!CsvConverts(new) /\ \A i \in DOMAIN new : Canonical(new[i])
  BY <1>1, <1>3, SeriesFacts
<1> HIDE DEF new
<1>5. file' \in SeriesFiles /\ file'.kind = "csv" /\ file'.events = new
  <2>1. file' = [file EXCEPT !.events = new]
    BY <1>2 DEF new
  <2> QED
    BY <1>3, <1>4, <2>1 DEF SeriesFiles
<1>6. CanonicalInv' /\ LegacyInv' /\ DirectedInv'
  BY <1>4, <1>5 DEF CanonicalInv, LegacyInv, DirectedInv
<1>7. Document!Loads(file')
  BY <1>4, <1>5 DEF Document!Loads
<1> QED
  BY <1>1, <1>5, <1>6, <1>7 DEF DocumentInv, Maybe

\* Tuning, whichever script does it: the document and its rows go on together.
LEMMA TuneKeeps ==
  ASSUME DocumentInv, file.kind # "csv", NEW new, NEW newTwin,
         file' = [file EXCEPT !.events = new], twin' = [twin EXCEPT !.events = newTwin],
         tuned' = TRUE, policy' = policy, made' = made, DOMAIN new = DOMAIN file.events,
         file.kind = "v1" =>
           new \in Seq(AnyEvents) /\ \A i \in DOMAIN new : Kept(file.events[i], new[i]),
         file.kind = "rows" =>
           /\ new \in Seq(LegacyRows) /\ newTwin \in Seq(AnyEvents) /\ DOMAIN newTwin = DOMAIN new
           /\ \A i \in DOMAIN new :
                /\ Twin(new[i], newTwin[i])
                /\ Kept(Document!FromRow(file.events[i], i), Document!FromRow(new[i], i))
  PROVE  DocumentInv' /\ (Document!Loads(file) => Document!Loads(file'))
<1>1. CASE file.kind = "v1"
  <2>1. file \in Documents /\ new \in Seq(AnyEvents)
    BY <1>1, KindFacts
  <2>2. file' \in Documents /\ file'.kind = "v1" /\ file'.events = new
    BY <2>1 DEF Documents
  <2>3. DirectedInv'
    <3> SUFFICES ASSUME policy # None, NEW i \in DOMAIN new
                 PROVE  /\ made[i] \in EventParameters /\ Document!ValidParameters(made[i])
                        /\ Document!ValidCondition(Document!WithSpike(made[i]))
                        /\ new[i].directions
                             = Document!Stored(Document!Directional(Document!WithSpike(made[i]), policy))
      BY <2>2 DEF DirectedInv
    <3>1. new[i].directions = file.events[i].directions
      BY <1>1 DEF Kept
    <3> QED
      BY <1>1, <3>1 DEF DocumentInv, DirectedInv
  <2>4. DocumentInv'
    BY <2>2, <2>3, Undirected DEF DocumentInv
  <2>5. Document!Valid(file) => Document!Valid(file')
    BY <1>1, <2>1, ValidKept
  <2> QED
    BY <1>1, <2>2, <2>4, <2>5 DEF Document!Loads, Document!Normalized
<1>2. CASE file.kind = "rows"
  <2>1. /\ file \in LegacyFiles /\ file.events \in Seq(LegacyRows) /\ new \in Seq(LegacyRows)
        /\ policy = None /\ twin \in Documents
    BY <1>2, KindFacts DEF LegacyFiles, DocumentInv, LegacyInv
  <2>2. file' \in LegacyFiles /\ file'.kind = "rows" /\ file'.events = new
    BY <2>1 DEF LegacyFiles
  <2>3. twin' \in Documents /\ twin'.events = newTwin
    BY <1>2, <2>1 DEF Documents
  <2>4. LegacyInv' /\ DirectedInv' /\ CanonicalInv'
    BY <1>2, <2>1, <2>2, <2>3 DEF LegacyInv, DirectedInv, CanonicalInv
  <2>5. DocumentInv'
    BY <2>2, <2>4 DEF DocumentInv
  <2> DEFINE doc   == Document!Create(file.events)
             later == Document!Create(new)
  <2>6. /\ doc \in Documents /\ DOMAIN doc.events = DOMAIN file.events
        /\ \A i \in DOMAIN file.events : doc.events[i] = Document!FromRow(file.events[i], i)
    BY <2>1, CreateFacts
  <2>7. /\ later \in Documents /\ DOMAIN later.events = DOMAIN new
        /\ \A i \in DOMAIN new : later.events[i] = Document!FromRow(new[i], i)
    BY <2>1, CreateFacts
  <2>8. later = [doc EXCEPT !.events = later.events]
    <3> DEFINE start == [delay |-> 0, arrive |-> 4, rate |-> 0, reorder |-> 0, directions |-> None]
    <3>1. /\ doc = [kind |-> "v1", baseline |-> start, events |-> doc.events]
          /\ later = [kind |-> "v1", baseline |-> start, events |-> later.events]
      BY DEF Document!Create
    <3> HIDE DEF doc, later, start
    <3> QED
      BY <3>1
  <2> HIDE DEF doc, later
  <2>9. /\ later.events \in Seq(AnyEvents) /\ DOMAIN later.events = DOMAIN doc.events
        /\ \A i \in DOMAIN later.events : Kept(doc.events[i], later.events[i])
    BY <1>2, <2>6, <2>7 DEF Documents
  <2>10. Document!Valid(doc) => Document!Valid(later)
    BY <2>6, <2>8, <2>9, ValidKept
  <2>11. Document!Loads(file) = Document!Valid(doc) /\ Document!Loads(file') = Document!Valid(later)
    BY <1>2, <2>2 DEF Document!Loads, Document!Normalized, doc, later
  <2> QED
    BY <2>5, <2>10, <2>11
<1> QED
  BY <1>1, <1>2, KindFacts

LEMMA CalibrateKeeps ==
  ASSUME DocumentInv, Document!CalibrateDelays
  PROVE  DocumentInv' /\ (Document!Loads(file) => Document!Loads(file'))
<1> DEFINE new     == [i \in DOMAIN file.events |-> Document!Calibrated(file.events[i])]
           newTwin == [i \in DOMAIN twin.events |-> Document!Calibrated(twin.events[i])]
<1>1. /\ file.kind # "csv" /\ tuned' = TRUE /\ policy' = policy /\ made' = made
      /\ file' = [file EXCEPT !.events = new] /\ twin' = [twin EXCEPT !.events = newTwin]
  BY DEF Document!CalibrateDelays, Document!Tune
<1>2. file.kind = "v1" => new \in Seq(AnyEvents) /\ \A i \in DOMAIN new : Kept(file.events[i], new[i])
  <2> SUFFICES ASSUME file.kind = "v1"
               PROVE  new \in Seq(AnyEvents) /\ \A i \in DOMAIN new : Kept(file.events[i], new[i])
    OBVIOUS
  <2>1. file.events \in Seq(AnyEvents)
    BY KindFacts DEF Documents
  <2>2. \A i \in DOMAIN file.events : file.events[i] \in AnyEvents
    BY <2>1
  <2>3. \A i \in DOMAIN file.events : new[i] \in AnyEvents /\ Kept(file.events[i], new[i])
    BY <2>2, CalibratedFacts
  <2> DEFINE n == Len(file.events)
  <2>4. n \in Nat /\ DOMAIN file.events = 1..n /\ new = [i \in 1..n |-> new[i]]
    BY <2>1
  <2> HIDE DEF new, n
  <2> QED
    BY <2>3, <2>4
<1>3. file.kind = "rows" =>
        /\ new \in Seq(LegacyRows) /\ newTwin \in Seq(AnyEvents) /\ DOMAIN newTwin = DOMAIN new
        /\ \A i \in DOMAIN new :
             /\ Twin(new[i], newTwin[i])
             /\ Kept(Document!FromRow(file.events[i], i), Document!FromRow(new[i], i))
  <2> SUFFICES ASSUME file.kind = "rows"
               PROVE  /\ new \in Seq(LegacyRows) /\ newTwin \in Seq(AnyEvents) /\ DOMAIN newTwin = DOMAIN new
                      /\ \A i \in DOMAIN new :
                           /\ Twin(new[i], newTwin[i])
                           /\ Kept(Document!FromRow(file.events[i], i), Document!FromRow(new[i], i))
    OBVIOUS
  <2>1. /\ file.events \in Seq(LegacyRows) /\ twin.events \in Seq(AnyEvents)
        /\ DOMAIN twin.events = DOMAIN file.events
        /\ \A i \in DOMAIN file.events : Twin(file.events[i], twin.events[i])
    BY KindFacts DEF LegacyFiles, DocumentInv, LegacyInv, Documents
  <2> DEFINE n == Len(file.events)
  <2>2. n \in Nat /\ DOMAIN file.events = 1..n /\ DOMAIN twin.events = 1..n
    BY <2>1
  <2>3. \A i \in 1..n :
          /\ file.events[i] \in LegacyRows /\ twin.events[i] \in AnyEvents /\ i \in Int
          /\ Twin(file.events[i], twin.events[i])
    BY <2>1, <2>2
  <2>4. new = [i \in 1..n |-> new[i]] /\ newTwin = [i \in 1..n |-> newTwin[i]]
    BY <2>2
  <2>5. \A i \in 1..n : new[i] = Document!Calibrated(file.events[i]) /\ newTwin[i] = Document!Calibrated(twin.events[i])
    BY <2>2
  <2> HIDE DEF new, newTwin, n
  <2>6. \A i \in 1..n :
          /\ new[i] \in LegacyRows /\ newTwin[i] \in AnyEvents /\ Twin(new[i], newTwin[i])
          /\ Kept(Document!FromRow(file.events[i], i), Document!FromRow(new[i], i))
    BY <2>3, <2>5, CalibratedFacts
  <2>7. new \in [1..n -> LegacyRows] /\ newTwin \in [1..n -> AnyEvents]
    BY <2>4, <2>6
  <2>8. new \in Seq(LegacyRows) /\ newTwin \in Seq(AnyEvents) /\ DOMAIN new = 1..n /\ DOMAIN newTwin = 1..n
    BY <2>2, <2>7
  <2> QED
    BY <2>6, <2>8
<1>4. DOMAIN new = DOMAIN file.events
  OBVIOUS
<1> HIDE DEF new, newTwin
<1> QED
  BY <1>1, <1>2, <1>3, <1>4, TuneKeeps

LEMMA LearnKeeps ==
  ASSUME DocumentInv, NEW c \in [DOMAIN file.events -> Corrections], Document!LearnFromReplay(c)
  PROVE  DocumentInv' /\ (Document!Loads(file) => Document!Loads(file'))
<1> DEFINE new     == [i \in DOMAIN file.events |-> Document!Learned(file.events[i], c[i])]
           newTwin == [i \in DOMAIN twin.events |-> Document!Learned(twin.events[i], c[i])]
<1>1. /\ file.kind # "csv" /\ tuned' = TRUE /\ policy' = policy /\ made' = made
      /\ file' = [file EXCEPT !.events = new] /\ twin' = [twin EXCEPT !.events = newTwin]
  BY DEF Document!LearnFromReplay, Document!Tune
<1>2. file.kind = "v1" => new \in Seq(AnyEvents) /\ \A i \in DOMAIN new : Kept(file.events[i], new[i])
  <2> SUFFICES ASSUME file.kind = "v1"
               PROVE  new \in Seq(AnyEvents) /\ \A i \in DOMAIN new : Kept(file.events[i], new[i])
    OBVIOUS
  <2>1. file.events \in Seq(AnyEvents)
    BY KindFacts DEF Documents
  <2>2. \A i \in DOMAIN file.events : file.events[i] \in AnyEvents /\ c[i] \in Corrections
    BY <2>1
  <2>3. \A i \in DOMAIN file.events : new[i] \in AnyEvents /\ Kept(file.events[i], new[i])
    BY <2>2, LearnedFacts
  <2> DEFINE n == Len(file.events)
  <2>4. n \in Nat /\ DOMAIN file.events = 1..n /\ new = [i \in 1..n |-> new[i]]
    BY <2>1
  <2> HIDE DEF new, n
  <2> QED
    BY SMTT(30), <2>3, <2>4
<1>3. file.kind = "rows" =>
        /\ new \in Seq(LegacyRows) /\ newTwin \in Seq(AnyEvents) /\ DOMAIN newTwin = DOMAIN new
        /\ \A i \in DOMAIN new :
             /\ Twin(new[i], newTwin[i])
             /\ Kept(Document!FromRow(file.events[i], i), Document!FromRow(new[i], i))
  <2> SUFFICES ASSUME file.kind = "rows"
               PROVE  /\ new \in Seq(LegacyRows) /\ newTwin \in Seq(AnyEvents) /\ DOMAIN newTwin = DOMAIN new
                      /\ \A i \in DOMAIN new :
                           /\ Twin(new[i], newTwin[i])
                           /\ Kept(Document!FromRow(file.events[i], i), Document!FromRow(new[i], i))
    OBVIOUS
  <2>1. /\ file.events \in Seq(LegacyRows) /\ twin.events \in Seq(AnyEvents)
        /\ DOMAIN twin.events = DOMAIN file.events
        /\ \A i \in DOMAIN file.events : Twin(file.events[i], twin.events[i])
    BY KindFacts DEF LegacyFiles, DocumentInv, LegacyInv, Documents
  <2> DEFINE n == Len(file.events)
  <2>2. n \in Nat /\ DOMAIN file.events = 1..n /\ DOMAIN twin.events = 1..n
    BY <2>1
  <2>3. \A i \in 1..n :
          /\ file.events[i] \in LegacyRows /\ twin.events[i] \in AnyEvents /\ i \in Int
          /\ Twin(file.events[i], twin.events[i]) /\ c[i] \in Corrections
    BY <2>1, <2>2
  <2>4. new = [i \in 1..n |-> new[i]] /\ newTwin = [i \in 1..n |-> newTwin[i]]
    BY <2>2
  <2>5. \A i \in 1..n : new[i] = Document!Learned(file.events[i], c[i]) /\ newTwin[i] = Document!Learned(twin.events[i], c[i])
    BY <2>2
  <2> HIDE DEF new, newTwin, n
  <2>6. \A i \in 1..n :
          /\ new[i] \in LegacyRows /\ newTwin[i] \in AnyEvents /\ Twin(new[i], newTwin[i])
          /\ Kept(Document!FromRow(file.events[i], i), Document!FromRow(new[i], i))
    BY <2>3, <2>5, LearnedFacts
  <2>7. new \in [1..n -> LegacyRows] /\ newTwin \in [1..n -> AnyEvents]
    BY <2>4, <2>6
  <2>8. new \in Seq(LegacyRows) /\ newTwin \in Seq(AnyEvents) /\ DOMAIN new = 1..n /\ DOMAIN newTwin = 1..n
    BY <2>2, <2>7
  <2> QED
    BY <2>6, <2>8
<1>4. DOMAIN new = DOMAIN file.events
  OBVIOUS
<1> HIDE DEF new, newTwin
<1> QED
  BY <1>1, <1>2, <1>3, <1>4, TuneKeeps

LEMMA DocumentNext ==
  DocumentInv /\ [Document!Next]_(Document!vars) =>
    DocumentInv' /\ (Document!Loads(file) => Document!Loads(file'))
<1> SUFFICES ASSUME DocumentInv, [Document!Next]_(Document!vars)
             PROVE  DocumentInv' /\ (Document!Loads(file) => Document!Loads(file'))
  OBVIOUS
<1>1. CASE UNCHANGED Document!vars
  BY <1>1 DEF Document!vars, DocumentInv, LegacyInv, DirectedInv, CanonicalInv
<1>2. CASE Document!Validate
  BY <1>2, ValidateKeeps
<1>3. CASE \E p \in Policies : Document!DirectionalizeEvents(p)
  BY <1>3, DirectionalizeEventsKeeps
<1>4. CASE \E p \in Policies : Document!DirectionalizeSeries(p)
  BY <1>4, DirectionalizeSeriesKeeps
<1>5. CASE Document!CalibrateDelays
  BY <1>5, CalibrateKeeps
<1>6. CASE \E c \in [DOMAIN file.events -> Corrections] : Document!LearnFromReplay(c)
  BY <1>6, LearnKeeps
<1> QED
  BY <1>1, <1>2, <1>3, <1>4, <1>5, <1>6 DEF Document!Next

-----------------------------------------------------------------------------
(* What the invariant says of a profile.                                    *)

LEMMA DirectionsShown ==
  DocumentInv => Document!LoadedConverts /\ Document!DirectionsFollowParameters /\ Document!PathKept
<1> SUFFICES ASSUME DocumentInv
             PROVE  Document!LoadedConverts /\ Document!DirectionsFollowParameters /\ Document!PathKept
  OBVIOUS
<1>1. Document!LoadedConverts
  <2> DEFINE doc == Document!Normalized(file)
  <2> SUFFICES ASSUME file.kind # "csv", Document!Loads(file)
               PROVE  Document!Converts(doc) <=>
                        /\ Document!ValidCondition(Document!Scalar(doc.baseline))
                        /\ \A i \in DOMAIN doc.events : doc.events[i].par.reorder \in 0..100
    BY DEF Document!LoadedConverts
  <2>1. doc \in Documents /\ Document!Valid(doc)
    BY KindFacts DEF Document!Loads
  <2> HIDE DEF doc
  <2>2. ASSUME NEW i \in DOMAIN doc.events
        PROVE  Document!ValidCondition(Document!WithSpike(doc.events[i].par))
                 <=> doc.events[i].par.reorder \in 0..100
    <3>1. doc.events[i] \in AnyEvents
      BY <2>1 DEF Documents
    <3> DEFINE par == doc.events[i].par
    <3>2. par \in EventParameters /\ Document!ValidParameters(par)
      BY <2>1, <3>1 DEF AnyEvents, Document!Valid
    <3> HIDE DEF par
    <3>3. par.delay \in Int /\ par.spike \in Int /\ par.delay >= 0 /\ par.spike >= 0
      BY <3>2, EvenFacts DEF EventParameters, Document!ValidParameters
    <3>4. Document!ValidCondition(Document!WithSpike(par)) <=> par.reorder \in 0..100
      BY <3>2, <3>3, ParameterFacts DEF Document!ValidCondition, Document!ValidParameters
    <3> QED
      BY <3>4 DEF par
  <2> QED
    BY <2>2 DEF Document!Converts
<1>2. ASSUME file.kind = "v1", policy # None, NEW i \in DOMAIN file.events
      PROVE  LET e == file.events[i]
                 c == Document!WithSpike(made[i])
                 pair == Document!Directional(c, policy)
             IN  /\ policy \in Policies /\ Document!ValidPolicy(policy)
                 /\ e \in AnyEvents /\ made[i] \in EventParameters /\ Document!ValidParameters(made[i])
                 /\ c \in Scalars /\ Document!ValidCondition(c) /\ pair \in Pairs
                 /\ e.directions = Document!Stored(pair) /\ e.directions # None
                 /\ ~ tuned => made[i] = e.par
  <2>1. policy \in Policies /\ Document!ValidPolicy(policy)
    BY <1>2 DEF DocumentInv, Maybe
  <2>2. file.events[i] \in AnyEvents
    BY <1>2, KindFacts DEF Documents
  <2> DEFINE e == file.events[i]
             c == Document!WithSpike(made[i])
             pair == Document!Directional(c, policy)
  <2>3. /\ made[i] \in EventParameters /\ Document!ValidParameters(made[i]) /\ Document!ValidCondition(c)
        /\ e.directions = Document!Stored(pair) /\ (~ tuned => made[i] = e.par)
    BY <1>2 DEF DocumentInv, DirectedInv
  <2>4. c \in Scalars
    BY <2>3, ParameterFacts
  <2> HIDE DEF c, e
  <2>5. pair \in Pairs
    BY <2>1, <2>3, <2>4, Splits
  <2> HIDE DEF pair
  <2>6. e.directions # None
    BY <2>3, <2>5, StoredFacts, Nothing
  <2> QED
    BY <2>1, <2>2, <2>3, <2>4, <2>5, <2>6 DEF c, e, pair
<1>3. Document!DirectionsFollowParameters
  <2> SUFFICES ASSUME file.kind = "v1", policy # None, NEW i \in DOMAIN file.events
               PROVE  LET e == file.events[i] IN
                      /\ Document!Replayed(e, policy)
                           = Document!Stored(Document!Replayed([e EXCEPT !.par = made[i], !.directions = None], policy))
                      /\ ~ tuned => made[i] = e.par
    BY DEF Document!DirectionsFollowParameters
  <2> DEFINE e == file.events[i]
             par == made[i]
             bare == [e EXCEPT !.par = par, !.directions = None]
             c == Document!WithSpike(par)
  <2>1. /\ e \in AnyEvents /\ par \in EventParameters /\ Document!ValidParameters(par)
        /\ e.directions = Document!Stored(Document!Directional(c, policy)) /\ e.directions # None
        /\ ~ tuned => par = e.par
    BY <1>2
  <2> HIDE DEF par, c, e
  <2>2. bare.directions = None /\ bare.par = par
    BY <2>1 DEF AnyEvents
  <2>3. par.spike \in Int /\ par.spike >= 0 /\ par.delay \in Int
    BY <2>1, EvenFacts DEF EventParameters, Document!ValidParameters
  <2> HIDE DEF bare
  <2>4. par.spike = 0 => Document!WithSpike(par) = Document!Scalar(par)
    BY <2>3 DEF Document!WithSpike, Document!Scalar
  <2>5. Document!Replayed(bare, policy) = Document!Directional(c, policy)
    BY <2>2, <2>3, <2>4 DEF Document!Replayed, Document!WithSpike, c
  <2>6. Document!Replayed(e, policy) = e.directions
    BY <2>1 DEF Document!Replayed
  <2> QED
    BY <2>1, <2>5, <2>6 DEF bare, e, par
<1>4. Document!PathKept
  <2> SUFFICES ASSUME file.kind = "v1", policy # None, NEW i \in DOMAIN file.events
               PROVE  LET f == file.events[i].directions.forward
                          r == file.events[i].directions.reverse
                      IN  /\ policy.loss = "equivalent" => Document!EndToEnd(f.arrive, r.arrive) = made[i].arrive
                          /\ policy.delay = "split" => f.delay + r.delay = made[i].delay + made[i].spike
    BY DEF Document!PathKept
  <2> DEFINE e == file.events[i]
             par == made[i]
             c == Document!WithSpike(par)
             pair == Document!Directional(c, policy)
  <2>1. /\ policy \in Policies /\ Document!ValidPolicy(policy) /\ par \in EventParameters
        /\ c \in Scalars /\ Document!ValidCondition(c) /\ pair \in Pairs /\ e.directions = Document!Stored(pair)
    BY <1>2
  <2> HIDE DEF e, par
  <2>2. c.delay = par.delay + par.spike /\ c.delay \in Even /\ c.arrive = par.arrive
    BY <2>1, ParameterFacts
  <2> HIDE DEF c
  <2>3. /\ policy.loss = "equivalent" => Document!EndToEnd(pair.forward.arrive, pair.reverse.arrive) = c.arrive
        /\ policy.delay = "split" => pair.forward.delay + pair.reverse.delay = c.delay
    BY <2>1, <2>2, Splits
  <2> HIDE DEF pair
  <2>4. /\ e.directions.forward.arrive = pair.forward.arrive /\ e.directions.reverse.arrive = pair.reverse.arrive
        /\ e.directions.forward.delay = pair.forward.delay /\ e.directions.reverse.delay = pair.reverse.delay
    BY <2>1, StoredFacts
  <2> QED
    BY <2>2, <2>3, <2>4 DEF e, par
<1> QED
  BY <1>1, <1>3, <1>4

LEMMA FormsShown ==
  DocumentInv => Document!RowsLearnAsDocuments /\ Document!SameSingleReplay /\ Document!CanonicalCsv
<1> SUFFICES ASSUME DocumentInv
             PROVE  Document!RowsLearnAsDocuments /\ Document!SameSingleReplay /\ Document!CanonicalCsv
  OBVIOUS
<1>1. Document!RowsLearnAsDocuments
  <2> SUFFICES ASSUME file.kind = "rows", NEW i \in DOMAIN file.events
               PROVE  LET row   == file.events[i]
                          late  == Document!FromRow(row, i)
                          early == twin.events[i]
                          apart == Document!Distance(row.jitter, DefaultJitter)
                      IN  /\ Document!ButJitter(late.par) = Document!ButJitter(early.par)
                          /\ Document!ButJitter(late.cal) = Document!ButJitter(early.cal)
                          /\ late.cal.jitter = None <=> early.cal.jitter = None
                          /\ late.cal.jitter = None => late.par.jitter = early.par.jitter
                          /\ late.cal.jitter # None =>
                               Document!Distance(late.cal.jitter, early.cal.jitter) <= apart
                          /\ Document!OrZero(late.cal.jitter) > 0 =>
                               Document!Distance(late.par.jitter, early.par.jitter) <= apart
    BY DEF Document!RowsLearnAsDocuments
  <2> DEFINE row   == file.events[i]
             late  == Document!FromRow(row, i)
             early == twin.events[i]
  <2>1. /\ file.events \in Seq(LegacyRows) /\ twin.events \in Seq(AnyEvents)
        /\ DOMAIN twin.events = DOMAIN file.events /\ Twin(row, early)
    BY KindFacts DEF LegacyFiles, DocumentInv, LegacyInv, Documents
  <2>2. row \in LegacyRows /\ early \in AnyEvents /\ i \in Int
    BY <2>1
  <2>3. /\ late.cal = row.cal /\ late.par.jitter = LateJitter(row)
        /\ late.par = [delay |-> LateDelay(row), jitter |-> LateJitter(row),
                       spike |-> Document!OrZero(row.cal.spike), arrive |-> row.arrive,
                       rate |-> row.rate, reorder |-> 0]
    BY <2>2, RowFacts
  <2> HIDE DEF row, late, early
  <2>4. row.cal \in Calibrations /\ early.cal \in Calibrations /\ early.par \in EventParameters
    BY <2>2 DEF LegacyRows, AnyEvents
  <2>5. Document!ButJitter(late.par) = Document!ButJitter(early.par)
    <3>1. Document!ButJitter(early.par)
            = [delay |-> early.par.delay, jitter |-> 0, spike |-> early.par.spike, arrive |-> early.par.arrive,
               rate |-> early.par.rate, reorder |-> early.par.reorder]
      BY <2>4 DEF EventParameters, Document!ButJitter
    <3>2. Document!ButJitter(late.par)
            = [delay |-> LateDelay(row), jitter |-> 0, spike |-> Document!OrZero(row.cal.spike),
               arrive |-> row.arrive, rate |-> row.rate, reorder |-> 0]
      BY <2>3 DEF Document!ButJitter
    <3>3. /\ early.par.delay = LateDelay(row) /\ early.par.spike = Document!OrZero(row.cal.spike)
          /\ early.par.arrive = row.arrive /\ early.par.rate = row.rate /\ early.par.reorder = 0
      BY <2>1 DEF Twin
    <3> QED
      BY <3>1, <3>2, <3>3
  <2>6. Document!ButJitter(late.cal) = Document!ButJitter(early.cal)
    <3>1. early.cal.delay = row.cal.delay /\ early.cal.spike = row.cal.spike
      BY <2>1 DEF Twin
    <3>2. /\ Document!ButJitter(row.cal) = [delay |-> row.cal.delay, jitter |-> 0, spike |-> row.cal.spike]
          /\ Document!ButJitter(early.cal) = [delay |-> early.cal.delay, jitter |-> 0, spike |-> early.cal.spike]
      BY <2>4 DEF Calibrations, Document!ButJitter
    <3> QED
      BY <2>3, <3>1, <3>2
  <2>7. late.cal.jitter = None <=> early.cal.jitter = None
    BY <2>1, <2>3 DEF Twin
  <2>8. late.cal.jitter = None => late.par.jitter = early.par.jitter
    BY <2>1, <2>3 DEF Twin, LateJitter, Document!OrZero
  <2>9. late.cal.jitter # None =>
          Document!Distance(late.cal.jitter, early.cal.jitter) <= Document!Distance(row.jitter, DefaultJitter)
    BY <2>1, <2>3 DEF Twin
  <2>10. Document!OrZero(late.cal.jitter) > 0 =>
           Document!Distance(late.par.jitter, early.par.jitter) <= Document!Distance(row.jitter, DefaultJitter)
    <3> SUFFICES ASSUME Document!OrZero(row.cal.jitter) > 0
                 PROVE  Document!Distance(LateJitter(row), early.par.jitter)
                          <= Document!Distance(row.jitter, DefaultJitter)
      BY <2>3
    <3>1. row.cal.jitter # None /\ row.cal.jitter \in Int /\ row.cal.jitter > 0 /\ LateJitter(row) = row.cal.jitter
      <4>1. row.cal.jitter \in Maybe(Int)
        BY <2>4 DEF Calibrations
      <4> QED
        BY <4>1 DEF LateJitter, Maybe, Document!OrZero
    <3>2. early.par.jitter = early.cal.jitter
      BY <2>1, <3>1 DEF Twin
    <3> QED
      BY <2>1, <3>1, <3>2 DEF Twin
  <2> QED
    BY <2>5, <2>6, <2>7, <2>8, <2>9, <2>10 DEF row, late, early
<1>2. Document!SameSingleReplay
  <2> SUFFICES ASSUME file.kind = "v1", NEW i \in DOMAIN file.events
               PROVE  Document!TcParams(Document!Flat(file.events[i])) = Document!TcParams(Document!FlattenV1(file.events[i]))
    BY DEF Document!SameSingleReplay
  <2> DEFINE e == file.events[i]
  <2>1. e \in AnyEvents
    BY KindFacts DEF Documents
  <2> HIDE DEF e
  <2>2. e.par \in EventParameters
    BY <2>1 DEF AnyEvents
  <2>3. [f \in {"delay", "jitter", "spike", "arrive", "rate", "reorder"} |-> e.par[f]] = e.par
    BY <2>2 DEF EventParameters
  <2>4. /\ Document!Flat(e).replay = e.par /\ Document!Flat(e).cal = e.cal
        /\ Document!FlattenV1(e).replay = e.par /\ Document!FlattenV1(e).cal = e.cal
    BY <2>3 DEF Document!Flat, Document!FlattenV1
  <2>5. Document!TcParams(Document!Flat(e)) = Document!TcParams(Document!FlattenV1(e))
    BY <2>4 DEF Document!TcParams
  <2> QED
    BY <2>5 DEF e
<1>3. Document!CanonicalCsv
  <2> SUFFICES ASSUME file.kind = "csv", policy # None, NEW p \in Policies, NEW q \in Policies
               PROVE  Document!ReadCsv(file.events, p, DefaultRate) = Document!ReadCsv(file.events, q, DefaultRate)
    BY DEF Document!CanonicalCsv
  <2>1. \A i \in DOMAIN file.events :
          Document!RowState(file.events[i], p, DefaultRate) = Document!RowState(file.events[i], q, DefaultRate)
    <3> SUFFICES ASSUME NEW i \in DOMAIN file.events
                 PROVE  Document!RowState(file.events[i], p, DefaultRate)
                          = Document!RowState(file.events[i], q, DefaultRate)
      OBVIOUS
    <3> DEFINE row == file.events[i]
    <3>1. Canonical(row)
      BY DEF DocumentInv, CanonicalInv
    <3> HIDE DEF row
    <3>2. row.forward # None /\ row.reverse.rate # None
      BY <3>1, Nothing DEF Canonical
    <3>3. Document!RowState(row, p, DefaultRate) = Document!RowState(row, q, DefaultRate)
      BY <3>2 DEF Document!RowState, Document!Filled
    <3> QED
      BY <3>3 DEF row
  <2>2. [i \in DOMAIN file.events |-> Document!RowState(file.events[i], p, DefaultRate)]
          = [i \in DOMAIN file.events |-> Document!RowState(file.events[i], q, DefaultRate)]
    BY <2>1
  <2> QED
    BY <2>2 DEF Document!ReadCsv
<1> QED
  BY <1>1, <1>2, <1>3

-----------------------------------------------------------------------------
(* The merged series.                                                       *)

\* What a tool remembers was measured, or nothing.
LEMMA UsedPoint ==
  ASSUME NEW points, NEW t, NEW empty
  PROVE  \/ Merged!Used(points, t, empty) = empty
         \/ \E i \in DOMAIN points : Merged!Used(points, t, empty) = points[i]
<1> DEFINE found == IF Merged!Nearest(points, t) # {} THEN Merged!Nearest(points, t) ELSE Merged!Before(points, t)
<1>1. found \subseteq DOMAIN points
  BY DEF Merged!Nearest, Merged!Before
<1>2. Merged!Used(points, t, empty) = IF found = {} THEN empty ELSE points[CHOOSE i \in found : TRUE]
  BY DEF Merged!Used
<1> HIDE DEF found
<1> QED
  BY <1>1, <1>2

PingPoints  == [time : Int, delay : Maybe(Int), timeout : BOOLEAN]
IperfPoints == [time : Int, rate : Int]
GrpcPoints  == [time : Int, latency : Maybe(Int), downlink : Int, bad : BOOLEAN]

LEMMA MeasuredTypes ==
  ASSUME input \in Measurements
  PROVE  /\ input.ping \in Seq(PingPoints) /\ input.iperf \in Seq(IperfPoints)
         /\ input.grpc \in Seq(GrpcPoints)
BY MeasurementsAssumption DEF MeasurementsAssumption, PingPoints, IperfPoints, GrpcPoints

\* The measured delays are finitely many numbers, and one of them is not negative.
LEMMA DelaysHaveMax ==
  ASSUME input \in Measurements
  PROVE  /\ Merged!Delays \in SUBSET Int
         /\ Merged!Max(Merged!Delays) \in Nat
         /\ \A d \in Merged!Delays : d <= Merged!Max(Merged!Delays)
<1> DEFINE P == {i \in DOMAIN input.ping : input.ping[i].delay # None}
           G == {i \in DOMAIN input.grpc : input.grpc[i].latency # None}
           p == [i \in P |-> input.ping[i].delay]
           g == [i \in G |-> input.grpc[i].latency]
<1>1. Merged!Delays = {FirstDelay} \cup {p[i] : i \in P} \cup {g[i] : i \in G}
  BY DEF Merged!Delays, Merged!ToSet
<1>2. /\ \A i \in DOMAIN input.ping : input.ping[i] \in PingPoints
      /\ \A i \in DOMAIN input.grpc : input.grpc[i] \in GrpcPoints
  BY MeasuredTypes
<1>3. (\A i \in P : p[i] \in Int) /\ (\A i \in G : g[i] \in Int)
  BY <1>2 DEF PingPoints, GrpcPoints, Maybe
<1>4. IsFiniteSet(P) /\ IsFiniteSet(G)
  <2>1. /\ DOMAIN input.ping = 1..Len(input.ping) /\ Len(input.ping) \in Int
        /\ DOMAIN input.grpc = 1..Len(input.grpc) /\ Len(input.grpc) \in Int
    BY MeasuredTypes
  <2>2. IsFiniteSet(DOMAIN input.ping) /\ IsFiniteSet(DOMAIN input.grpc)
    BY <2>1, FS_Interval
  <2> QED
    BY <2>2, FS_Subset
<1>5. DOMAIN p = P /\ DOMAIN g = G
  OBVIOUS
<1> HIDE DEF p, g, P, G
<1>6. IsFiniteSet({p[i] : i \in P}) /\ IsFiniteSet({g[i] : i \in G})
  BY <1>4, <1>5, ImageIsFinite
<1>7. IsFiniteSet(Merged!Delays)
  BY <1>1, <1>6, FS_Singleton, FS_Union
<1>8. FirstDelay \in Merged!Delays /\ Merged!Delays \in SUBSET Int /\ FirstDelay \in Nat
  BY <1>1, <1>3, MeasurementsAssumption DEF MeasurementsAssumption
<1>9. \E x \in Merged!Delays : \A y \in Merged!Delays : x >= y
  <2>1. PICK x \in Merged!Delays : \A y \in Merged!Delays : y <= x
    BY <1>7, <1>8, FiniteHasEnds
  <2> QED
    BY <1>8, <2>1
<1> DEFINE m == Merged!Max(Merged!Delays)
<1>10. m \in Merged!Delays /\ \A y \in Merged!Delays : m >= y
  BY <1>9 DEF Merged!Max
<1> HIDE DEF m
<1>11. m \in Nat /\ \A y \in Merged!Delays : y <= m
  BY <1>8, <1>10
<1> QED
  BY <1>8, <1>11 DEF m

RowSound(k, row) ==
  /\ row.delay > 2 * Merged!Max(Merged!Delays) =>
       /\ Merged!Ping(k - 1).timeout \/ Merged!Ping(k - 1).delay = None
       /\ Merged!Grpc(k - 1).latency = None
  /\ row.delay <= LongestDelay /\ row.rate >= LeastRate

MergedInv ==
  /\ input \in Measurements /\ lastDelay \in Int /\ lastRate \in Int
  /\ sec \in Nat /\ Len(series) = sec /\ DOMAIN series = 1..Len(series)
  /\ \A k \in DOMAIN series : RowSound(k, series[k])

LEMMA MergedInit == Merged!Init => MergedInv
  BY MeasurementsAssumption DEF MeasurementsAssumption, Merged!Init, MergedInv

LEMMA AnswersKeep ==
  ASSUME UNCHANGED input, NEW k
  PROVE  /\ Merged!Ping(k - 1)' = Merged!Ping(k - 1)
         /\ Merged!Grpc(k - 1)' = Merged!Grpc(k - 1)
         /\ Merged!Max(Merged!Delays)' = Merged!Max(Merged!Delays)
<1>1. Merged!Ping(k - 1)' = Merged!Ping(k - 1)
  BY DEF Merged!Ping, Merged!Used, Merged!Nearest, Merged!Before, Merged!Distance
<1>2. Merged!Grpc(k - 1)' = Merged!Grpc(k - 1)
  BY DEF Merged!Grpc, Merged!Used, Merged!Nearest, Merged!Before, Merged!Distance
<1>3. Merged!Delays' = Merged!Delays
  BY DEF Merged!Delays, Merged!ToSet
<1>4. Merged!Max(Merged!Delays)' = Merged!Max(Merged!Delays)
  BY <1>3 DEF Merged!Max
<1> QED
  BY <1>1, <1>2, <1>4

LEMMA MergedStep == MergedInv /\ Merged!Step => MergedInv'
<1> SUFFICES ASSUME MergedInv, Merged!Step PROVE MergedInv'
  OBVIOUS
<1> USE DEF MergedInv
<1> DEFINE m == Merged!Max(Merged!Delays)
           delay == Merged!Or(Merged!MeasuredDelay(sec), lastDelay)
           rate  == Merged!Or(Merged!MeasuredRate(sec), lastRate)
           row == Merged!Corrected(delay, rate, Merged!Grpc(sec).bad)
<1>1. /\ series' = Append(series, row) /\ lastDelay' = row.delay /\ lastRate' = row.rate
      /\ sec' = sec + 1 /\ input' = input
  BY DEF Merged!Step
<1>2. /\ Merged!Ping(sec).delay \in Maybe(Int)
      /\ ~ Merged!Ping(sec).timeout /\ Merged!Ping(sec).delay # None => Merged!Ping(sec).delay \in Merged!Delays
  <2>1. CASE Merged!Ping(sec) = [delay |-> None, timeout |-> FALSE]
    BY <2>1 DEF Maybe
  <2>2. CASE \E i \in DOMAIN input.ping : Merged!Ping(sec) = input.ping[i]
    <3>1. PICK i \in DOMAIN input.ping : Merged!Ping(sec) = input.ping[i]
      BY <2>2
    <3>2. input.ping[i] \in PingPoints
      BY MeasuredTypes
    <3> QED
      BY <3>1, <3>2 DEF PingPoints, Merged!Delays, Merged!ToSet
  <2> QED
    BY <2>1, <2>2, UsedPoint DEF Merged!Ping
<1>3. /\ Merged!Grpc(sec).latency \in Maybe(Int) /\ Merged!Grpc(sec).downlink \in Maybe(Int)
      /\ Merged!Grpc(sec).latency # None => Merged!Grpc(sec).latency \in Merged!Delays
  <2>1. CASE Merged!Grpc(sec) = [latency |-> None, downlink |-> None, bad |-> FALSE]
    BY <2>1 DEF Maybe
  <2>2. CASE \E i \in DOMAIN input.grpc : Merged!Grpc(sec) = input.grpc[i]
    <3>1. PICK i \in DOMAIN input.grpc : Merged!Grpc(sec) = input.grpc[i]
      BY <2>2
    <3>2. input.grpc[i] \in GrpcPoints
      BY MeasuredTypes
    <3> QED
      BY <3>1, <3>2 DEF GrpcPoints, Maybe, Merged!Delays, Merged!ToSet
  <2> QED
    BY <2>1, <2>2, UsedPoint DEF Merged!Grpc
<1>4. Merged!Iperf(sec).rate \in Maybe(Int)
  <2>1. CASE Merged!Iperf(sec) = [rate |-> None]
    BY <2>1 DEF Maybe
  <2>2. CASE \E i \in DOMAIN input.iperf : Merged!Iperf(sec) = input.iperf[i]
    <3>1. PICK i \in DOMAIN input.iperf : Merged!Iperf(sec) = input.iperf[i]
      BY <2>2
    <3>2. input.iperf[i] \in IperfPoints
      BY MeasuredTypes
    <3> QED
      BY <3>1, <3>2 DEF IperfPoints, Maybe
  <2> QED
    BY <2>1, <2>2, UsedPoint DEF Merged!Iperf
<1>5. rate \in Int
  BY <1>3, <1>4 DEF Merged!Or, Merged!MeasuredRate, Maybe
<1> DEFINE silent == /\ Merged!Ping(sec).timeout \/ Merged!Ping(sec).delay = None
                     /\ Merged!Grpc(sec).latency = None
<1>6. delay \in Int /\ (~ silent => delay <= m)
  <2>1. \A d \in Merged!Delays : d \in Int /\ d <= m
    BY DelaysHaveMax
  <2>2. delay \in Int
    BY <1>2, <1>3 DEF Merged!Or, Merged!MeasuredDelay, Maybe
  <2>3. ASSUME ~ silent PROVE delay \in Merged!Delays
    BY <1>2, <1>3, <2>3 DEF Merged!Or, Merged!MeasuredDelay
  <2> QED
    BY <2>1, <2>2, <2>3
<1>7. m \in Nat
  BY DelaysHaveMax
<1> HIDE DEF m, delay, rate
<1>8. /\ row.delay \in Int /\ row.rate \in Int
      /\ row.delay <= LongestDelay /\ row.rate >= LeastRate
      /\ row.delay <= 2 * delay \/ row.delay <= delay
  BY <1>5, <1>6, MeasurementsAssumption DEF MeasurementsAssumption, Merged!Corrected
<1> HIDE DEF row
<1>9. RowSound(sec + 1, row)
  <2>1. ~ silent => ~ (row.delay > 2 * m)
    BY <1>6, <1>7, <1>8
  <2>2. sec + 1 - 1 = sec
    OBVIOUS
  <2> HIDE DEF silent
  <2>3. row.delay > 2 * m => silent
    BY <2>1
  <2> QED
    BY <1>8, <2>2, <2>3 DEF RowSound, silent, m
<1>10. /\ Len(series') = Len(series) + 1 /\ DOMAIN series' = 1..Len(series')
       /\ series'[sec + 1] = row /\ \A k \in DOMAIN series : series'[k] = series[k]
  BY <1>1
<1>11. \A k \in DOMAIN series' : RowSound(k, series'[k])
  BY <1>9, <1>10
<1>12. ASSUME NEW k \in DOMAIN series' PROVE RowSound(k, series[k])'
  <2>1. /\ Merged!Ping(k - 1)' = Merged!Ping(k - 1)
        /\ Merged!Grpc(k - 1)' = Merged!Grpc(k - 1)
        /\ Merged!Max(Merged!Delays)' = Merged!Max(Merged!Delays)
    BY <1>1, AnswersKeep
  <2> QED
    BY <1>11, <2>1 DEF RowSound
<1> QED
  BY <1>1, <1>8, <1>10, <1>12

LEMMA MergedNext == MergedInv /\ [Merged!Next]_(Merged!vars) => MergedInv'
<1> SUFFICES ASSUME MergedInv, [Merged!Next]_(Merged!vars) PROVE MergedInv'
  OBVIOUS
<1>1. CASE Merged!Next
  BY <1>1, MergedStep DEF Merged!Next
<1>2. CASE UNCHANGED Merged!vars
  <2>1. UNCHANGED <<input, sec, lastDelay, lastRate, series>>
    BY <1>2 DEF Merged!vars
  <2>2. ASSUME NEW k \in DOMAIN series PROVE RowSound(k, series[k])'
    <3>1. /\ Merged!Ping(k - 1)' = Merged!Ping(k - 1)
          /\ Merged!Grpc(k - 1)' = Merged!Grpc(k - 1)
          /\ Merged!Max(Merged!Delays)' = Merged!Max(Merged!Delays)
      BY <2>1, AnswersKeep
    <3>2. RowSound(k, series[k])
      BY DEF MergedInv
    <3> QED
      BY <2>1, <3>1, <3>2 DEF RowSound
  <2> QED
    BY <2>1, <2>2 DEF MergedInv
<1> QED
  BY <1>1, <1>2

LEMMA MergedShown == MergedInv => Merged!FeedbackOnlyInSilence
BY DEF MergedInv, RowSound, Merged!FeedbackOnlyInSilence

-----------------------------------------------------------------------------
(* Bins.                                                                    *)

LEMMA SameSum ==
  ASSUME NEW f
  PROVE  Segments!SumFunction(f) = SumFunctionOnSet(f, DOMAIN f)
BY DEF Segments!SumFunction, Segments!SumFunctionOnSet, Segments!FoldFunctionOnSet, Segments!MapThenFoldSet,
       SumFunctionOnSet, FoldFunctionOnSet, MapThenFoldSet

\* The intervals of a session.
LEMMA IntervalFacts ==
  ASSUME session \in Sessions
  PROVE  /\ session.intervals \in Seq(Intervals)
         /\ DOMAIN session.intervals = 1..Len(session.intervals) /\ Len(session.intervals) \in Nat
         /\ IsFiniteSet(DOMAIN session.intervals)
         /\ \A i \in DOMAIN session.intervals :
              /\ session.intervals[i] \in Intervals
              /\ session.intervals[i].start \in Nat /\ session.intervals[i].end \in Nat
              /\ session.intervals[i].loss \in Int /\ session.intervals[i].rate \in Int
              /\ session.intervals[i].start <= session.intervals[i].end
<1>1. session.intervals \in Seq(Intervals)
  BY SessionsAssumption DEF SessionsAssumption
<1>2. DOMAIN session.intervals = 1..Len(session.intervals) /\ Len(session.intervals) \in Nat
  BY <1>1
<1>3. IsFiniteSet(1..Len(session.intervals))
  BY <1>2, FS_Interval
<1>4. \A i \in DOMAIN session.intervals : session.intervals[i] \in Intervals
  BY <1>1
<1> QED
  BY <1>1, <1>2, <1>3, <1>4 DEF Intervals

\* The last interval ends where the bins do.
LEMMA TotalEndFacts ==
  ASSUME session \in Sessions, session.intervals # <<>>
  PROVE  /\ Segments!TotalEnd \in Nat
         /\ \A i \in DOMAIN session.intervals : session.intervals[i].end <= Segments!TotalEnd
<1> DEFINE D == DOMAIN session.intervals
           f == [i \in D |-> session.intervals[i].end]
           E == {f[i] : i \in D}
<1>1. Segments!TotalEnd = Segments!Max(E)
  BY DEF Segments!TotalEnd, Segments!ToSet
<1>2. D # {}
  <2>1. session.intervals \in Seq(Intervals) /\ D = 1..Len(session.intervals)
    BY IntervalFacts
  <2>2. Len(session.intervals) # 0 /\ Len(session.intervals) \in Nat
    BY <2>1
  <2>3. 1 \in 1..Len(session.intervals)
    BY <2>2
  <2> QED
    BY <2>1, <2>3
<1>3. \A i \in D : f[i] \in Nat
  BY IntervalFacts
<1>4. IsFiniteSet(D) /\ DOMAIN f = D
  BY IntervalFacts
<1> HIDE DEF f, D
<1>5. IsFiniteSet(E)
  BY <1>4, ImageIsFinite
<1>6. E \in SUBSET Int /\ E # {} /\ E \in SUBSET Nat
  BY <1>2, <1>3
<1> HIDE DEF E
<1>7. \E x \in E : \A y \in E : x >= y
  <2>1. PICK x \in E : \A y \in E : y <= x
    BY <1>5, <1>6, FiniteHasEnds
  <2> QED
    BY <1>6, <2>1
<1>8. Segments!TotalEnd \in E /\ \A y \in E : Segments!TotalEnd >= y
  BY <1>1, <1>7 DEF Segments!Max
<1>9. \A i \in D : f[i] <= Segments!TotalEnd
  BY <1>6, <1>8 DEF E
<1> QED
  BY <1>6, <1>8, <1>9 DEF f, D

\* The losses of the intervals as far as they lie between two times.
Between(from, to) ==
  [i \in DOMAIN session.intervals |->
     session.intervals[i].loss * Segments!Overlap(session.intervals[i], from, to)]
Lost(from, to) == SumFunctionOnSet(Between(from, to), DOMAIN session.intervals)

LEMMA OverlapFacts ==
  ASSUME NEW x \in Intervals, NEW from \in Int, NEW to \in Int
  PROVE  /\ Segments!Overlap(x, from, to) \in Int
         /\ x.loss * Segments!Overlap(x, from, to) \in Int
BY DEF Intervals, Segments!Overlap, Segments!Larger, Segments!Smaller

\* Where a bin ends does not matter beyond the last interval.
LEMMA OverlapSplits ==
  ASSUME NEW x, x.start \in Nat, x.end \in Nat, x.start <= x.end, NEW end \in Nat, x.end <= end,
         NEW l \in Nat, NEW r \in Nat, l < end, l < r
  PROVE  Segments!Overlap(x, 0, r)
           = Segments!Overlap(x, 0, l) + Segments!Overlap(x, l, Segments!Smaller(r, end))
<1> DEFINE s == x.start
           e == x.end
<1>1. s \in Nat /\ e \in Nat /\ s <= e /\ e <= end
  OBVIOUS
<1>2. /\ Segments!Overlap(x, 0, r) = Segments!Larger(0, Segments!Smaller(e, r) - s)
      /\ Segments!Overlap(x, 0, l) = Segments!Larger(0, Segments!Smaller(e, l) - s)
      /\ Segments!Overlap(x, l, Segments!Smaller(r, end))
           = Segments!Larger(0, Segments!Smaller(e, Segments!Smaller(r, end)) - Segments!Larger(s, l))
  BY DEF Segments!Overlap, Segments!Larger
<1>3. Segments!Smaller(e, Segments!Smaller(r, end)) = Segments!Smaller(e, r)
  BY <1>1 DEF Segments!Smaller
<1> HIDE DEF s, e
<1>4. Segments!Larger(0, Segments!Smaller(e, r) - s)
        = Segments!Larger(0, Segments!Smaller(e, l) - s)
            + Segments!Larger(0, Segments!Smaller(e, r) - Segments!Larger(s, l))
  <2>1. CASE e <= l
    BY <1>1, <2>1 DEF Segments!Larger, Segments!Smaller
  <2>2. CASE l < e /\ s <= l
    BY <1>1, <2>2 DEF Segments!Larger, Segments!Smaller
  <2>3. CASE l < s
    BY <1>1, <2>3 DEF Segments!Larger, Segments!Smaller
  <2> QED
    BY <1>1, <2>1, <2>2, <2>3
<1> QED
  BY <1>2, <1>3, <1>4

LEMMA Distributed == \A a, b, c \in Int : a * (b + c) = a * b + a * c
OBVIOUS

\* What one step of the binning adds.
LEMMA LossesAdd ==
  ASSUME session \in Sessions, NEW a \in Int, NEW b \in Int, NEW c \in Int, NEW d \in Int,
         \A i \in DOMAIN session.intervals :
            Segments!Overlap(session.intervals[i], 0, d)
              = Segments!Overlap(session.intervals[i], 0, a) + Segments!Overlap(session.intervals[i], b, c)
  PROVE  Lost(0, d) = Lost(0, a) + Lost(b, c)
<1> DEFINE D == DOMAIN session.intervals
<1>1. ASSUME NEW i \in D
      PROVE  /\ Between(0, a)[i] \in Int /\ Between(b, c)[i] \in Int
             /\ Between(0, d)[i] = Between(0, a)[i] + Between(b, c)[i]
  <2> DEFINE x == session.intervals[i]
             p == Segments!Overlap(x, 0, a)
             q == Segments!Overlap(x, b, c)
  <2>1. x \in Intervals /\ x.loss \in Int
    BY IntervalFacts
  <2>2. p \in Int /\ q \in Int /\ x.loss * p \in Int /\ x.loss * q \in Int
    BY <2>1, OverlapFacts
  <2>3. Segments!Overlap(x, 0, d) = p + q
    OBVIOUS
  <2>4. x.loss * (p + q) = x.loss * p + x.loss * q
    BY <2>1, <2>2, Distributed
  <2>5. /\ Between(0, a)[i] = x.loss * p /\ Between(b, c)[i] = x.loss * q
        /\ Between(0, d)[i] = x.loss * Segments!Overlap(x, 0, d)
    BY DEF Between
  <2> QED
    BY <2>2, <2>3, <2>4, <2>5
<1>2. IsFiniteSet(D)
  BY IntervalFacts
<1> HIDE DEF D
<1>3. SumFunctionOnSet(Between(0, d), D)
        = SumFunctionOnSet(Between(0, a), D) + SumFunctionOnSet(Between(b, c), D)
  BY <1>1, <1>2, SumOfSums
<1> QED
  BY <1>3 DEF Lost, D

LEMMA LostInt ==
  ASSUME session \in Sessions, NEW a \in Int, NEW b \in Int
  PROVE  Lost(a, b) \in Int
<1>1. \A i \in DOMAIN session.intervals : Between(a, b)[i] \in Int
  BY IntervalFacts, OverlapFacts DEF Between
<1> QED
  BY <1>1, IntervalFacts, SumInt DEF Lost

\* The bins so far are in order, up to left, and hold the losses before it.
BinRows == [start : Nat, end : Nat, weight : Int, loss : Int, rate : Int]
BinsInv ==
  /\ session \in Sessions /\ left \in Nat /\ bins \in Seq(BinRows)
  /\ \A k \in DOMAIN bins : bins[k].start < bins[k].end /\ bins[k].end <= left
  /\ \A i, j \in DOMAIN bins : i < j => bins[i].end <= bins[j].start
  /\ SumFunctionOnSet([k \in DOMAIN bins |-> bins[k].loss], DOMAIN bins) = Lost(0, left)

LEMMA BinFacts ==
  ASSUME session \in Sessions, NEW from \in Nat, NEW to \in Nat
  PROVE  /\ Segments!Bin(from, to) \in BinRows
         /\ Segments!Bin(from, to).start = from /\ Segments!Bin(from, to).end = to
         /\ Segments!Bin(from, to).loss = Lost(from, to)
<1> DEFINE D == DOMAIN session.intervals
           w == [i \in D |-> 1 * Segments!Overlap(session.intervals[i], from, to)]
           r == [i \in D |-> session.intervals[i].rate * Segments!Overlap(session.intervals[i], from, to)]
<1>1. Segments!Bin(from, to) =
        [start |-> from, end |-> to, weight |-> Segments!SumFunction(w),
         loss |-> Segments!SumFunction(Between(from, to)), rate |-> Segments!SumFunction(r)]
  BY DEF Segments!Bin, Segments!Weighed, Between
<1>2. \A i \in D : /\ Segments!Overlap(session.intervals[i], from, to) \in Int
                   /\ session.intervals[i].rate \in Int
  BY IntervalFacts, OverlapFacts
<1>3. (\A i \in D : w[i] \in Int) /\ (\A i \in D : r[i] \in Int)
  BY <1>2
<1>4. /\ Segments!SumFunction(w) = SumFunctionOnSet(w, D)
      /\ Segments!SumFunction(r) = SumFunctionOnSet(r, D)
      /\ Segments!SumFunction(Between(from, to)) = Lost(from, to)
  <2>1. DOMAIN Between(from, to) = D /\ DOMAIN w = D /\ DOMAIN r = D
    BY DEF Between
  <2> HIDE DEF w, r, D
  <2> QED
    BY <2>1, SameSum DEF Lost, D
<1>5. IsFiniteSet(D)
  BY IntervalFacts
<1> HIDE DEF w, r, D
<1>6. SumFunctionOnSet(w, D) \in Int /\ SumFunctionOnSet(r, D) \in Int
  BY <1>3, <1>5, SumInt
<1>7. Lost(from, to) \in Int
  BY LostInt
<1> QED
  BY <1>1, <1>4, <1>6, <1>7 DEF BinRows

LEMMA BinsInit == Segments!Init => BinsInv
<1> SUFFICES ASSUME Segments!Init PROVE BinsInv
  OBVIOUS
<1>1. session \in Sessions /\ left = 0 /\ bins = <<>>
  BY DEF Segments!Init
<1> DEFINE D == DOMAIN session.intervals
<1>2. \A i \in D : Between(0, 0)[i] = 0
  <2> SUFFICES ASSUME NEW i \in D PROVE Between(0, 0)[i] = 0
    OBVIOUS
  <2>1. session.intervals[i].start \in Nat /\ session.intervals[i].end \in Nat /\ session.intervals[i].loss \in Int
    BY <1>1, IntervalFacts
  <2>2. Segments!Overlap(session.intervals[i], 0, 0) = 0
    BY <2>1 DEF Segments!Overlap, Segments!Larger, Segments!Smaller
  <2> QED
    BY <2>1, <2>2 DEF Between
<1>3. Lost(0, 0) = 0
  BY <1>1, <1>2, IntervalFacts, SumZero DEF Lost
<1>4. DOMAIN bins = {}
  BY <1>1
<1>5. SumFunctionOnSet([k \in DOMAIN bins |-> bins[k].loss], DOMAIN bins) = 0
  BY <1>4, SumEmpty
<1> QED
  BY <1>1, <1>3, <1>4, <1>5 DEF BinsInv

LEMMA LostKeeps ==
  ASSUME UNCHANGED session, NEW a, NEW b
  PROVE  Lost(a, b)' = Lost(a, b)
BY DEF Lost, Between, Segments!Overlap

LEMMA FillKeeps == BinsInv /\ Segments!FillBin => BinsInv'
<1> SUFFICES ASSUME BinsInv, Segments!FillBin PROVE BinsInv'
  OBVIOUS
<1> USE DEF BinsInv
<1> DEFINE to == Segments!Smaller(left + BinSec, Segments!TotalEnd)
           new == Segments!Bin(left, to)
           n == Len(bins)
<1>1. /\ bins' = Append(bins, new) /\ left' = left + BinSec /\ session' = session
      /\ session.intervals # <<>> /\ left < Segments!TotalEnd
  BY DEF Segments!FillBin, Segments!Binning
<1>2. BinSec \in Nat /\ BinSec > 0
  BY SessionsAssumption DEF SessionsAssumption
<1>3. Segments!TotalEnd \in Nat /\ \A i \in DOMAIN session.intervals : session.intervals[i].end <= Segments!TotalEnd
  BY <1>1, TotalEndFacts
<1>4. to \in Nat /\ left < to /\ to <= left + BinSec
  BY <1>1, <1>2, <1>3 DEF Segments!Smaller
<1>5. \A i \in DOMAIN session.intervals :
         Segments!Overlap(session.intervals[i], 0, left + BinSec)
           = Segments!Overlap(session.intervals[i], 0, left) + Segments!Overlap(session.intervals[i], left, to)
  <2> SUFFICES ASSUME NEW i \in DOMAIN session.intervals
               PROVE  Segments!Overlap(session.intervals[i], 0, left + BinSec)
                        = Segments!Overlap(session.intervals[i], 0, left)
                            + Segments!Overlap(session.intervals[i], left, to)
    OBVIOUS
  <2>1. /\ session.intervals[i].start \in Nat /\ session.intervals[i].end \in Nat
        /\ session.intervals[i].start <= session.intervals[i].end
        /\ session.intervals[i].end <= Segments!TotalEnd
    BY <1>3, IntervalFacts
  <2>2. left + BinSec \in Nat /\ left < left + BinSec /\ left \in Nat
    BY <1>2
  <2> DEFINE x == session.intervals[i]
             r == left + BinSec
  <2>3. x.start \in Nat /\ x.end \in Nat /\ x.start <= x.end /\ x.end <= Segments!TotalEnd
    BY <2>1
  <2>4. r \in Nat /\ left < r
    BY <2>2
  <2> HIDE DEF x, r
  <2>5. Segments!Overlap(x, 0, r)
          = Segments!Overlap(x, 0, left) + Segments!Overlap(x, left, Segments!Smaller(r, Segments!TotalEnd))
    BY <1>1, <1>3, <2>2, <2>3, <2>4, OverlapSplits
  <2> QED
    BY <2>5 DEF x, r
<1> HIDE DEF to
<1>6. left + BinSec \in Int /\ left \in Int /\ to \in Int
  BY <1>2, <1>4
<1>7. Lost(0, left + BinSec) = Lost(0, left) + Lost(left, to)
  BY <1>5, <1>6, LossesAdd
<1>8. /\ new \in BinRows /\ new.start = left /\ new.end = to /\ new.loss = Lost(left, to)
  BY <1>4, BinFacts
<1> HIDE DEF new
<1>9. /\ n \in Nat /\ DOMAIN bins = 1..n /\ DOMAIN bins' = 1..(n + 1) /\ bins' \in Seq(BinRows)
      /\ bins'[n + 1] = new /\ \A k \in 1..n : bins'[k] = bins[k] /\ bins[k] \in BinRows
  BY <1>1, <1>8
<1> HIDE DEF n
<1>10. \A k \in DOMAIN bins' : bins'[k].start < bins'[k].end /\ bins'[k].end <= left'
  <2> SUFFICES ASSUME NEW k \in DOMAIN bins' PROVE bins'[k].start < bins'[k].end /\ bins'[k].end <= left'
    OBVIOUS
  <2>1. CASE k = n + 1
    BY <1>1, <1>4, <1>8, <1>9, <2>1
  <2>2. CASE k # n + 1
    <3>0. k \in 1..n
      BY <1>9, <2>2
    <3>1. k \in 1..n /\ bins'[k] = bins[k] /\ bins[k].end \in Nat
      BY <1>9, <3>0 DEF BinRows
    <3> QED
      BY <1>1, <1>2, <1>9, <3>1
  <2> QED
    BY <2>1, <2>2
<1>11. \A i, j \in DOMAIN bins' : i < j => bins'[i].end <= bins'[j].start
  <2> SUFFICES ASSUME NEW i \in DOMAIN bins', NEW j \in DOMAIN bins', i < j
               PROVE  bins'[i].end <= bins'[j].start
    OBVIOUS
  <2>1. i \in 1..n /\ bins'[i] = bins[i]
    BY <1>9
  <2> QED
    BY <1>8, <1>9, <2>1
<1>12. SumFunctionOnSet([k \in DOMAIN bins' |-> bins'[k].loss], DOMAIN bins') = Lost(0, left + BinSec)
  <2> DEFINE f == [k \in DOMAIN bins |-> bins[k].loss]
             g == [k \in DOMAIN bins' |-> bins'[k].loss]
  <2>1. /\ \A k \in 1..n : f[k] \in Int /\ g[k] = f[k]
        /\ g[n + 1] = Lost(left, to) /\ Lost(left, to) \in Int
    <3>1. Lost(left, to) \in Int
      BY <1>6, LostInt
    <3>2. n + 1 \in DOMAIN bins' /\ \A k \in 1..n : k \in DOMAIN bins' /\ k \in DOMAIN bins
      BY <1>9
    <3>3. \A k \in 1..n : bins[k].loss \in Int /\ bins'[k].loss = bins[k].loss
      BY <1>9 DEF BinRows
    <3> QED
      BY <1>8, <1>9, <3>1, <3>2, <3>3
  <2>2. IsFiniteSet(1..n) /\ n + 1 \notin 1..n /\ 1..(n + 1) = (1..n) \cup {n + 1}
    <3>1. IsFiniteSet(1..n)
      BY <1>9, FS_Interval
    <3>2. n \in Nat
      BY <1>9
    <3> QED
      BY <3>1, <3>2
  <2>3. SumFunctionOnSet(f, 1..n) = Lost(0, left)
    BY <1>9
  <2> HIDE DEF f, g
  <2>4. \A k \in (1..n) \cup {n + 1} : g[k] \in Int
    BY <2>1
  <2>5. SumFunctionOnSet(g, (1..n) \cup {n + 1}) = SumFunctionOnSet(g, 1..n) + g[n + 1]
    <3> DEFINE S == 1..n
               z == n + 1
    <3>1. IsFiniteSet(S) /\ z \notin S /\ \A k \in S \cup {z} : g[k] \in Int
      BY <2>2, <2>4
    <3> HIDE DEF S, z
    <3>2. SumFunctionOnSet(g, S \cup {z}) = SumFunctionOnSet(g, S) + g[z]
      BY <3>1, SumAdd
    <3> QED
      BY <3>2 DEF S, z
  <2>6. SumFunctionOnSet(g, 1..n) = SumFunctionOnSet(f, 1..n)
    BY <2>1, <2>2, SumSame
  <2> QED
    BY <1>7, <1>9, <2>1, <2>2, <2>3, <2>5, <2>6 DEF g
<1>13. Lost(0, left)' = Lost(0, left + BinSec)
  BY <1>1 DEF Lost, Between, Segments!Overlap
<1>14. session' \in Sessions /\ left' \in Nat /\ bins' \in Seq(BinRows)
  BY <1>1, <1>2, <1>9
<1>15. SumFunctionOnSet([k \in DOMAIN bins' |-> bins'[k].loss], DOMAIN bins') = Lost(0, left)'
  BY <1>12, <1>13
<1> QED
  BY <1>10, <1>11, <1>14, <1>15

LEMMA SkipKeeps == BinsInv /\ Segments!SkipBin => BinsInv'
<1> SUFFICES ASSUME BinsInv, Segments!SkipBin PROVE BinsInv'
  OBVIOUS
<1> USE DEF BinsInv
<1>1. bins' = bins /\ left' = left + BinSec /\ session' = session /\ Segments!Overlapping = {}
  BY DEF Segments!SkipBin
<1>2. BinSec \in Nat /\ BinSec > 0
  BY SessionsAssumption DEF SessionsAssumption
<1> DEFINE D == DOMAIN session.intervals
<1>3. ASSUME NEW i \in D PROVE Between(0, left + BinSec)[i] = Between(0, left)[i] /\ Between(0, left)[i] \in Int
  <2> DEFINE x == session.intervals[i]
  <2>1. x \in Intervals /\ x.start \in Nat /\ x.end \in Nat /\ x.start <= x.end
    BY IntervalFacts
  <2>2. ~ (x.start < left + BinSec /\ x.end > left)
    BY <1>1 DEF Segments!Overlapping, Segments!ToSet
  <2> HIDE DEF x
  <2>3. Segments!Overlap(x, 0, left + BinSec) = Segments!Overlap(x, 0, left)
    BY <1>2, <2>1, <2>2 DEF Segments!Overlap, Segments!Larger, Segments!Smaller
  <2>4. x.loss * Segments!Overlap(x, 0, left) \in Int
    <3>1. left \in Int
      OBVIOUS
    <3> QED
      BY <2>1, <3>1, OverlapFacts
  <2> QED
    BY <2>3, <2>4 DEF Between, x
<1>4. IsFiniteSet(D)
  BY IntervalFacts
<1> HIDE DEF D
<1>5. SumFunctionOnSet(Between(0, left + BinSec), D) = SumFunctionOnSet(Between(0, left), D)
  BY <1>3, <1>4, SumSame
<1>6. Lost(0, left)' = Lost(0, left)
  <2>1. Lost(0, left)' = Lost(0, left + BinSec)
    BY <1>1 DEF Lost, Between, Segments!Overlap
  <2> QED
    BY <1>5, <2>1 DEF Lost, D
<1>7. \A k \in DOMAIN bins : bins[k].end <= left + BinSec
  <2>1. \A k \in DOMAIN bins : bins[k] \in BinRows
    OBVIOUS
  <2>2. \A k \in DOMAIN bins : bins[k].end \in Nat
    BY <2>1 DEF BinRows
  <2> QED
    BY <1>2, <2>2
<1> QED
  BY <1>1, <1>2, <1>6, <1>7

\* When there is nothing left to put into a bin, the bins hold every loss.
LEMMA BinsHoldAll == BinsInv => Segments!BinsKeepLosses
<1> SUFFICES ASSUME BinsInv PROVE Segments!BinsKeepLosses
  OBVIOUS
<1> USE DEF BinsInv
<1> DEFINE D == DOMAIN session.intervals
           all == [i \in D |-> LET x == session.intervals[i] IN x.loss * (x.end - x.start)]
           f == [k \in DOMAIN bins |-> bins[k].loss]
<1>1. ASSUME ~ Segments!Binning PROVE SumFunctionOnSet(all, D) = Lost(0, left)
  <2>1. ASSUME NEW i \in D PROVE Between(0, left)[i] \in Int /\ all[i] = Between(0, left)[i]
    <3> DEFINE x == session.intervals[i]
    <3>1. x \in Intervals /\ x.start \in Nat /\ x.end \in Nat /\ x.start <= x.end /\ x.loss \in Int
      BY IntervalFacts
    <3>2. session.intervals # <<>>
      BY IntervalFacts
    <3>3. x.end <= left
      BY <1>1, <3>1, <3>2, TotalEndFacts DEF Segments!Binning
    <3>4. Segments!Overlap(x, 0, left) = x.end - x.start
      BY <3>1, <3>3 DEF Segments!Overlap, Segments!Larger, Segments!Smaller
    <3>5. x.loss * Segments!Overlap(x, 0, left) \in Int
      <4>1. left \in Int
        OBVIOUS
      <4> HIDE DEF x
      <4> QED
        BY <3>1, <4>1, OverlapFacts
    <3> QED
      BY <3>4, <3>5 DEF Between
  <2>2. IsFiniteSet(D)
    BY IntervalFacts
  <2> HIDE DEF all, D
  <2>3. SumFunctionOnSet(all, D) = SumFunctionOnSet(Between(0, left), D)
    BY <2>1, <2>2, SumSame
  <2> QED
    BY <2>3 DEF Lost, D
<1>2. DOMAIN all = D /\ DOMAIN f = DOMAIN bins
  OBVIOUS
<1>3. Segments!SumFunction(f) = SumFunctionOnSet(f, DOMAIN bins) /\ Segments!SumFunction(all) = SumFunctionOnSet(all, D)
  <2> HIDE DEF f, all, D
  <2> QED
    BY <1>2, SameSum
<1> QED
  BY <1>1, <1>3 DEF Segments!BinsKeepLosses

-----------------------------------------------------------------------------
(* Rows.                                                                    *)

\* What the rules say of a bin, as a function: it only changes with the session.
Verdicts == [p \in BinRows \X BOOLEAN |-> Segments!Classified(p[1], p[2])]

RowsInv ==
  /\ Len(rows) \in Nat /\ DOMAIN rows = 1..Len(rows) /\ Len(rows) <= Len(bins)
  /\ rows # <<>> => ~ Segments!Binning
  /\ \A i \in DOMAIN rows :
       /\ rows[i].start = bins[i].start /\ rows[i].end = bins[i].end /\ rows[i].disconnected \in BOOLEAN
       /\ rows[i].verdict = Verdicts[bins[i], rows[i].disconnected]

LEMMA VerdictsKeep == UNCHANGED session => Verdicts' = Verdicts
<1> SUFFICES ASSUME UNCHANGED session PROVE Verdicts' = Verdicts
  OBVIOUS
<1>1. ASSUME NEW b PROVE Segments!Within(session.pings, b)' = Segments!Within(session.pings, b)
  BY DEF Segments!Within
<1>2. ASSUME NEW b PROVE Segments!Within(session.grpc, b)' = Segments!Within(session.grpc, b)
  BY DEF Segments!Within
<1>3. ASSUME NEW b, NEW num, NEW den PROVE Segments!TimeoutShare(b, num, den)' = Segments!TimeoutShare(b, num, den)
  BY <1>1 DEF Segments!TimeoutShare
<1>4. ASSUME NEW b PROVE Segments!Obstructed(b)' = Segments!Obstructed(b)
  BY <1>2 DEF Segments!Obstructed
<1>5. ASSUME NEW b PROVE Segments!HighLatency(b)' = Segments!HighLatency(b)
  BY <1>2 DEF Segments!HighLatency
<1>6. ASSUME NEW b, NEW d PROVE Segments!ByTerminal(b, d)' = Segments!ByTerminal(b, d)
  BY <1>4 DEF Segments!ByTerminal
<1>7. ASSUME NEW b, NEW v PROVE Segments!ByPing(b, v)' = Segments!ByPing(b, v)
  BY <1>3 DEF Segments!ByPing
<1>8. ASSUME NEW b, NEW v PROVE Segments!ByPop(b, v)' = Segments!ByPop(b, v)
  BY <1>5 DEF Segments!ByPop
<1>9. ASSUME NEW b, NEW d PROVE Segments!Classified(b, d)' = Segments!Classified(b, d)
  <2>1. Segments!ByTerminal(b, d)' = Segments!ByTerminal(b, d)
    BY <1>6
  <2> DEFINE v == Segments!ByTerminal(b, d)
             w == Segments!ByPing(b, v)
  <2> QED
    BY <1>6, <1>7, <1>8 DEF Segments!Classified
<1> QED
  <2>1. \A p \in BinRows \X BOOLEAN : Segments!Classified(p[1], p[2])' = Segments!Classified(p[1], p[2])
    BY <1>9
  <2> QED
    BY <2>1 DEF Verdicts

LEMMA RowsInit == Segments!Init => RowsInv
BY DEF Segments!Init, RowsInv

LEMMA BinsFirst ==
  ASSUME BinsInv, RowsInv, Segments!FillBin \/ Segments!SkipBin
  PROVE  RowsInv'
<1>1. rows = <<>> /\ rows' = rows
  BY DEF RowsInv, Segments!FillBin, Segments!SkipBin
<1>2. Len(bins') \in Nat
  <2>1. BinsInv'
    BY FillKeeps, SkipKeeps
  <2> QED
    BY <2>1 DEF BinsInv
<1> QED
  BY <1>1, <1>2 DEF RowsInv

LEMMA ClassifyKeeps ==
  ASSUME BinsInv, RowsInv, Segments!ClassifyRow
  PROVE  BinsInv' /\ RowsInv'
<1>1. UNCHANGED <<session, left, bins>> /\ ~ Segments!Binning
  BY DEF Segments!ClassifyRow
<1>2. BinsInv'
  <2>1. Lost(0, left)' = Lost(0, left)
    BY <1>1 DEF Lost, Between, Segments!Overlap
  <2> QED
    BY <1>1, <2>1 DEF BinsInv
<1>3. Verdicts' = Verdicts
  BY <1>1, VerdictsKeep
<1>4. (~ Segments!Binning)'
  BY <1>1 DEF Segments!Binning, Segments!TotalEnd
<1> DEFINE n == Len(rows)
           b == bins[n + 1]
<1>5. n \in Nat /\ DOMAIN rows = 1..n /\ n < Len(bins) /\ Len(bins) \in Nat
  <2>1. Len(bins) \in Nat
    BY DEF BinsInv
  <2> QED
    BY <2>1 DEF RowsInv, Segments!ClassifyRow
<1>6. b \in BinRows
  <2>1. n + 1 \in 1..Len(bins)
    BY <1>5
  <2> QED
    BY <2>1 DEF BinsInv
<1>7. PICK d \in Segments!Disconnections(b) :
        rows' = Append(rows, [start |-> b.start, end |-> b.end, disconnected |-> d, verdict |-> Segments!Classified(b, d)])
  BY DEF Segments!ClassifyRow
<1>8. d \in BOOLEAN
  BY DEF Segments!Disconnections
<1> DEFINE row == [start |-> b.start, end |-> b.end, disconnected |-> d, verdict |-> Segments!Classified(b, d)]
<1>9. row.start = b.start /\ row.end = b.end /\ row.disconnected = d /\ row.verdict = Verdicts[b, d]
  BY <1>6, <1>8 DEF Verdicts
<1> HIDE DEF row, b
<1>10. /\ Len(rows') = n + 1 /\ DOMAIN rows' = 1..(n + 1)
       /\ rows'[n + 1] = row /\ \A k \in 1..n : rows'[k] = rows[k]
  BY <1>5, <1>7 DEF row, n
<1> HIDE DEF n
<1>11. ASSUME NEW i \in 1..(n + 1)
       PROVE  /\ rows'[i].start = bins[i].start /\ rows'[i].end = bins[i].end /\ rows'[i].disconnected \in BOOLEAN
              /\ rows'[i].verdict = Verdicts[bins[i], rows'[i].disconnected]
  <2>1. CASE i = n + 1
    BY <1>8, <1>9, <1>10, <2>1 DEF b
  <2>2. CASE i # n + 1
    <3>1. i \in 1..n
      BY <1>5, <2>2
    <3> QED
      BY <1>5, <1>10, <3>1 DEF RowsInv
  <2> QED
    BY <2>1, <2>2
<1>12. Len(rows') \in Nat /\ Len(rows') <= Len(bins')
  BY <1>1, <1>5, <1>10
<1> QED
  BY <1>1, <1>2, <1>3, <1>4, <1>10, <1>11, <1>12 DEF RowsInv

-----------------------------------------------------------------------------
(* Verdicts.                                                                *)

\* The three parts of a verdict agree on what is normal and what a collapse.
Agrees(v) ==
  /\ v.severity \in 0..4
  /\ (v.state = "normal") <=> (v.severity = 0)
  /\ (v.state = "normal") <=> (v.event = Segments!NoEvent)
  /\ (v.state = "collapse") <=> (v.severity >= 3)

LEMMA EventNames ==
  /\ "handover" # Segments!NoEvent /\ "obstruction" # Segments!NoEvent /\ "outage" # Segments!NoEvent
  /\ "collapse" # Segments!NoEvent /\ "degradation" # Segments!NoEvent /\ "backhaul" # Segments!NoEvent
BY DEF Segments!NoEvent

LEMMA TerminalAgrees ==
  ASSUME NEW b, NEW d
  PROVE  LET v == Segments!ByTerminal(b, d) IN Agrees(v) /\ v.severity <= 2
BY EventNames DEF Segments!ByTerminal, Segments!Verdict, Agrees

\* What each rule makes of a verdict, case by case.
LEMMA PingCases ==
  ASSUME NEW b, NEW v
  PROVE  \/ /\ Segments!TimeoutShare(b, 4, 5)
            /\ Segments!ByPing(b, v) = [state |-> "collapse", event |-> "outage", severity |-> 4]
         \/ /\ ~ Segments!TimeoutShare(b, 4, 5) /\ Segments!TimeoutShare(b, 1, 4)
            /\ Segments!ByPing(b, v) = [state |-> "degraded", event |-> Segments!Else(v.event, "handover"),
                                        severity |-> Segments!Larger(v.severity, 2)]
         \/ /\ ~ Segments!TimeoutShare(b, 4, 5) /\ ~ Segments!TimeoutShare(b, 1, 4)
            /\ Segments!ByPing(b, v) = v
BY Zenon DEF Segments!ByPing, Segments!Verdict

LEMMA IperfCases ==
  ASSUME NEW b, NEW v
  PROVE  \/ /\ Segments!LossAtLeast(b, Collapse) \/ Segments!RateAtMost(b, 3)
            /\ Segments!ByIperf(b, v) = [state |-> "collapse", event |-> Segments!Else(v.event, "collapse"),
                                         severity |-> Segments!Larger(v.severity, 3)]
         \/ /\ ~ (Segments!LossAtLeast(b, Collapse) \/ Segments!RateAtMost(b, 3))
            /\ Segments!LossAtLeast(b, Severe)
            /\ Segments!ByIperf(b, v) = [state |-> IF v.state = "collapse" THEN v.state ELSE "severe_loss",
                                         event |-> Segments!Else(v.event, "handover"),
                                         severity |-> Segments!Larger(v.severity, 2)]
         \/ /\ ~ (Segments!LossAtLeast(b, Collapse) \/ Segments!RateAtMost(b, 3))
            /\ ~ Segments!LossAtLeast(b, Severe)
            /\ Segments!LossAtLeast(b, Degraded) \/ Segments!RateAtMost(b, 7)
            /\ Segments!ByIperf(b, v)
                 = [state |-> IF v.state = "normal" THEN "degraded" ELSE v.state,
                    event |-> Segments!Else(v.event, "degradation"), severity |-> Segments!Larger(v.severity, 1)]
         \/ /\ ~ (Segments!LossAtLeast(b, Collapse) \/ Segments!RateAtMost(b, 3))
            /\ ~ Segments!LossAtLeast(b, Severe)
            /\ ~ (Segments!LossAtLeast(b, Degraded) \/ Segments!RateAtMost(b, 7))
            /\ Segments!ByIperf(b, v) = v
BY Zenon DEF Segments!ByIperf, Segments!Verdict

LEMMA PopCases ==
  ASSUME NEW b, NEW v
  PROVE  \/ /\ Segments!HighLatency(b)
            /\ Segments!ByPop(b, v) = [state |-> IF v.state = "normal" THEN "degraded" ELSE v.state,
                                       event |-> Segments!Else(v.event, "backhaul"),
                                       severity |-> Segments!Larger(v.severity, 1)]
         \/ ~ Segments!HighLatency(b) /\ Segments!ByPop(b, v) = v
BY Zenon DEF Segments!ByPop, Segments!Verdict

LEMMA PingAgrees ==
  ASSUME NEW b, NEW v, Agrees(v), v.severity <= 2
  PROVE  Agrees(Segments!ByPing(b, v))
<1> DEFINE u == Segments!ByPing(b, v)
<1>1. \/ u = [state |-> "collapse", event |-> "outage", severity |-> 4]
      \/ u = [state |-> "degraded", event |-> Segments!Else(v.event, "handover"), severity |-> Segments!Larger(v.severity, 2)]
      \/ u = v
  BY PingCases, Zenon
<1> HIDE DEF u
<1>2. Agrees(u)
  BY <1>1, EventNames DEF Segments!Else, Segments!Larger, Agrees
<1> QED
  BY <1>2 DEF u

LEMMA IperfAgrees ==
  ASSUME NEW b, NEW v, Agrees(v)
  PROVE  Agrees(Segments!ByIperf(b, v))
<1> DEFINE u == Segments!ByIperf(b, v)
<1>1. \/ u = [state |-> "collapse", event |-> Segments!Else(v.event, "collapse"), severity |-> Segments!Larger(v.severity, 3)]
      \/ u = [state |-> IF v.state = "collapse" THEN v.state ELSE "severe_loss",
              event |-> Segments!Else(v.event, "handover"), severity |-> Segments!Larger(v.severity, 2)]
      \/ u = [state |-> IF v.state = "normal" THEN "degraded" ELSE v.state,
              event |-> Segments!Else(v.event, "degradation"), severity |-> Segments!Larger(v.severity, 1)]
      \/ u = v
  BY IperfCases, Zenon
<1> HIDE DEF u
<1>2. Agrees(u)
  BY <1>1, EventNames DEF Segments!Else, Segments!Larger, Agrees
<1> QED
  BY <1>2 DEF u

LEMMA PopAgrees ==
  ASSUME NEW b, NEW v, Agrees(v)
  PROVE  Agrees(Segments!ByPop(b, v))
<1> DEFINE u == Segments!ByPop(b, v)
<1>1. \/ u = [state |-> IF v.state = "normal" THEN "degraded" ELSE v.state,
              event |-> Segments!Else(v.event, "backhaul"), severity |-> Segments!Larger(v.severity, 1)]
      \/ u = v
  BY PopCases, Zenon
<1> HIDE DEF u
<1>2. Agrees(u)
  BY <1>1, EventNames DEF Segments!Else, Segments!Larger, Agrees
<1> QED
  BY <1>2 DEF u

LEMMA ClassifiedAgrees ==
  ASSUME NEW b, NEW d
  PROVE  Agrees(Segments!Classified(b, d))
BY TerminalAgrees, PingAgrees, IperfAgrees, PopAgrees DEF Segments!Classified

\* No rule turns an order of two bins around.
LEMMA TerminalOrdered ==
  ASSUME NEW b, NEW c, NEW d \in BOOLEAN, NEW e \in BOOLEAN, Segments!AsBad(b, c), e => d
  PROVE  Segments!ByTerminal(b, d).severity >= Segments!ByTerminal(c, e).severity
BY DEF Segments!ByTerminal, Segments!Verdict, Segments!AsBad

LEMMA PingOrdered ==
  ASSUME NEW b, NEW c, Segments!AsBad(b, c),
         NEW v, NEW w, Agrees(v), Agrees(w), v.severity >= w.severity
  PROVE  Segments!ByPing(b, v).severity >= Segments!ByPing(c, w).severity
<1>1. /\ Segments!TimeoutShare(c, 4, 5) => Segments!TimeoutShare(b, 4, 5)
      /\ Segments!TimeoutShare(c, 1, 4) => Segments!TimeoutShare(b, 1, 4)
  BY DEF Segments!AsBad
<1> DEFINE x == Segments!ByPing(b, v).severity
           y == Segments!ByPing(c, w).severity
           m == v.severity
           n == w.severity
<1>2. /\ Segments!TimeoutShare(b, 4, 5) => x = 4
      /\ ~ Segments!TimeoutShare(b, 4, 5) /\ Segments!TimeoutShare(b, 1, 4) => x = Segments!Larger(m, 2)
      /\ x = 4 \/ x = Segments!Larger(m, 2) \/ x = m
  BY PingCases
<1>3. /\ Segments!TimeoutShare(c, 4, 5) => y = 4
      /\ ~ Segments!TimeoutShare(c, 4, 5) /\ Segments!TimeoutShare(c, 1, 4) => y = Segments!Larger(n, 2)
      /\ ~ Segments!TimeoutShare(c, 4, 5) /\ ~ Segments!TimeoutShare(c, 1, 4) => y = n
  BY PingCases
<1>4. m \in 0..4 /\ n \in 0..4 /\ m >= n
  BY DEF Agrees
<1> HIDE DEF x, y, m, n
<1>5. \/ x = 4 /\ (y = 4 \/ y = Segments!Larger(n, 2) \/ y = n)
      \/ x = Segments!Larger(m, 2) /\ (y = Segments!Larger(n, 2) \/ y = n)
      \/ x = m /\ y = n
  BY <1>1, <1>2, <1>3, Zenon
<1>6. x >= y
  BY <1>4, <1>5 DEF Segments!Larger
<1> QED
  BY <1>6 DEF x, y

LEMMA IperfOrdered ==
  ASSUME NEW b, NEW c, Segments!AsBad(b, c),
         NEW v, NEW w, Agrees(v), Agrees(w), v.severity >= w.severity
  PROVE  Segments!ByIperf(b, v).severity >= Segments!ByIperf(c, w).severity
<1>1. /\ Segments!LossAtLeast(c, Degraded) => Segments!LossAtLeast(b, Degraded)
      /\ Segments!LossAtLeast(c, Severe) => Segments!LossAtLeast(b, Severe)
      /\ Segments!LossAtLeast(c, Collapse) => Segments!LossAtLeast(b, Collapse)
      /\ Segments!RateAtMost(c, 3) => Segments!RateAtMost(b, 3)
      /\ Segments!RateAtMost(c, 7) => Segments!RateAtMost(b, 7)
  BY DEF Segments!AsBad
<1> DEFINE x == Segments!ByIperf(b, v).severity
           y == Segments!ByIperf(c, w).severity
           m == v.severity
           n == w.severity
           B3 == Segments!LossAtLeast(b, Collapse) \/ Segments!RateAtMost(b, 3)
           B2 == Segments!LossAtLeast(b, Severe)
           B1 == Segments!LossAtLeast(b, Degraded) \/ Segments!RateAtMost(b, 7)
           C3 == Segments!LossAtLeast(c, Collapse) \/ Segments!RateAtMost(c, 3)
           C2 == Segments!LossAtLeast(c, Severe)
           C1 == Segments!LossAtLeast(c, Degraded) \/ Segments!RateAtMost(c, 7)
<1>2. /\ B3 => x = Segments!Larger(m, 3)
      /\ ~ B3 /\ B2 => x = Segments!Larger(m, 2)
      /\ ~ B3 /\ ~ B2 /\ B1 => x = Segments!Larger(m, 1)
      /\ ~ B3 /\ ~ B2 /\ ~ B1 => x = m
  BY IperfCases
<1>3. /\ C3 => y = Segments!Larger(n, 3)
      /\ ~ C3 /\ C2 => y = Segments!Larger(n, 2)
      /\ ~ C3 /\ ~ C2 /\ C1 => y = Segments!Larger(n, 1)
      /\ ~ C3 /\ ~ C2 /\ ~ C1 => y = n
  BY IperfCases
<1>4. m \in 0..4 /\ n \in 0..4 /\ m >= n
  BY DEF Agrees
<1>5. (C3 => B3) /\ (C2 => B2) /\ (C1 => B1)
  BY <1>1
<1> HIDE DEF x, y, m, n, B3, B2, B1, C3, C2, C1
<1>6. \/ x = Segments!Larger(m, 3) /\ (y = Segments!Larger(n, 3) \/ y = Segments!Larger(n, 2) \/ y = Segments!Larger(n, 1) \/ y = n)
      \/ x = Segments!Larger(m, 2) /\ (y = Segments!Larger(n, 2) \/ y = Segments!Larger(n, 1) \/ y = n)
      \/ x = Segments!Larger(m, 1) /\ (y = Segments!Larger(n, 1) \/ y = n)
      \/ x = m /\ y = n
  BY <1>2, <1>3, <1>5, Zenon
<1>7. x >= y
  BY <1>4, <1>6 DEF Segments!Larger
<1> QED
  BY <1>7 DEF x, y

LEMMA PopOrdered ==
  ASSUME NEW b, NEW c, Segments!AsBad(b, c),
         NEW v, NEW w, Agrees(v), Agrees(w), v.severity >= w.severity
  PROVE  Segments!ByPop(b, v).severity >= Segments!ByPop(c, w).severity
<1>1. Segments!HighLatency(c) => Segments!HighLatency(b)
  BY DEF Segments!AsBad
<1> DEFINE x == Segments!ByPop(b, v).severity
           y == Segments!ByPop(c, w).severity
           m == v.severity
           n == w.severity
<1>2. \/ Segments!HighLatency(b) /\ x = Segments!Larger(m, 1)
      \/ ~ Segments!HighLatency(b) /\ x = m
  BY PopCases
<1>3. \/ Segments!HighLatency(c) /\ y = Segments!Larger(n, 1)
      \/ ~ Segments!HighLatency(c) /\ y = n
  BY PopCases
<1>4. m \in 0..4 /\ n \in 0..4 /\ m >= n
  BY DEF Agrees
<1> HIDE DEF x, y, m, n
<1>5. \/ x = Segments!Larger(m, 1) /\ (y = Segments!Larger(n, 1) \/ y = n)
      \/ x = m /\ y = n
  BY <1>1, <1>2, <1>3, Zenon
<1>6. x >= y
  BY <1>4, <1>5 DEF Segments!Larger
<1> QED
  BY <1>6 DEF x, y

LEMMA ClassifiedOrdered ==
  ASSUME NEW b, NEW c, NEW d \in BOOLEAN, NEW e \in BOOLEAN, Segments!AsBad(b, c), e => d
  PROVE  Segments!Classified(b, d).severity >= Segments!Classified(c, e).severity
<1> DEFINE v1 == Segments!ByTerminal(b, d)
           w1 == Segments!ByTerminal(c, e)
           v2 == Segments!ByPing(b, v1)
           w2 == Segments!ByPing(c, w1)
           v3 == Segments!ByIperf(b, v2)
           w3 == Segments!ByIperf(c, w2)
<1>1. Agrees(v1) /\ Agrees(w1) /\ v1.severity >= w1.severity /\ v1.severity <= 2 /\ w1.severity <= 2
  BY TerminalAgrees, TerminalOrdered
<1> HIDE DEF v1, w1
<1>2. Agrees(v2) /\ Agrees(w2) /\ v2.severity >= w2.severity
  BY <1>1, PingAgrees, PingOrdered
<1> HIDE DEF v2, w2
<1>3. Agrees(v3) /\ Agrees(w3) /\ v3.severity >= w3.severity
  BY <1>2, IperfAgrees, IperfOrdered
<1> HIDE DEF v3, w3
<1>4. Segments!ByPop(b, v3).severity >= Segments!ByPop(c, w3).severity
  BY <1>3, PopOrdered
<1> QED
  BY <1>4 DEF Segments!Classified, v1, w1, v2, w2, v3, w3

LEMMA RowsRated == BinsInv /\ RowsInv => Segments!WorseIsRatedWorse
<1> SUFFICES ASSUME BinsInv, RowsInv PROVE Segments!WorseIsRatedWorse
  OBVIOUS
<1>1. ASSUME NEW i \in DOMAIN rows
      PROVE  rows[i].disconnected \in BOOLEAN /\ rows[i].verdict = Segments!Classified(bins[i], rows[i].disconnected)
  <2>1. i \in DOMAIN bins /\ bins[i] \in BinRows
    <3>1. bins \in Seq(BinRows) /\ Len(bins) \in Nat /\ DOMAIN bins = 1..Len(bins)
      BY DEF BinsInv
    <3>2. DOMAIN rows = 1..Len(rows) /\ Len(rows) \in Nat /\ Len(rows) <= Len(bins)
      BY DEF RowsInv
    <3>3. i \in 1..Len(bins)
      BY <3>1, <3>2
    <3> QED
      BY <3>1, <3>3
  <2> QED
    BY <2>1 DEF RowsInv, Verdicts
<1>2. ASSUME NEW i \in DOMAIN rows PROVE Agrees(rows[i].verdict)
  BY <1>1, ClassifiedAgrees
<1>3. ASSUME NEW i \in DOMAIN rows, NEW j \in DOMAIN rows,
             Segments!AsBad(bins[i], bins[j]), rows[j].disconnected => rows[i].disconnected
      PROVE  rows[i].verdict.severity >= rows[j].verdict.severity
  BY <1>1, <1>3, ClassifiedOrdered
<1> QED
  BY <1>2, <1>3 DEF Segments!WorseIsRatedWorse, Agrees

-----------------------------------------------------------------------------
(* Events.                                                                  *)

\* A run begins where the row before does not lead to it, and ends where the
\* row behind does not follow: so the longest runs can be told from the rows
\* next to their ends.
Starts(a) == a = 1 \/ rows[a].start # rows[a - 1].end \/ rows[a].verdict.event # rows[a - 1].verdict.event
Stops(b)  == b = Len(rows) \/ rows[b + 1].start # rows[b].end \/ rows[b + 1].verdict.event # rows[b].verdict.event
Ends == {ab \in (DOMAIN rows) \X (DOMAIN rows) :
           /\ ab[1] <= ab[2] /\ Segments!IsRun(ab[1], ab[2])
           /\ Starts(ab[1]) /\ Stops(ab[2])}
Lasting == {ab \in Ends : rows[ab[2]].end - rows[ab[1]].start >= MinDuration}

\* The events of the runs that end before a row.
Closed == [o \in Nat |-> {Segments!Segment(SubSeq(rows, ab[1], ab[2])) : ab \in {e \in Lasting : e[2] < o}}]

\* The rows that were read, and the first one of the open segment.
Read == IF current.next = Len(rows) + 2 THEN Len(rows) ELSE current.next - 1
Open == Read + 1 - Len(current.chunk)

OpenIsRun ==
  /\ rows[Open].verdict.event # Segments!NoEvent
  /\ \A i \in (Open + 1)..Read : /\ rows[i].start = rows[i - 1].end
                                 /\ rows[i].verdict.event = rows[Open].verdict.event
  /\ Starts(Open)

SegmentsApart ==
  \A k \in DOMAIN segments :
    /\ segments[k].start \in Nat /\ segments[k].end \in Nat /\ segments[k].start < segments[k].end
    /\ k > 1 => segments[k - 1].end <= segments[k].start
    /\ \A j \in DOMAIN rows : j >= Open => segments[k].end <= rows[j].start

SegmentsInv ==
  /\ current = [next |-> current.next, chunk |-> current.chunk]
  /\ current.next \in Nat /\ 1 <= current.next /\ current.next <= Len(rows) + 2
  /\ current.next > 1 => ~ Segments!Binning /\ Len(rows) = Len(bins)
  /\ Len(current.chunk) \in Nat /\ Len(current.chunk) <= Read
  /\ current.chunk = SubSeq(rows, Open, Read)
  /\ current.next = Len(rows) + 2 => current.chunk = <<>>
  /\ current.chunk # <<>> => OpenIsRun
  /\ current.chunk = <<>> /\ Read \in DOMAIN rows /\ current.next # Len(rows) + 2
       => rows[Read].verdict.event = Segments!NoEvent
  /\ Len(segments) \in Nat /\ DOMAIN segments = 1..Len(segments)
  /\ {segments[k] : k \in DOMAIN segments} = Closed[Open]
  /\ SegmentsApart

\* The longest runs are those that neither neighbour continues.
LEMMA EndsAreLongest ==
  ASSUME Len(rows) \in Nat, DOMAIN rows = 1..Len(rows)
  PROVE  Segments!LongestRuns = Ends
<1> DEFINE n == Len(rows)
<1>0. n \in Nat /\ (\A b \in 1..n : b # n => b + 1 \in 1..n) /\ \A b, j \in 1..n : b <= j /\ j # b => b # n
  <2>1. \A m \in Nat : /\ \A b \in 1..m : b # m => b + 1 \in 1..m
                      /\ \A b, j \in 1..m : b <= j /\ j # b => b # m
    OBVIOUS
  <2> QED
    BY <2>1
<1>1. ASSUME NEW ab \in Ends PROVE ab \in Segments!LongestRuns
  <2> DEFINE a == ab[1]
             b == ab[2]
  <2>1. /\ a \in 1..n /\ b \in 1..n /\ a <= b /\ ab = <<a, b>> /\ ab \in (DOMAIN rows) \X (DOMAIN rows)
        /\ Segments!IsRun(a, b) /\ Starts(a) /\ Stops(b)
    BY DEF Ends
  <2> HIDE DEF a, b
  <2>2. ASSUME NEW i \in 1..n, NEW j \in 1..n, i <= a, b <= j, Segments!IsRun(i, j) PROVE i = a /\ j = b
    <3>0. \A k \in (i + 1)..j : rows[k].start = rows[k - 1].end /\ rows[k].verdict.event = rows[i].verdict.event
      BY <2>2 DEF Segments!IsRun
    <3>1. i = a
      <4> SUFFICES ASSUME i # a PROVE FALSE
        OBVIOUS
      <4>1. a \in (i + 1)..j /\ (a - 1 = i \/ a - 1 \in (i + 1)..j)
        BY <2>1, <2>2
      <4>2. rows[a].start = rows[a - 1].end /\ rows[a].verdict.event = rows[a - 1].verdict.event
        BY <3>0, <4>1
      <4>3. a # 1
        BY <2>1, <2>2
      <4> QED
        BY <2>1, <4>2, <4>3 DEF Starts
    <3>2. j = b
      <4> SUFFICES ASSUME j # b PROVE FALSE
        OBVIOUS
      <4>1. b + 1 \in (i + 1)..j /\ (b = i \/ b \in (i + 1)..j) /\ b + 1 - 1 = b
        BY <2>1, <2>2
      <4>2. rows[b + 1].start = rows[b].end /\ rows[b + 1].verdict.event = rows[b].verdict.event
        BY <3>0, <4>1
      <4>3. b # n
        BY <1>0, <2>1, <2>2
      <4> QED
        BY <2>1, <4>2, <4>3 DEF Stops
    <3> QED
      BY <3>1, <3>2
  <2> QED
    BY <2>1, <2>2 DEF Segments!LongestRuns, a, b
<1>2. ASSUME NEW ab \in Segments!LongestRuns PROVE ab \in Ends
  <2> DEFINE a == ab[1]
             b == ab[2]
  <2>1. /\ a \in 1..n /\ b \in 1..n /\ a <= b /\ ab = <<a, b>> /\ ab \in (DOMAIN rows) \X (DOMAIN rows)
        /\ Segments!IsRun(a, b)
        /\ \A i, j \in 1..n : i <= a /\ b <= j /\ Segments!IsRun(i, j) => <<i, j>> = ab
    BY DEF Segments!LongestRuns
  <2> HIDE DEF a, b
  <2>2. /\ rows[a].verdict.event # Segments!NoEvent
        /\ \A k \in (a + 1)..b : rows[k].start = rows[k - 1].end /\ rows[k].verdict.event = rows[a].verdict.event
    BY <2>1 DEF Segments!IsRun
  <2>3. Starts(a)
    <3> SUFFICES ASSUME ~ Starts(a) PROVE FALSE
      OBVIOUS
    <3>1. a # 1 /\ rows[a].start = rows[a - 1].end /\ rows[a].verdict.event = rows[a - 1].verdict.event
      BY DEF Starts
    <3>2. a - 1 \in 1..n /\ a - 1 <= a /\ b <= b
      BY <2>1, <3>1
    <3>3. ASSUME NEW k \in ((a - 1) + 1)..b
          PROVE  rows[k].start = rows[k - 1].end /\ rows[k].verdict.event = rows[a - 1].verdict.event
      <4>1. k = a \/ k \in (a + 1)..b
        BY <2>1
      <4> QED
        BY <2>2, <3>1, <4>1
    <3>4. Segments!IsRun(a - 1, b)
      BY <2>2, <3>1, <3>3 DEF Segments!IsRun
    <3>5. <<a - 1, b>> = <<a, b>>
      BY <2>1, <3>2, <3>4
    <3> QED
      BY <2>1, <3>5
  <2>4. Stops(b)
    <3> SUFFICES ASSUME ~ Stops(b) PROVE FALSE
      OBVIOUS
    <3>1. b # n /\ rows[b + 1].start = rows[b].end /\ rows[b + 1].verdict.event = rows[b].verdict.event
      BY DEF Stops
    <3>2. b + 1 \in 1..n /\ a <= a /\ b <= b + 1
      <4>1. b + 1 \in 1..n
        BY <1>0, <2>1, <3>1
      <4> QED
        BY <2>1, <4>1
    <3>3. ASSUME NEW k \in (a + 1)..(b + 1)
          PROVE  rows[k].start = rows[k - 1].end /\ rows[k].verdict.event = rows[a].verdict.event
      <4>1. CASE k \in (a + 1)..b
        BY <2>2, <4>1
      <4>2. CASE k = b + 1
        <5>1. k - 1 = b /\ (b = a \/ b \in (a + 1)..b)
          BY <2>1, <4>2
        <5> QED
          BY <2>2, <3>1, <4>2, <5>1
      <4> QED
        BY <2>1, <4>1, <4>2
    <3>4. Segments!IsRun(a, b + 1)
      BY <2>2, <3>3 DEF Segments!IsRun
    <3>5. <<a, b + 1>> = <<a, b>>
      BY <2>1, <3>2, <3>4
    <3> QED
      BY <2>1, <3>5
  <2> QED
    BY <2>1, <2>3, <2>4 DEF Ends, a, b
<1> QED
  BY <1>1, <1>2

\* Rows are in order, as their bins are.
LEMMA RowTimes ==
  ASSUME BinsInv, RowsInv
  PROVE  /\ \A i \in DOMAIN rows : rows[i].start \in Nat /\ rows[i].end \in Nat /\ rows[i].start < rows[i].end
         /\ \A i, j \in DOMAIN rows : i < j => rows[i].end <= rows[j].start
<1>1. Len(bins) \in Nat /\ DOMAIN bins = 1..Len(bins) /\ \A i \in 1..Len(bins) : bins[i] \in BinRows
  BY DEF BinsInv
<1>2. DOMAIN rows = 1..Len(rows) /\ Len(rows) \in Nat /\ Len(rows) <= Len(bins)
  BY DEF RowsInv
<1>3. \A i \in DOMAIN rows : i \in DOMAIN bins /\ bins[i].start \in Nat /\ bins[i].end \in Nat
  BY <1>1, <1>2 DEF BinRows
<1>4. \A i \in DOMAIN rows : rows[i].start = bins[i].start /\ rows[i].end = bins[i].end
  BY DEF RowsInv
<1>5. /\ \A k \in DOMAIN bins : bins[k].start < bins[k].end
      /\ \A i, j \in DOMAIN bins : i < j => bins[i].end <= bins[j].start
  BY DEF BinsInv
<1> QED
  BY <1>3, <1>4, <1>5

\* A run lasts from its first row to its last.
LEMMA RunTimes ==
  ASSUME BinsInv, RowsInv, NEW a \in DOMAIN rows, NEW b \in DOMAIN rows, a <= b
  PROVE  /\ rows[a].start < rows[b].end
         /\ \A j \in DOMAIN rows : b < j => rows[b].end <= rows[j].start
         /\ \A j \in DOMAIN rows : j <= a => rows[j].start <= rows[a].start
<1>1. /\ \A i \in DOMAIN rows : rows[i].start \in Nat /\ rows[i].end \in Nat /\ rows[i].start < rows[i].end
      /\ \A i, j \in DOMAIN rows : i < j => rows[i].end <= rows[j].start
  BY RowTimes
<1>2. DOMAIN rows = 1..Len(rows) /\ Len(rows) \in Nat /\ a \in Nat /\ b \in Nat
  <2>1. DOMAIN rows = 1..Len(rows) /\ Len(rows) \in Nat
    BY DEF RowsInv
  <2>2. \A i \in DOMAIN rows : i \in Nat
    BY <2>1
  <2> QED
    BY <2>1, <2>2
<1>3. rows[a].start < rows[b].end
  <2>1. CASE a = b
    BY <1>1, <2>1
  <2>2. CASE a < b
    <3>1. /\ rows[a].start < rows[a].end /\ rows[a].end <= rows[b].start /\ rows[b].start < rows[b].end
          /\ rows[a].start \in Nat /\ rows[a].end \in Nat /\ rows[b].start \in Nat /\ rows[b].end \in Nat
      BY <1>1, <2>2
    <3> QED
      BY <3>1
  <2> QED
    BY <1>2, <2>1, <2>2
<1>4. ASSUME NEW j \in DOMAIN rows, j <= a PROVE rows[j].start <= rows[a].start
  <2>1. CASE j = a
    BY <1>1, <2>1
  <2>2. CASE j < a
    <3>1. /\ rows[j].start < rows[j].end /\ rows[j].end <= rows[a].start
          /\ rows[j].start \in Nat /\ rows[j].end \in Nat /\ rows[a].start \in Nat
      BY <1>1, <2>2
    <3> QED
      BY <3>1
  <2>3. j \in Nat
    BY <1>2
  <2> QED
    BY <1>2, <1>4, <2>1, <2>2, <2>3
<1> QED
  BY <1>1, <1>3, <1>4

LEMMA RunsKeep ==
  UNCHANGED rows => Closed' = Closed
<1> SUFFICES ASSUME UNCHANGED rows PROVE Closed' = Closed
  OBVIOUS
<1>1. Ends' = Ends
  BY DEF Ends, Starts, Stops, Segments!IsRun, Segments!NoEvent
<1>2. Lasting' = Lasting
  BY <1>1 DEF Lasting
<1> QED
  BY <1>2 DEF Closed

\* What the invariant says of the rows that were read.
LEMMA ReadFacts ==
  ASSUME BinsInv, RowsInv, SegmentsInv
  PROVE  /\ Len(rows) \in Nat /\ DOMAIN rows = 1..Len(rows)
         /\ Read \in 0..Len(rows) /\ Open \in 1..(Read + 1) /\ Len(current.chunk) = Read + 1 - Open
         /\ current.chunk = SubSeq(rows, Open, Read)
         /\ current.chunk = <<>> <=> Open = Read + 1
<1>1. Len(rows) \in Nat /\ DOMAIN rows = 1..Len(rows)
  BY DEF RowsInv
<1>2. /\ current.next \in Nat /\ 1 <= current.next /\ current.next <= Len(rows) + 2
      /\ Len(current.chunk) \in Nat /\ Len(current.chunk) <= Read
      /\ current.chunk = SubSeq(rows, Open, Read)
  BY DEF SegmentsInv
<1>3. Read \in 0..Len(rows)
  BY <1>1, <1>2 DEF Read
<1>4. Open \in 1..(Read + 1) /\ Len(current.chunk) = Read + 1 - Open
  <2> DEFINE c == Len(current.chunk)
             r == Read
             o == Open
  <2>1. o = r + 1 - c
    BY DEF Open
  <2>2. c \in Nat /\ c <= r /\ r \in Nat
    <3>1. \A k \in 0..Len(rows) : k \in Nat
      OBVIOUS
    <3>2. r \in Nat
      BY <1>3, <3>1, Zenon
    <3> QED
      BY <1>2, <3>2, Zenon
  <2> HIDE DEF c, r, o
  <2>3. o \in 1..(r + 1) /\ c = r + 1 - o
    BY <2>1, <2>2
  <2> QED
    BY <2>3 DEF c, r, o
<1>5. ASSUME NEW s, s = SubSeq(rows, Open, Read) PROVE s = <<>> <=> Len(s) = 0
  <2>1. /\ s = [i \in 1..(Read - Open + 1) |-> rows[Open + i - 1]]
    BY <1>3, <1>4, <1>5
  <2> QED
    BY <1>3, <1>4, <2>1
<1>6. current.chunk = <<>> <=> Len(current.chunk) = 0
  BY <1>2, <1>5
<1> QED
  BY <1>1, <1>2, <1>3, <1>4, <1>6

\* A part of a sequence, its ends, and what makes it longer.
LEMMA PartOf ==
  ASSUME NEW s, DOMAIN s = 1..Len(s), Len(s) \in Nat, NEW o \in 1..Len(s), NEW r \in 1..Len(s), o <= r
  PROVE  /\ SubSeq(s, o, r) # <<>> /\ Len(SubSeq(s, o, r)) = r + 1 - o
         /\ SubSeq(s, o, r)[1] = s[o] /\ SubSeq(s, o, r)[Len(SubSeq(s, o, r))] = s[r]
<1> DEFINE t == SubSeq(s, o, r)
<1>1. t = [i \in 1..(r - o + 1) |-> s[o + i - 1]]
  OBVIOUS
<1>2. DOMAIN t = 1..(r - o + 1) /\ t[1] = s[o] /\ t[r - o + 1] = s[r]
  BY <1>1
<1>3. Len(t) = r - o + 1
  OBVIOUS
<1>4. t # <<>>
  BY <1>2
<1> QED
  BY <1>2, <1>3, <1>4

LEMMA Appended ==
  ASSUME NEW S, NEW n \in Nat, NEW f, NEW e \in S, f \in Seq(S), Len(f) = n
  PROVE  Append(f, e) = [i \in 1..(n + 1) |-> IF i = n + 1 THEN e ELSE f[i]]
<1> DEFINE g == Append(f, e)
<1>1. g \in Seq(S) /\ Len(g) = n + 1 /\ g[n + 1] = e /\ \A i \in 1..n : g[i] = f[i]
  OBVIOUS
<1> HIDE DEF g
<1>2. DOMAIN g = 1..(n + 1) /\ g = [i \in DOMAIN g |-> g[i]]
  BY <1>1
<1>3. \A i \in 1..(n + 1) : g[i] = IF i = n + 1 THEN e ELSE f[i]
  BY <1>1
<1> QED
  BY <1>2, <1>3 DEF g

LEMMA Longer ==
  ASSUME NEW s, NEW m \in Nat, DOMAIN s = 1..m, NEW r \in Nat, r + 1 <= m, NEW o \in Nat, 1 <= o, o <= r + 1
  PROVE  Append(SubSeq(s, o, r), s[r + 1]) = SubSeq(s, o, r + 1)
<1> DEFINE S == {s[i] : i \in DOMAIN s}
           t == SubSeq(s, o, r)
           n == r - o + 1
<1>0. n \in Nat /\ r + 1 <= m
  OBVIOUS
<1>1. t = [i \in 1..(r - o + 1) |-> s[o + i - 1]]
  BY <1>0
<1>2. SubSeq(s, o, r + 1) = [i \in 1..((r + 1) - o + 1) |-> s[o + i - 1]]
  BY <1>0
<1>3. (r + 1) - o + 1 = n + 1 /\ o + (n + 1) - 1 = r + 1
  BY <1>0
<1>4. (\A i \in 1..n : o + i - 1 \in DOMAIN s) /\ r + 1 \in DOMAIN s
  OBVIOUS
<1>5. t = [i \in 1..n |-> s[o + i - 1]]
  BY <1>1
<1> HIDE DEF t, n
<1>6. \A i \in 1..n : s[o + i - 1] \in S
  BY <1>4
<1>7. s[r + 1] \in S
  BY <1>4
<1> HIDE DEF S
<1>8. t \in Seq(S) /\ Len(t) = n
  BY <1>0, <1>5, <1>6
<1>9. Append(t, s[r + 1]) = [i \in 1..(n + 1) |-> IF i = n + 1 THEN s[r + 1] ELSE t[i]]
  BY <1>0, <1>7, <1>8, Appended
<1>10. \A i \in 1..(n + 1) : (IF i = n + 1 THEN s[r + 1] ELSE t[i]) = s[o + i - 1]
  <2> SUFFICES ASSUME NEW i \in 1..(n + 1) PROVE (IF i = n + 1 THEN s[r + 1] ELSE t[i]) = s[o + i - 1]
    OBVIOUS
  <2>1. CASE i = n + 1
    BY <1>3, <2>1
  <2>2. CASE i # n + 1
    <3>1. i \in 1..n
      BY <1>0, <2>2
    <3> QED
      BY <1>5, <2>2, <3>1
  <2> QED
    BY <2>1, <2>2
<1> QED
  BY <1>2, <1>3, <1>9, <1>10 DEF t

\* A run whose last row was read ended before the open one, or is the open one.
LEMMA OpenRunEnds ==
  ASSUME BinsInv, RowsInv, SegmentsInv, current.chunk # <<>>, Stops(Read)
  PROVE  /\ <<Open, Read>> \in Ends /\ Open \in DOMAIN rows /\ Read \in DOMAIN rows /\ Open <= Read
         /\ \A e \in Ends : e[2] <= Read => e[2] < Open \/ e = <<Open, Read>>
<1> DEFINE n == Len(rows)
           o == Open
           r == Read
<1>1. n \in Nat /\ DOMAIN rows = 1..n /\ r \in 0..n /\ o \in 1..(r + 1) /\ o # r + 1
  BY ReadFacts
<1>2. /\ rows[o].verdict.event # Segments!NoEvent
      /\ \A i \in (o + 1)..r : rows[i].start = rows[i - 1].end /\ rows[i].verdict.event = rows[o].verdict.event
      /\ Starts(o)
  BY DEF SegmentsInv, OpenIsRun
<1>3. Stops(r)
  OBVIOUS
<1> HIDE DEF n, o, r
<1>4. o \in 1..n /\ r \in 1..n /\ o <= r
  BY <1>1
<1>5. <<o, r>> \in Ends
  <2>1. Segments!IsRun(o, r)
    BY <1>2 DEF Segments!IsRun
  <2> QED
    BY <1>1, <1>2, <1>3, <1>4, <2>1 DEF Ends
<1>6. ASSUME NEW e \in Ends, e[2] <= r, ~ (e[2] < o) PROVE e = <<o, r>>
  <2> DEFINE a == e[1]
             b == e[2]
  <2>1. /\ e = <<a, b>> /\ a \in 1..n /\ b \in 1..n /\ a <= b /\ Starts(a) /\ Stops(b) /\ Segments!IsRun(a, b)
        /\ b <= r /\ o <= b
    BY <1>1, <1>4, <1>6 DEF Ends
  <2> HIDE DEF a, b
  <2>2. /\ rows[a].verdict.event # Segments!NoEvent
        /\ \A i \in (a + 1)..b : rows[i].start = rows[i - 1].end /\ rows[i].verdict.event = rows[a].verdict.event
    BY <2>1 DEF Segments!IsRun
  <2>3. b = r
    <3> SUFFICES ASSUME b # r PROVE FALSE
      OBVIOUS
    <3>1. b + 1 \in (o + 1)..r /\ (b = o \/ b \in (o + 1)..r) /\ (b + 1) - 1 = b /\ b # n
      BY <1>1, <1>4, <2>1
    <3>2. rows[b + 1].start = rows[b].end /\ rows[b + 1].verdict.event = rows[b].verdict.event
      <4>1. /\ rows[b + 1].start = rows[(b + 1) - 1].end
            /\ rows[b + 1].verdict.event = rows[o].verdict.event
        BY <1>2, <3>1
      <4>2. rows[b].verdict.event = rows[o].verdict.event
        BY <1>2, <3>1
      <4>3. (b + 1) - 1 = b
        BY <3>1
      <4> QED
        BY <4>1, <4>2, <4>3, Zenon
    <3> QED
      BY <2>1, <3>1, <3>2 DEF Stops, n
  <2>4. ~ (a < o)
    <3> SUFFICES ASSUME a < o PROVE FALSE
      OBVIOUS
    <3>1. o \in (a + 1)..b /\ (o - 1 = a \/ o - 1 \in (a + 1)..b) /\ o # 1
      BY <1>1, <1>4, <2>1
    <3>2. rows[o].start = rows[o - 1].end /\ rows[o].verdict.event = rows[o - 1].verdict.event
      BY <2>2, <3>1
    <3> QED
      BY <1>2, <3>1, <3>2 DEF Starts
  <2>5. ~ (o < a)
    <3> SUFFICES ASSUME o < a PROVE FALSE
      OBVIOUS
    <3>1. a \in (o + 1)..r /\ (a - 1 = o \/ a - 1 \in (o + 1)..r) /\ a # 1
      BY <1>1, <1>4, <2>1
    <3>2. rows[a].start = rows[a - 1].end /\ rows[a].verdict.event = rows[a - 1].verdict.event
      BY <1>2, <3>1
    <3> QED
      BY <2>1, <3>1, <3>2 DEF Starts
  <2>6. a = o
    BY <1>4, <2>1, <2>4, <2>5
  <2> QED
    BY <2>1, <2>3, <2>6
<1>7. \A e \in Ends : e[2] <= r => e[2] < o \/ e = <<o, r>>
  BY <1>6
<1> QED
  BY <1>1, <1>4, <1>5, <1>7 DEF o, r

\* What a flush leaves behind.
Flushes(list) ==
  /\ Len(list) \in Nat /\ DOMAIN list = 1..Len(list)
  /\ {list[k] : k \in DOMAIN list} = Closed[Read + 1]
  /\ \A k \in DOMAIN list :
       /\ list[k].start \in Nat /\ list[k].end \in Nat /\ list[k].start < list[k].end
       /\ k > 1 => list[k - 1].end <= list[k].start
       /\ \A j \in DOMAIN rows : j > Read => list[k].end <= rows[j].start

LEMMA FlushKeepsNothing ==
  ASSUME BinsInv, RowsInv, SegmentsInv, current.chunk = <<>>
  PROVE  Flushes(segments) /\ Segments!Flushed(current.chunk) = segments
<1>1. Open = Read + 1 /\ Read \in 0..Len(rows) /\ Len(rows) \in Nat /\ DOMAIN rows = 1..Len(rows)
  BY ReadFacts
<1>2. \A j \in DOMAIN rows : j > Read => j >= Open
  <2>1. \A r \in Nat, j \in Nat : j > r => j >= r + 1
    OBVIOUS
  <2>2. Read \in Nat /\ \A j \in DOMAIN rows : j \in Nat
    BY <1>1
  <2> QED
    BY <1>1, <2>1, <2>2
<1>3. Segments!Flushed(current.chunk) = segments
  BY DEF Segments!Flushed
<1> QED
  BY <1>1, <1>2, <1>3 DEF Flushes, SegmentsInv, SegmentsApart

LEMMA FlushKeepsRun ==
  ASSUME BinsInv, RowsInv, SegmentsInv, current.chunk # <<>>, Stops(Read)
  PROVE  Flushes(Segments!Flushed(current.chunk))
<1> DEFINE n == Len(rows)
           o == Open
           r == Read
           chunk == current.chunk
           list == Segments!Flushed(chunk)
           new == Segments!Segment(chunk)
           m == Len(segments)
<1>1. n \in Nat /\ DOMAIN rows = 1..n /\ r \in 0..n /\ o \in 1..(r + 1) /\ chunk = SubSeq(rows, o, r)
  BY ReadFacts
<1>2. /\ <<o, r>> \in Ends /\ o \in 1..n /\ r \in 1..n /\ o <= r
      /\ \A e \in Ends : e[2] <= r => e[2] < o \/ e = <<o, r>>
  BY <1>1, OpenRunEnds
<1>3. chunk # <<>> /\ chunk[1] = rows[o] /\ Segments!Last(chunk) = rows[r]
  <2>1. chunk[1] = rows[o] /\ chunk[Len(chunk)] = rows[r]
    BY SMTT(30), <1>1, <1>2, PartOf
  <2> QED
    BY <2>1 DEF Segments!Last
<1>4. new.start = rows[o].start /\ new.end = rows[r].end
  BY <1>3 DEF Segments!Segment
<1>5. /\ rows[o].start \in Nat /\ rows[r].end \in Nat /\ rows[o].start < rows[r].end
      /\ \A j \in 1..n : r < j => rows[r].end <= rows[j].start
  BY <1>1, <1>2, RunTimes, RowTimes
<1>6. /\ m \in Nat /\ DOMAIN segments = 1..m
      /\ {segments[k] : k \in DOMAIN segments} = Closed[o]
      /\ \A k \in DOMAIN segments :
           /\ segments[k].start \in Nat /\ segments[k].end \in Nat /\ segments[k].start < segments[k].end
           /\ k > 1 => segments[k - 1].end <= segments[k].start
           /\ \A j \in DOMAIN rows : j >= o => segments[k].end <= rows[j].start
  BY DEF SegmentsInv, SegmentsApart
<1>7. list = IF rows[r].end - rows[o].start < MinDuration THEN segments ELSE Append(segments, new)
  BY <1>3 DEF Segments!Flushed
<1>8. /\ Closed[o] = {Segments!Segment(SubSeq(rows, ab[1], ab[2])) : ab \in {e \in Lasting : e[2] < o}}
      /\ Closed[r + 1] = {Segments!Segment(SubSeq(rows, ab[1], ab[2])) : ab \in {e \in Lasting : e[2] < r + 1}}
  <2>1. o \in Nat /\ r + 1 \in Nat
    BY <1>2
  <2> QED
    BY <2>1 DEF Closed
<1>9. new = Segments!Segment(SubSeq(rows, o, r))
  BY <1>1
<1> HIDE DEF n, o, r, chunk, list, new, m
<1>10. CASE rows[r].end - rows[o].start < MinDuration
  <2>1. <<o, r>> \notin Lasting
    <3>1. MinDuration \in Int
      BY SessionsAssumption DEF SessionsAssumption
    <3> QED
      BY <1>5, <1>10, <3>1 DEF Lasting
  <2>2. {e \in Lasting : e[2] < r + 1} = {e \in Lasting : e[2] < o}
    <3>1. \A e \in Lasting : e \in Ends /\ e[2] \in 1..n /\ e # <<o, r>>
      BY <1>1, <2>1 DEF Lasting, Ends
    <3>2. \A b \in 1..n : (b < r + 1 <=> b <= r) /\ (b < o => b < r + 1)
      BY <1>1, <1>2
    <3> QED
      BY <1>2, <3>1, <3>2
  <2>3. list = segments
    BY <1>7, <1>10
  <2>4. \A j \in 1..n : j > r => j >= o
    BY <1>1, <1>2
  <2>5. Flushes(list)
    BY <1>1, <1>6, <1>8, <2>2, <2>3, <2>4 DEF Flushes, r, n, m
  <2> QED
    BY <2>5 DEF list, chunk
<1>11. CASE ~ (rows[r].end - rows[o].start < MinDuration)
  <2>1. <<o, r>> \in Lasting
    <3>1. MinDuration \in Int
      BY SessionsAssumption DEF SessionsAssumption
    <3> QED
      BY <1>2, <1>5, <1>11, <3>1 DEF Lasting
  <2>2. {e \in Lasting : e[2] < r + 1} = {e \in Lasting : e[2] < o} \cup {<<o, r>>}
    <3>1. \A e \in Lasting : e \in Ends /\ e[2] \in 1..n
      BY <1>1 DEF Lasting, Ends
    <3>2. \A b \in 1..n : (b < r + 1 <=> b <= r) /\ (b < o => b < r + 1)
      BY <1>1, <1>2
    <3>3. <<o, r>>[2] < r + 1
      BY <1>2
    <3> QED
      BY <1>2, <2>1, <3>1, <3>2, <3>3
  <2>3. Closed[r + 1] = Closed[o] \cup {new}
    <3> DEFINE F(ab) == Segments!Segment(SubSeq(rows, ab[1], ab[2]))
    <3>1. F(<<o, r>>) = new
      BY <1>9
    <3>2. /\ Closed[o] = {F(ab) : ab \in {e \in Lasting : e[2] < o}}
          /\ Closed[r + 1] = {F(ab) : ab \in {e \in Lasting : e[2] < o} \cup {<<o, r>>}}
      BY <1>8, <2>2
    <3> HIDE DEF F
    <3> QED
      BY <3>1, <3>2
  <2>4. list = Append(segments, new)
    BY <1>7, <1>11
  <2>5. /\ Len(list) = m + 1 /\ DOMAIN list = 1..(m + 1) /\ list[m + 1] = new
        /\ \A k \in 1..m : list[k] = segments[k]
    BY <1>6, <2>4 DEF m
  <2>6. {list[k] : k \in DOMAIN list} = {segments[k] : k \in DOMAIN segments} \cup {new}
    BY <1>6, <2>5
  <2>7. ASSUME NEW k \in DOMAIN list
        PROVE  /\ list[k].start \in Nat /\ list[k].end \in Nat /\ list[k].start < list[k].end
               /\ k > 1 => list[k - 1].end <= list[k].start
               /\ \A j \in DOMAIN rows : j > r => list[k].end <= rows[j].start
    <3>1. CASE k = m + 1
      <4>1. list[k].start \in Nat /\ list[k].end \in Nat /\ list[k].start < list[k].end
        BY <1>4, <1>5, <2>5, <3>1
      <4>2. \A j \in DOMAIN rows : j > r => list[k].end <= rows[j].start
        BY <1>1, <1>2, <1>4, <1>5, <2>5, <3>1
      <4>3. ASSUME k > 1 PROVE list[k - 1].end <= list[k].start
        <5>1. m \in 1..m /\ k - 1 = m
          BY <1>6, <3>1, <4>3
        <5>2. list[k - 1] = segments[m] /\ segments[m].end <= rows[o].start
          BY SMTT(30), <1>1, <1>2, <1>6, <2>5, <5>1
        <5> QED
          BY <1>4, <2>5, <3>1, <5>2
      <4> QED
        BY <4>1, <4>2, <4>3
    <3>2. CASE k # m + 1
      <4>1. k \in 1..m /\ (k > 1 => k - 1 \in 1..m)
        BY <1>6, <2>5, <3>2
      <4>2. \A j \in 1..n : j > r => j >= o
        BY <1>1, <1>2
      <4> QED
        BY <1>1, <1>6, <2>5, <4>1, <4>2
    <3> QED
      BY <3>1, <3>2
  <2>8. Len(list) \in Nat
    BY <1>6, <2>5
  <2>9. {list[k] : k \in DOMAIN list} = Closed[r + 1]
    BY <1>6, <2>3, <2>6
  <2>10. Flushes(list)
    BY <2>5, <2>7, <2>8, <2>9 DEF Flushes, r
  <2> QED
    BY <2>10 DEF list, chunk
<1> QED
  BY <1>10, <1>11 DEF list, chunk

LEMMA SegmentsInit == RowsInv /\ Segments!Init => SegmentsInv
<1> SUFFICES ASSUME RowsInv, Segments!Init PROVE SegmentsInv
  OBVIOUS
<1>1. rows = <<>> /\ segments = <<>> /\ current = [next |-> 1, chunk |-> <<>>]
  BY DEF Segments!Init
<1>2. Len(rows) = 0 /\ DOMAIN rows = {}
  BY <1>1
<1>3. Read = 0 /\ Open = 1
  BY <1>1, <1>2 DEF Read, Open
<1>4. Closed[Open] = {}
  <2>1. Lasting = {}
    BY <1>2 DEF Lasting, Ends
  <2> QED
    BY <1>3, <2>1 DEF Closed
<1>5. SubSeq(rows, Open, Read) = <<>>
  BY <1>1, <1>3
<1> QED
  BY <1>1, <1>2, <1>3, <1>4, <1>5 DEF SegmentsInv, SegmentsApart

\* Segments are not read before the bins are made and classified.
LEMMA NotRead ==
  ASSUME BinsInv, RowsInv, SegmentsInv, Segments!Binning \/ Len(rows) # Len(bins)
  PROVE  current.next = 1 /\ current.chunk = <<>> /\ Read = 0 /\ Open = 1 /\ segments = <<>>
<1>1. current.next = 1 /\ Len(rows) \in Nat
  <2>1. /\ current.next \in Nat /\ 1 <= current.next
        /\ current.next > 1 => ~ Segments!Binning /\ Len(rows) = Len(bins)
    BY DEF SegmentsInv
  <2>2. ~ (current.next > 1)
    BY <2>1
  <2>3. current.next = 1
    BY <2>1, <2>2
  <2> QED
    BY <2>3 DEF RowsInv
<1>2. Read = 0
  BY <1>1 DEF Read
<1>3. Open = 1 /\ current.chunk = <<>>
  BY <1>2, ReadFacts
<1>4. Closed[1] = {}
  <2>1. \A e \in Lasting : ~ (e[2] < 1)
    <3>1. DOMAIN rows = 1..Len(rows)
      BY DEF RowsInv
    <3>2. \A e \in Lasting : e[2] \in 1..Len(rows)
      BY <3>1 DEF Lasting, Ends
    <3>3. \A b \in 1..Len(rows) : ~ (b < 1)
      BY <1>1
    <3> QED
      BY <3>2, <3>3
  <2> QED
    BY <2>1 DEF Closed
<1>5. segments = <<>>
  <2>1. DOMAIN segments = 1..Len(segments) /\ Len(segments) \in Nat /\ {segments[k] : k \in DOMAIN segments} = {}
    BY <1>3, <1>4 DEF SegmentsInv
  <2>2. ~ (1 \in DOMAIN segments)
    BY <2>1
  <2>3. \A m \in Nat : 1 \notin 1..m => m = 0
    OBVIOUS
  <2>4. Len(segments) = 0
    BY <2>1, <2>2, <2>3
  <2> QED
    BY <2>1, <2>4
<1> QED
  BY <1>1, <1>2, <1>3, <1>5

LEMMA BinsAndRowsKeep ==
  ASSUME BinsInv, RowsInv, UNCHANGED <<session, left, bins, rows>>
  PROVE  BinsInv' /\ RowsInv' /\ (~ Segments!Binning => (~ Segments!Binning)')
<1>1. Lost(0, left)' = Lost(0, left)
  BY DEF Lost, Between, Segments!Overlap
<1>2. Verdicts' = Verdicts
  BY VerdictsKeep
<1>3. Segments!Binning' = Segments!Binning
  BY DEF Segments!Binning, Segments!TotalEnd
<1> QED
  BY <1>1, <1>2, <1>3 DEF BinsInv, RowsInv

LEMMA WhileBinning ==
  ASSUME BinsInv, RowsInv, SegmentsInv, Segments!FillBin \/ Segments!SkipBin
  PROVE  SegmentsInv'
<1>1. UNCHANGED <<rows, current, segments>> /\ Segments!Binning
  BY DEF Segments!FillBin, Segments!SkipBin
<1>2. current.next = 1
  BY <1>1, NotRead
<1>3. Read' = Read /\ Open' = Open
  BY <1>1 DEF Read, Open
<1>4. Closed' = Closed
  BY <1>1, RunsKeep
<1>5. OpenIsRun' = OpenIsRun
  BY <1>1 DEF OpenIsRun, Open, Read, Starts, Segments!NoEvent
<1>6. SegmentsApart' = SegmentsApart
  BY <1>1 DEF SegmentsApart, Open, Read
<1> QED
  BY <1>1, <1>2, <1>3, <1>4, <1>5, <1>6 DEF SegmentsInv, Segments!NoEvent

LEMMA WhileClassifying ==
  ASSUME BinsInv, RowsInv, SegmentsInv, Segments!ClassifyRow
  PROVE  SegmentsInv'
<1>1. UNCHANGED <<current, segments>> /\ Len(rows) # Len(bins)
  <2>1. Len(rows) \in Nat /\ Len(bins) \in Nat /\ Len(rows) < Len(bins)
    <3>1. Len(bins) \in Nat
      BY DEF BinsInv
    <3> QED
      BY <3>1 DEF RowsInv, Segments!ClassifyRow
  <2> QED
    BY <2>1 DEF Segments!ClassifyRow
<1>2. current.next = 1 /\ current.chunk = <<>> /\ segments = <<>>
  BY <1>1, NotRead
<1>3. Len(rows') \in Nat /\ DOMAIN rows' = 1..Len(rows')
  <2>1. RowsInv'
    BY ClassifyKeeps
  <2> QED
    BY <2>1 DEF RowsInv
<1>4. Read' = 0
  BY <1>1, <1>2, <1>3 DEF Read
<1>5. Open' = 1
  BY <1>1, <1>2, <1>4 DEF Open
<1>6. Closed'[1] = {}
  <2>1. \A e \in Lasting' : e[2] \in 1..Len(rows')
    BY <1>3 DEF Lasting, Ends
  <2>2. \A b \in 1..Len(rows') : ~ (b < 1)
    BY <1>3
  <2>3. \A e \in Lasting' : ~ (e[2] < 1)
    BY <2>1, <2>2
  <2> QED
    BY <2>3 DEF Closed
<1>7. SubSeq(rows', 1, 0) = <<>>
  OBVIOUS
<1>8. current = [next |-> current.next, chunk |-> current.chunk]
  BY DEF SegmentsInv
<1>9. ~ (0 \in DOMAIN rows')
  BY <1>3
<1>10. Len(segments) = 0 /\ DOMAIN segments = {} /\ DOMAIN segments = 1..Len(segments) /\ Len(current.chunk) = 0
  BY <1>2
<1>11. Len(rows') + 2 # 1 /\ 1 <= Len(rows') + 2
  BY <1>3
<1>12. SegmentsApart'
  BY <1>1, <1>10 DEF SegmentsApart
<1>13. /\ (current = [next |-> current.next, chunk |-> current.chunk])'
       /\ current'.next = 1 /\ current'.chunk = <<>> /\ Len(current'.chunk) = 0
       /\ segments' = <<>>
  BY <1>1, <1>2, <1>8, <1>10
<1>14. /\ current'.next \in Nat /\ 1 <= current'.next /\ current'.next <= Len(rows') + 2
       /\ ~ (current'.next > 1) /\ current'.next # Len(rows') + 2
  BY <1>11, <1>13
<1>15. /\ Len(current'.chunk) \in Nat /\ Len(current'.chunk) <= Read'
  BY <1>4, <1>13
<1>16. current'.chunk = SubSeq(rows', Open', Read')
  BY <1>4, <1>5, <1>7, <1>13
<1>17. ~ (Read' \in DOMAIN rows')
  BY <1>4, <1>9
<1>18. /\ Len(segments') \in Nat /\ DOMAIN segments' = 1..Len(segments')
       /\ {segments'[k] : k \in DOMAIN segments'} = Closed'[Open']
  BY <1>1, <1>5, <1>6, <1>10
<1> QED
  BY <1>12, <1>13, <1>14, <1>15, <1>16, <1>17, <1>18, Zenon DEF SegmentsInv

LEMMA NormalRows ==
  ASSUME BinsInv, RowsInv, NEW i \in DOMAIN rows
  PROVE  rows[i].verdict.state = "normal" <=> rows[i].verdict.event = Segments!NoEvent
BY RowsRated DEF Segments!WorseIsRatedWorse

\* The next row, and what is known when it is read.
LEMMA NextRow ==
  ASSUME BinsInv, RowsInv, SegmentsInv, current.next <= Len(rows)
  PROVE  /\ Read \in Nat /\ Read + 1 = current.next /\ Read + 1 \in DOMAIN rows /\ Read + 1 <= Len(rows)
         /\ Open \in Nat /\ 1 <= Open /\ Open <= Read + 1 /\ Len(rows) \in Nat
         /\ current.next \in Nat /\ current.next # Len(rows) + 2 /\ current.next + 1 # Len(rows) + 2
<1>1. Len(rows) \in Nat /\ DOMAIN rows = 1..Len(rows) /\ Open \in 1..(Read + 1)
  BY ReadFacts
<1>2. current.next \in Nat /\ 1 <= current.next
  BY DEF SegmentsInv
<1>3. current.next # Len(rows) + 2 /\ current.next + 1 # Len(rows) + 2
  BY <1>1, <1>2
<1>4. Read = current.next - 1
  BY <1>3 DEF Read
<1> DEFINE r == Read
           m == current.next
           n == Len(rows)
<1>5. r = m - 1 /\ m \in Nat /\ 1 <= m /\ m <= n /\ n \in Nat /\ Open \in 1..(r + 1)
  BY <1>1, <1>2, <1>4
<1> HIDE DEF r, m, n
<1>6. r \in Nat /\ r + 1 = m /\ r + 1 \in 1..n /\ r + 1 <= n /\ Open \in Nat /\ 1 <= Open /\ Open <= r + 1
  BY <1>5
<1> QED
  BY <1>1, <1>2, <1>3, <1>6 DEF r, m, n

\* The open run holds the row that was read last.
LEMMA LastOpen ==
  ASSUME BinsInv, RowsInv, SegmentsInv, current.chunk # <<>>
  PROVE  /\ Read \in DOMAIN rows /\ Open \in 1..Read /\ rows[Read].verdict.event = rows[Open].verdict.event
         /\ rows[Read].verdict.event # Segments!NoEvent /\ Segments!Last(current.chunk) = rows[Read]
<1>1. /\ Len(rows) \in Nat /\ DOMAIN rows = 1..Len(rows) /\ Read \in 0..Len(rows) /\ Open \in 1..(Read + 1)
      /\ current.chunk = SubSeq(rows, Open, Read) /\ Open # Read + 1
  BY ReadFacts
<1>2. OpenIsRun
  BY DEF SegmentsInv
<1> DEFINE r == Read
           o == Open
           n == Len(rows)
<1>3. n \in Nat /\ r \in 0..n /\ o \in 1..(r + 1) /\ o # r + 1
  BY <1>1
<1> HIDE DEF r, o, n
<1>4. r \in 1..n /\ o \in 1..n /\ o <= r /\ o \in 1..r /\ (r = o \/ r \in (o + 1)..r)
  BY <1>3
<1>5. rows[r].verdict.event = rows[o].verdict.event /\ rows[o].verdict.event # Segments!NoEvent
  BY <1>2, <1>4 DEF OpenIsRun, r, o
<1>6. Segments!Last(current.chunk) = rows[r]
  BY <1>1, <1>4, PartOf DEF Segments!Last, r, o, n
<1> QED
  BY <1>1, <1>4, <1>5, <1>6 DEF r, o, n

LEMMA FlushSound ==
  ASSUME BinsInv, RowsInv, SegmentsInv, current.chunk = <<>> \/ Stops(Read)
  PROVE  Flushes(Segments!Flushed(current.chunk))
BY FlushKeepsNothing, FlushKeepsRun

\* No run ends in a normal row.
LEMMA NoRunEndsNormal ==
  ASSUME Len(rows) \in Nat, DOMAIN rows = 1..Len(rows), NEW r \in Nat, r + 1 \in DOMAIN rows,
         rows[r + 1].verdict.event = Segments!NoEvent
  PROVE  Closed[r + 2] = Closed[r + 1]
<1>1. ASSUME NEW e \in Lasting, e[2] < r + 2 PROVE e[2] < r + 1
  <2> DEFINE a == e[1]
             b == e[2]
  <2>1. a \in 1..Len(rows) /\ b \in 1..Len(rows) /\ a <= b /\ Segments!IsRun(a, b)
    BY DEF Lasting, Ends
  <2>2. /\ rows[a].verdict.event # Segments!NoEvent
        /\ \A i \in (a + 1)..b : rows[i].verdict.event = rows[a].verdict.event
    BY <2>1 DEF Segments!IsRun
  <2>3. a \in Nat /\ b \in Nat /\ b < r + 2
    BY <1>1, <2>1
  <2> HIDE DEF a, b
  <2>4. b # r + 1
    <3> SUFFICES ASSUME b = r + 1 PROVE FALSE
      OBVIOUS
    <3>1. b = a \/ b \in (a + 1)..b
      BY <2>1, <2>3
    <3> QED
      BY <2>2, <3>1
  <2>5. b < r + 1
    BY <2>3, <2>4
  <2> QED
    BY <2>5 DEF b
<1>2. ASSUME NEW e \in Lasting, e[2] < r + 1 PROVE e[2] < r + 2
  <2>1. e[2] \in 1..Len(rows)
    BY DEF Lasting, Ends
  <2> QED
    BY <1>2, <2>1
<1>3. {e \in Lasting : e[2] < r + 2} = {e \in Lasting : e[2] < r + 1}
  BY <1>1, <1>2
<1>4. r + 1 \in Nat /\ r + 2 \in Nat
  OBVIOUS
<1> QED
  BY <1>3, <1>4 DEF Closed

LEMMA NormalRow ==
  ASSUME BinsInv, RowsInv, SegmentsInv, UNCHANGED <<session, left, bins, rows>>,
         ~ Segments!Binning, Len(rows) = Len(bins), current.next <= Len(rows),
         rows[current.next].verdict.state = "normal",
         segments' = Segments!Flushed(current.chunk),
         current' = [next |-> current.next + 1, chunk |-> <<>>]
  PROVE  SegmentsInv'
<1> DEFINE r == Read
           n == Len(rows)
<1>1. /\ r \in Nat /\ r + 1 = current.next /\ r + 1 \in DOMAIN rows /\ r + 1 <= n /\ n \in Nat
      /\ current.next \in Nat /\ current.next + 1 # n + 2 /\ DOMAIN rows = 1..n
  BY NextRow, ReadFacts
<1>2. rows[r + 1].verdict.event = Segments!NoEvent
  BY <1>1, NormalRows
<1>3. current.chunk = <<>> \/ Stops(Read)
  <2>1. ASSUME current.chunk # <<>> PROVE Stops(Read)
    <3>1. rows[Read].verdict.event # Segments!NoEvent
      BY <2>1, LastOpen
    <3> QED
      BY <1>2, <3>1 DEF Stops
  <2> QED
    BY <2>1
<1>4. Flushes(segments')
  BY <1>3, FlushSound
<1>5. /\ Len(segments') \in Nat /\ DOMAIN segments' = 1..Len(segments')
      /\ {segments'[k] : k \in DOMAIN segments'} = Closed[r + 1]
      /\ \A k \in DOMAIN segments' :
           /\ segments'[k].start \in Nat /\ segments'[k].end \in Nat /\ segments'[k].start < segments'[k].end
           /\ k > 1 => segments'[k - 1].end <= segments'[k].start
           /\ \A j \in DOMAIN rows : j > r => segments'[k].end <= rows[j].start
  BY <1>4 DEF Flushes
<1>6. Closed' = Closed
  BY RunsKeep
<1>7. Closed[r + 2] = Closed[r + 1]
  BY <1>1, <1>2, NoRunEndsNormal
<1>8. current'.next = current.next + 1 /\ current'.chunk = <<>> /\ Len(current'.chunk) = 0
  OBVIOUS
<1>9. Read' = r + 1
  <2>1. Read' = current.next + 1 - 1
    BY <1>1, <1>8 DEF Read
  <2> QED
    BY <1>1, <2>1
<1>10. Open' = r + 2
  <2>1. Open' = Read' + 1 - Len(current'.chunk)
    BY DEF Open
  <2>2. Open' = (r + 1) + 1 - 0
    BY <1>8, <1>9, <2>1
  <2> QED
    BY <1>1, <2>2
<1> HIDE DEF r, n
<1>11. SubSeq(rows, r + 2, r + 1) = <<>>
  BY <1>1
<1>12. SegmentsApart'
  <2>1. \A j \in DOMAIN rows : j >= r + 2 => j > r
    BY <1>1
  <2> QED
    BY <1>5, <1>10, <2>1 DEF SegmentsApart
<1>13. /\ (current = [next |-> current.next, chunk |-> current.chunk])'
       /\ current'.next \in Nat /\ 1 <= current'.next /\ current'.next <= n + 2 /\ current'.next # n + 2
       /\ Len(current'.chunk) \in Nat /\ Len(current'.chunk) <= Read'
  BY <1>1, <1>8, <1>9
<1>14. (~ Segments!Binning)' /\ Len(rows') = Len(bins')
  BY BinsAndRowsKeep
<1>15. current'.chunk = SubSeq(rows', Open', Read') /\ rows'[Read'].verdict.event = Segments!NoEvent
  BY <1>2, <1>8, <1>9, <1>10, <1>11
<1>16. {segments'[k] : k \in DOMAIN segments'} = Closed'[Open']
  BY <1>5, <1>6, <1>7, <1>10
<1> QED
  BY <1>5, <1>8, <1>12, <1>13, <1>14, <1>15, <1>16, Zenon DEF SegmentsInv, n, Segments!NoEvent

LEMMA OtherRow ==
  ASSUME BinsInv, RowsInv, SegmentsInv, UNCHANGED <<session, left, bins, rows>>,
         ~ Segments!Binning, Len(rows) = Len(bins), current.next <= Len(rows),
         rows[current.next].verdict.state # "normal",
         ~ Segments!Continues(rows[current.next], current.chunk),
         segments' = Segments!Flushed(current.chunk),
         current' = [next |-> current.next + 1, chunk |-> <<rows[current.next]>>]
  PROVE  SegmentsInv'
<1> DEFINE r == Read
           n == Len(rows)
<1>1. /\ r \in Nat /\ r + 1 = current.next /\ r + 1 \in DOMAIN rows /\ r + 1 <= n /\ n \in Nat
      /\ current.next \in Nat /\ current.next + 1 # n + 2 /\ current.next # n + 2 /\ DOMAIN rows = 1..n
  BY NextRow, ReadFacts
<1>2. rows[r + 1].verdict.event # Segments!NoEvent
  BY <1>1, NormalRows
<1>3. ASSUME current.chunk # <<>> PROVE Stops(Read) /\ Starts(r + 1)
  <2>1. Segments!Last(current.chunk) = rows[r]
    BY <1>3, LastOpen
  <2>2. ~ (rows[r + 1].start = rows[r].end /\ rows[r + 1].verdict.event = rows[r].verdict.event)
    BY <1>1, <1>3, <2>1 DEF Segments!Continues, Segments!Follows
  <2>3. (r + 1) - 1 = r
    BY <1>1
  <2> HIDE DEF r
  <2>4. Stops(r)
    BY <2>2 DEF Stops
  <2>5. Starts(r + 1)
    BY <2>2, <2>3 DEF Starts
  <2> QED
    BY <2>4, <2>5 DEF r
<1>4. Flushes(segments')
  BY <1>3, FlushSound
<1>5. /\ Len(segments') \in Nat /\ DOMAIN segments' = 1..Len(segments')
      /\ {segments'[k] : k \in DOMAIN segments'} = Closed[r + 1]
      /\ \A k \in DOMAIN segments' :
           /\ segments'[k].start \in Nat /\ segments'[k].end \in Nat /\ segments'[k].start < segments'[k].end
           /\ k > 1 => segments'[k - 1].end <= segments'[k].start
           /\ \A j \in DOMAIN rows : j > r => segments'[k].end <= rows[j].start
  BY <1>4 DEF Flushes
<1>6. Closed' = Closed
  BY RunsKeep
<1>7. Starts(r + 1)
  <2>1. ASSUME current.chunk = <<>> PROVE Starts(r + 1)
    <3>1. r \in DOMAIN rows => rows[r].verdict.event = Segments!NoEvent
      BY <1>1, <2>1 DEF SegmentsInv
    <3>2. (r + 1) - 1 = r /\ (r + 1 = 1 \/ r \in DOMAIN rows)
      BY <1>1
    <3> HIDE DEF r
    <3> QED
      BY <1>2, <3>1, <3>2 DEF Starts
  <2> QED
    BY <1>3, <2>1
<1>8. /\ current'.next = current.next + 1 /\ current'.chunk = <<rows[r + 1]>> /\ Len(current'.chunk) = 1
      /\ current'.chunk # <<>>
  BY <1>1
<1>9. Read' = r + 1
  <2>1. Read' = current.next + 1 - 1
    BY <1>1, <1>8 DEF Read
  <2> QED
    BY <1>1, <2>1
<1>10. Open' = r + 1
  <2>1. Open' = Read' + 1 - Len(current'.chunk)
    BY DEF Open
  <2>2. Open' = (r + 1) + 1 - 1
    BY <1>8, <1>9, <2>1
  <2> QED
    BY <1>1, <2>2
<1> HIDE DEF r, n
<1>11. SubSeq(rows, r + 1, r + 1) = <<rows[r + 1]>>
  <2>1. SubSeq(rows, r + 1, r + 1) = [i \in 1..((r + 1) - (r + 1) + 1) |-> rows[(r + 1) + i - 1]]
    BY <1>1
  <2>2. (r + 1) - (r + 1) + 1 = 1 /\ \A i \in 1..1 : (r + 1) + i - 1 = r + 1
    BY <1>1
  <2>3. \A i \in 1..1 : rows[(r + 1) + i - 1] = rows[r + 1]
    BY <2>2
  <2>4. SubSeq(rows, r + 1, r + 1) = [i \in 1..1 |-> rows[r + 1]]
    BY <2>1, <2>2, <2>3
  <2>5. \A x : [i \in 1..1 |-> x] = <<x>>
    OBVIOUS
  <2> QED
    BY <2>4, <2>5
<1>12. SegmentsApart'
  <2>1. \A j \in DOMAIN rows : j >= r + 1 => j > r
    BY <1>1
  <2> QED
    BY <1>5, <1>10, <2>1 DEF SegmentsApart
<1>13. /\ (current = [next |-> current.next, chunk |-> current.chunk])'
       /\ current'.next \in Nat /\ 1 <= current'.next /\ current'.next <= n + 2 /\ current'.next # n + 2
       /\ Len(current'.chunk) \in Nat /\ Len(current'.chunk) <= Read'
  BY <1>1, <1>8, <1>9
<1>14. (~ Segments!Binning)' /\ Len(rows') = Len(bins')
  BY BinsAndRowsKeep
<1>15. current'.chunk = SubSeq(rows', Open', Read')
  BY <1>8, <1>9, <1>10, <1>11
<1>16. {segments'[k] : k \in DOMAIN segments'} = Closed'[Open']
  BY <1>5, <1>6, <1>10
<1>17. OpenIsRun'
  <2>1. ~ \E i : i \in ((r + 1) + 1)..(r + 1)
    BY <1>1
  <2>2. Starts(Open)'
    BY <1>7, <1>10 DEF Starts
  <2> QED
    BY <1>2, <1>9, <1>10, <2>1, <2>2 DEF OpenIsRun, Segments!NoEvent
<1> QED
  BY <1>5, <1>8, <1>12, <1>13, <1>14, <1>15, <1>16, <1>17, Zenon DEF SegmentsInv, n, Segments!NoEvent

LEMMA SameRun ==
  ASSUME BinsInv, RowsInv, SegmentsInv, UNCHANGED <<session, left, bins, rows>>,
         ~ Segments!Binning, Len(rows) = Len(bins), current.next <= Len(rows),
         rows[current.next].verdict.state # "normal",
         Segments!Continues(rows[current.next], current.chunk),
         segments' = segments,
         current' = [next |-> current.next + 1, chunk |-> Append(current.chunk, rows[current.next])]
  PROVE  SegmentsInv'
<1> DEFINE r == Read
           n == Len(rows)
           o == Open
<1>1. /\ r \in Nat /\ r + 1 = current.next /\ r + 1 \in DOMAIN rows /\ r + 1 <= n /\ n \in Nat
      /\ o \in Nat /\ 1 <= o /\ o <= r + 1
      /\ current.next \in Nat /\ current.next + 1 # n + 2 /\ current.next # n + 2 /\ DOMAIN rows = 1..n
  BY NextRow, ReadFacts
<1>2. /\ current.chunk # <<>> /\ rows[r + 1].start = Segments!Last(current.chunk).end
      /\ rows[r + 1].verdict.event = Segments!Last(current.chunk).verdict.event
  BY <1>1 DEF Segments!Continues, Segments!Follows
<1>3. /\ Segments!Last(current.chunk) = rows[r] /\ rows[r].verdict.event = rows[o].verdict.event
      /\ o \in 1..r
  BY <1>2, LastOpen
<1>4. current.chunk = SubSeq(rows, o, r) /\ Len(current.chunk) = r + 1 - o
  BY ReadFacts
<1>5. /\ rows[o].verdict.event # Segments!NoEvent /\ Starts(o)
      /\ \A i \in (o + 1)..r : rows[i].start = rows[i - 1].end /\ rows[i].verdict.event = rows[o].verdict.event
  BY <1>2 DEF SegmentsInv, OpenIsRun
<1>6. Closed' = Closed
  BY RunsKeep
<1>7. current'.next = r + 2 /\ current'.chunk = Append(SubSeq(rows, o, r), rows[r + 1])
  <2>1. current'.next = current.next + 1 /\ current'.chunk = Append(current.chunk, rows[current.next])
    OBVIOUS
  <2>2. current.next + 1 = r + 2
    <3> HIDE DEF r
    <3> QED
      BY <1>1
  <2>3. current'.chunk = Append(SubSeq(rows, o, r), rows[r + 1])
    BY <1>1, <1>4, <2>1, Zenon
  <2> QED
    BY <2>1, <2>2, <2>3, Zenon
<1>8. Read' = r + 1
  <2>1. current'.next # Len(rows') + 2
    BY <1>1
  <2>2. Read' = current'.next - 1
    BY <2>1 DEF Read
  <2> QED
    BY <1>1, <1>7, <2>2
<1>9. /\ DOMAIN segments = 1..Len(segments) /\ Len(segments) \in Nat
      /\ {segments[k] : k \in DOMAIN segments} = Closed[o] /\ SegmentsApart
  BY DEF SegmentsInv
<1> HIDE DEF r, o, n
<1>10. current'.chunk = SubSeq(rows, o, r + 1)
  BY <1>1, <1>7, Longer
<1>11. Len(current'.chunk) = r + 2 - o /\ current'.chunk # <<>>
  <2>1. SubSeq(rows, o, r + 1) = [i \in 1..((r + 1) - o + 1) |-> rows[o + i - 1]]
    BY <1>1
  <2>2. (r + 1) - o + 1 = r + 2 - o /\ r + 2 - o \in Nat /\ r + 2 - o # 0
    BY <1>1, <1>3
  <2> QED
    BY <1>10, <2>1, <2>2
<1>12. Open' = o
  <2>1. Open' = Read' + 1 - Len(current'.chunk)
    BY DEF Open
  <2>2. Open' = (r + 1) + 1 - (r + 2 - o)
    BY <1>8, <1>11, <2>1
  <2> QED
    BY <1>1, <2>2
<1>13. SegmentsApart'
  BY <1>9, <1>12 DEF SegmentsApart, o
<1>14. /\ (current = [next |-> current.next, chunk |-> current.chunk])'
       /\ current'.next \in Nat /\ 1 <= current'.next /\ current'.next <= n + 2 /\ current'.next # n + 2
       /\ Len(current'.chunk) \in Nat /\ Len(current'.chunk) <= Read'
  <2>1. current'.next \in Nat /\ 1 <= current'.next /\ current'.next <= n + 2 /\ current'.next # n + 2
    BY <1>1, <1>7
  <2>2. r + 2 - o \in Nat /\ r + 2 - o <= r + 1
    BY <1>1
  <2> QED
    BY <1>8, <1>11, <2>1, <2>2
<1>15. (~ Segments!Binning)' /\ Len(rows') = Len(bins')
  BY BinsAndRowsKeep
<1>16. current'.chunk = SubSeq(rows', Open', Read')
  BY <1>8, <1>10, <1>12
<1>17. /\ Len(segments') \in Nat /\ DOMAIN segments' = 1..Len(segments')
       /\ {segments'[k] : k \in DOMAIN segments'} = Closed'[Open']
  BY <1>6, <1>9, <1>12
<1>18. OpenIsRun'
  <2>1. ASSUME NEW i \in (o + 1)..(r + 1)
        PROVE  rows[i].start = rows[i - 1].end /\ rows[i].verdict.event = rows[o].verdict.event
    <3>1. CASE i = r + 1
      <4>1. (r + 1) - 1 = r
        BY <1>1
      <4> QED
        BY <1>2, <1>3, <3>1, <4>1
    <3>2. CASE i # r + 1
      <4>1. i \in (o + 1)..r
        BY <1>1, <3>2
      <4> QED
        BY <1>5, <4>1
    <3> QED
      BY <3>1, <3>2
  <2>2. Starts(Open)'
    BY <1>5, <1>12 DEF Starts
  <2> QED
    BY <1>5, <1>8, <1>12, <2>1, <2>2 DEF OpenIsRun, Segments!NoEvent
<1> QED
  BY <1>11, <1>13, <1>14, <1>15, <1>16, <1>17, <1>18, Zenon DEF SegmentsInv, n, Segments!NoEvent

LEMMA AfterLastRow ==
  ASSUME BinsInv, RowsInv, SegmentsInv, UNCHANGED <<session, left, bins, rows>>,
         ~ Segments!Binning, Len(rows) = Len(bins), current.next = Len(rows) + 1,
         segments' = Segments!Flushed(current.chunk),
         current' = [next |-> current.next + 1, chunk |-> <<>>]
  PROVE  SegmentsInv'
<1> DEFINE n == Len(rows)
<1>1. n \in Nat /\ DOMAIN rows = 1..n
  BY ReadFacts
<1>2. Read = n
  <2>1. current.next # n + 2
    BY <1>1
  <2> QED
    BY <1>1, <2>1 DEF Read
<1>3. Flushes(segments')
  <2>1. Stops(Read)
    BY <1>2 DEF Stops
  <2> QED
    BY <2>1, FlushSound
<1>4. /\ Len(segments') \in Nat /\ DOMAIN segments' = 1..Len(segments')
      /\ {segments'[k] : k \in DOMAIN segments'} = Closed[n + 1]
      /\ \A k \in DOMAIN segments' :
           /\ segments'[k].start \in Nat /\ segments'[k].end \in Nat /\ segments'[k].start < segments'[k].end
           /\ k > 1 => segments'[k - 1].end <= segments'[k].start
  BY <1>2, <1>3 DEF Flushes
<1>5. Closed' = Closed
  BY RunsKeep
<1>6. current'.next = n + 2 /\ current'.chunk = <<>> /\ Len(current'.chunk) = 0
  BY <1>1
<1>7. Read' = n
  BY <1>6 DEF Read
<1>8. Open' = n + 1
  <2>1. Open' = Read' + 1 - Len(current'.chunk)
    BY DEF Open
  <2>2. Open' = n + 1 - 0
    BY <1>6, <1>7, <2>1
  <2> QED
    BY <1>1, <2>2
<1> HIDE DEF n
<1>9. SubSeq(rows, n + 1, n) = <<>>
  BY <1>1
<1>10. SegmentsApart'
  <2>1. \A j \in DOMAIN rows : ~ (j >= n + 1)
    BY <1>1
  <2> QED
    BY <1>4, <1>8, <2>1 DEF SegmentsApart
<1>11. /\ (current = [next |-> current.next, chunk |-> current.chunk])'
       /\ current'.next \in Nat /\ 1 <= current'.next /\ current'.next <= n + 2
       /\ Len(current'.chunk) \in Nat /\ Len(current'.chunk) <= Read'
  BY <1>1, <1>6, <1>7
<1>12. (~ Segments!Binning)' /\ Len(rows') = Len(bins')
  BY BinsAndRowsKeep
<1>13. current'.chunk = SubSeq(rows', Open', Read')
  BY <1>6, <1>7, <1>8, <1>9
<1>14. {segments'[k] : k \in DOMAIN segments'} = Closed'[Open']
  BY <1>4, <1>5, <1>8
<1>15. current'.next = Len(rows') + 2
  BY <1>6 DEF n
<1> QED
  BY <1>4, <1>6, <1>10, <1>11, <1>12, <1>13, <1>14, <1>15, Zenon DEF SegmentsInv, n

GeneratedInv == BinsInv /\ RowsInv /\ SegmentsInv

LEMMA GeneratedInit == Segments!Init => GeneratedInv
BY BinsInit, RowsInit, SegmentsInit DEF GeneratedInv

LEMMA GeneratedNext == GeneratedInv /\ [Segments!Next]_(Segments!vars) => GeneratedInv'
<1> SUFFICES ASSUME BinsInv, RowsInv, SegmentsInv, [Segments!Next]_(Segments!vars)
             PROVE  BinsInv' /\ RowsInv' /\ SegmentsInv'
  BY DEF GeneratedInv
<1>1. CASE Segments!FillBin
  BY <1>1, FillKeeps, BinsFirst, WhileBinning
<1>2. CASE Segments!SkipBin
  BY <1>2, SkipKeeps, BinsFirst, WhileBinning
<1>3. CASE Segments!ClassifyRow
  BY <1>3, ClassifyKeeps, WhileClassifying
<1>4. CASE Segments!SegmentRow
  <2>1. /\ UNCHANGED <<session, left, bins, rows>> /\ ~ Segments!Binning /\ Len(rows) = Len(bins)
        /\ current.next <= Len(rows)
    BY <1>4 DEF Segments!SegmentRow
  <2>2. CASE /\ rows[current.next].verdict.state = "normal"
             /\ segments' = Segments!Flushed(current.chunk)
             /\ current' = [next |-> current.next + 1, chunk |-> <<>>]
    BY <2>1, <2>2, NormalRow, BinsAndRowsKeep
  <2>3. CASE /\ rows[current.next].verdict.state # "normal"
             /\ Segments!Continues(rows[current.next], current.chunk)
             /\ current' = [next |-> current.next + 1, chunk |-> Append(current.chunk, rows[current.next])]
             /\ UNCHANGED segments
    BY <2>1, <2>3, SameRun, BinsAndRowsKeep
  <2>4. CASE /\ rows[current.next].verdict.state # "normal"
             /\ ~ Segments!Continues(rows[current.next], current.chunk)
             /\ segments' = Segments!Flushed(current.chunk)
             /\ current' = [next |-> current.next + 1, chunk |-> <<rows[current.next]>>]
    BY <2>1, <2>4, OtherRow, BinsAndRowsKeep
  <2> QED
    BY <1>4, <2>2, <2>3, <2>4 DEF Segments!SegmentRow
<1>5. CASE Segments!LastSegment
  <2>1. /\ UNCHANGED <<session, left, bins, rows>> /\ ~ Segments!Binning /\ Len(rows) = Len(bins)
        /\ current.next = Len(rows) + 1
        /\ segments' = Segments!Flushed(current.chunk)
        /\ current' = [next |-> current.next + 1, chunk |-> <<>>]
    BY <1>5 DEF Segments!LastSegment
  <2> QED
    BY <2>1, AfterLastRow, BinsAndRowsKeep
<1>6. CASE UNCHANGED Segments!vars
  <2>1. UNCHANGED <<session, left, bins, rows, current, segments>>
    BY <1>6 DEF Segments!vars
  <2>2. Read' = Read /\ Open' = Open
    BY <2>1 DEF Read, Open
  <2>3. Closed' = Closed
    BY <2>1, RunsKeep
  <2>4. OpenIsRun' = OpenIsRun
    BY <2>1 DEF OpenIsRun, Open, Read, Starts, Segments!NoEvent
  <2>5. SegmentsApart' = SegmentsApart
    BY <2>1 DEF SegmentsApart, Open, Read
  <2>6. BinsInv' /\ RowsInv' /\ (~ Segments!Binning => (~ Segments!Binning)')
    BY <2>1, BinsAndRowsKeep
  <2> QED
    BY <2>1, <2>2, <2>3, <2>4, <2>5, <2>6 DEF SegmentsInv, Segments!NoEvent
<1> QED
  BY <1>1, <1>2, <1>3, <1>4, <1>5, <1>6 DEF Segments!Next

LEMMA EventsAreRuns == GeneratedInv => Segments!SegmentsAreRuns
<1> SUFFICES ASSUME BinsInv, RowsInv, SegmentsInv, Segments!Segmented
             PROVE  /\ \A k \in DOMAIN segments :
                         /\ segments[k].start >= 0 /\ segments[k].end > segments[k].start
                         /\ k > 1 => segments[k - 1].end <= segments[k].start
                    /\ Segments!ToSet(segments) =
                         {Segments!Segment(SubSeq(rows, r[1], r[2])) :
                            r \in {ab \in Segments!LongestRuns : rows[ab[2]].end - rows[ab[1]].start >= MinDuration}}
  BY DEF GeneratedInv, Segments!SegmentsAreRuns
<1> DEFINE n == Len(rows)
<1>1. n \in Nat /\ DOMAIN rows = 1..n /\ Open \in 1..(Read + 1) /\ Read \in 0..n
  BY ReadFacts
<1>2. current.next = n + 2
  <2>1. /\ current.next \in Nat /\ (current.next > 1 => n = Len(bins)) /\ current.next <= n + 2
        /\ current.next = Len(bins) + 2
    BY DEF SegmentsInv, Segments!Segmented
  <2>2. Len(bins) \in Nat
    BY DEF BinsInv
  <2>3. current.next > 1
    BY <2>1, <2>2
  <2> QED
    BY <2>1, <2>3
<1>3. Read = n /\ Open = n + 1
  <2>1. Read = n
    BY <1>2 DEF Read
  <2>2. current.chunk = <<>>
    BY <1>2 DEF SegmentsInv
  <2> QED
    BY <2>1, <2>2, ReadFacts
<1>4. Closed[n + 1] = {Segments!Segment(SubSeq(rows, ab[1], ab[2])) : ab \in Lasting}
  <2>1. \A e \in Lasting : e[2] < n + 1
    <3>1. \A e \in Lasting : e[2] \in 1..n
      BY <1>1 DEF Lasting, Ends
    <3>2. \A b \in 1..n : b < n + 1
      BY <1>1
    <3> QED
      BY <3>1, <3>2
  <2>2. {e \in Lasting : e[2] < n + 1} = Lasting
    BY <2>1
  <2>3. n + 1 \in Nat
    BY <1>1
  <2> QED
    BY <2>2, <2>3 DEF Closed
<1>5. Lasting = {ab \in Segments!LongestRuns : rows[ab[2]].end - rows[ab[1]].start >= MinDuration}
  BY <1>1, EndsAreLongest DEF Lasting
<1>6. Segments!ToSet(segments) = Closed[n + 1]
  BY <1>3 DEF SegmentsInv, Segments!ToSet
<1>7. \A k \in DOMAIN segments :
        /\ segments[k].start >= 0 /\ segments[k].end > segments[k].start
        /\ k > 1 => segments[k - 1].end <= segments[k].start
  BY DEF SegmentsInv, SegmentsApart
<1> QED
  BY <1>4, <1>5, <1>6, <1>7

-----------------------------------------------------------------------------
(* The theorems.                                                            *)

\* What validation accepts is converted unless its scalar baseline or a reordering
\* is bad, and the two directions of a profile are those of the parameters they were
\* made from, however it is calibrated afterwards, for every profile and every policy
\* a command line can give: directional_profile.py, event_profile.py,
\* calibrate_event_delay.py and learn_event_delay.py.
THEOREM DirectionsAreFaithful == Spec => []DirectionsFaithful
<1>1. Init => DocumentInv
  BY InitParts, DocumentInit
<1>2. DocumentInv /\ [Next]_vars => DocumentInv'
  BY NextParts, DocumentNext
<1>3. DocumentInv => DirectionsFaithful
  BY DirectionsShown DEF DirectionsFaithful
<1> QED
  BY <1>1, <1>2, <1>3, PTL DEF Spec

\* Rows learn as documents do but for the jitter, which stays as close as the values
\* it is learned from, both ways of flattening a document agree, and a directional
\* CSV that was written means the same to every reader: learn_event_delay.py,
\* event_profile.py, tc_event_replay_calibrated.py and directional_profile.py.
THEOREM FormsDoAgree == Spec => []FormsAgree
<1>1. Init => DocumentInv
  BY InitParts, DocumentInit
<1>2. DocumentInv /\ [Next]_vars => DocumentInv'
  BY NextParts, DocumentNext
<1>3. DocumentInv => FormsAgree
  BY FormsShown DEF FormsAgree
<1> QED
  BY <1>1, <1>2, <1>3, PTL DEF Spec

\* What the generators make of a measurement is faithful to it, for every
\* session and every series: the bins keep the losses, no rule hides a worse bin,
\* the events are the longest runs, and a correction feeds on itself only in
\* silence: iperf_ping_grpc_to_event_profile.py and
\* starlink_merge_realdata_to_profile.py.
THEOREM GeneratedAreFaithful == Spec => []GeneratedFaithful
<1> DEFINE Inv == GeneratedInv /\ MergedInv
<1>1. Init => Inv
  BY InitParts, GeneratedInit, MergedInit
<1>2. Inv /\ [Next]_vars => Inv'
  BY NextParts, GeneratedNext, MergedNext
<1>3. Inv => GeneratedFaithful
  BY BinsHoldAll, RowsRated, EventsAreRuns, MergedShown DEF GeneratedInv, GeneratedFaithful
<1> QED
  BY <1>1, <1>2, <1>3, PTL DEF Spec

\* A manifest vouches for what is there, for any number of captures, of any
\* kinds and at any times, and of builds, killed at any step: measurement.py,
\* measure_cli.py and visualization/bundle.py.
THEOREM ManifestsHold == Spec => []ManifestsTrue
<1> DEFINE Inv == CaptureInv /\ BundleInv
<1>1. Init => Inv
  BY InitParts, CaptureInit, BundleInit
<1>2. Inv /\ [Next]_vars => Inv'
  BY NextParts, CaptureNext, BundleNext
<1>3. Inv => ManifestsTrue
  BY CaptureShown DEF ManifestsTrue, BundleInv
<1> QED
  BY <1>1, <1>2, <1>3, PTL DEF Spec

\* A profile that loads goes on loading, a directory that verifies changes only
\* through a capture that had found it empty too, and only a forced build
\* touches the files of another.
THEOREM GoodFilesAreKept == Spec => GoodFilesStay
<1> DEFINE Inv == DocumentInv /\ CaptureInv /\ BundleInv
<1>1. Init => Inv
  BY InitParts, DocumentInit, CaptureInit, BundleInit
<1>2. Inv /\ [Next]_vars => Inv'
  BY NextParts, DocumentNext, CaptureNext, BundleNext
<1>3. Inv /\ [Next]_vars => [Document!Loads(file) => Document!Loads(file')]_(Document!vars)
  BY NextParts, DocumentNext
<1>4. Inv /\ [Next]_vars =>
        [Capture!Verifies /\ Capture!Admitted \subseteq {manifest.by} =>
           UNCHANGED <<files, manifest>>]_(Capture!vars)
  BY NextParts, CaptureKeeps
<1>5. Inv /\ [Next]_vars =>
        [\A f \in Bundle!Files : dir[f] # None /\ dir[f].whole /\ dir'[f] # dir[f] =>
           \E b \in Builds : force[b] /\ stage[b] \in {"remove", "write"}]_(Bundle!vars)
  BY NextParts, BundleKeeps
<1> HIDE DEF Inv
<1>6. Spec => Document!StaysLoadable
  BY <1>1, <1>2, <1>3, PTL DEF Spec, Document!StaysLoadable
<1>7. Spec => Capture!Immutable
  BY <1>1, <1>2, <1>4, PTL DEF Spec, Capture!Immutable
<1>8. Spec => Bundle!KeptUnlessForced
  BY <1>1, <1>2, <1>5, PTL DEF Spec, Bundle!KeptUnlessForced
<1> QED
  BY <1>6, <1>7, <1>8 DEF GoodFilesStay
==============================================================================
