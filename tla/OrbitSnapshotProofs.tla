------------------------- MODULE OrbitSnapshotProofs -------------------------
(***************************************************************************)
(* Theorems about OrbitSnapshot, for any number of fetches running at      *)
(* once, any requests and any bounds: the types, no mixture of files, no   *)
(* temporary directory left, and that the directory implements a register  *)
(* of snapshots.  For any number of fetches one after the other, killed    *)
(* anywhere: the refresh limit is kept, a failure does not cost the        *)
(* snapshot, and what is reused answers the request.                       *)
(***************************************************************************)
EXTENDS OrbitSnapshot, FiniteSetTheorems, TLAPS

LEMMA TypeInit == Init => TypeOK
  BY BoundsAssumption, SMT DEF BoundsAssumption, Init, TypeOK, Owners, Points,
     Ended, Files

LEMMA TypeNext == TypeOK /\ [Next]_vars => TypeOK'
<1> SUFFICES ASSUME TypeOK, [Next]_vars PROVE TypeOK'
  OBVIOUS
<1> USE DEF TypeOK, Owners, Points, Ended, Goto, Fail, At, directory, local,
        removal
<1>1. CASE Tick
  BY <1>1, BoundsAssumption DEF BoundsAssumption, Tick
<1>2. ASSUME NEW f \in Fetches, Start(f) PROVE TypeOK'
  BY <1>2 DEF Start
<1>3. ASSUME NEW f \in Fetches, Look(f) PROVE TypeOK'
  BY <1>3 DEF Look
<1>4. ASSUME NEW f \in Fetches, LookAgain(f) PROVE TypeOK'
  BY <1>4 DEF LookAgain
<1>5. ASSUME NEW f \in Fetches, LoadManifest(f) PROVE TypeOK'
  BY <1>5 DEF LoadManifest
<1>6. ASSUME NEW f \in Fetches, VerifyManifest(f) PROVE TypeOK'
  BY <1>6 DEF VerifyManifest, Manifest, Files
<1>7. ASSUME NEW f \in Fetches, VerifyData(f) PROVE TypeOK'
  BY <1>7 DEF VerifyData
<1>8. ASSUME NEW f \in Fetches, CheckAge(f) PROVE TypeOK'
  BY <1>8 DEF CheckAge
<1>9. ASSUME NEW f \in Fetches, Download(f) PROVE TypeOK'
  BY <1>9 DEF Download
<1>10. ASSUME NEW f \in Fetches, BeginWrite(f) PROVE TypeOK'
  BY <1>10, BoundsAssumption DEF BoundsAssumption, BeginWrite
<1>11. ASSUME NEW f \in Fetches, FillTemp(f) PROVE TypeOK'
  BY <1>11 DEF FillTemp
<1>12. ASSUME NEW f \in Fetches, Swap(f) PROVE TypeOK'
  BY <1>12 DEF Swap
<1>13. ASSUME NEW f \in Fetches, Unlink(f) PROVE TypeOK'
  BY <1>13 DEF Unlink
<1>14. ASSUME NEW f \in Fetches, RemoveDirectory(f) PROVE TypeOK'
  BY <1>14 DEF RemoveDirectory
<1>15. ASSUME NEW f \in Fetches, Rename(f) PROVE TypeOK'
  BY <1>15 DEF Rename
<1>16. ASSUME NEW f \in Fetches, Kill(f) PROVE TypeOK'
  BY <1>16 DEF Kill
<1>17. CASE UNCHANGED vars
  BY <1>17 DEF vars
<1> QED
  BY <1>1, <1>2, <1>3, <1>4, <1>5, <1>6, <1>7, <1>8, <1>9, <1>10, <1>11, <1>12,
     <1>13, <1>14, <1>15, <1>16, <1>17 DEF Next, Fetch

\* TypeOK holds of every execution: every step of every fetch keeps the types,
\* and no retrieval time is in the future.
THEOREM SnapshotTypes == Spec => []TypeOK
<1>1. Init => TypeOK
  BY TypeInit
<1>2. TypeOK /\ [Next]_vars => TypeOK'
  BY TypeNext
<1> QED
  BY <1>1, <1>2, PTL DEF Spec

-----------------------------------------------------------------------------
(* The directory: what a step of anybody may do to it.                      *)

Published == {f \in Fetches : pc[f] = "published"}

\* One file goes, the empty directory goes, or a fetch that was not published
\* before renames its own into an empty place; every other step leaves it.
DirectoryStep ==
  \/ UNCHANGED <<directory, Published>>
  \/ /\ UNCHANGED <<home, Published>>
     /\ \E x \in Files : dir' = [dir EXCEPT ![x] = Nobody]
  \/ Empty /\ home' = Nobody /\ UNCHANGED <<dir, Published>>
  \/ \E f \in Fetches \ Published :
       /\ Empty
       /\ home' = f /\ dir' = [x \in Files |-> f]
       /\ Published' = Published \cup {f}

LEMMA EveryStepIsDirectoryStep == TypeOK /\ [Next]_vars => DirectoryStep
<1> SUFFICES ASSUME TypeOK, [Next]_vars PROVE DirectoryStep
  OBVIOUS
<1> USE DEF TypeOK, Published, Ended, Goto, Fail, At, directory
<1>1. CASE Tick
  BY <1>1 DEF Tick, DirectoryStep, local
<1>2. ASSUME NEW f \in Fetches,
             \/ Start(f) \/ Look(f) \/ LookAgain(f) \/ LoadManifest(f)
             \/ VerifyManifest(f) \/ VerifyData(f) \/ CheckAge(f) \/ Download(f)
             \/ BeginWrite(f) \/ FillTemp(f) \/ Swap(f) \/ Kill(f)
      PROVE  DirectoryStep
  <2>1. UNCHANGED directory
    BY <1>2 DEF Start, Look, LookAgain, LoadManifest, VerifyManifest, VerifyData,
       CheckAge, Download, BeginWrite, FillTemp, Swap, Kill
  <2>2. \E point \in Points \ {"published"} : pc' = [pc EXCEPT ![f] = point]
    BY <1>2 DEF Start, Look, LookAgain, LoadManifest, VerifyManifest, VerifyData,
       CheckAge, Download, BeginWrite, FillTemp, Swap, Kill, Points
  <2>3. pc[f] # "published"
    BY <1>2 DEF Start, Look, LookAgain, LoadManifest, VerifyManifest, VerifyData,
       CheckAge, Download, BeginWrite, FillTemp, Swap, Kill, Running
  <2>4. UNCHANGED Published
    BY <2>2, <2>3
  <2> QED
    BY <2>1, <2>4 DEF DirectoryStep
<1>3. ASSUME NEW f \in Fetches, Unlink(f) PROVE DirectoryStep
  <2>1. UNCHANGED Published
    BY <1>3 DEF Unlink
  <2>2. \/ UNCHANGED directory
        \/ UNCHANGED home /\ \E x \in Files : dir' = [dir EXCEPT ![x] = Nobody]
    BY <1>3 DEF Unlink
  <2> QED
    BY <2>1, <2>2 DEF DirectoryStep
<1>4. ASSUME NEW f \in Fetches, RemoveDirectory(f) PROVE DirectoryStep
  <2>1. UNCHANGED Published
    BY <1>4 DEF RemoveDirectory
  <2> QED
    BY <2>1, <1>4 DEF RemoveDirectory, DirectoryStep
<1>5. ASSUME NEW f \in Fetches, Rename(f) PROVE DirectoryStep
  <2>1. f \in Fetches \ Published
    BY <1>5 DEF Rename
  <2>2. CASE Empty
    <3>1. home' = f /\ dir' = [x \in Files |-> f]
          /\ pc' = [pc EXCEPT ![f] = "published"]
      BY <1>5, <2>2 DEF Rename
    <3>2. Published' = Published \cup {f}
      BY <3>1
    <3> QED
      BY <2>1, <2>2, <3>1, <3>2 DEF DirectoryStep
  <2>3. CASE ~ Empty
    <3>1. UNCHANGED directory /\ pc' = [pc EXCEPT ![f] = "failed"]
      BY <1>5, <2>3 DEF Rename
    <3>2. UNCHANGED Published
      BY <2>1, <3>1
    <3> QED
      BY <3>1, <3>2 DEF DirectoryStep
  <2> QED
    BY <2>2, <2>3
<1>6. CASE UNCHANGED vars
  BY <1>6 DEF vars, local, DirectoryStep
<1> QED
  BY <1>1, <1>2, <1>3, <1>4, <1>5, <1>6 DEF Next, Fetch

LEMMA MixtureNext == TypeOK /\ NoMixture /\ DirectoryStep => NoMixture'
<1> SUFFICES ASSUME TypeOK, NoMixture, DirectoryStep PROVE NoMixture'
  OBVIOUS
<1>1. CASE UNCHANGED directory
  BY <1>1 DEF directory, NoMixture
<1>2. ASSUME NEW x \in Files, dir' = [dir EXCEPT ![x] = Nobody], UNCHANGED home
      PROVE  NoMixture'
  BY <1>2 DEF NoMixture, TypeOK
<1>3. CASE Empty /\ UNCHANGED dir
  BY <1>3 DEF NoMixture, Empty
<1>4. ASSUME NEW f \in Fetches, home' = f, dir' = [x \in Files |-> f]
      PROVE  NoMixture'
  BY <1>4 DEF NoMixture
<1> QED
  BY <1>1, <1>2, <1>3, <1>4 DEF DirectoryStep

\* However many fetches interleave, fail and are killed, the directory never
\* holds files of two of them.
THEOREM NeverMixed == Spec => []NoMixture
<1> DEFINE Inv == TypeOK /\ NoMixture
<1>1. Init => Inv
  BY TypeInit DEF Init, NoMixture
<1>2. Inv /\ [Next]_vars => Inv'
  BY TypeNext, EveryStepIsDirectoryStep, MixtureNext
<1>3. Inv => NoMixture
  OBVIOUS
<1> QED
  BY <1>1, <1>2, <1>3, PTL DEF Spec

-----------------------------------------------------------------------------
(* The temporary directory.                                                 *)

\* It exists only between its making and its end: the inductive form of
\* NoTempLeft, which says nothing of a fetch that is still on its way.
TempWhileWriting ==
  \A f \in Fetches :
    temp[f] # "none" => pc[f] \in {"fill", "swap", "remove", "rename", "killed"}

LEMMA TempNext == TypeOK /\ TempWhileWriting /\ [Next]_vars => TempWhileWriting'
<1> SUFFICES ASSUME TypeOK, TempWhileWriting, [Next]_vars
             PROVE  TempWhileWriting'
  OBVIOUS
<1> USE DEF TypeOK, TempWhileWriting, Goto, Fail, At, Ended
<1>1. CASE Tick
  BY <1>1 DEF Tick, local
<1>2. ASSUME NEW f \in Fetches,
             \/ Start(f) \/ Look(f) \/ LookAgain(f) \/ LoadManifest(f)
             \/ VerifyManifest(f) \/ VerifyData(f) \/ CheckAge(f) \/ Download(f)
      PROVE  TempWhileWriting'
  <2>1. temp[f] = "none" /\ UNCHANGED temp
    BY <1>2 DEF Start, Look, LookAgain, LoadManifest, VerifyManifest, VerifyData,
       CheckAge, Download
  <2>2. \A g \in Fetches \ {f} : pc'[g] = pc[g]
    BY <1>2 DEF Start, Look, LookAgain, LoadManifest, VerifyManifest, VerifyData,
       CheckAge, Download
  <2> QED
    BY <2>1, <2>2
<1>3. ASSUME NEW f \in Fetches, BeginWrite(f) PROVE TempWhileWriting'
  BY <1>3 DEF BeginWrite
<1>4. ASSUME NEW f \in Fetches, FillTemp(f) PROVE TempWhileWriting'
  BY <1>4 DEF FillTemp
<1>5. ASSUME NEW f \in Fetches, Swap(f) PROVE TempWhileWriting'
  BY <1>5 DEF Swap
<1>6. ASSUME NEW f \in Fetches, Unlink(f) PROVE TempWhileWriting'
  BY <1>6 DEF Unlink
<1>7. ASSUME NEW f \in Fetches, RemoveDirectory(f) PROVE TempWhileWriting'
  BY <1>7 DEF RemoveDirectory
<1>8. ASSUME NEW f \in Fetches, Rename(f) PROVE TempWhileWriting'
  BY <1>8 DEF Rename
<1>9. ASSUME NEW f \in Fetches, Kill(f) PROVE TempWhileWriting'
  BY <1>9 DEF Kill
<1>10. CASE UNCHANGED vars
  BY <1>10 DEF vars, local
<1> QED
  BY <1>1, <1>2, <1>3, <1>4, <1>5, <1>6, <1>7, <1>8, <1>9, <1>10 DEF Next, Fetch

\* Whatever fails, and however the fetches interleave, only a kill leaves a
\* temporary directory behind.
THEOREM TempCleaned == Spec => []NoTempLeft
<1> DEFINE Inv == TypeOK /\ TempWhileWriting
<1>1. Init => Inv
  BY TypeInit DEF Init, TempWhileWriting
<1>2. Inv /\ [Next]_vars => Inv'
  BY TypeNext, TempNext
<1>3. Inv => NoTempLeft
  BY DEF TempWhileWriting, NoTempLeft, Ended
<1> QED
  BY <1>1, <1>2, <1>3, PTL DEF Spec

-----------------------------------------------------------------------------
(* The refinement: Held and Published are the register's two variables.     *)

LEMMA HeldWhenEmpty == TypeOK /\ Empty => Held = Nobody
  BY DEF Held, Empty, Present, Files, TypeOK

LEMMA RegisterStep ==
  TypeOK /\ NoMixture /\ DirectoryStep =>
    [Register!Next]_<<Held, {f \in Fetches : pc[f] = "published"}>>
<1> SUFFICES ASSUME TypeOK, NoMixture, DirectoryStep
             PROVE  Register!Next \/ UNCHANGED <<Held, Published>>
  BY DEF Published
<1>1. CASE UNCHANGED <<directory, Published>>
  BY <1>1 DEF directory, Held, Present
<1>2. ASSUME NEW x \in Files, dir' = [dir EXCEPT ![x] = Nobody],
             UNCHANGED <<home, Published>>
      PROVE  Register!Next \/ UNCHANGED <<Held, Published>>
  <2>1. Held' = Nobody
    BY <1>2 DEF Held, Present, TypeOK
  <2>2. CASE Held = Nobody
    BY <1>2, <2>1, <2>2
  <2>3. CASE Held # Nobody
    BY <1>2, <2>1, <2>3 DEF Register!Next, Register!Withdraw, Published
  <2> QED
    BY <2>2, <2>3
<1>3. CASE Empty /\ home' = Nobody /\ UNCHANGED <<dir, Published>>
  <2>1. Held = Nobody
    BY <1>3, HeldWhenEmpty
  <2>2. Held' = Nobody
    BY <1>3 DEF Held, Present
  <2> QED
    BY <1>3, <2>1, <2>2
<1>4. ASSUME NEW f \in Fetches \ Published, Empty,
             home' = f, dir' = [x \in Files |-> f],
             Published' = Published \cup {f}
      PROVE  Register!Next
  <2>1. Held = Nobody
    BY <1>4, HeldWhenEmpty
  <2>2. Held' = f
    BY <1>4, NobodyAssumption DEF NobodyAssumption, Held, Present
  <2>3. Register!Put(f)
    BY <1>4, <2>1, <2>2 DEF Register!Put, Published
  <2> QED
    BY <2>3 DEF Register!Next
<1> QED
  BY <1>1, <1>2, <1>3, <1>4 DEF DirectoryStep

\* Every execution of the fetches is one of the register: a reader never finds
\* a snapshot that replaced another directly, nor one that came back.
THEOREM ImplementsRegister == Spec => IsRegister
<1> DEFINE Inv == TypeOK /\ NoMixture
<1>1. Init => Inv /\ Register!Init
  <2> SUFFICES ASSUME Init PROVE Inv /\ Register!Init
    OBVIOUS
  <2>1. Inv
    BY TypeInit DEF Init, NoMixture
  <2>2. Held = Nobody
    BY DEF Init, Held, Present
  <2>3. {f \in Fetches : pc[f] = "published"} = {}
    BY DEF Init
  <2> QED
    BY <2>1, <2>2, <2>3 DEF Register!Init
<1>2. Inv /\ [Next]_vars => Inv'
  BY TypeNext, EveryStepIsDirectoryStep, MixtureNext
<1>3. Inv /\ [Next]_vars =>
        [Register!Next]_<<Held, {f \in Fetches : pc[f] = "published"}>>
  BY EveryStepIsDirectoryStep, RegisterStep
<1> QED
  BY <1>1, <1>2, <1>3, PTL DEF Spec, IsRegister, Register!Spec

-----------------------------------------------------------------------------
(* One fetch at a time, any of them killed anywhere: what a fetch found is  *)
(* still so when it acts on it.                                             *)

OneAtATime == MaxRunning = 1

Alone == \A f, g \in Running : f = g

\* What the fetch knows of the directory at each of its steps.
KnowsMatch(f) ==
  /\ pc[f] = "exists" => ~ Matches(f)
  /\ pc[f] \in {"load", "verify", "verify_data"} => Matches(f)
  /\ pc[f] = "verify_data" => manifest[f] = Manifest

KnowsAge(f) ==
  pc[f] = "download" /\ Matches(f) /\ Asks(f) \in Celestrak /\ ~ cmd[f].override
    => clock - retrieved[Manifest] >= Refresh

KnowsDirectory(f) ==
  /\ pc[f] = "remove" => /\ Present /\ opened[f] = home
                         /\ listing[f] = {x \in Files : dir[x] # Nobody}
  /\ pc[f] = "rename" => Empty

KnownInv == \A f \in Fetches : KnowsMatch(f) /\ KnowsAge(f) /\ KnowsDirectory(f)

\* A snapshot that was published is there, unless a fetch is replacing it or was
\* killed.
KeptInv ==
  /\ \A f \in Fetches : pc[f] \notin {"remove", "rename", "killed"}
  /\ \E f \in Fetches : pc[f] = "published"
  => Held # Nobody

SequentialInv == TypeOK /\ NoMixture /\ Alone /\ KnownInv /\ KeptInv

\* A step of one fetch is a step of a running one, and leaves the others alone.
LEMMA OthersRest ==
  ASSUME TypeOK, NEW f \in Fetches, Fetch(f) \/ Kill(f)
  PROVE  f \in Running /\ \A g \in Fetches \ {f} : pc'[g] = pc[g] /\ cmd' = cmd
<1> USE DEF TypeOK, Running, Ended, Goto, Fail, At, local
<1>1. CASE Look(f) \/ LookAgain(f) \/ LoadManifest(f) \/ VerifyManifest(f)
           \/ VerifyData(f) \/ CheckAge(f) \/ Download(f)
  BY <1>1 DEF Look, LookAgain, LoadManifest, VerifyManifest, VerifyData, CheckAge, Download
<1>2. CASE BeginWrite(f) \/ FillTemp(f) \/ Swap(f)
  BY <1>2 DEF BeginWrite, FillTemp, Swap
<1>3. CASE Unlink(f) \/ RemoveDirectory(f) \/ Rename(f)
  BY <1>3 DEF Unlink, RemoveDirectory, Rename
<1>4. CASE Kill(f)
  BY <1>4 DEF Kill
<1> QED
  BY <1>1, <1>2, <1>3, <1>4 DEF Fetch

LEMMA AloneNext ==
  TypeOK /\ OneAtATime /\ Alone /\ [Next]_vars => Alone'
<1> SUFFICES ASSUME TypeOK, OneAtATime, Alone, [Next]_vars PROVE Alone'
  OBVIOUS
<1> USE DEF TypeOK, Alone
<1>1. ASSUME NEW f \in Fetches, Start(f) PROVE Alone'
  <2>1. Running = {}
    <3> SUFFICES ASSUME NEW g \in Running PROVE FALSE
      OBVIOUS
    <3>1. Running = {g}
      OBVIOUS
    <3>2. Cardinality(Running) = 1
      BY <3>1, FS_Singleton
    <3> QED
      BY <1>1, <3>2 DEF Start, OneAtATime
  <2>2. \A g \in Fetches \ {f} : pc'[g] = pc[g]
    BY <1>1 DEF Start, Goto
  <2> QED
    BY <2>1, <2>2 DEF Running
<1>2. ASSUME Running' \subseteq Running PROVE Alone'
  BY <1>2
<1>3. ASSUME NEW f \in Fetches, f \in Running, \A g \in Fetches \ {f} : pc'[g] = pc[g]
      PROVE  Alone'
  BY <1>3 DEF Running
<1>4. CASE Tick \/ UNCHANGED vars
  BY <1>2, <1>4 DEF Tick, vars, local, Running
<1>5. ASSUME NEW f \in Fetches, Fetch(f) \/ Kill(f) PROVE Alone'
  BY <1>2, <1>3, <1>5, OthersRest
<1> QED
  BY <1>1, <1>4, <1>5 DEF Next

\* A step of a fetch is taken while no other one runs.
LEMMA OthersEnded ==
  ASSUME TypeOK, Alone, NEW f \in Fetches, Fetch(f), NEW g \in Fetches \ {f}
  PROVE  pc[g] \in Ended \cup {"idle"} /\ pc'[g] = pc[g]
  BY OthersRest DEF Alone, Running

\* Nothing is known by a fetch that does not run.
LEMMA KnownIfEnded ==
  ASSUME NEW g \in Fetches, pc[g] \in Ended \cup {"idle"}
  PROVE  KnowsMatch(g) /\ KnowsAge(g) /\ KnowsDirectory(g)
  BY DEF Ended, KnowsMatch, KnowsAge, KnowsDirectory

LEMMA AgeIsNumber ==
  ASSUME TypeOK, Manifest # Nobody
  PROVE  retrieved[Manifest] \in Int /\ clock \in Int
<1>1. Manifest \in Fetches
  BY DEF TypeOK, Owners, Manifest, Files
<1> QED
  BY <1>1 DEF TypeOK

\* The steps that only look, ask or write beside the directory.
LEMMA LookingKnows ==
  ASSUME TypeOK, NoMixture, Alone, KnownInv, NEW f \in Fetches,
         \/ Look(f) \/ LookAgain(f) \/ LoadManifest(f) \/ VerifyManifest(f)
         \/ VerifyData(f) \/ CheckAge(f) \/ Download(f) \/ BeginWrite(f) \/ FillTemp(f)
  PROVE  KnowsMatch(f)' /\ KnowsAge(f)' /\ KnowsDirectory(f)'
<1> USE DEF TypeOK, KnownInv, KnowsMatch, KnowsAge, KnowsDirectory, Goto, At, Matches,
        Asks, Manifest, Present, directory, local, removal
<1>1. CASE Look(f)
  BY <1>1 DEF Look
<1>2. CASE LookAgain(f)
  BY <1>2 DEF LookAgain
<1>3. CASE LoadManifest(f)
  BY <1>3 DEF LoadManifest
<1>4. CASE VerifyManifest(f)
  BY <1>4 DEF VerifyManifest
<1>5. CASE VerifyData(f)
  BY <1>5 DEF VerifyData
<1>6. CASE CheckAge(f)
  <2>1. CASE pc'[f] # "download"
    BY <1>6, <2>1 DEF CheckAge
  <2>2. CASE pc'[f] = "download"
    <3>1. Manifest # Nobody /\ ~ TooYoung(f)
      BY <1>6, <2>2 DEF CheckAge
    <3>2. ~ cmd[f].override => clock - retrieved[Manifest] >= Refresh
      BY <3>1, AgeIsNumber, BoundsAssumption DEF TooYoung, BoundsAssumption
    <3> QED
      BY <1>6, <2>2, <3>2 DEF CheckAge
  <2> QED
    BY <2>1, <2>2
<1>7. CASE Download(f)
  BY <1>7 DEF Download
<1>8. CASE BeginWrite(f)
  BY <1>8 DEF BeginWrite
<1>9. CASE FillTemp(f)
  BY <1>9 DEF FillTemp, Fail
<1> QED
  BY <1>1, <1>2, <1>3, <1>4, <1>5, <1>6, <1>7, <1>8, <1>9

\* The steps that replace the directory.
LEMMA ReplacingKnows ==
  ASSUME TypeOK, NoMixture, Alone, KnownInv, NEW f \in Fetches,
         Swap(f) \/ Unlink(f) \/ RemoveDirectory(f) \/ Rename(f)
  PROVE  KnowsMatch(f)' /\ KnowsAge(f)' /\ KnowsDirectory(f)'
<1> USE DEF TypeOK, KnownInv, KnowsMatch, KnowsAge, KnowsDirectory, Goto, At, Fail,
        directory, local, removal
<1>1. CASE Swap(f)
  BY <1>1 DEF Swap, Present, NoMixture, Empty
<1>2. CASE Unlink(f)
  <2>1. pc[f] = "remove" /\ Present /\ opened[f] = home
        /\ listing[f] = {x \in Files : dir[x] # Nobody}
    BY <1>2 DEF Unlink
  <2>2. PICK x \in listing[f] :
          /\ dir' = [dir EXCEPT ![x] = Nobody]
          /\ listing' = [listing EXCEPT ![f] = @ \ {x}]
          /\ UNCHANGED <<pc, temp>>
    BY <1>2, <2>1 DEF Unlink
  <2>3. listing'[f] = {y \in Files : dir'[y] # Nobody}
    BY <2>1, <2>2
  <2> QED
    BY <1>2, <2>1, <2>2, <2>3 DEF Unlink, Present
<1>3. CASE RemoveDirectory(f)
  BY <1>3 DEF RemoveDirectory, Empty
<1>4. CASE Rename(f)
  BY <1>4 DEF Rename
<1> QED
  BY <1>1, <1>2, <1>3, <1>4

LEMMA KnownNext ==
  TypeOK /\ NoMixture /\ Alone /\ KnownInv /\ [Next]_vars => KnownInv'
<1> SUFFICES ASSUME TypeOK, NoMixture, Alone, KnownInv, [Next]_vars PROVE KnownInv'
  OBVIOUS
<1>1. ASSUME NEW f \in Fetches, Fetch(f) PROVE KnownInv'
  <2>1. KnowsMatch(f)' /\ KnowsAge(f)' /\ KnowsDirectory(f)'
    BY <1>1, LookingKnows, ReplacingKnows DEF Fetch
  <2>2. ASSUME NEW g \in Fetches \ {f}
        PROVE  KnowsMatch(g)' /\ KnowsAge(g)' /\ KnowsDirectory(g)'
    <3>1. pc'[g] \in Ended \cup {"idle"}
      BY <1>1, OthersEnded
    <3> QED
      BY <3>1 DEF Ended, KnowsMatch, KnowsAge, KnowsDirectory
  <2> QED
    BY <2>1, <2>2 DEF KnownInv
<1>2. ASSUME NEW f \in Fetches, Start(f) \/ Kill(f) PROVE KnownInv'
  BY <1>2 DEF TypeOK, KnownInv, KnowsMatch, KnowsAge, KnowsDirectory, Start, Kill, Goto,
     Matches, Asks, Manifest, Present, Empty, directory, local, removal
<1>3. CASE Tick
  <2>1. UNCHANGED <<home, dir, pc, cmd, manifest, opened, listing, retrieved>>
        /\ clock' = clock + 1
    BY <1>3 DEF Tick, directory, local
  <2>2. \A f \in Fetches : Matches(f)' = Matches(f) /\ Asks(f)' = Asks(f)
    BY <2>1 DEF Matches, Asks, Manifest, Present
  <2>3. Manifest' = Manifest /\ Empty' = Empty /\ Present' = Present
    BY <2>1 DEF Manifest, Present, Empty
  <2>4. Manifest # Nobody /\ clock - retrieved[Manifest] >= Refresh
          => clock' - retrieved'[Manifest'] >= Refresh
    BY <2>1, <2>3, AgeIsNumber, BoundsAssumption DEF BoundsAssumption
  <2> QED
    BY <2>1, <2>2, <2>3, <2>4 DEF KnownInv, KnowsMatch, KnowsAge, KnowsDirectory, Matches
<1>4. CASE UNCHANGED vars
  BY <1>4 DEF KnownInv, KnowsMatch, KnowsAge, KnowsDirectory, vars, Matches, Asks, Manifest,
     Present, Empty, directory, local
<1> QED
  BY <1>1, <1>2, <1>3, <1>4 DEF Next

LEMMA HeldIsManifest ==
  ASSUME TypeOK, NoMixture, Held # Nobody
  PROVE  Held = Manifest /\ Manifest = home
  BY DEF Held, Manifest, Files, Present

LEMMA KeptNext ==
  TypeOK /\ NoMixture /\ Alone /\ KnownInv /\ KeptInv /\ [Next]_vars => KeptInv'
<1> SUFFICES ASSUME TypeOK, NoMixture, Alone, KnownInv, KeptInv, [Next]_vars
             PROVE  KeptInv'
  OBVIOUS
<1> USE DEF TypeOK, KeptInv, Goto, At
<1>1. ASSUME NEW f \in Fetches, pc' = [pc EXCEPT ![f] = pc'[f]], UNCHANGED directory,
             pc[f] \notin {"remove", "rename", "killed"}, pc'[f] # "published"
      PROVE  KeptInv'
  BY <1>1 DEF Held, Present, directory
<1>2. ASSUME NEW f \in Fetches,
             \/ Look(f) \/ LookAgain(f) \/ LoadManifest(f) \/ VerifyManifest(f)
             \/ VerifyData(f) \/ CheckAge(f) \/ Download(f) \/ BeginWrite(f)
             \/ FillTemp(f) \/ Swap(f) \/ Start(f)
      PROVE  KeptInv'
  <2>1. pc' = [pc EXCEPT ![f] = pc'[f]] /\ UNCHANGED directory
        /\ pc[f] \notin {"remove", "rename", "killed"} /\ pc'[f] # "published"
    BY <1>2 DEF Look, LookAgain, LoadManifest, VerifyManifest, VerifyData, CheckAge,
       Download, BeginWrite, FillTemp, Swap, Start, Fail, directory
  <2> QED
    BY <1>1, <2>1
<1>3. ASSUME NEW f \in Fetches, Unlink(f) PROVE KeptInv'
  <2>1. pc[f] = "remove" /\ UNCHANGED pc
    BY <1>3 DEF Unlink, KnownInv, KnowsDirectory
  <2> QED
    BY <2>1
<1>4. ASSUME NEW f \in Fetches, RemoveDirectory(f) PROVE KeptInv'
  <2>1. pc'[f] = "rename"
    BY <1>4 DEF RemoveDirectory, KnownInv, KnowsDirectory, Empty
  <2> QED
    BY <2>1
<1>5. ASSUME NEW f \in Fetches, Rename(f) PROVE KeptInv'
  <2>1. Empty
    BY <1>5 DEF Rename, KnownInv, KnowsDirectory
  <2>2. Held' = f
    BY <1>5, <2>1, NobodyAssumption DEF Rename, Held, Present, NobodyAssumption
  <2> QED
    BY <2>2, NobodyAssumption DEF NobodyAssumption
<1>6. ASSUME NEW f \in Fetches, Kill(f) PROVE KeptInv'
  BY <1>6 DEF Kill
<1>7. CASE Tick \/ UNCHANGED vars
  BY <1>7 DEF Tick, vars, directory, local, Held, Present
<1> QED
  BY <1>2, <1>3, <1>4, <1>5, <1>6, <1>7 DEF Next, Fetch

LEMMA SequentialInit == Init => SequentialInv
  BY TypeInit DEF Init, SequentialInv, NoMixture, Alone, Running, KnownInv, KnowsMatch,
     KnowsAge, KnowsDirectory, KeptInv

LEMMA SequentialNext ==
  OneAtATime /\ SequentialInv /\ [Next]_vars => SequentialInv'
  BY TypeNext, EveryStepIsDirectoryStep, MixtureNext, AloneNext, KnownNext, KeptNext
     DEF SequentialInv

\* Fetches one at a time, any number, each killed or failing anywhere: CelesTrak
\* is not asked for what a snapshot younger than Refresh holds, unless told to.
THEOREM RefreshIsLimited == OneAtATime /\ Spec => []RefreshPolicy
<1> SUFFICES ASSUME OneAtATime PROVE Spec => []RefreshPolicy
  OBVIOUS
<1>0. SequentialInv /\ [Next]_vars => SequentialInv'
  BY SequentialNext
<1>1. SequentialInv => RefreshPolicy
  BY HeldIsManifest DEF SequentialInv, KnownInv, KnowsAge, RefreshPolicy, Matches
<1> QED
  BY <1>0, <1>1, SequentialInit, PTL DEF Spec

\* Fetches one at a time: a refused or failed one does not cost the snapshot.
THEOREM FailureKeepsSnapshot == OneAtATime /\ Spec => []SurvivesFailure
<1> SUFFICES ASSUME OneAtATime PROVE Spec => []SurvivesFailure
  OBVIOUS
<1>0. SequentialInv /\ [Next]_vars => SequentialInv'
  BY SequentialNext
<1>1. SequentialInv => SurvivesFailure
  <2> SUFFICES ASSUME SequentialInv, Running = {}, \A f \in Fetches : pc[f] # "killed",
                      \E f \in Fetches : pc[f] = "published"
               PROVE  Held # Nobody
    BY DEF SurvivesFailure
  <2>1. \A f \in Fetches : pc[f] \notin {"remove", "rename"}
    BY DEF Running, Ended
  <2> QED
    BY <2>1 DEF SequentialInv, KeptInv
<1> QED
  BY <1>0, <1>1, SequentialInit, PTL DEF Spec

\* Fetches one at a time, any of them killed inside rmtree: what is reused is a
\* whole snapshot of the request that asks.
THEOREM ReuseIsAnswered == OneAtATime /\ Spec => ReusedAnswers
<1> SUFFICES ASSUME OneAtATime PROVE Spec => ReusedAnswers
  OBVIOUS
<1>0. SequentialInv /\ [Next]_vars => SequentialInv'
  BY SequentialNext
<1> DEFINE Answered ==
      \A f \in Fetches :
        pc[f] # "reused" /\ pc'[f] = "reused" =>
          Held # Nobody /\ cmd[Held].request = Asks(f)
<1>1. SequentialInv /\ [Next]_vars => [Answered]_vars
  <2> SUFFICES ASSUME SequentialInv, Next, NEW f \in Fetches,
                      pc[f] # "reused", pc'[f] = "reused"
               PROVE  Held # Nobody /\ cmd[Held].request = Asks(f)
    OBVIOUS
  <2> USE DEF SequentialInv, TypeOK
  <2>1. Fetch(f)
    <3>1. ~ Tick
      BY DEF Tick, local
    <3>2. ASSUME NEW g \in Fetches, Start(g) \/ Kill(g) PROVE FALSE
      BY <3>2 DEF Start, Kill, Goto
    <3>3. ASSUME NEW g \in Fetches \ {f}, Fetch(g) PROVE FALSE
      BY <3>3, OthersRest
    <3> QED
      BY <3>1, <3>2, <3>3 DEF Next
  <2>2. VerifyData(f) /\ DataMatches(f)
    BY <2>1 DEF Fetch, Look, LookAgain, LoadManifest, VerifyManifest, VerifyData,
       CheckAge, Download, BeginWrite, FillTemp, Swap, Unlink, RemoveDirectory, Rename,
       Fail, Goto, At
  <2>3. Matches(f) /\ manifest[f] = Manifest
    BY <2>2 DEF VerifyData, At, KnownInv, KnowsMatch
  <2>4. dir["manifest"] = home /\ dir["data"] = home /\ Present
    BY <2>2, <2>3 DEF DataMatches, Matches, Manifest, NoMixture, Files
  <2> QED
    BY <2>3, <2>4 DEF Held, Files, Matches, Manifest, Present
<1> QED
  BY <1>0, <1>1, SequentialInit, PTL DEF Spec, ReusedAnswers
=============================================================================
