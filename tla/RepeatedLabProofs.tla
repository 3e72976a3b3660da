--------------------------- MODULE RepeatedLabProofs ---------------------------
(***************************************************************************)
(* Evaluations one at a time, in any number, of any number of repetitions  *)
(* each, failing and being killed wherever they may: what is collected for *)
(* a run is of that run, every measurement is made under the condition it  *)
(* is reported for, and a runner that reports success has everything.      *)
(*                                                                         *)
(* The processes of an evaluation are kept apart by where they are:        *)
(* WorkInv says whose test and whose replay can still act.  ConditionInv   *)
(* and FilesInv then follow the router and the shared files through one    *)
(* test, since only one evaluation works on them, and ResultsInv what is   *)
(* copied to the result directory.  TrialInv and RunsInv say what is left  *)
(* of that where a replay outlives its test and the lab is kept, which is  *)
(* enough for ProgressInv: the files of a runner that reports success.     *)
(***************************************************************************)
EXTENDS RepeatedLab, FiniteSetTheorems, TLAPS

\* The lab is used by one runner at a time, whose test dies with it.
OneAtATime == MaxRunning = 1 /\ ~ OrphanTests /\ IsFiniteSet(Evaluations)

Indexed ==
  /\ DOMAIN runner = Evaluations /\ DOMAIN run = Evaluations
  /\ DOMAIN kind = Evaluations /\ DOMAIN test = Evaluations
  /\ DOMAIN replay = Evaluations

\* Each test goes through its own steps.
Phased ==
  \A e \in Evaluations :
    /\ kind[e] \in {"fixed", "profile"}
    /\ test[e] \in {"baseline", "shape", "other", "measure"} => kind[e] = "fixed"
    /\ test[e] \in {"ping", "replay"} => kind[e] = "profile"

\* Only the evaluation that runs has a test, and only while it waits for it.
TestsOwned ==
  /\ \A e, f \in Running : e = f
  /\ \A e \in Evaluations : test[e] \in Testing => runner[e] = "await"

\* A replay still at work was started by that test, or by one killed since.
ReplaysOwned ==
  \A e \in Evaluations : replay[e] \in Replaying =>
    /\ kind[e] = "profile"
    /\ \/ runner[e] \in {"killed", "stranded"}
       \/ runner[e] = "await" /\ test[e] \in {"replay", "failed"}

WorkInv == Indexed /\ Phased /\ TestsOwned /\ ReplaysOwned

-----------------------------------------------------------------------------
(* Who works.                                                               *)

LEMMA InitWork == Init => WorkInv
BY DEF Init, WorkInv, Indexed, Phased, TestsOwned, ReplaysOwned, Running, Stopped,
       Testing, Replaying, Directions

\* What the step of a test leaves alone.
LEMMA TestStepFrame ==
  ASSUME WorkInv, NEW e \in Evaluations, TestStep(e)
  PROVE  /\ test[e] \in Testing /\ runner[e] = "await"
         /\ UNCHANGED <<keep, runner, run, kind, outcome>>
         /\ Indexed'
         /\ \A f \in Evaluations \ {e} :
              test'[f] = test[f] /\ (replay'[f] = replay[f] \/ replay'[f] = "broken")
<1> USE DEF TestStep, StartLab, ClearOld, MeasureBaseline, Shape, MeasureImpaired,
            StartReplay, AwaitReplay, Verify, Finish, TestFails, TerminateTest
<1>1. /\ test[e] \in Testing /\ runner[e] = "await"
      /\ UNCHANGED <<keep, runner, run, kind, outcome>>
  BY DEF Testing, WorkInv, TestsOwned
<1>2. Indexed' /\ \A f \in Evaluations \ {e} : test'[f] = test[f]
  BY DEF SetTest, SetReplay, FinishLab, ClearOnly, TakeDown, WorkInv, Indexed
<1>3. \A f \in Evaluations \ {e} : replay'[f] = replay[f] \/ replay'[f] = "broken"
  BY DEF SetReplay, FinishLab, ClearOnly, TakeDown, WorkInv, Indexed
<1> QED
  BY <1>1, <1>2, <1>3

LEMMA TestStepWork ==
  ASSUME WorkInv, NEW e \in Evaluations, TestStep(e)
  PROVE  WorkInv'
<1>1. Phased'
  BY TestStepFrame
     DEF TestStep, StartLab, ClearOld, MeasureBaseline, Shape, MeasureImpaired, StartReplay,
         AwaitReplay, Verify, Finish, TestFails, TerminateTest, SetTest, WorkInv, Indexed, Phased
<1>2. TestsOwned'
  BY TestStepFrame DEF WorkInv, TestsOwned, Running
<1>3. ReplaysOwned'
  <2>1. replay'[e] \in Replaying => kind[e] = "profile" /\ test'[e] \in {"replay", "failed"}
    <3>1. CASE StartReplay(e)
      BY <3>1 DEF StartReplay, SetTest, WorkInv, Indexed, Phased
    <3>2. CASE ~ StartReplay(e)
      <4>1. replay'[e] \in Replaying => replay[e] \in Replaying
        BY <3>2 DEF TestStep, StartLab, ClearOld, MeasureBaseline, Shape, MeasureImpaired,
                    AwaitReplay, Verify, Finish, TestFails, TerminateTest, FinishLab,
                    ClearOnly, TakeDown, WorkInv,
                    Indexed, Replaying, Directions
      <4>2. replay[e] \in Replaying => kind[e] = "profile" /\ test[e] = "replay"
        BY TestStepFrame DEF WorkInv, ReplaysOwned, Testing
      <4>3. test[e] = "replay" => test'[e] = "failed" \/ replay[e] \notin Replaying
        BY <3>2 DEF TestStep, StartLab, ClearOld, MeasureBaseline, Shape, MeasureImpaired,
                    AwaitReplay, Verify, Finish, TestFails, TerminateTest, SetTest, WorkInv, Indexed,
                    Replaying, Directions
      <4> QED
        BY <4>1, <4>2, <4>3
    <3> QED
      BY <3>1, <3>2
  <2> QED
    BY <2>1, TestStepFrame DEF WorkInv, ReplaysOwned, Replaying, Directions
<1> QED
  BY <1>1, <1>2, <1>3, TestStepFrame DEF WorkInv

LEMMA ReplayStepWork ==
  ASSUME WorkInv, NEW e \in Evaluations, ReplayStep(e)
  PROVE  WorkInv' /\ UNCHANGED <<keep, artifacts, runner, run, kind, test, outcome>>
<1>1. UNCHANGED <<keep, artifacts, runner, run, kind, test, outcome>>
  BY DEF ReplayStep, OpenLog, ApplyAndLog, ReplayFails
<1>2. replay[e] \in Replaying
  BY DEF ReplayStep, OpenLog, ApplyAndLog, ReplayFails, Replaying
<1>3. DOMAIN replay' = Evaluations /\ \A f \in Evaluations \ {e} : replay'[f] = replay[f]
  BY DEF ReplayStep, OpenLog, ApplyAndLog, ReplayFails, SetReplay, WorkInv, Indexed
<1> QED
  BY <1>1, <1>2, <1>3 DEF WorkInv, Indexed, Phased, TestsOwned, ReplaysOwned, Running

\* Nobody runs where one more may start.
LEMMA NoneRunning ==
  ASSUME OneAtATime, Cardinality(Running) < MaxRunning PROVE Running = {}
<1>1. IsFiniteSet(Running) /\ Cardinality(Running) \in Nat
  BY FS_Subset, FS_CardinalityType DEF OneAtATime, Running
<1> QED
  BY <1>1, FS_EmptySet DEF OneAtATime

\* A step of a runner leaves the others alone; only RunTest starts a test, and a
\* replay of the evaluation still at work after the step is stranded.
LEMMA RunnerStepFrame ==
  ASSUME OneAtATime, WorkInv, NEW e \in Evaluations, RunnerStep(e)
  PROVE  /\ keep' = keep
         /\ Indexed'
         /\ \A f \in Evaluations \ {e} :
              /\ runner'[f] = runner[f] /\ run'[f] = run[f] /\ kind'[f] = kind[f]
              /\ test'[f] = test[f] /\ (replay'[f] = replay[f] \/ replay'[f] = "broken")
         /\ \/ /\ runner[e] \in {"fixed", "profile"} /\ kind'[e] = runner[e]
               /\ test'[e] = "up" /\ runner'[e] = "await"
            \/ /\ kind'[e] = kind[e] /\ test'[e] = test[e] /\ runner'[e] # "await"
               /\ test[e] \notin Testing
         /\ runner[e] \notin {"killed", "stranded"}
         /\ replay'[e] \in Replaying =>
              runner'[e] = "stranded" /\ replay[e] \in Replaying /\ e \in Running
<1>1. keep' = keep
  BY DEF RunnerStep, Refuse, Begin, RunTest, TestEnded, TakeFixed, TakeProfile, Take, TakeLog,
         Summarize, CreateManifest, VerifyManifest, RunnerFails, shared
<1>2. Indexed' /\ \A f \in Evaluations \ {e} :
              /\ runner'[f] = runner[f] /\ run'[f] = run[f] /\ kind'[f] = kind[f]
              /\ test'[f] = test[f] /\ (replay'[f] = replay[f] \/ replay'[f] = "broken")
  BY DEF RunnerStep, Refuse, Begin, RunTest, TestEnded, TakeFixed, TakeProfile, Take, TakeLog,
         Summarize, CreateManifest, VerifyManifest, RunnerFails, Exit, SetRunner, SetTest,
         ClearOnly, TakeDown, WorkInv, Indexed
<1>3. CASE RunTest(e)
  <2>1. /\ runner[e] \in {"fixed", "profile"} /\ kind'[e] = runner[e]
        /\ test'[e] = "up" /\ runner'[e] = "await" /\ replay'[e] = replay[e]
    BY <1>3 DEF RunTest, SetTest, SetRunner, WorkInv, Indexed
  <2> QED
    BY <1>1, <1>2, <2>1 DEF WorkInv, ReplaysOwned
<1>4. CASE ~ RunTest(e)
  <2>1. /\ kind'[e] = kind[e] /\ test'[e] = test[e] /\ runner'[e] # "await"
        /\ runner[e] \notin {"killed", "stranded"}
    BY <1>4 DEF RunnerStep, Refuse, Begin, TestEnded, TakeFixed, TakeProfile, Take, TakeLog,
         Summarize, CreateManifest, VerifyManifest, RunnerFails, Exit, SetRunner, Running,
         Stopped, WorkInv, Indexed
  <2>2. runner[e] = "await" => TestEnded(e)
    BY <1>4 DEF RunnerStep, Refuse, Begin, TakeFixed, TakeProfile, Take, TakeLog,
         Summarize, CreateManifest, VerifyManifest, RunnerFails
  <2>3. test[e] \notin Testing
    BY <2>2 DEF TestEnded, WorkInv, TestsOwned, Testing
  <2>4. ASSUME replay'[e] \in Replaying
        PROVE  runner'[e] = "stranded" /\ replay[e] \in Replaying /\ e \in Running
    <3>1. replay'[e] \in {replay[e], "broken"}
      BY <1>4 DEF RunnerStep, Refuse, Begin, TestEnded, TakeFixed, TakeProfile, Take,
           TakeLog, Summarize, CreateManifest, VerifyManifest, RunnerFails, Exit, ClearOnly,
           TakeDown, WorkInv, Indexed
    <3>2. replay[e] \in Replaying /\ replay'[e] # "broken"
      BY <2>4, <3>1 DEF Replaying, Directions
    <3>3. runner[e] = "await" /\ test[e] = "failed"
      BY <2>1, <2>3, <3>2 DEF WorkInv, ReplaysOwned, Testing
    <3>4. runner'[e] = "stranded"
      BY <2>2, <3>2, <3>3 DEF TestEnded, Exit, TakeDown, SetRunner, WorkInv, Indexed
    <3> QED
      BY <3>2, <3>3, <3>4 DEF Running, Stopped
  <2> QED
    BY <1>1, <1>2, <2>1, <2>3, <2>4
<1> QED
  BY <1>3, <1>4

LEMMA RunnerStepWork ==
  ASSUME OneAtATime, WorkInv, NEW e \in Evaluations, RunnerStep(e)
  PROVE  WorkInv'
<1>1. Running' \subseteq Running \cup {e} /\ (Running = {} \/ e \in Running \/ Running' \subseteq Running)
  <2>1. \A f \in Evaluations \ {e} : f \in Running' => f \in Running
    BY RunnerStepFrame DEF Running
  <2>2. e \notin Running => Begin(e) \/ Refuse(e)
    BY DEF RunnerStep, RunTest, TestEnded, TakeFixed, TakeProfile, Take, TakeLog, Summarize,
           CreateManifest, VerifyManifest, RunnerFails, Running, Stopped
  <2>3. Begin(e) => Running = {}
    BY NoneRunning DEF Begin
  <2>4. Refuse(e) => e \notin Running'
    BY DEF Refuse, SetRunner, Running, Stopped, WorkInv, Indexed
  <2> QED
    BY <2>1, <2>2, <2>3, <2>4 DEF Running
<1>2. TestsOwned'
  <2>1. \A f, g \in Running' : f = g
    BY <1>1 DEF WorkInv, TestsOwned
  <2>2. \A f \in Evaluations : test'[f] \in Testing => runner'[f] = "await"
    BY RunnerStepFrame DEF WorkInv, TestsOwned
  <2> QED
    BY <2>1, <2>2 DEF TestsOwned
<1>3. ReplaysOwned'
  <2>1. ASSUME replay'[e] \in Replaying PROVE kind'[e] = "profile" /\ runner'[e] = "stranded"
    <3>1. replay[e] \in Replaying /\ runner'[e] = "stranded"
      BY <2>1, RunnerStepFrame
    <3>2. kind[e] = "profile"
      BY <3>1 DEF WorkInv, ReplaysOwned
    <3> QED
      BY <3>1, <3>2, RunnerStepFrame
  <2>2. ASSUME NEW f \in Evaluations \ {e}, replay'[f] \in Replaying
        PROVE  replay[f] \in Replaying
    BY <2>2, RunnerStepFrame DEF Replaying, Directions
  <2> QED
    BY <2>1, <2>2, RunnerStepFrame DEF WorkInv, ReplaysOwned
<1>4. Phased'
  BY RunnerStepFrame DEF WorkInv, Phased, Testing
<1> QED
  BY <1>2, <1>3, <1>4, RunnerStepFrame DEF WorkInv

Around(e) == Terminate(e) \/ Kill(e) \/ Interfere(e)

LEMMA AroundWork ==
  ASSUME OneAtATime, WorkInv, NEW e \in Evaluations, Around(e)
  PROVE  /\ WorkInv'
         /\ UNCHANGED <<keep, artifacts, log, opened, run, kind, manifest>>
         /\ \A f \in Evaluations :
              /\ runner'[f] = runner[f] \/ runner'[f] = "killed"
              /\ test'[f] = test[f] \/ (test'[f] = "killed" /\ runner'[f] = "killed")
              /\ replay'[f] = replay[f] \/ replay'[f] = "broken"
         /\ \/ /\ UNCHANGED <<shaping, lab>>
               /\ \A f \in Evaluations : test'[f] \in Testing => (f \in lapsed' <=> f \in lapsed)
            \/ \A f \in Evaluations : test[f] \notin Testing
         /\ shaping' \subseteq shaping
<1>1. CASE Terminate(e)
  <2>1. /\ UNCHANGED <<keep, artifacts, log, opened, run, kind, runner, test, manifest>>
        /\ e \in Running /\ test[e] \notin Testing
        /\ DOMAIN replay' = Evaluations
        /\ \A f \in Evaluations : replay'[f] = replay[f] \/ replay'[f] = "broken"
        /\ shaping' \subseteq shaping
    BY <1>1 DEF Terminate, ClearOnly, ClearQdisc, TakeDown, outcome, WorkInv, Indexed
  <2>2. \A f \in Evaluations : test[f] \notin Testing
    BY <2>1 DEF WorkInv, TestsOwned, Running, Stopped
  <2> QED
    BY <2>1, <2>2 DEF WorkInv, Indexed, Phased, TestsOwned, ReplaysOwned, Running, Replaying,
                      Directions
<1>2. CASE Kill(e)
  <2>1. /\ UNCHANGED <<keep, lab, shaping, artifacts, log, opened, run, kind, replay, manifest>>
        /\ lapsed' = lapsed \/ lapsed' = lapsed \ {e}
        /\ e \in Running /\ runner' = [runner EXCEPT ![e] = "killed"]
        /\ test' = [test EXCEPT ![e] = IF test[e] \in Testing THEN "killed" ELSE test[e]]
    BY <1>2 DEF Kill, OneAtATime, SetRunner, SetTest, shared, sharedLab, outcome
  <2>2. /\ Indexed'
        /\ runner'[e] = "killed" /\ \A f \in Evaluations \ {e} : runner'[f] = runner[f]
        /\ test'[e] = (IF test[e] \in Testing THEN "killed" ELSE test[e])
        /\ \A f \in Evaluations \ {e} : test'[f] = test[f]
    BY <2>1 DEF WorkInv, Indexed
  <2>3. TestsOwned' /\ Phased'
    BY <2>1, <2>2 DEF WorkInv, Phased, TestsOwned, Running, Stopped, Testing
  <2>4. ReplaysOwned'
    BY <2>1, <2>2 DEF WorkInv, ReplaysOwned
  <2> QED
    BY <2>1, <2>2, <2>3, <2>4 DEF WorkInv, Testing
<1>3. CASE Interfere(e)
  BY <1>3 DEF Interfere, shared, sharedLab, own, WorkInv, Indexed, Phased, TestsOwned,
              ReplaysOwned, Running
<1> QED
  BY <1>1, <1>2, <1>3 DEF Around

LEMMA NextWork ==
  OneAtATime /\ WorkInv /\ [Next]_vars => WorkInv'
<1> SUFFICES ASSUME OneAtATime, WorkInv, [Next]_vars PROVE WorkInv'
  OBVIOUS
<1>1. CASE UNCHANGED vars
  BY <1>1 DEF vars, own, shared, WorkInv, Indexed, Phased, TestsOwned, ReplaysOwned, Running
<1>2. ASSUME NEW e \in Evaluations,
             RunnerStep(e) \/ TestStep(e) \/ ReplayStep(e) \/ Around(e)
      PROVE  WorkInv'
  BY <1>2, RunnerStepWork, TestStepWork, ReplayStepWork, AroundWork
<1> QED
  BY <1>1, <1>2 DEF Next, Around

\* An evaluation killed or stranded in its profile test stays so.
LEMMA OrphanStays ==
  ASSUME OneAtATime, WorkInv, [Next]_vars, OrphanReplay
  PROVE  OrphanReplay'
<1> DEFINE Left == {"killed", "stranded"}
<1>1. PICK f \in Evaluations : runner[f] \in Left /\ kind[f] = "profile"
  BY DEF OrphanReplay
<1>2. runner'[f] \in Left /\ kind'[f] = "profile"
  <2>1. CASE UNCHANGED vars
    BY <1>1, <2>1 DEF vars, own
  <2>2. ASSUME NEW e \in Evaluations, RunnerStep(e) PROVE runner'[f] \in Left /\ kind'[f] = "profile"
    BY <1>1, <2>2, RunnerStepFrame
  <2>3. ASSUME NEW e \in Evaluations, TestStep(e) PROVE runner'[f] \in Left /\ kind'[f] = "profile"
    BY <1>1, <2>3, TestStepFrame
  <2>4. ASSUME NEW e \in Evaluations, ReplayStep(e) PROVE runner'[f] \in Left /\ kind'[f] = "profile"
    BY <1>1, <2>4, ReplayStepWork
  <2>5. ASSUME NEW e \in Evaluations, Around(e) PROVE runner'[f] \in Left /\ kind'[f] = "profile"
    BY <1>1, <2>5, AroundWork
  <2> QED
    BY <2>1, <2>2, <2>3, <2>4, <2>5 DEF Next, Around
<1> QED
  BY <1>2 DEF OrphanReplay

-----------------------------------------------------------------------------
(* The condition on the router.                                             *)

\* Half of the condition of a run is on.
HalfOn(e) ==
  /\ <<This(e), "forward">> \in shaping
  /\ \A q \in shaping : q[2] = "forward" => q = <<This(e), "forward">>

\* What a test needs for the measurement it makes next.
ConditionOf(e) ==
  lab = "up" /\ e \notin lapsed =>
    /\ test[e] = "baseline" => shaping = {}
    /\ test[e] = "other" => HalfOn(e)
    /\ test[e] = "measure" => shaping = Condition(e)

ConditionInv ==
  /\ \A q \in shaping : q[2] \in Directions
  /\ ~ OrphanReplay => \A e \in Evaluations : ConditionOf(e)

\* Nothing is asked for a test that measures nothing next.
LEMMA NoCondition ==
  ASSUME NEW f \in Evaluations, test'[f] \notin {"baseline", "other", "measure"}
  PROVE  ConditionOf(f)'
BY DEF ConditionOf

\* The steps of a test that measures keep its condition.
LEMMA TestStepCondition ==
  ASSUME WorkInv, NEW e \in Evaluations, ConditionOf(e), TestStep(e),
         \A q \in shaping : q[2] \in Directions
  PROVE  ConditionOf(e)' /\ \A q \in shaping' : q[2] \in Directions
<1>1. run' = run /\ This(e)' = This(e)
  BY TestStepFrame DEF This
<1>2. DOMAIN test = Evaluations
  BY DEF WorkInv, Indexed
<1>3. \A direction \in Directions : \A q \in Put(e, direction) :
        q = <<This(e), direction>> \/ (q \in shaping /\ q[2] # direction)
  BY DEF Put
<1>4. CASE ClearOld(e)
  <2>1. shaping' \subseteq shaping
    BY <1>4 DEF ClearOld, ClearQdisc
  <2>2. \/ test'[e] = "baseline" /\ (shaping' = {} \/ e \in lapsed')
        \/ test'[e] = "ping"
    BY <1>2, <1>4 DEF ClearOld, SetTest
  <2> QED
    BY <2>1, <2>2 DEF ConditionOf
<1>5. CASE Shape(e) /\ test[e] = "shape"
  <2>1. shaping' = Put(e, "forward") /\ test'[e] = "other"
    BY <1>2, <1>5 DEF Shape, SetTest
  <2>2. <<This(e), "forward">> \in Put(e, "forward")
    BY DEF Put
  <2>3. \A q \in shaping' : q[2] = "forward" => q = <<This(e), "forward">>
    BY <1>3, <2>1 DEF Directions
  <2>4. HalfOn(e)'
    BY <1>1, <2>1, <2>2, <2>3 DEF HalfOn
  <2>5. \A q \in shaping' : q[2] \in Directions
    BY <1>3, <2>1 DEF Directions
  <2> QED
    BY <2>1, <2>4, <2>5 DEF ConditionOf
<1>6. CASE Shape(e) /\ test[e] = "other"
  <2>1. shaping' = Put(e, "reverse") /\ test'[e] = "measure" /\ lab = "up" /\ lapsed' = lapsed
    BY <1>2, <1>6 DEF Shape, SetTest
  <2>2. ASSUME e \notin lapsed PROVE shaping' = Condition(e)
    <3>1. HalfOn(e)
      BY <1>6, <2>1, <2>2 DEF ConditionOf
    <3>2. \A q \in shaping : q[2] # "reverse" => q = <<This(e), "forward">>
      BY <3>1 DEF HalfOn, Directions
    <3>3. Put(e, "reverse") = {<<This(e), "forward">>, <<This(e), "reverse">>}
      BY <3>1, <3>2 DEF HalfOn, Put
    <3>4. Condition(e) = {<<This(e), "forward">>, <<This(e), "reverse">>}
      BY DEF Condition, Directions
    <3> QED
      BY <2>1, <3>3, <3>4
  <2>3. Condition(e)' = Condition(e)
    BY <1>1 DEF Condition
  <2>4. \A q \in shaping' : q[2] \in Directions
    BY <1>3, <2>1 DEF Directions
  <2> QED
    BY <2>1, <2>2, <2>3, <2>4 DEF ConditionOf
<1>7. CASE TerminateTest(e)
  <2>1. shaping' \subseteq shaping /\ test' = test
    BY <1>7 DEF TerminateTest, FinishLab, ClearOnly, ClearQdisc, TakeDown
  <2>2. CASE keep
    <3>1. /\ lab' = lab
          /\ e \notin lapsed' => e \notin lapsed
          /\ test[e] \in {"other", "measure"} => e \in lapsed'
      BY <1>7, <2>2 DEF TerminateTest, FinishLab, ClearOnly
    <3>2. Condition(e)' = Condition(e)
      BY <1>1 DEF Condition
    <3>3. ConditionOf(e)'
      BY <2>1, <3>1, <3>2 DEF ConditionOf
    <3> QED
      BY <2>1, <3>3
  <2>3. CASE ~ keep
    <3>1. lab' = "down" /\ shaping' = {}
      BY <1>7, <2>3 DEF TerminateTest, FinishLab, TakeDown
    <3>2. ConditionOf(e)'
      BY <3>1 DEF ConditionOf
    <3> QED
      BY <3>1, <3>2
  <2> QED
    BY <2>2, <2>3
<1>8. CASE \/ StartLab(e) \/ MeasureBaseline(e) \/ MeasureImpaired(e) \/ StartReplay(e)
           \/ AwaitReplay(e) \/ Verify(e) \/ Finish(e) \/ TestFails(e)
  <2>1. test'[e] \in {"clear", "shape", "verify", "replay", "finish", "failed", "passed"}
    BY <1>2, <1>8
       DEF StartLab, MeasureBaseline, MeasureImpaired, StartReplay, AwaitReplay, Verify, Finish,
           TestFails, SetTest
  <2>2. shaping' \subseteq shaping
    BY <1>8
       DEF StartLab, MeasureBaseline, MeasureImpaired, StartReplay, AwaitReplay, Verify, Finish,
           TestFails, FinishLab, ClearOnly, ClearQdisc, TakeDown, shared, sharedLab
  <2> QED
    BY <2>1, <2>2, NoCondition
<1> QED
  BY <1>4, <1>5, <1>6, <1>7, <1>8 DEF TestStep, Shape

\* The qdiscs are those of a direction, whatever happens.
LEMMA NextDirections ==
  ASSUME OneAtATime, WorkInv, ConditionInv, NEW e \in Evaluations,
         ReplayStep(e) \/ RunnerStep(e) \/ Around(e)
  PROVE  \A q \in shaping' : q[2] \in Directions
<1>1. CASE ReplayStep(e)
  <2>1. shaping' \subseteq shaping \cup {<<This(e), direction>> : direction \in Directions}
    BY <1>1 DEF ReplayStep, OpenLog, ApplyAndLog, ReplayFails, ClearQdisc, Put, sharedLab,
                Directions
  <2> QED
    BY <2>1 DEF ConditionInv
<1>2. CASE RunnerStep(e)
  <2>1. shaping' \subseteq shaping
    BY <1>2
       DEF RunnerStep, Refuse, Begin, RunTest, TestEnded, TakeFixed, TakeProfile, Take,
           TakeLog, Summarize, CreateManifest, VerifyManifest, RunnerFails, Exit, ClearOnly,
           ClearQdisc, TakeDown, shared, sharedLab
  <2> QED
    BY <2>1 DEF ConditionInv
<1> QED
  BY <1>1, <1>2, AroundWork DEF ConditionInv

LEMMA NextCondition ==
  OneAtATime /\ WorkInv /\ ConditionInv /\ [Next]_vars => ConditionInv'
<1> SUFFICES ASSUME OneAtATime, WorkInv, ConditionInv, [Next]_vars PROVE ConditionInv'
  OBVIOUS
<1>1. ~ OrphanReplay' => ~ OrphanReplay /\ \A e \in Evaluations : ConditionOf(e)
  BY OrphanStays DEF ConditionInv
<1>2. CASE UNCHANGED vars
  BY <1>1, <1>2
     DEF vars, own, shared, sharedLab, ConditionInv, ConditionOf, HalfOn, Condition, This
<1>3. \A e, f \in Evaluations : test[e] \in Testing /\ f \in Running => e = f
  BY DEF WorkInv, TestsOwned, Running, Stopped
<1>5. ASSUME NEW e \in Evaluations, TestStep(e) PROVE ConditionInv'
  <2>1. \A f \in Evaluations \ {e} : test'[f] \notin Testing
    BY <1>3, <1>5, TestStepFrame DEF Running, Stopped
  <2>2. \A f \in Evaluations \ {e} : ConditionOf(f)'
    BY <2>1, NoCondition DEF Testing
  <2>3. ~ OrphanReplay' => ConditionOf(e)'
    BY <1>1, <1>5, TestStepCondition DEF ConditionInv
  <2>4. \A q \in shaping' : q[2] \in Directions
    <3>1. CASE Shape(e)
      BY <3>1 DEF Shape, Put, ConditionInv, Directions
    <3>2. CASE ~ Shape(e)
      <4>1. shaping' \subseteq shaping
        BY <1>5, <3>2
           DEF TestStep, StartLab, ClearOld, MeasureBaseline, MeasureImpaired, StartReplay,
               AwaitReplay, Verify, Finish, TestFails, TerminateTest, FinishLab, ClearOnly,
               ClearQdisc, TakeDown, shared, sharedLab
      <4> QED
        BY <4>1 DEF ConditionInv
    <3> QED
      BY <3>1, <3>2
  <2> QED
    BY <2>2, <2>3, <2>4 DEF ConditionInv
<1>6. ASSUME NEW e \in Evaluations, ReplayStep(e) PROVE ConditionInv'
  <2>1. replay[e] \in Replaying
    BY <1>6 DEF ReplayStep, OpenLog, ApplyAndLog, ReplayFails, Replaying
  <2>2. ASSUME ~ OrphanReplay', NEW f \in Evaluations PROVE ConditionOf(f)'
    <3>1. runner[e] = "await" /\ test[e] \in {"replay", "failed"}
      BY <1>1, <2>1, <2>2 DEF WorkInv, ReplaysOwned, OrphanReplay
    <3>2. test[f] \notin {"baseline", "other", "measure"}
      BY <1>3, <3>1 DEF Running, Stopped, Testing
    <3> QED
      BY <1>6, <3>2, ReplayStepWork, NoCondition
  <2> QED
    BY <1>6, <2>2, NextDirections DEF ConditionInv
<1>7. ASSUME NEW e \in Evaluations, RunnerStep(e) PROVE ConditionInv'
  <2>1. ASSUME ~ OrphanReplay', NEW f \in Evaluations PROVE ConditionOf(f)'
    <3>1. CASE e \in Running
      <4>1. test'[f] \in Testing => test'[f] = "up"
        BY <1>3, <1>7, <3>1, RunnerStepFrame
      <4> QED
        BY <4>1, NoCondition DEF Testing
    <3>2. CASE e \notin Running
      <4>1. UNCHANGED <<lab, shaping, run, test, lapsed>>
        BY <1>7, <3>2
           DEF RunnerStep, Refuse, Begin, RunTest, TestEnded, TakeFixed, TakeProfile, Take,
               TakeLog, Summarize, CreateManifest, VerifyManifest, RunnerFails, Running,
               Stopped, shared, sharedLab
      <4> QED
        BY <1>1, <2>1, <4>1 DEF ConditionOf, HalfOn, Condition, This
    <3> QED
      BY <3>1, <3>2
  <2> QED
    BY <1>7, <2>1, NextDirections DEF ConditionInv
<1>8. ASSUME NEW e \in Evaluations, Around(e) PROVE ConditionInv'
  <2>1. ASSUME ~ OrphanReplay', NEW f \in Evaluations PROVE ConditionOf(f)'
    <3>1. CASE test'[f] \notin Testing
      BY <3>1, NoCondition DEF Testing
    <3>2. CASE test'[f] \in Testing
      <4>1. /\ test'[f] = test[f] /\ UNCHANGED <<shaping, lab, run>>
            /\ f \in lapsed' <=> f \in lapsed
        BY <1>8, <3>2, AroundWork DEF Testing
      <4>2. /\ This(f)' = This(f) /\ Condition(f)' = Condition(f)
        BY <4>1 DEF This, Condition
      <4> QED
        BY <1>1, <2>1, <4>1, <4>2 DEF ConditionOf, HalfOn
    <3> QED
      BY <3>1, <3>2
  <2> QED
    BY <1>8, <2>1, NextDirections DEF ConditionInv
<1> QED
  BY <1>2, <1>5, <1>6, <1>7, <1>8 DEF Next, Around

\* However many evaluations came before, and wherever they failed, were stopped
\* or killed, or could not clear the router: a fixed-condition test measures its
\* baseline without and its other values under its own condition, as long as no
\* orphaned replay is left, its own clearing was not refused and its test got no
\* SIGTERM in a kept lab; a measurement spoiled so does not spoil the next one.
THEOREM MeasuredUnderOwnCondition ==
  ASSUME OneAtATime PROVE Spec => []OwnCondition
<1>1. Init => WorkInv /\ ConditionInv
  BY InitWork DEF Init, ConditionInv, ConditionOf
<1>2. WorkInv /\ ConditionInv /\ [Next]_vars => (WorkInv /\ ConditionInv)'
  BY NextWork, NextCondition
<1>3. ConditionInv => OwnCondition
  BY DEF ConditionInv, ConditionOf, OwnCondition
<1> QED
  BY <1>1, <1>2, <1>3, PTL DEF Spec

-----------------------------------------------------------------------------
(* The shared files.                                                        *)

Safe == ~ (keep /\ OrphanReplay)

LogLines ==
  [by : Evaluations \X Nat,
   line : [action : {"timeseries_state"}, id : {0}, direction : Directions,
           planned : {0}, parameters : {1}]]

Stored ==
  /\ DOMAIN artifacts = Files /\ DOMAIN results = Evaluations /\ DOMAIN manifest = Evaluations
  /\ run \in [Evaluations -> Nat] /\ log \in Seq(LogLines)

LEMMA InitStored == Init => Stored
BY DEF Init, Stored

LEMMA NextStored == WorkInv /\ Stored /\ [Next]_vars => Stored'
<1> SUFFICES ASSUME WorkInv, Stored, [Next]_vars PROVE Stored'
  OBVIOUS
<1>0. log' = log \/ log' = <<>> => log' \in Seq(LogLines)
  <2>1. CASE log' = log
    BY <2>1 DEF Stored
  <2>2. CASE log' = <<>>
    BY <2>2
  <2> QED
    BY <2>1, <2>2
<1>1. CASE UNCHANGED vars
  BY <1>1 DEF vars, shared, own, outcome, Stored
<1>2. ASSUME NEW e \in Evaluations, RunnerStep(e) PROVE Stored'
  <2>1. CASE RunTest(e)
    <3>1. /\ DOMAIN artifacts' = Files /\ UNCHANGED <<results, manifest, run>>
          /\ log' = log \/ log' = <<>>
      BY <2>1 DEF RunTest, Remove, RemoveLog, outcome
    <3> QED
      BY <1>0, <3>1 DEF Stored
  <2>2. CASE Take(e, "take_fixed", "fixed", "profile") \/ Take(e, "take_profile", "profile", "take_log")
    BY <2>2 DEF Take, Store, shared, Stored
  <2>3. CASE TakeLog(e)
    BY <2>3 DEF TakeLog, Store, shared, Stored
  <2>4. CASE Summarize(e) \/ CreateManifest(e)
    BY <2>4 DEF Summarize, CreateManifest, Store, shared, Stored
  <2>5. CASE Refuse(e) \/ Begin(e) \/ TestEnded(e) \/ VerifyManifest(e) \/ RunnerFails(e)
    BY <2>5 DEF Refuse, Begin, TestEnded, VerifyManifest, RunnerFails, shared, outcome, Stored
  <2> QED
    BY <1>2, <2>1, <2>2, <2>3, <2>4, <2>5 DEF RunnerStep, TakeFixed, TakeProfile
<1>3. ASSUME NEW e \in Evaluations, TestStep(e) PROVE Stored'
  <2>1. DOMAIN artifacts' = Files
    BY <1>3
       DEF TestStep, StartLab, ClearOld, MeasureBaseline, Shape, MeasureImpaired, StartReplay,
           AwaitReplay, Verify, Finish, TestFails, TerminateTest, Write, Remove, shared, Stored
  <2>2. log' = log \/ log' = <<>>
    BY <1>3
       DEF TestStep, StartLab, ClearOld, MeasureBaseline, Shape, MeasureImpaired, StartReplay,
           AwaitReplay, Verify, Finish, TestFails, TerminateTest, RemoveLog, shared
  <2> QED
    BY <1>0, <1>3, <2>1, <2>2, TestStepFrame DEF outcome, Stored
<1>4. ASSUME NEW e \in Evaluations, ReplayStep(e) PROVE Stored'
  <2>1. replay[e] \in Directions => Line(e) \in LogLines
    BY DEF Line, LogRecord, LogLines, This, Stored
  <2>2. log' \in Seq(LogLines)
    BY <1>4, <2>1 DEF ReplayStep, OpenLog, ApplyAndLog, ReplayFails, Stored
  <2> QED
    BY <1>4, <2>2, ReplayStepWork DEF Stored, outcome
<1>5. ASSUME NEW e \in Evaluations, Terminate(e) \/ Kill(e) \/ Interfere(e) PROVE Stored'
  BY <1>5 DEF Terminate, Kill, Interfere, Store, shared, own, outcome, Stored
<1> QED
  BY <1>1, <1>2, <1>3, <1>4, <1>5 DEF Next

InLogPhase(e) ==
  runner[e] \in {"take_profile", "take_log"} \/ (runner[e] = "await" /\ kind[e] = "profile")

\* Between a passed fixed-condition test, which takes the lab down, and the copy
\* of the log, no other replay is at work.
Quiet(e) ==
  \/ InLogPhase(e) \/ runner[e] \in {"take_fixed", "profile"}
  \/ runner[e] = "await" /\ test[e] = "passed"

QuietInv ==
  Safe =>
    \A e, f \in Evaluations : Quiet(e) /\ f # e => replay[f] \notin Replaying

LEMMA SafeStays ==
  ASSUME OneAtATime, WorkInv, [Next]_vars, Safe' PROVE Safe
<1>1. keep' = keep
  <2>1. ASSUME NEW e \in Evaluations,
               RunnerStep(e) \/ TestStep(e) \/ ReplayStep(e) \/ Around(e)
        PROVE  keep' = keep
    BY <2>1, RunnerStepFrame, TestStepFrame, ReplayStepWork, AroundWork
  <2> QED
    BY <2>1 DEF Next, Around, vars
<1> QED
  BY <1>1, OrphanStays DEF Safe

LEMMA NextQuiet ==
  OneAtATime /\ WorkInv /\ QuietInv /\ [Next]_vars => QuietInv'
<1> SUFFICES ASSUME OneAtATime, WorkInv, QuietInv, [Next]_vars, Safe',
                    NEW e \in Evaluations, Quiet(e)', NEW f \in Evaluations \ {e}
             PROVE  replay'[f] \notin Replaying
  BY DEF QuietInv
<1>1. Safe /\ (Quiet(e) => replay[f] \notin Replaying)
  BY SafeStays DEF QuietInv
<1>2. "broken" \notin Replaying
  BY DEF Replaying, Directions
<1>3. CASE UNCHANGED vars
  BY <1>1, <1>3 DEF vars, own, Quiet, InLogPhase
<1>4. ASSUME NEW g \in Evaluations, ReplayStep(g) PROVE replay'[f] \notin Replaying
  <2>1. Quiet(e)
    BY <1>4, ReplayStepWork DEF Quiet, InLogPhase
  <2>2. replay[g] \in Replaying
    BY <1>4 DEF ReplayStep, OpenLog, ApplyAndLog, ReplayFails, Replaying
  <2> QED
    BY <1>1, <1>4, <2>1, <2>2 DEF ReplayStep, OpenLog, ApplyAndLog, ReplayFails, SetReplay,
                                  WorkInv, Indexed
<1>5. ASSUME NEW g \in Evaluations, TestStep(g) PROVE replay'[f] \notin Replaying
  <2>1. g \in Running /\ e \in Running
    BY <1>5, TestStepFrame DEF Running, Stopped, Quiet, InLogPhase
  <2>2. g = e
    BY <2>1 DEF WorkInv, TestsOwned
  <2>3. CASE Quiet(e)
    BY <1>1, <1>2, <1>5, <2>2, <2>3, TestStepFrame
  <2>4. CASE ~ Quiet(e)
    <3>1. Finish(e) /\ runner[e] = "await"
      BY <1>5, <2>2, <2>4, TestStepFrame
         DEF TestStep, StartLab, ClearOld, MeasureBaseline, Shape, MeasureImpaired,
             StartReplay, AwaitReplay, Verify, TestFails, TerminateTest, SetTest, WorkInv, Indexed, Quiet,
             InLogPhase
    <3>2. CASE keep
      <4>1. replay[f] \notin Replaying
        BY <1>1, <2>1, <2>2, <3>2 DEF Safe, OrphanReplay, WorkInv, ReplaysOwned, TestsOwned,
                                      Running, Stopped
      <4> QED
        BY <3>1, <3>2, <4>1 DEF Finish, FinishLab, ClearOnly
    <3>3. CASE ~ keep
      BY <1>2, <3>1, <3>3 DEF Finish, FinishLab, ClearOnly, TakeDown
    <3> QED
      BY <3>2, <3>3
  <2> QED
    BY <2>3, <2>4
<1>6. ASSUME NEW g \in Evaluations, RunnerStep(g) PROVE replay'[f] \notin Replaying
  <2>1. g # f => replay'[f] = replay[f] \/ replay'[f] = "broken"
    BY <1>6, RunnerStepFrame
  <2>2. g = f => replay'[f] \notin Replaying
    <3>1. g = f => e \in Running
      BY <1>6, RunnerStepFrame DEF Quiet, InLogPhase, Running, Stopped
    <3>2. g = f /\ g \in Running => e = f
      BY <3>1 DEF WorkInv, TestsOwned
    <3> QED
      BY <1>6, <3>2, RunnerStepFrame
  <2>3. CASE Quiet(e)
    BY <1>1, <1>2, <2>1, <2>2, <2>3
  <2>4. CASE ~ Quiet(e)
    <3>1. g = e
      BY <1>6, <2>4, RunnerStepFrame DEF Quiet, InLogPhase
    <3> QED
      BY <1>6, <2>4, <3>1
         DEF RunnerStep, Refuse, Begin, RunTest, TestEnded, TakeFixed, TakeProfile, Take,
             TakeLog, Summarize, CreateManifest, VerifyManifest, RunnerFails, Exit, SetRunner,
             SetTest, WorkInv, Indexed, Quiet, InLogPhase
  <2> QED
    BY <2>3, <2>4
<1>7. ASSUME NEW g \in Evaluations, Around(g) PROVE replay'[f] \notin Replaying
  <2>1. Quiet(e)
    BY <1>7, AroundWork DEF Quiet, InLogPhase
  <2> QED
    BY <1>1, <1>2, <1>7, <2>1, AroundWork
<1> QED
  BY <1>3, <1>4, <1>5, <1>6, <1>7 DEF Next, Around

\* From the first measurement of a test to the copy of what it produced, the
\* files are those of the run.
FilesOf(e) ==
  /\ runner[e] = "await" /\ kind[e] = "fixed" =>
       /\ test[e] \in {"shape", "other", "measure", "verify"} => artifacts["baseline"] = {This(e)}
       /\ test[e] = "verify" => artifacts["impaired"] = {This(e)}
       /\ test[e] \in {"finish", "passed"} => artifacts["fixed"] = {This(e)}
  /\ runner[e] = "await" /\ kind[e] = "profile" =>
       /\ test[e] \in {"replay", "verify"} => artifacts["ping"] = {This(e)}
       /\ test[e] \in {"finish", "passed"} => artifacts["profile"] = {This(e)}
  /\ runner[e] = "take_fixed" => artifacts["fixed"] = {This(e)}
  /\ runner[e] = "take_profile" => artifacts["profile"] = {This(e)}
  /\ InLogPhase(e) => Writers \subseteq {This(e)} /\ opened \subseteq {e}

FilesInv == Safe => \A e \in Evaluations : FilesOf(e)

\* Nothing is asked of the files of an evaluation that does not run.
LEMMA NoFiles ==
  ASSUME NEW f \in Evaluations,
         runner'[f] \notin {"await", "take_fixed", "take_profile", "take_log"}
  PROVE  FilesOf(f)'
BY DEF FilesOf, InLogPhase

LEMMA OthersStopped ==
  ASSUME WorkInv, NEW e \in Running, NEW f \in Evaluations \ {e}
  PROVE  runner[f] \in Stopped
BY DEF WorkInv, TestsOwned, Running

LEMMA TestStepFiles ==
  ASSUME WorkInv, Stored, NEW e \in Evaluations, FilesOf(e), TestStep(e)
  PROVE  \A f \in Evaluations : FilesOf(f)'
<1>1. /\ test[e] \in Testing /\ runner[e] = "await"
      /\ UNCHANGED <<keep, runner, run, kind, outcome>>
  BY TestStepFrame
<1>2. ASSUME NEW f \in Evaluations \ {e} PROVE FilesOf(f)'
  BY <1>1, <1>2, OthersStopped, NoFiles DEF Running, Stopped
<1>3. This(e)' = This(e)
  BY <1>1 DEF This
<1>4. /\ DOMAIN artifacts = Files /\ DOMAIN test = Evaluations
      /\ kind[e] \in {"fixed", "profile"} /\ Phased
  BY DEF WorkInv, Indexed, Phased, Stored
<1> USE DEF Files, FixedFiles, ProfileFiles
<1>5. ASSUME kind[e] = "fixed" PROVE FilesOf(e)'
  <2>1. CASE StartLab(e) \/ ClearOld(e) \/ TestFails(e)
    <3>1. test'[e] \in {"clear", "baseline", "failed"}
      BY <1>4, <1>5, <2>1 DEF StartLab, ClearOld, TestFails, SetTest
    <3> QED
      BY <1>1, <1>5, <3>1 DEF FilesOf, InLogPhase
  <2>2. CASE MeasureBaseline(e)
    BY <1>1, <1>3, <1>4, <1>5, <2>2 DEF MeasureBaseline, SetTest, Write, FilesOf, InLogPhase
  <2>3. CASE Shape(e)
    BY <1>1, <1>3, <1>4, <1>5, <2>3 DEF Shape, SetTest, FilesOf, InLogPhase
  <2>4. CASE MeasureImpaired(e)
    BY <1>1, <1>3, <1>4, <1>5, <2>4 DEF MeasureImpaired, SetTest, Write, FilesOf, InLogPhase
  <2>5. CASE Verify(e)
    <3>1. /\ artifacts'["fixed"] = {This(e)} /\ test'[e] \in {"finish", "failed"}
      BY <1>1, <1>4, <1>5, <2>5 DEF Verify, SetTest, Write, FilesOf
    <3> QED
      BY <1>1, <1>3, <1>5, <3>1 DEF FilesOf, InLogPhase
  <2>6. CASE Finish(e)
    BY <1>1, <1>3, <1>4, <1>5, <2>6 DEF Finish, SetTest, FilesOf, InLogPhase
  <2>7. CASE TerminateTest(e)
    BY <1>1, <1>3, <1>4, <1>5, <2>7 DEF TerminateTest, FilesOf, InLogPhase
  <2> QED
    BY <1>4, <1>5, <2>1, <2>2, <2>3, <2>4, <2>5, <2>6, <2>7
       DEF TestStep, StartReplay, AwaitReplay, Phased
<1>6. ASSUME kind[e] = "profile" PROVE FilesOf(e)'
  <2>1. /\ InLogPhase(e) /\ Writers \subseteq {This(e)} /\ opened \subseteq {e}
    BY <1>1, <1>6 DEF FilesOf, InLogPhase
  <2>2. /\ log' = log \/ log' = <<>>
        /\ opened' = opened \/ opened' = {}
    BY DEF TestStep, StartLab, ClearOld, MeasureBaseline, Shape, MeasureImpaired, StartReplay,
           AwaitReplay, Verify, Finish, TestFails, TerminateTest, RemoveLog, shared
  <2>3. Writers' \subseteq {This(e)} /\ opened' \subseteq {e}
    <3>1. CASE log' = log
      <4>1. Writers' = Writers
        BY <3>1 DEF Writers
      <4> QED
        BY <2>1, <2>2, <4>1
    <3>2. CASE log' = <<>>
      <4>1. Writers' = {}
        BY <3>2 DEF Writers
      <4> QED
        BY <2>1, <2>2, <4>1
    <3> QED
      BY <2>2, <3>1, <3>2
  <2>4. CASE StartLab(e) \/ ClearOld(e) \/ TestFails(e)
    <3>1. test'[e] \in {"clear", "ping", "failed"}
      BY <1>4, <1>6, <2>4 DEF StartLab, ClearOld, TestFails, SetTest
    <3> QED
      BY <1>1, <1>3, <1>6, <2>3, <3>1 DEF FilesOf
  <2>5. CASE StartReplay(e)
    BY <1>1, <1>3, <1>4, <1>6, <2>3, <2>5 DEF StartReplay, SetTest, Write, FilesOf
  <2>6. CASE AwaitReplay(e)
    BY <1>1, <1>3, <1>4, <1>6, <2>3, <2>6 DEF AwaitReplay, SetTest, shared, FilesOf
  <2>7. CASE Verify(e)
    <3>1. /\ artifacts'["profile"] = {This(e)} /\ test'[e] \in {"finish", "failed"}
      BY <1>1, <1>4, <1>6, <2>1, <2>7 DEF Verify, SetTest, Write, FilesOf
    <3> QED
      BY <1>1, <1>3, <1>6, <2>3, <3>1 DEF FilesOf
  <2>8. CASE Finish(e)
    BY <1>1, <1>3, <1>4, <1>6, <2>3, <2>8 DEF Finish, SetTest, FilesOf
  <2>9. CASE TerminateTest(e)
    BY <1>1, <1>3, <1>4, <1>6, <2>3, <2>9 DEF TerminateTest, FilesOf
  <2> QED
    BY <1>4, <1>6, <2>4, <2>5, <2>6, <2>7, <2>8, <2>9
       DEF TestStep, MeasureBaseline, Shape, MeasureImpaired, Phased
<1> QED
  BY <1>2, <1>4, <1>5, <1>6

LEMMA ReplayStepFiles ==
  ASSUME WorkInv, Stored, QuietInv, FilesInv, Safe, NEW e \in Evaluations, ReplayStep(e)
  PROVE  \A f \in Evaluations : FilesOf(f)'
<1>1. UNCHANGED <<artifacts, runner, run, kind, test>>
  BY ReplayStepWork
<1>2. \A f \in Evaluations : InLogPhase(f) => f = e
  <2>1. replay[e] \in Replaying
    BY DEF ReplayStep, OpenLog, ApplyAndLog, ReplayFails, Replaying
  <2> QED
    BY <2>1 DEF QuietInv, Quiet
<1>3. opened' \subseteq opened \cup {e}
  BY DEF ReplayStep, OpenLog, ApplyAndLog, ReplayFails
<1>4. Writers' \subseteq Writers \cup {This(e)}
  <2>1. CASE log' = log
    BY <2>1 DEF Writers
  <2>2. CASE replay[e] \in Directions /\ log' = Append(log, Line(e))
    <3>1. Line(e) \in LogLines /\ Line(e).by = This(e)
      BY <2>2 DEF Line, LogRecord, LogLines, This, Stored
    <3>2. \A i \in 1..Len(log') : log'[i] = Line(e) \/ (i \in 1..Len(log) /\ log'[i] = log[i])
      BY <2>2, <3>1 DEF Stored
    <3> QED
      BY <3>1, <3>2 DEF Writers
  <2> QED
    BY <2>1, <2>2 DEF ReplayStep, OpenLog, ApplyAndLog, ReplayFails
<1>5. ASSUME NEW f \in Evaluations PROVE FilesOf(f)'
  <2>1. FilesOf(f) /\ This(f)' = This(f) /\ InLogPhase(f)' = InLogPhase(f)
    BY <1>1 DEF FilesInv, This, InLogPhase
  <2>2. InLogPhase(f) => Writers' \subseteq {This(f)} /\ opened' \subseteq {f}
    BY <1>2, <1>3, <1>4, <2>1 DEF FilesOf
  <2> QED
    BY <1>1, <2>1, <2>2 DEF FilesOf
<1> QED
  BY <1>5

LEMMA RunnerStepFiles ==
  ASSUME OneAtATime, WorkInv, Stored, \A f \in Evaluations : FilesOf(f),
         NEW e \in Evaluations, RunnerStep(e)
  PROVE  \A f \in Evaluations : FilesOf(f)'
<1>1. CASE Begin(e) \/ Refuse(e)
  <2>1. /\ UNCHANGED <<artifacts, log, opened, run, kind, test>>
        /\ runner'[e] \in {"fixed", "refused"}
    BY <1>1 DEF Begin, Refuse, SetRunner, shared, WorkInv, Indexed
  <2>2. \A f \in Evaluations \ {e} : runner'[f] = runner[f]
    BY RunnerStepFrame
  <2>3. FilesOf(e)'
    BY <2>1, NoFiles
  <2>4. \A f \in Evaluations \ {e} : FilesOf(f)'
    BY <2>1, <2>2 DEF FilesOf, This, InLogPhase, Writers
  <2> QED
    BY <2>3, <2>4
<1>2. CASE e \in Running
  <2>1. ASSUME NEW f \in Evaluations \ {e} PROVE FilesOf(f)'
    <3>1. runner'[f] \in Stopped
      BY <1>2, RunnerStepFrame, OthersStopped
    <3> QED
      BY <3>1, NoFiles DEF Stopped
  <2>2. FilesOf(e)'
    <3>1. CASE RunTest(e)
      <4>1. /\ runner'[e] = "await" /\ test'[e] = "up" /\ kind'[e] = runner[e]
            /\ runner[e] = "profile" => log' = <<>> /\ opened' = {}
        BY <3>1 DEF RunTest, RemoveLog, SetRunner, SetTest, WorkInv, Indexed
      <4>2. InLogPhase(e)' => Writers' = {} /\ opened' = {}
        BY <4>1 DEF InLogPhase, Writers
      <4> QED
        BY <4>1, <4>2 DEF FilesOf
    <3>2. CASE TestEnded(e)
      <4>1. UNCHANGED <<artifacts, log, opened, run, kind, test>> /\ runner[e] = "await"
        BY <3>2 DEF TestEnded
      <4>2. CASE /\ test[e] = "passed"
                 /\ runner'[e] = (IF kind[e] = "fixed" THEN "take_fixed" ELSE "take_profile")
        <5>1. kind[e] \in {"fixed", "profile"}
          BY DEF WorkInv, Phased
        <5> QED
          BY <4>1, <4>2, <5>1 DEF FilesOf, This, InLogPhase, Writers
      <4>3. CASE runner'[e] \in {"failed", "stranded"}
        BY <4>3, NoFiles
      <4> QED
        BY <3>2, <4>2, <4>3 DEF TestEnded, Exit, SetRunner, WorkInv, Indexed
    <3>3. CASE TakeProfile(e)
      <4>1. /\ UNCHANGED <<artifacts, log, opened, run, kind, test>>
            /\ runner[e] = "take_profile" /\ runner'[e] = "take_log"
        BY <3>3 DEF TakeProfile, Take, SetRunner, shared, WorkInv, Indexed
      <4> QED
        BY <4>1 DEF FilesOf, This, InLogPhase, Writers
    <3>4. CASE \/ TakeFixed(e) \/ TakeLog(e) \/ Summarize(e) \/ CreateManifest(e)
               \/ VerifyManifest(e) \/ RunnerFails(e)
      <4>1. runner'[e] \in {"profile", "fixed", "summarize", "create", "verify", "finished",
                         "failed", "stranded"}
        BY <3>4 DEF TakeFixed, Take, TakeLog, Summarize, CreateManifest, VerifyManifest,
                    RunnerFails, Exit, SetRunner, WorkInv, Indexed
      <4> QED
        BY <4>1, NoFiles
    <3> QED
      BY <1>2, <3>1, <3>2, <3>3, <3>4 DEF RunnerStep, Begin, Refuse, Running, Stopped
  <2> QED
    BY <2>1, <2>2
<1>3. Begin(e) \/ Refuse(e) \/ e \in Running
  BY DEF RunnerStep, RunTest, TestEnded, TakeFixed, TakeProfile, Take, TakeLog, Summarize,
         CreateManifest, VerifyManifest, RunnerFails, Running, Stopped
<1> QED
  BY <1>1, <1>2, <1>3

LEMMA NextFiles ==
  OneAtATime /\ WorkInv /\ Stored /\ QuietInv /\ FilesInv /\ [Next]_vars => FilesInv'
<1> SUFFICES ASSUME OneAtATime, WorkInv, Stored, QuietInv, FilesInv, [Next]_vars, Safe'
             PROVE  \A f \in Evaluations : FilesOf(f)'
  BY DEF FilesInv
<1>1. Safe /\ \A f \in Evaluations : FilesOf(f)
  BY SafeStays DEF FilesInv
<1>2. CASE UNCHANGED vars
  BY <1>1, <1>2 DEF vars, shared, own, FilesOf, This, InLogPhase, Writers
<1>3. ASSUME NEW e \in Evaluations, TestStep(e) PROVE \A f \in Evaluations : FilesOf(f)'
  BY <1>1, <1>3, TestStepFiles
<1>4. ASSUME NEW e \in Evaluations, ReplayStep(e) PROVE \A f \in Evaluations : FilesOf(f)'
  BY <1>1, <1>4, ReplayStepFiles
<1>5. ASSUME NEW e \in Evaluations, RunnerStep(e) PROVE \A f \in Evaluations : FilesOf(f)'
  BY <1>1, <1>5, RunnerStepFiles
<1>6. ASSUME NEW e \in Evaluations, Around(e), NEW f \in Evaluations PROVE FilesOf(f)'
  <2>1. CASE runner'[f] = "killed"
    BY <2>1, NoFiles
  <2>2. CASE runner'[f] # "killed"
    <3>1. /\ UNCHANGED <<artifacts, log, opened, run, kind>>
          /\ runner'[f] = runner[f] /\ test'[f] = test[f]
      BY <1>6, <2>2, AroundWork
    <3> QED
      BY <1>1, <3>1 DEF FilesOf, This, InLogPhase, Writers
  <2> QED
    BY <2>1, <2>2
<1> QED
  BY <1>2, <1>3, <1>4, <1>5, <1>6 DEF Next, Around

-----------------------------------------------------------------------------
(* The result directory.                                                    *)

Collecting == {"idle", "fixed", "await", "take_fixed", "profile", "take_profile",
               "take_log", "summarize", "create"}

\* Every file of a run comes from that run.
OwnFiles(e, files) == \A p \in DOMAIN files \cap Collected : files[p].by = {<<e, p[1]>>}

\* The evidence is what was collected until it is hashed, and then the hashes.
ResultsOf(e) ==
  /\ OwnFiles(e, Evidence(e))
  /\ runner[e] \in Collecting => DOMAIN manifest[e] = {}
  /\ runner[e] = "create" => Summary \in DOMAIN results[e]
  /\ runner[e] = "verify" => DOMAIN manifest[e] # {}

ResultsInv == Safe => \A e \in Evaluations : ResultsOf(e)

LEMMA InitResults == Init => ResultsInv
BY DEF Init, ResultsInv, ResultsOf, OwnFiles, Evidence

LEMMA StoreFacts ==
  ASSUME Stored, NEW e \in Evaluations, NEW path, NEW file, Store(e, path, file)
  PROVE  /\ DOMAIN results'[e] = DOMAIN results[e] \cup {path}
         /\ results'[e][path] = file
         /\ \A p \in DOMAIN results[e] \ {path} : results'[e][p] = results[e][p]
         /\ \A f \in Evaluations \ {e} : results'[f] = results[f]
BY DEF Store, Stored

\* A file of the run added to what was collected.
LEMMA StoreOwn ==
  ASSUME Stored, NEW e \in Evaluations, NEW path, NEW file, Store(e, path, file),
         OwnFiles(e, results[e]), path \in Collected => file.by = {<<e, path[1]>>}
  PROVE  OwnFiles(e, results'[e])
BY StoreFacts DEF OwnFiles

\* What is neither stored nor hashed stays as it was.
LEMMA ResultsRest ==
  ASSUME NEW f \in Evaluations, ResultsOf(f), results'[f] = results[f],
         manifest'[f] = manifest[f],
         runner'[f] \in Collecting => runner[f] \in Collecting,
         runner'[f] \in {"create", "verify"} => runner'[f] = runner[f]
  PROVE  ResultsOf(f)'
BY DEF ResultsOf, OwnFiles, Evidence

LEMMA RunnerStepResults ==
  ASSUME OneAtATime, WorkInv, Stored, NEW e \in Evaluations, FilesOf(e), RunnerStep(e),
         \A f \in Evaluations : ResultsOf(f)
  PROVE  \A f \in Evaluations : ResultsOf(f)'
<1>1. ASSUME NEW f \in Evaluations \ {e} PROVE ResultsOf(f)'
  <2>1. /\ runner'[f] = runner[f]
        /\ results'[f] = results[f] /\ manifest'[f] = manifest[f]
    BY RunnerStepFrame
       DEF RunnerStep, Refuse, Begin, RunTest, TestEnded, TakeFixed, TakeProfile, Take, TakeLog,
           Summarize, CreateManifest, VerifyManifest, RunnerFails, Store, outcome, Stored
  <2> QED
    BY <2>1, ResultsRest
<1>2. \A how : SetRunner(e, how) => runner'[e] = how
  BY DEF SetRunner, WorkInv, Indexed
<1>3. runner[e] \in Collecting => Evidence(e) = results[e] /\ DOMAIN manifest[e] = {}
  BY DEF ResultsOf, Evidence
<1>4. CASE \/ Refuse(e) \/ Begin(e) \/ RunTest(e) \/ TestEnded(e) \/ VerifyManifest(e)
           \/ RunnerFails(e)
  <2>1. /\ results' = results /\ manifest' = manifest
        /\ runner'[e] \in {"refused", "failed", "stranded", "finished"}
           \/ (runner[e] \in Collecting /\ runner'[e] \in Collecting \ {"create"})
    BY <1>2, <1>4 DEF Refuse, Begin, RunTest, TestEnded, VerifyManifest, RunnerFails, Exit,
                      outcome, Collecting
  <2>2. ResultsOf(e)'
    BY <2>1, ResultsRest DEF Collecting
  <2> QED
    BY <1>1, <2>2
<1>5. CASE TakeFixed(e) \/ TakeProfile(e)
  <2>1. PICK file \in {"fixed", "profile"} :
          /\ Store(e, <<run[e], file>>, File(artifacts[file], TRUE))
          /\ artifacts[file] = {This(e)}
          /\ runner[e] \in Collecting /\ runner'[e] \in Collecting \ {"create"}
          /\ manifest' = manifest
    BY <1>2, <1>5 DEF TakeFixed, TakeProfile, Take, FilesOf, Collecting
  <2>2. OwnFiles(e, results'[e])
    BY <1>3, <2>1, StoreOwn DEF ResultsOf, File, This
  <2> QED
    BY <1>1, <1>3, <2>1, <2>2 DEF ResultsOf, Evidence, Collecting
<1>6. CASE TakeLog(e)
  <2>1. /\ Store(e, <<run[e], "log">>, File(Writers, SummaryAccepts(Lines)))
        /\ runner[e] \in Collecting /\ runner'[e] \in Collecting \ {"create"}
        /\ manifest' = manifest
    BY <1>2, <1>6 DEF TakeLog, Collecting
  <2>2. Writers = {This(e)}
    <3>1. Writers \subseteq {This(e)} /\ log # <<>>
      BY <1>6 DEF TakeLog, FilesOf, InLogPhase
    <3>2. log[1].by \in Writers
      BY <3>1 DEF Writers, Stored
    <3> QED
      BY <3>1, <3>2
  <2>3. OwnFiles(e, results'[e])
    BY <1>3, <2>1, <2>2, StoreOwn DEF ResultsOf, File, This
  <2> QED
    BY <1>1, <1>3, <2>1, <2>3 DEF ResultsOf, Evidence, Collecting
<1>7. CASE Summarize(e)
  <2>1. PICK file :
          /\ Store(e, Summary, file)
          /\ runner[e] \in Collecting /\ runner'[e] = "create" /\ manifest' = manifest
    BY <1>2, <1>7 DEF Summarize, Collecting
  <2>2. Summary \notin Collected
    BY RepetitionsAssumption DEF Summary, Collected
  <2>3. Summary \in DOMAIN results'[e]
    BY <2>1, StoreFacts
  <2>4. OwnFiles(e, results[e]) /\ (Summary \in Collected => file.by = {<<e, Summary[1]>>})
    BY <1>3, <2>1, <2>2 DEF ResultsOf
  <2>5. OwnFiles(e, results'[e])
    BY <2>1, <2>4, StoreOwn
  <2> QED
    BY <1>1, <1>3, <2>1, <2>3, <2>5 DEF ResultsOf, Evidence, Collecting
<1>8. CASE CreateManifest(e)
  <2>1. /\ runner[e] = "create" /\ runner'[e] = "verify"
        /\ results' = results /\ manifest'[e] = results[e]
    BY <1>2, <1>8 DEF CreateManifest, ManifestOf, Stored
  <2> QED
    BY <1>1, <1>3, <2>1 DEF ResultsOf, Evidence, Collecting
<1> QED
  BY <1>4, <1>5, <1>6, <1>7, <1>8 DEF RunnerStep

LEMMA NextResults ==
  /\ OneAtATime /\ WorkInv /\ Stored /\ FilesInv /\ ResultsInv /\ [Next]_vars
  => ResultsInv'
<1> SUFFICES ASSUME OneAtATime, WorkInv, Stored, FilesInv, ResultsInv, [Next]_vars, Safe'
             PROVE  \A f \in Evaluations : ResultsOf(f)'
  BY DEF ResultsInv
<1>1. \A f \in Evaluations : ResultsOf(f) /\ FilesOf(f)
  BY SafeStays DEF FilesInv, ResultsInv
<1>2. CASE UNCHANGED <<runner, outcome>>
  BY <1>1, <1>2, ResultsRest DEF outcome
<1>3. ASSUME NEW e \in Evaluations, RunnerStep(e) PROVE \A f \in Evaluations : ResultsOf(f)'
  BY <1>1, <1>3, RunnerStepResults
<1>4. ASSUME NEW e \in Evaluations, Around(e), NEW f \in Evaluations PROVE ResultsOf(f)'
  <2>1. runner'[f] \in {runner[f], "killed"} /\ manifest' = manifest
    BY <1>4, AroundWork
  <2>2. CASE results'[f] = results[f]
    BY <1>1, <2>1, <2>2, ResultsRest DEF Collecting
  <2>3. CASE results'[f] # results[f]
    <3>1. Interfere(e)
      BY <1>4, <2>3 DEF Around, Terminate, Kill, outcome
    <3>2. f = e /\ runner' = runner /\ runner[e] = "verify"
      BY <2>3, <3>1 DEF Interfere, Store, own, Stored
    <3> QED
      BY <1>1, <2>1, <3>2 DEF ResultsOf, Evidence, OwnFiles, Collecting
  <2> QED
    BY <2>2, <2>3
<1> QED
  BY <1>2, <1>3, <1>4, TestStepFrame, ReplayStepWork DEF Next, Around, vars, own

\* However many evaluations came before, and wherever they failed or were
\* killed, what is collected and hashed for a run was produced by that run and
\* nothing else, unless KEEP_LAB=1 meets an orphaned replay.
THEOREM CollectsOwnArtifacts ==
  ASSUME OneAtATime PROVE Spec => []OwnArtifacts
<1> DEFINE Inv == WorkInv /\ Stored /\ QuietInv /\ FilesInv /\ ResultsInv
<1>1. Init => Inv
  BY InitWork, InitStored, InitResults
     DEF Init, QuietInv, Quiet, InLogPhase, FilesInv, FilesOf
<1>2. Inv /\ [Next]_vars => Inv'
  BY NextWork, NextStored, NextQuiet, NextFiles, NextResults
<1>3. Inv => OwnArtifacts
  BY DEF ResultsInv, Safe, ResultsOf, OwnFiles, OwnArtifacts
<1> QED
  BY <1>1, <1>2, <1>3, PTL DEF Spec

-----------------------------------------------------------------------------
(* KEEP_LAB=1: a replay that outlived its test may write into the log of    *)
(* another run.                                                             *)

HasLine(e, direction) ==
  \E i \in 1..Len(log) : log[i].by = This(e) /\ log[i].line.direction = direction
HasBoth(e) == \A direction \in Directions : HasLine(e, direction)

\* A file of the run, and of who wrote into its log.
Mixed(e, by) == This(e) \in by /\ by \subseteq Writers \cup {This(e)}

\* The fixed files are those of the run; the log has its two lines at least, and
\* the summary of the profile comes from nobody who is not in the log.
TrialOf(e) ==
  /\ runner[e] = "await" /\ kind[e] = "fixed" =>
       /\ test[e] \in {"shape", "other", "measure", "verify"} => artifacts["baseline"] = {This(e)}
       /\ test[e] = "verify" => artifacts["impaired"] = {This(e)}
       /\ test[e] \in {"finish", "passed"} => artifacts["fixed"] = {This(e)}
  /\ runner[e] = "take_fixed" => artifacts["fixed"] = {This(e)}
  /\ runner[e] = "await" /\ kind[e] = "profile" =>
       /\ test[e] \in {"replay", "verify"} => artifacts["ping"] = {This(e)}
       /\ test[e] = "replay" =>
            /\ replay[e] \in Directions => e \in opened
            /\ replay[e] = "reverse" => HasLine(e, "forward")
            /\ replay[e] = "done" => HasBoth(e)
       /\ test[e] \in {"verify", "finish", "passed"} => HasBoth(e)
       /\ test[e] \in {"finish", "passed"} => Mixed(e, artifacts["profile"])
  /\ runner[e] = "take_profile" => HasBoth(e) /\ Mixed(e, artifacts["profile"])
  /\ runner[e] = "take_log" =>
       /\ HasBoth(e)
       /\ Mixed(e, results[e][<<run[e], "profile">>].by)

TrialInv == \A e \in Evaluations : TrialOf(e)

\* A run whose log is accepted is of nobody else.
RunsOf(e) ==
  runner[e] \in Collecting =>
    \A i \in 1..Repetitions :
      /\ <<i, "fixed">> \in DOMAIN results[e] => results[e][<<i, "fixed">>].by = {<<e, i>>}
      /\ <<i, "log">> \in DOMAIN results[e] /\ results[e][<<i, "log">>].accepted =>
           /\ results[e][<<i, "log">>].by = {<<e, i>>}
           /\ results[e][<<i, "profile">>].by = {<<e, i>>}

RunsInv == \A e \in Evaluations : RunsOf(e)

\* The log is appended to.
LogGrows == log' = log \/ \E line : log' = Append(log, line)

LEMMA LinesStay ==
  ASSUME Stored, LogGrows, NEW e \in Evaluations, run'[e] = run[e]
  PROVE  /\ \A direction : HasLine(e, direction) => HasLine(e, direction)'
         /\ Writers \subseteq Writers' /\ This(e)' = This(e)
<1>1. This(e)' = This(e)
  BY DEF This
<1>2. /\ Len(log) \in Nat /\ Len(log') \in Nat /\ Len(log) <= Len(log')
      /\ \A i \in 1..Len(log) : log'[i] = log[i]
  BY DEF Stored, LogGrows
<1>3. \A i \in 1..Len(log) : i \in 1..Len(log') /\ log'[i] = log[i]
  BY <1>2
<1>4. ASSUME NEW direction, HasLine(e, direction) PROVE HasLine(e, direction)'
  BY <1>1, <1>3, <1>4 DEF HasLine
<1>5. Writers \subseteq Writers'
  BY <1>3 DEF Writers
<1> QED
  BY <1>1, <1>4, <1>5

\* What may happen to an evaluation while others, or replays, are at work.
LEMMA TrialRest ==
  ASSUME Stored, LogGrows, NEW f \in Evaluations, TrialOf(f), opened \subseteq opened',
         artifacts' = artifacts, results'[f] = results[f], run'[f] = run[f],
         runner'[f] = runner[f], kind'[f] = kind[f], test'[f] = test[f],
         replay'[f] = replay[f] \/ replay'[f] = "broken"
  PROVE  TrialOf(f)'
<1>1. /\ \A direction : HasLine(f, direction) => HasLine(f, direction)'
      /\ Writers \subseteq Writers' /\ This(f)' = This(f)
  BY LinesStay
<1>2. HasBoth(f) => HasBoth(f)'
  BY <1>1 DEF HasBoth
<1>3. ASSUME NEW by, Mixed(f, by) PROVE This(f) \in by /\ by \subseteq Writers' \cup {This(f)}
  BY <1>1, <1>3 DEF Mixed
<1>4. replay'[f] \in Directions \cup {"done"} => replay'[f] = replay[f]
  BY DEF Directions
<1>5. /\ Mixed(f, artifacts["profile"]) => Mixed(f, artifacts["profile"])'
      /\ Mixed(f, results[f][<<run[f], "profile">>].by) => Mixed(f, results[f][<<run[f], "profile">>].by)'
  BY <1>1, <1>3 DEF Mixed
<1>6. HasLine(f, "forward") => HasLine(f, "forward")'
  BY <1>1
<1> QED
  BY <1>1, <1>2, <1>4, <1>5, <1>6 DEF TrialOf

\* Nothing is asked of an evaluation that does not run.
LEMMA NoTrial ==
  ASSUME NEW f \in Evaluations,
         runner'[f] \notin {"await", "take_fixed", "take_profile", "take_log"}
  PROVE  TrialOf(f)'
BY DEF TrialOf

LEMMA TestStepTrial ==
  ASSUME WorkInv, Stored, NEW e \in Evaluations, TrialOf(e), TestStep(e)
  PROVE  \A f \in Evaluations : TrialOf(f)'
<1>1. /\ test[e] \in Testing /\ runner[e] = "await"
      /\ UNCHANGED <<keep, runner, run, kind, outcome>>
  BY TestStepFrame
<1>2. ASSUME NEW f \in Evaluations \ {e} PROVE TrialOf(f)'
  BY <1>1, <1>2, OthersStopped, NoTrial DEF Running, Stopped
<1>3. This(e)' = This(e)
  BY <1>1 DEF This
<1>4. /\ DOMAIN artifacts = Files /\ DOMAIN test = Evaluations /\ DOMAIN replay = Evaluations
      /\ kind[e] \in {"fixed", "profile"} /\ Phased
  BY DEF WorkInv, Indexed, Phased, Stored
<1> USE DEF Files, FixedFiles, ProfileFiles
<1>7. CASE TerminateTest(e)
  <2>1. /\ LogGrows /\ opened' = opened /\ artifacts' = artifacts /\ test' = test
        /\ replay'[e] = replay[e] \/ replay'[e] = "broken"
    BY <1>4, <1>7 DEF TerminateTest, FinishLab, ClearOnly, TakeDown, LogGrows
  <2>2. results' = results
    BY <1>1 DEF outcome
  <2>3. TrialOf(e)'
    BY <1>1, <2>1, <2>2, TrialRest
  <2> QED
    BY <1>2, <2>3
<1>5. ASSUME kind[e] = "fixed", ~ TerminateTest(e) PROVE TrialOf(e)'
  <2>1. CASE StartLab(e) \/ ClearOld(e) \/ TestFails(e)
    <3>1. test'[e] \in {"clear", "baseline", "failed"}
      BY <1>4, <1>5, <2>1 DEF StartLab, ClearOld, TestFails, SetTest
    <3> QED
      BY <1>1, <1>5, <3>1 DEF TrialOf
  <2>2. CASE MeasureBaseline(e)
    BY <1>1, <1>3, <1>4, <1>5, <2>2 DEF MeasureBaseline, SetTest, Write, TrialOf
  <2>3. CASE Shape(e)
    BY <1>1, <1>3, <1>4, <1>5, <2>3 DEF Shape, SetTest, TrialOf
  <2>4. CASE MeasureImpaired(e)
    BY <1>1, <1>3, <1>4, <1>5, <2>4 DEF MeasureImpaired, SetTest, Write, TrialOf
  <2>5. CASE Verify(e)
    <3>1. /\ artifacts'["fixed"] = {This(e)} /\ test'[e] \in {"finish", "failed"}
      BY <1>1, <1>4, <1>5, <2>5 DEF Verify, SetTest, Write, TrialOf
    <3> QED
      BY <1>1, <1>3, <1>5, <3>1 DEF TrialOf
  <2>6. CASE Finish(e)
    BY <1>1, <1>3, <1>4, <1>5, <2>6 DEF Finish, SetTest, TrialOf
  <2> QED
    BY <1>4, <1>5, <2>1, <2>2, <2>3, <2>4, <2>5, <2>6
       DEF TestStep, StartReplay, AwaitReplay, Phased
<1>6. ASSUME kind[e] = "profile", ~ TerminateTest(e) PROVE TrialOf(e)'
  <2>1. CASE StartLab(e) \/ ClearOld(e) \/ TestFails(e)
    <3>1. test'[e] \in {"clear", "ping", "failed"}
      BY <1>4, <1>6, <2>1 DEF StartLab, ClearOld, TestFails, SetTest
    <3> QED
      BY <1>1, <1>6, <3>1 DEF TrialOf
  <2>2. CASE StartReplay(e)
    <3>1. artifacts'["ping"] = {This(e)} /\ test'[e] = "replay" /\ replay'[e] = "opening"
      BY <1>4, <2>2 DEF StartReplay, SetTest, SetReplay, Write
    <3> QED
      BY <1>1, <1>3, <1>6, <3>1 DEF TrialOf, Directions
  <2>3. ASSUME log' = log PROVE (HasBoth(e) => HasBoth(e)') /\ Writers' = Writers
    BY <1>3, <2>3 DEF HasBoth, HasLine, Writers
  <2>4. CASE AwaitReplay(e)
    <3>1. /\ log' = log /\ artifacts' = artifacts /\ test'[e] = "verify" /\ HasBoth(e)
          /\ artifacts["ping"] = {This(e)}
      BY <1>1, <1>4, <1>6, <2>4 DEF AwaitReplay, SetTest, shared, TrialOf
    <3> QED
      BY <1>1, <1>3, <1>6, <2>3, <3>1 DEF TrialOf
  <2>5. CASE Verify(e)
    <3>1. /\ log' = log /\ test'[e] \in {"finish", "failed"} /\ HasBoth(e)
          /\ artifacts'["profile"] = {This(e)} \cup Writers
      BY <1>1, <1>4, <1>6, <2>5 DEF Verify, SetTest, Write, TrialOf
    <3>2. Mixed(e, artifacts["profile"])'
      BY <1>3, <2>3, <3>1 DEF Mixed
    <3> QED
      BY <1>1, <1>3, <1>6, <2>3, <3>1, <3>2 DEF TrialOf
  <2>6. CASE Finish(e)
    <3>1. /\ log' = log /\ artifacts' = artifacts /\ test'[e] = "passed" /\ HasBoth(e)
          /\ Mixed(e, artifacts["profile"])
      BY <1>1, <1>4, <1>6, <2>6 DEF Finish, SetTest, TrialOf
    <3>2. Mixed(e, artifacts["profile"])'
      BY <1>3, <2>3, <3>1 DEF Mixed
    <3> QED
      BY <1>1, <1>3, <1>6, <2>3, <3>1, <3>2 DEF TrialOf
  <2> QED
    BY <1>4, <1>6, <2>1, <2>2, <2>4, <2>5, <2>6
       DEF TestStep, MeasureBaseline, Shape, MeasureImpaired, Phased
<1> QED
  BY <1>2, <1>4, <1>5, <1>6, <1>7

\* A line that was written stays; a replay's own lines are in the log it opened.
LEMMA ReplayStepTrial ==
  ASSUME WorkInv, Stored, TrialInv, NEW e \in Evaluations, ReplayStep(e)
  PROVE  \A f \in Evaluations : TrialOf(f)'
<1>1. UNCHANGED <<artifacts, runner, run, kind, test, outcome>>
  BY ReplayStepWork
<1>2. LogGrows /\ opened \subseteq opened'
  BY DEF ReplayStep, OpenLog, ApplyAndLog, ReplayFails, LogGrows
<1>3. DOMAIN replay = Evaluations /\ \A f \in Evaluations \ {e} : replay'[f] = replay[f]
  BY DEF ReplayStep, OpenLog, ApplyAndLog, ReplayFails, SetReplay, WorkInv, Indexed
<1>4. ASSUME NEW f \in Evaluations \ {e} PROVE TrialOf(f)'
  BY <1>1, <1>2, <1>3, TrialRest DEF TrialInv, outcome
<1>5. TrialOf(e)'
  <2>1. TrialOf(e) /\ results'[e] = results[e]
    BY <1>1 DEF TrialInv, outcome
  <2>2. CASE ReplayFails(e)
    <3>1. replay'[e] = "broken"
      BY <1>3, <2>2 DEF ReplayFails, SetReplay
    <3> QED
      BY <1>1, <1>2, <2>1, <3>1, TrialRest
  <2>3. CASE runner[e] # "await"
    <3>1. runner'[e] \in {"killed", "stranded"}
      BY <1>1, <2>3 DEF WorkInv, ReplaysOwned, ReplayStep, OpenLog, ApplyAndLog, ReplayFails, Replaying
    <3> QED
      BY <3>1, NoTrial
  <2>4. CASE runner[e] = "await" /\ ~ ReplayFails(e)
    <3>1. kind[e] = "profile" /\ test[e] \in {"replay", "failed"}
      BY <2>4 DEF WorkInv, ReplaysOwned, ReplayStep, OpenLog, ApplyAndLog, ReplayFails, Replaying
    <3>2. CASE test[e] = "failed"
      BY <1>1, <2>4, <3>1, <3>2 DEF TrialOf
    <3>3. CASE test[e] = "replay"
      <4>1. artifacts'["ping"] = {This(e)}' /\ This(e)' = This(e)
        BY <1>1, <2>1, <2>4, <3>1, <3>3 DEF TrialOf, This
      <4>2. /\ replay[e] \in Directions => e \in opened
            /\ replay[e] = "reverse" => HasLine(e, "forward")
        BY <2>1, <2>4, <3>1, <3>3 DEF TrialOf
      <4>3. CASE OpenLog(e)
        <5>1. e \in opened' /\ replay'[e] = "forward"
          BY <1>3, <4>3 DEF OpenLog, SetReplay
        <5> QED
          BY <1>1, <2>4, <3>1, <3>3, <4>1, <5>1 DEF TrialOf
      <4>4. CASE ApplyAndLog(e)
        <5>1. /\ replay[e] \in Directions /\ e \in opened /\ e \in opened'
              /\ log' = Append(log, Line(e))
              /\ replay'[e] = IF replay[e] = "forward" THEN "reverse" ELSE "done"
          BY <1>3, <4>2, <4>4 DEF ApplyAndLog, SetReplay
        <5>2. ASSUME NEW d, d = replay[e] PROVE HasLine(e, d)'
          <6>1. Line(e).by = This(e) /\ Line(e).line.direction = d
            BY <5>2 DEF Line, LogRecord
          <6>2. Len(log') = Len(log) + 1 /\ log'[Len(log) + 1] = Line(e) /\ Len(log) \in Nat
            BY <5>1 DEF Stored
          <6>3. Len(log) + 1 \in 1..Len(log')
            BY <6>2
          <6>4. log'[Len(log) + 1].by = This(e)' /\ log'[Len(log) + 1].line.direction = d
            BY <4>1, <6>1, <6>2
          <6>5. \E i \in 1..Len(log') : log'[i].by = This(e)' /\ log'[i].line.direction = d
            BY <6>3, <6>4
          <6> QED
            BY <6>5 DEF HasLine
        <5>3. HasLine(e, "forward") => HasLine(e, "forward")'
          BY <1>1, <1>2, LinesStay
        <5>4. CASE replay[e] = "forward"
          BY <1>1, <2>4, <3>1, <3>3, <4>1, <5>1, <5>2, <5>4 DEF TrialOf
        <5>5. CASE replay[e] = "reverse"
          <6>1. HasBoth(e)'
            BY <4>2, <5>2, <5>3, <5>5 DEF HasBoth, Directions
          <6> QED
            BY <1>1, <2>4, <3>1, <3>3, <4>1, <5>1, <5>5, <6>1 DEF TrialOf, Directions
        <5> QED
          BY <5>1, <5>4, <5>5 DEF Directions
      <4> QED
        BY <2>4, <4>3, <4>4 DEF ReplayStep
    <3> QED
      BY <3>1, <3>2, <3>3
  <2> QED
    BY <2>2, <2>3, <2>4
<1> QED
  BY <1>4, <1>5

\* A log with both lines of the run is accepted only if there is no other line,
\* since the lines of another replay have the same keys.
LEMMA AcceptedIsOwn ==
  ASSUME Stored, NEW e \in Evaluations, HasBoth(e), SummaryAccepts(Lines)
  PROVE  Writers = {This(e)}
<1>1. PICK i \in 1..Len(log) : log[i].by = This(e) /\ log[i].line.direction = "forward"
  BY DEF HasBoth, HasLine, Directions
<1>2. PICK j \in 1..Len(log) : log[j].by = This(e) /\ log[j].line.direction = "reverse"
  BY DEF HasBoth, HasLine, Directions
<1>3. Len(log) \in Nat /\ \A k \in 1..Len(log) : log[k] \in LogLines
  BY DEF Stored
<1>4. Len(Lines) = Len(log) /\ \A k \in 1..Len(log) : Lines[k] = log[k].line
  BY <1>3 DEF Lines
<1>5. \A k \in 1..Len(log) : /\ log[k].line.direction \in {"forward", "reverse"}
                             /\ log[k].line.action = "timeseries_state"
                             /\ log[k].line.id = 0 /\ log[k].line.planned = 0
  BY <1>3 DEF LogLines, Directions
<1>6. \A k, l \in 1..Len(log) : PairKey(Lines[k]) = PairKey(Lines[l])
  BY <1>4, <1>5 DEF PairKey
<1>7. \A k, l \in 1..Len(log) : log[k].line.direction = log[l].line.direction => ~ (k < l)
  BY <1>4, <1>6 DEF SummaryAccepts, DuplicateApplication
<1>8. \A k, l \in 1..Len(log) : log[k].line.direction = log[l].line.direction => k = l
  BY <1>3, <1>7
<1>9. \A k \in 1..Len(log) : k = i \/ k = j
  BY <1>1, <1>2, <1>5, <1>8
<1>10. \A k \in 1..Len(log) : log[k].by = This(e)
  BY <1>1, <1>2, <1>9
<1> QED
  BY <1>1, <1>10 DEF Writers

LEMMA RunnerStepTrial ==
  ASSUME OneAtATime, WorkInv, Stored, TrialInv, NEW e \in Evaluations, RunnerStep(e)
  PROVE  \A f \in Evaluations : TrialOf(f)'
<1>0. TrialOf(e)
  BY DEF TrialInv
<1>1. CASE Begin(e) \/ Refuse(e)
  <2>1. /\ UNCHANGED <<artifacts, log, opened, run, kind, test, replay, results>>
        /\ runner'[e] \in {"fixed", "refused"}
    BY <1>1 DEF Begin, Refuse, SetRunner, shared, outcome, WorkInv, Indexed
  <2>2. \A f \in Evaluations \ {e} : runner'[f] = runner[f]
    BY RunnerStepFrame
  <2>3. TrialOf(e)'
    BY <2>1, NoTrial
  <2>4. \A f \in Evaluations \ {e} : TrialOf(f)'
    BY <2>1, <2>2, TrialRest DEF LogGrows, TrialInv
  <2> QED
    BY <2>3, <2>4
<1>2. CASE e \in Running
  <2>1. ASSUME NEW f \in Evaluations \ {e} PROVE TrialOf(f)'
    <3>1. runner'[f] \in Stopped
      BY <1>2, RunnerStepFrame, OthersStopped
    <3> QED
      BY <3>1, NoTrial DEF Stopped
  <2>2. TrialOf(e)'
    <3>1. CASE RunTest(e)
      <4>1. runner'[e] = "await" /\ test'[e] = "up"
        BY <3>1 DEF RunTest, SetRunner, SetTest, WorkInv, Indexed
      <4> QED
        BY <4>1 DEF TrialOf
    <3>2. CASE TestEnded(e)
      <4>1. UNCHANGED <<artifacts, log, run, kind, test, results>> /\ runner[e] = "await"
        BY <3>2 DEF TestEnded, outcome
      <4>2. CASE /\ test[e] = "passed"
                 /\ runner'[e] = (IF kind[e] = "fixed" THEN "take_fixed" ELSE "take_profile")
        <5>1. /\ (HasBoth(e) => HasBoth(e)')
              /\ Mixed(e, artifacts["profile"]) => Mixed(e, artifacts["profile"])'
          BY <4>1 DEF HasBoth, HasLine, Mixed, Writers, This
        <5>2. CASE kind[e] = "fixed"
          BY <1>0, <4>1, <4>2, <5>2 DEF TrialOf, This
        <5>3. CASE kind[e] = "profile"
          BY <1>0, <4>1, <4>2, <5>1, <5>3 DEF TrialOf
        <5> QED
          BY <5>2, <5>3 DEF WorkInv, Phased
      <4>3. CASE runner'[e] \in {"failed", "stranded"}
        BY <4>3, NoTrial
      <4> QED
        BY <3>2, <4>2, <4>3 DEF TestEnded, Exit, SetRunner, WorkInv, Indexed
    <3>3. CASE TakeProfile(e)
      <4>1. /\ UNCHANGED <<artifacts, log, run>>
            /\ runner[e] = "take_profile" /\ runner'[e] = "take_log"
            /\ Store(e, <<run[e], "profile">>, File(artifacts["profile"], TRUE))
        BY <3>3 DEF TakeProfile, Take, SetRunner, shared, WorkInv, Indexed
      <4>2. HasBoth(e) /\ Mixed(e, artifacts["profile"])
        BY <1>0, <4>1 DEF TrialOf
      <4>3. /\ HasBoth(e)' /\ This(e)' = This(e)
            /\ Writers' = Writers /\ artifacts' = artifacts /\ run' = run
        <5>1. This(e)' = This(e) /\ Writers' = Writers /\ artifacts' = artifacts /\ run' = run
          BY <4>1 DEF Writers, This
        <5>2. HasBoth(e)'
          BY <4>1, <4>2, <5>1 DEF HasBoth, HasLine
        <5> QED
          BY <5>1, <5>2
      <4>4. results'[e][<<run[e], "profile">>].by = artifacts["profile"]
        BY <4>1, StoreFacts DEF File
      <4>5. Mixed(e, results[e][<<run[e], "profile">>].by)'
        <5>1. This(e) \in artifacts["profile"] /\ artifacts["profile"] \subseteq Writers \cup {This(e)}
          BY <4>2 DEF Mixed
        <5> QED
          BY <4>3, <4>4, <5>1 DEF Mixed
      <4> QED
        BY <4>1, <4>3, <4>5 DEF TrialOf
    <3>4. CASE \/ TakeFixed(e) \/ TakeLog(e) \/ Summarize(e) \/ CreateManifest(e)
               \/ VerifyManifest(e) \/ RunnerFails(e)
      <4>1. runner'[e] \in {"profile", "fixed", "summarize", "create", "verify", "finished",
                         "failed", "stranded"}
        BY <3>4 DEF TakeFixed, Take, TakeLog, Summarize, CreateManifest, VerifyManifest,
                    RunnerFails, Exit, SetRunner, WorkInv, Indexed
      <4> QED
        BY <4>1, NoTrial
    <3> QED
      BY <1>2, <3>1, <3>2, <3>3, <3>4 DEF RunnerStep, Begin, Refuse, Running, Stopped
  <2> QED
    BY <2>1, <2>2
<1>3. Begin(e) \/ Refuse(e) \/ e \in Running
  BY DEF RunnerStep, RunTest, TestEnded, TakeFixed, TakeProfile, Take, TakeLog, Summarize,
         CreateManifest, VerifyManifest, RunnerFails, Running, Stopped
<1> QED
  BY <1>1, <1>2, <1>3

LEMMA NextTrial ==
  OneAtATime /\ WorkInv /\ Stored /\ TrialInv /\ [Next]_vars => TrialInv'
<1> SUFFICES ASSUME OneAtATime, WorkInv, Stored, TrialInv, [Next]_vars
             PROVE  \A f \in Evaluations : TrialOf(f)'
  BY DEF TrialInv
<1>1. CASE UNCHANGED vars
  BY <1>1, TrialRest DEF vars, shared, own, outcome, LogGrows, TrialInv
<1>2. ASSUME NEW e \in Evaluations, TestStep(e) PROVE \A f \in Evaluations : TrialOf(f)'
  BY <1>2, TestStepTrial DEF TrialInv
<1>3. ASSUME NEW e \in Evaluations, ReplayStep(e) PROVE \A f \in Evaluations : TrialOf(f)'
  BY <1>3, ReplayStepTrial
<1>4. ASSUME NEW e \in Evaluations, RunnerStep(e) PROVE \A f \in Evaluations : TrialOf(f)'
  BY <1>4, RunnerStepTrial
<1>5. ASSUME NEW e \in Evaluations, Around(e), NEW f \in Evaluations PROVE TrialOf(f)'
  <2>1. CASE runner'[f] \in {"killed", "verify"}
    BY <2>1, NoTrial
  <2>2. CASE runner'[f] \notin {"killed", "verify"}
    <3>1. /\ UNCHANGED <<artifacts, log, opened, run, kind>>
          /\ runner'[f] = runner[f] /\ test'[f] = test[f]
          /\ replay'[f] = replay[f] \/ replay'[f] = "broken"
      BY <1>5, <2>2, AroundWork
    <3>2. results'[f] = results[f]
      <4>1. CASE Interfere(e)
        <5>1. runner' = runner /\ runner[e] = "verify"
          BY <4>1 DEF Interfere, own
        <5>2. f # e
          BY <2>2, <5>1
        <5> QED
          BY <4>1, <5>2 DEF Interfere, Store, Stored
      <4>2. CASE Terminate(e) \/ Kill(e)
        BY <4>2 DEF Terminate, Kill, outcome
      <4> QED
        BY <1>5, <4>1, <4>2 DEF Around
    <3> QED
      BY <3>1, <3>2, TrialRest DEF LogGrows, TrialInv
  <2> QED
    BY <2>1, <2>2
<1> QED
  BY <1>1, <1>2, <1>3, <1>4, <1>5 DEF Next, Around

-----------------------------------------------------------------------------
(* The complete directory.                                                  *)

\* What has been copied when the runner is where it is.
SoFar(e) ==
  IF runner[e] = "summarize" THEN Collected
  ELSE {p \in Collected :
          \/ p[1] < run[e]
          \/ /\ p = <<run[e], "fixed">>
             /\ InLogPhase(e) \/ runner[e] = "profile"
          \/ p = <<run[e], "profile">> /\ runner[e] = "take_log"}

\* Only the log can be one the summary refuses.
Sound(files) ==
  \A p \in DOMAIN files : ~ files[p].link /\ (p[2] # "log" => files[p].accepted)

Full(e, files) ==
  /\ DOMAIN files = Collected \cup {Summary}
  /\ \A p \in DOMAIN files : ~ files[p].link /\ files[p].accepted
  /\ files[Summary].by = {e} \X (1..Repetitions)

ProgressOf(e) ==
  /\ run[e] \in 1..Repetitions
  /\ runner[e] \in Collecting \ {"create"} => DOMAIN results[e] = SoFar(e) /\ Sound(results[e])
  /\ runner[e] = "create" => Full(e, results[e])
  /\ runner[e] = "verify" => Full(e, manifest[e])

ProgressInv == \A e \in Evaluations : ProgressOf(e)

LEMMA InitProgress == Init => ProgressInv
<1> SUFFICES ASSUME Init, NEW e \in Evaluations PROVE ProgressOf(e)
  BY DEF ProgressInv
<1>1. /\ runner[e] = "idle" /\ run[e] = 1 /\ DOMAIN results[e] = {} /\ 1 \in 1..Repetitions
  BY RepetitionsAssumption DEF Init
<1>2. SoFar(e) = {}
  BY <1>1 DEF SoFar, Collected, InLogPhase
<1> QED
  BY <1>1, <1>2 DEF ProgressOf, Sound

\* A step that takes, summarizes and hashes nothing.
LEMMA ProgressRest ==
  ASSUME NEW f \in Evaluations, ProgressOf(f), results'[f] = results[f],
         manifest'[f] = manifest[f], run'[f] = run[f],
         \/ runner'[f] \notin Collecting \cup {"verify"}
         \/ runner'[f] = runner[f] /\ kind'[f] = kind[f]
         \/ /\ {runner[f], runner'[f]} \subseteq Collecting \ {"create"} /\ SoFar(f)' = SoFar(f)
  PROVE  ProgressOf(f)'
<1>1. CASE runner'[f] \notin Collecting \cup {"verify"}
  BY <1>1 DEF ProgressOf, Collecting
<1>2. CASE runner'[f] = runner[f] /\ kind'[f] = kind[f]
  BY <1>2 DEF ProgressOf, SoFar, InLogPhase, Sound, Full
<1>3. CASE {runner[f], runner'[f]} \subseteq Collecting \ {"create"} /\ SoFar(f)' = SoFar(f)
  BY <1>3 DEF ProgressOf, Sound, Collecting
<1> QED
  BY <1>1, <1>2, <1>3

LEMMA StoreSound ==
  ASSUME Stored, NEW e \in Evaluations, NEW path, NEW file, Store(e, path, file),
         Sound(results[e]), ~ file.link, path[2] # "log" => file.accepted
  PROVE  Sound(results'[e])
BY StoreFacts DEF Sound

LEMMA InitTrial == Init => TrialInv /\ RunsInv
BY DEF Init, TrialInv, TrialOf, RunsInv, RunsOf

\* A step that takes nothing.
LEMMA RunsRest ==
  ASSUME NEW f \in Evaluations, RunsOf(f), results'[f] = results[f],
         runner'[f] \in Collecting => runner[f] \in Collecting
  PROVE  RunsOf(f)'
BY DEF RunsOf

LEMMA RunnerStepRuns ==
  ASSUME OneAtATime, WorkInv, Stored, TrialInv, ProgressInv, RunsInv,
         NEW e \in Evaluations, RunnerStep(e)
  PROVE  RunsInv'
<1>1. ASSUME NEW f \in Evaluations \ {e} PROVE RunsOf(f)'
  <2>1. runner'[f] = runner[f] /\ results'[f] = results[f]
    BY RunnerStepFrame
       DEF RunnerStep, Refuse, Begin, RunTest, TestEnded, TakeFixed, TakeProfile, Take, TakeLog,
           Summarize, CreateManifest, VerifyManifest, RunnerFails, Store, outcome, Stored
  <2> QED
    BY <2>1, RunsRest DEF RunsInv
<1>2. \A how : SetRunner(e, how) => runner'[e] = how
  BY DEF SetRunner, WorkInv, Indexed
<1>3. /\ RunsOf(e) /\ TrialOf(e) /\ run[e] \in 1..Repetitions
      /\ runner[e] \in Collecting \ {"create"} => DOMAIN results[e] = SoFar(e)
  BY DEF RunsInv, TrialInv, ProgressInv, ProgressOf
<1>4. RunsOf(e)'
  <2>1. CASE \/ Refuse(e) \/ Begin(e) \/ RunTest(e) \/ TestEnded(e) \/ CreateManifest(e)
             \/ VerifyManifest(e) \/ RunnerFails(e)
    <3>1. /\ results' = results
          /\ \/ runner'[e] \in {"refused", "failed", "stranded", "finished", "verify"}
             \/ runner[e] \in {"idle", "fixed", "profile", "await"}
      BY <1>2, <2>1 DEF Refuse, Begin, RunTest, TestEnded, CreateManifest, VerifyManifest,
                        RunnerFails, Exit, outcome
    <3> QED
      BY <1>3, <3>1, RunsRest DEF Collecting
  <2>2. CASE TakeFixed(e)
    <3>1. /\ Store(e, <<run[e], "fixed">>, File(artifacts["fixed"], TRUE))
          /\ artifacts["fixed"] = {<<e, run[e]>>} /\ runner[e] \in Collecting
      BY <1>3, <2>2 DEF TakeFixed, Take, TrialOf, This, Collecting
    <3>2. /\ results'[e][<<run[e], "fixed">>].by = {<<e, run[e]>>}
          /\ DOMAIN results'[e] = DOMAIN results[e] \cup {<<run[e], "fixed">>}
          /\ \A p \in DOMAIN results[e] \ {<<run[e], "fixed">>} : results'[e][p] = results[e][p]
      BY <3>1, StoreFacts DEF File
    <3>3. \A i \in 1..Repetitions : <<i, "log">> \in DOMAIN results[e] =>
            <<i, "profile">> \in DOMAIN results[e]
      BY <1>3, <2>2 DEF TakeFixed, Take, Collecting, SoFar, InLogPhase, Collected
    <3> QED
      BY <1>3, <3>1, <3>2, <3>3 DEF RunsOf
  <2>3. CASE TakeProfile(e)
    <3>1. /\ Store(e, <<run[e], "profile">>, File(artifacts["profile"], TRUE))
          /\ runner[e] = "take_profile"
      BY <2>3 DEF TakeProfile, Take
    <3>2. /\ DOMAIN results'[e] = DOMAIN results[e] \cup {<<run[e], "profile">>}
          /\ \A p \in DOMAIN results[e] \ {<<run[e], "profile">>} : results'[e][p] = results[e][p]
      BY <3>1, StoreFacts
    <3>3. \A i \in 1..Repetitions : <<i, "log">> \in DOMAIN results[e] =>
            i # run[e] /\ <<i, "profile">> \in DOMAIN results[e]
      BY <1>3, <3>1 DEF Collecting, SoFar, InLogPhase, Collected
    <3> QED
      BY <1>3, <3>1, <3>2, <3>3 DEF RunsOf, Collecting
  <2>4. CASE TakeLog(e)
    <3>1. /\ Store(e, <<run[e], "log">>, File(Writers, SummaryAccepts(Lines)))
          /\ runner[e] = "take_log"
      BY <2>4 DEF TakeLog
    <3>2. /\ DOMAIN results'[e] = DOMAIN results[e] \cup {<<run[e], "log">>}
          /\ \A p \in DOMAIN results[e] \ {<<run[e], "log">>} : results'[e][p] = results[e][p]
          /\ results'[e][<<run[e], "log">>] = File(Writers, SummaryAccepts(Lines))
      BY <3>1, StoreFacts
    <3>3. \A i \in 1..Repetitions :
            <<i, "log">> \in DOMAIN results[e] \/ i = run[e] => <<i, "profile">> \in DOMAIN results[e]
      BY <1>3, <3>1 DEF Collecting, SoFar, InLogPhase, Collected
    <3>4. ASSUME SummaryAccepts(Lines)
          PROVE  Writers = {<<e, run[e]>>} /\ results[e][<<run[e], "profile">>].by = {<<e, run[e]>>}
      <4>1. HasBoth(e) /\ Mixed(e, results[e][<<run[e], "profile">>].by)
        BY <1>3, <3>1 DEF TrialOf
      <4>2. Writers = {This(e)}
        BY <3>4, <4>1, AcceptedIsOwn
      <4> QED
        BY <4>1, <4>2 DEF Mixed, This
    <3>5. ASSUME NEW i \in 1..Repetitions, <<i, "fixed">> \in DOMAIN results'[e]
          PROVE  results'[e][<<i, "fixed">>].by = {<<e, i>>}
      <4>1. /\ <<i, "fixed">> \in DOMAIN results[e]
            /\ results'[e][<<i, "fixed">>] = results[e][<<i, "fixed">>]
        BY <3>2, <3>5
      <4>2. runner[e] \in Collecting
        BY <3>1 DEF Collecting
      <4> QED
        BY <1>3, <4>1, <4>2 DEF RunsOf
    <3>6. ASSUME NEW i \in 1..Repetitions, <<i, "log">> \in DOMAIN results'[e],
                 results'[e][<<i, "log">>].accepted
          PROVE  /\ results'[e][<<i, "log">>].by = {<<e, i>>}
                 /\ results'[e][<<i, "profile">>].by = {<<e, i>>}
      <4>1. CASE i = run[e]
        <5>1. SummaryAccepts(Lines) /\ results'[e][<<i, "log">>].by = Writers
          BY <3>2, <3>6, <4>1 DEF File
        <5> QED
          BY <3>2, <3>3, <3>4, <4>1, <5>1
      <4>2. CASE i # run[e]
        <5>1. <<i, "log">> \in DOMAIN results[e] /\ results'[e][<<i, "log">>] = results[e][<<i, "log">>]
          BY <3>2, <3>6, <4>2
        <5>2. results'[e][<<i, "profile">>] = results[e][<<i, "profile">>]
          BY <3>2, <3>3, <5>1
        <5> QED
          BY <1>3, <3>1, <3>6, <5>1, <5>2 DEF RunsOf, Collecting
      <4> QED
        BY <4>1, <4>2
    <3> QED
      BY <3>5, <3>6 DEF RunsOf
  <2>5. CASE Summarize(e)
    <3>1. PICK file : Store(e, Summary, file) /\ runner[e] = "summarize"
      BY <2>5 DEF Summarize
    <3>2. DOMAIN results[e] = Collected /\ Summary \notin Collected
      BY <1>3, <3>1, RepetitionsAssumption DEF SoFar, Collecting, Summary, Collected
    <3>3. \A i \in 1..Repetitions : {<<i, "fixed">>, <<i, "profile">>, <<i, "log">>} \subseteq Collected
      BY DEF Collected
    <3>4. \A p \in Collected : results'[e][p] = results[e][p]
      BY <3>1, <3>2, StoreFacts
    <3>5. \A i \in 1..Repetitions : /\ results'[e][<<i, "fixed">>] = results[e][<<i, "fixed">>]
                                    /\ results'[e][<<i, "profile">>] = results[e][<<i, "profile">>]
                                    /\ results'[e][<<i, "log">>] = results[e][<<i, "log">>]
      BY <3>3, <3>4
    <3> QED
      BY <1>3, <3>1, <3>2, <3>3, <3>5 DEF RunsOf, Collecting
  <2> QED
    BY <2>1, <2>2, <2>3, <2>4, <2>5 DEF RunnerStep
<1> QED
  BY <1>1, <1>4 DEF RunsInv

LEMMA NextRuns ==
  /\ OneAtATime /\ WorkInv /\ Stored /\ TrialInv /\ ProgressInv /\ RunsInv /\ [Next]_vars
  => RunsInv'
<1> SUFFICES ASSUME OneAtATime, WorkInv, Stored, TrialInv, ProgressInv, RunsInv, [Next]_vars
             PROVE  RunsInv'
  OBVIOUS
<1>1. CASE UNCHANGED <<runner, outcome>>
  BY <1>1, RunsRest DEF outcome, RunsInv
<1>2. ASSUME NEW e \in Evaluations, RunnerStep(e) PROVE RunsInv'
  BY <1>2, RunnerStepRuns
<1>3. ASSUME NEW e \in Evaluations, Around(e), NEW f \in Evaluations PROVE RunsOf(f)'
  <2>1. runner'[f] \in {runner[f], "killed"}
    BY <1>3, AroundWork
  <2>2. CASE results'[f] = results[f]
    BY <2>1, <2>2, RunsRest DEF Collecting, RunsInv
  <2>3. CASE results'[f] # results[f]
    <3>1. Interfere(e)
      BY <1>3, <2>3 DEF Around, Terminate, Kill, outcome
    <3>2. f = e /\ runner' = runner /\ runner[e] = "verify"
      BY <2>3, <3>1 DEF Interfere, Store, own, Stored
    <3> QED
      BY <3>2 DEF RunsOf, Collecting
  <2> QED
    BY <2>2, <2>3
<1> QED
  BY <1>1, <1>2, <1>3, TestStepFrame, ReplayStepWork DEF Next, Around, vars, own, RunsInv

LEMMA RunnerStepProgress ==
  ASSUME OneAtATime, WorkInv, Stored, NEW e \in Evaluations, RunnerStep(e),
         RunsOf(e), ProgressInv
  PROVE  ProgressInv'
<1>1. ASSUME NEW f \in Evaluations \ {e} PROVE ProgressOf(f)'
  <2>1. /\ runner'[f] = runner[f] /\ kind'[f] = kind[f] /\ run'[f] = run[f]
        /\ results'[f] = results[f] /\ manifest'[f] = manifest[f]
    <3>1. runner'[f] = runner[f] /\ kind'[f] = kind[f] /\ run'[f] = run[f]
      BY RunnerStepFrame
    <3>2. results'[f] = results[f]
      BY DEF RunnerStep, Refuse, Begin, RunTest, TestEnded, TakeFixed, TakeProfile, Take, TakeLog,
             Summarize, CreateManifest, VerifyManifest, RunnerFails, Store, outcome, Stored
    <3>3. manifest'[f] = manifest[f]
      BY DEF RunnerStep, Refuse, Begin, RunTest, TestEnded, TakeFixed, TakeProfile, Take, TakeLog,
             Summarize, CreateManifest, VerifyManifest, RunnerFails, outcome, Stored
    <3> QED
      BY <3>1, <3>2, <3>3
  <2> QED
    BY <2>1, ProgressRest DEF ProgressInv
<1>2. \A how : SetRunner(e, how) => runner'[e] = how
  BY DEF SetRunner, WorkInv, Indexed
<1>3. /\ ProgressOf(e) /\ run[e] \in 1..Repetitions
      /\ runner[e] \in Collecting \ {"create"} =>
           DOMAIN results[e] = SoFar(e) /\ Sound(results[e])
  BY DEF ProgressInv, ProgressOf
<1>4. ProgressOf(e)'
  <2>1. CASE Refuse(e) \/ VerifyManifest(e) \/ RunnerFails(e)
    BY <1>2, <1>3, <2>1, ProgressRest
       DEF Refuse, VerifyManifest, RunnerFails, Exit, outcome, Collecting
  <2>2. CASE Begin(e) \/ RunTest(e) \/ TestEnded(e)
    <3>1. /\ results' = results /\ manifest' = manifest /\ run' = run
          /\ \/ runner'[e] \in {"failed", "stranded"}
             \/ runner[e] = "idle" /\ runner'[e] = "fixed"
             \/ runner[e] = "fixed" /\ runner'[e] = "await" /\ kind'[e] = "fixed"
             \/ runner[e] = "profile" /\ runner'[e] = "await" /\ kind'[e] = "profile"
             \/ runner[e] = "await" /\ runner'[e] = "take_fixed" /\ kind[e] = "fixed"
             \/ runner[e] = "await" /\ runner'[e] = "take_profile" /\ kind[e] = "profile"
      BY <1>2, <2>2 DEF Begin, RunTest, TestEnded, Exit, outcome, WorkInv, Indexed, Phased
    <3>2. runner'[e] \notin {"failed", "stranded"} => SoFar(e)' = SoFar(e)
      BY <3>1 DEF SoFar, InLogPhase
    <3> QED
      BY <1>3, <3>1, <3>2, ProgressRest DEF Collecting
  <2>3. CASE TakeFixed(e)
    <3>1. /\ Store(e, <<run[e], "fixed">>, File(artifacts["fixed"], TRUE))
          /\ runner[e] = "take_fixed" /\ runner'[e] = "profile" /\ run' = run
      BY <1>2, <2>3 DEF TakeFixed, Take
    <3>2. Sound(results'[e])
      BY <1>3, <3>1, StoreSound DEF File, Collecting
    <3>3. DOMAIN results'[e] = SoFar(e)'
      <4>1. DOMAIN results'[e] = DOMAIN results[e] \cup {<<run[e], "fixed">>}
        BY <3>1, StoreFacts
      <4>2. DOMAIN results[e] = {p \in Collected : p[1] < run[e]}
        BY <1>3, <3>1 DEF SoFar, InLogPhase, Collecting, Collected
      <4>3. SoFar(e)' = {p \in Collected : p[1] < run[e] \/ p = <<run[e], "fixed">>}
        BY <3>1 DEF SoFar, InLogPhase, Collected
      <4>4. <<run[e], "fixed">> \in Collected
        BY <1>3 DEF Collected
      <4> QED
        BY <4>1, <4>2, <4>3, <4>4
    <3> QED
      BY <1>3, <3>1, <3>2, <3>3 DEF ProgressOf
  <2>4. CASE TakeProfile(e)
    <3>1. /\ Store(e, <<run[e], "profile">>, File(artifacts["profile"], TRUE))
          /\ runner[e] = "take_profile" /\ runner'[e] = "take_log" /\ run' = run
      BY <1>2, <2>4 DEF TakeProfile, Take
    <3>2. Sound(results'[e])
      BY <1>3, <3>1, StoreSound DEF File, Collecting
    <3>3. DOMAIN results'[e] = SoFar(e)'
      <4>1. DOMAIN results'[e] = DOMAIN results[e] \cup {<<run[e], "profile">>}
        BY <3>1, StoreFacts
      <4>2. DOMAIN results[e] = {p \in Collected : p[1] < run[e] \/ p = <<run[e], "fixed">>}
        BY <1>3, <3>1 DEF SoFar, InLogPhase, Collecting, Collected
      <4>3. SoFar(e)' = {p \in Collected : \/ p[1] < run[e] \/ p = <<run[e], "fixed">>
                                           \/ p = <<run[e], "profile">>}
        BY <3>1 DEF SoFar, InLogPhase, Collected
      <4>4. <<run[e], "profile">> \in Collected
        BY <1>3 DEF Collected
      <4> QED
        BY <4>1, <4>2, <4>3, <4>4
    <3> QED
      BY <1>3, <3>1, <3>2, <3>3 DEF ProgressOf
  <2>5. CASE TakeLog(e)
    <3>1. /\ Store(e, <<run[e], "log">>, File(Writers, SummaryAccepts(Lines)))
          /\ runner[e] = "take_log"
          /\ \/ run[e] < Repetitions /\ run'[e] = run[e] + 1 /\ runner'[e] = "fixed"
             \/ run[e] = Repetitions /\ run'[e] = run[e] /\ runner'[e] = "summarize"
      BY <1>2, <1>3, <2>5, RepetitionsAssumption DEF TakeLog, WorkInv, Indexed
    <3>2. Sound(results'[e])
      BY <1>3, <3>1, StoreSound DEF File, Collecting
    <3>3. DOMAIN results'[e] = {p \in Collected : p[1] <= run[e]}
      BY <1>3, <3>1, StoreFacts DEF SoFar, InLogPhase, Collected, Collecting
    <3>4. SoFar(e)' = {p \in Collected : p[1] <= run[e]}
      BY <1>3, <3>1, RepetitionsAssumption DEF SoFar, InLogPhase, Collected
    <3>5. run'[e] \in 1..Repetitions
      BY <1>3, <3>1, RepetitionsAssumption
    <3> QED
      BY <3>1, <3>2, <3>3, <3>4, <3>5 DEF ProgressOf
  <2>6. CASE Summarize(e)
    <3>1. PICK file :
            /\ Store(e, Summary, file) /\ ~ file.link /\ file.accepted
            /\ file.by = UNION {results[e][p].by : p \in DOMAIN results[e]}
            /\ runner[e] = "summarize" /\ runner'[e] = "create" /\ run' = run
      BY <1>2, <2>6 DEF Summarize, File
    <3>2. DOMAIN results[e] = Collected /\ Sound(results[e])
      BY <1>3, <3>1 DEF SoFar, Collecting
    <3>3. \A p \in Collected : results[e][p].accepted
      <4>1. ASSUME NEW i \in 1..Repetitions PROVE results[e][<<i, "log">>].accepted
        <5>1. <<i, "log">> \in Collected
          BY DEF Collected
        <5> QED
          BY <2>6, <3>2, <5>1 DEF Summarize, Summarizable, RunsWith
      <4> QED
        BY <3>2, <4>1 DEF Sound, Collected
    <3>4. \A p \in Collected : results[e][p].by = {<<e, p[1]>>}
      <4>1. ASSUME NEW i \in 1..Repetitions
            PROVE  /\ results[e][<<i, "fixed">>].by = {<<e, i>>}
                   /\ results[e][<<i, "profile">>].by = {<<e, i>>}
                   /\ results[e][<<i, "log">>].by = {<<e, i>>}
        <5>1. <<i, "fixed">> \in Collected /\ <<i, "log">> \in Collected
          BY DEF Collected
        <5> QED
          BY <3>1, <3>2, <3>3, <5>1 DEF RunsOf, Collecting
      <4>2. ASSUME NEW i \in 1..Repetitions, NEW part \in {"fixed", "profile", "log"}
            PROVE  results[e][<<i, part>>].by = {<<e, i>>}
        BY <4>1
      <4>3. \A p \in Collected : /\ p[1] \in 1..Repetitions /\ p[2] \in {"fixed", "profile", "log"}
                                 /\ p = <<p[1], p[2]>>
        BY DEF Collected
      <4> QED
        BY <4>2, <4>3
    <3>5. file.by = {e} \X (1..Repetitions)
      <4>1. \A x \in file.by : x \in {e} \X (1..Repetitions)
        BY <3>1, <3>2, <3>4 DEF Collected
      <4>2. ASSUME NEW i \in 1..Repetitions PROVE <<e, i>> \in file.by
        <5>1. <<i, "fixed">> \in Collected
          BY DEF Collected
        <5>2. <<e, i>> \in results[e][<<i, "fixed">>].by
          BY <3>4, <5>1
        <5> QED
          BY <3>1, <3>2, <5>1, <5>2
      <4> QED
        BY <4>1, <4>2
    <3>6. Summary \notin Collected
      BY RepetitionsAssumption DEF Summary, Collected
    <3>7. /\ DOMAIN results'[e] = Collected \cup {Summary} /\ results'[e][Summary] = file
          /\ \A p \in Collected : results'[e][p] = results[e][p]
      BY <3>1, <3>2, <3>6, StoreFacts
    <3>8. Full(e, results'[e])
      BY <3>1, <3>2, <3>3, <3>5, <3>7 DEF Full, Sound
    <3> QED
      BY <1>3, <3>1, <3>8 DEF ProgressOf, Full, Collecting
  <2>7. CASE CreateManifest(e)
    <3>1. /\ runner[e] = "create" /\ runner'[e] = "verify" /\ run' = run
          /\ manifest'[e] = results[e]
      BY <1>2, <2>7 DEF CreateManifest, ManifestOf, Stored
    <3> QED
      BY <1>3, <3>1 DEF ProgressOf, Full, Collecting
  <2> QED
    BY <2>1, <2>2, <2>3, <2>4, <2>5, <2>6, <2>7 DEF RunnerStep
<1> QED
  BY <1>1, <1>4 DEF ProgressInv

LEMMA NextProgress ==
  /\ OneAtATime /\ WorkInv /\ Stored /\ RunsInv /\ ProgressInv /\ [Next]_vars
  => ProgressInv'
<1> SUFFICES ASSUME OneAtATime, WorkInv, Stored, RunsInv, ProgressInv, [Next]_vars
             PROVE  ProgressInv'
  OBVIOUS
<1>1. CASE UNCHANGED <<runner, run, kind, outcome>>
  BY <1>1, ProgressRest DEF outcome, ProgressInv
<1>2. ASSUME NEW e \in Evaluations, RunnerStep(e) PROVE ProgressInv'
  BY <1>2, RunnerStepProgress DEF RunsInv
<1>3. ASSUME NEW e \in Evaluations, Around(e), NEW f \in Evaluations PROVE ProgressOf(f)'
  <2>1. /\ runner'[f] \in {runner[f], "killed"}
        /\ manifest' = manifest /\ run' = run /\ kind' = kind
    BY <1>3, AroundWork
  <2>2. CASE results'[f] = results[f]
    BY <2>1, <2>2, ProgressRest DEF Collecting, ProgressInv
  <2>3. CASE results'[f] # results[f]
    <3>1. Interfere(e)
      BY <1>3, <2>3 DEF Around, Terminate, Kill, outcome
    <3>2. f = e /\ runner' = runner /\ runner[e] = "verify"
      BY <2>3, <3>1 DEF Interfere, Store, own, Stored
    <3> QED
      BY <2>1, <3>2 DEF ProgressInv, ProgressOf, Full, Collecting
  <2> QED
    BY <2>2, <2>3
<1> QED
  BY <1>1, <1>2, <1>3, TestStepFrame, ReplayStepWork DEF Next, Around, vars, own, ProgressInv

\* What verifies is complete.
LEMMA VerifiedIsComplete ==
  ASSUME WorkInv, NEW e \in Evaluations, ProgressOf(e), VerifyManifest(e)
  PROVE  Complete(e)'
<1>1. /\ results' = results /\ Verified(results[e], manifest[e]) /\ Full(e, manifest[e])
  BY DEF VerifyManifest, outcome, ProgressOf
<1>2. DOMAIN results[e] = DOMAIN manifest[e]
  BY <1>1 DEF Verified, Missing, Untracked
<1>3. \A p \in DOMAIN results[e] : ~ results[e][p].link /\ results[e][p] = manifest[e][p]
  BY <1>1, <1>2 DEF Verified, Mismatched
<1> QED
  BY <1>1, <1>2, <1>3 DEF Full, Complete

\* An evaluation that reports success, after any number of others that did not,
\* leaves the three files of every repetition and a summary of exactly these
\* runs, and nothing else; whatever was changed since the hashing was noticed.
\* With KEEP_LAB=1 a replay that outlived its test may have written into a log
\* that is collected, but then the summary refuses it.
THEOREM SuccessMeansComplete ==
  ASSUME OneAtATime PROVE Spec => FinishedIsComplete
<1> DEFINE Inv == WorkInv /\ Stored /\ TrialInv /\ RunsInv /\ ProgressInv
<1>1. Init => Inv
  BY InitWork, InitStored, InitTrial, InitProgress
<1>2. Inv /\ [Next]_vars => Inv'
  BY NextWork, NextStored, NextTrial, NextRuns, NextProgress
<1>3. Inv /\ [Next]_vars =>
        [\A e \in Evaluations :
           runner[e] # "finished" /\ runner'[e] = "finished" => Complete(e)']_vars
  <2> SUFFICES ASSUME Inv, Next, NEW e \in Evaluations,
                      runner[e] # "finished", runner'[e] = "finished"
               PROVE  Complete(e)'
    OBVIOUS
  <2>1. VerifyManifest(e)
    <3>1. ASSUME NEW f \in Evaluations, RunnerStep(f) PROVE f = e
      BY <3>1, RunnerStepFrame
    <3>2. RunnerStep(e)
      BY <3>1, TestStepFrame, ReplayStepWork, AroundWork DEF Next, Around
    <3> QED
      BY <3>2 DEF RunnerStep, Refuse, Begin, RunTest, TestEnded, TakeFixed, TakeProfile, Take,
                  TakeLog, Summarize, CreateManifest, RunnerFails, Exit, SetRunner, WorkInv,
                  Indexed
  <2> QED
    BY <2>1, VerifiedIsComplete DEF ProgressInv
<1> QED
  BY <1>1, <1>2, <1>3, PTL DEF Spec, FinishedIsComplete
=============================================================================
