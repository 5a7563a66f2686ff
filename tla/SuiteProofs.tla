------------------------------ MODULE SuiteProofs ------------------------------
(***************************************************************************)
(* Theorems about Suite: harness.Run around any number of parallel tests,  *)
(* whatever fails among its own steps and theirs.                          *)
(***************************************************************************)
EXTENDS Suite, CleanupProofs

---------------------------------------------------------------------------
(* The inductive invariant.                                                *)

(* Run has a container from its publication to the end of stopAll.  A      *)
(* sidecar that is not down is one stopAll still has to go through, or one *)
(* it could not stop.                                                      *)
HarnessOK ==
  /\ run = "start" => shared = None /\ containers[SharedCtr] = "absent"
  /\ run \in {"sidecars", "tests", "failing", "stopping"}
     => shared = SharedCtr /\ (process = "running" => containers[SharedCtr] = "running")
  /\ run \in {"start", "clearing", "exiting"} => active = <<>>
  /\ \A s \in Sidecars \ unstopped :
       servers[s] # "down" => \E i \in 1 .. Len(active) : active[i] = s
  /\ run = "failing" => code = 1
  /\ process = "exited" => run = "exiting"

(* No test has a container of its own; the caller's is up.                 *)
ContainersOK ==
  /\ containers[ReusedCtr] = "running"
  /\ \A t \in Tests : containers[t] = "absent" /\ ~own[t]

(* Outside m.Run no test is on its way, and code 0 after it means what it  *)
(* says.                                                                   *)
VerdictOK ==
  /\ run # "tests" => \A t \in Tests : pc[t] \in {"idle", "done"}
  /\ run \in {"stopping", "clearing", "exiting"} /\ code = 0
     => \A t \in Tests : pc[t] = "done" /\ ~failed[t]
  /\ run \in {"clearing", "exiting"} /\ code = 0
     => containers[SharedCtr] = "removed" \/ SharedCtr \in unstopped

(* A prefix that was checked is remembered, and of two tests that checked  *)
(* the same one the second has failed.                                     *)
PrefixesSeen ==
  /\ seenPrefixes \subseteq Prefixes /\ checked \subseteq Tests
  /\ \A t \in Tests : pc[t] # "idle" => prefix[t] # None
  /\ \A t \in checked : pc[t] \notin {"idle", "setup"} /\ prefix[t] \in seenPrefixes
  /\ \A t, u \in checked : t # u /\ prefix[t] = prefix[u] => failed[t] \/ failed[u]

SuiteInv ==
  /\ TestsInv /\ HarnessTypeOK
  /\ HarnessOK /\ ContainersOK /\ VerdictOK /\ PrefixesSeen

(* A binary before its TestMain.                                           *)
LEMMA SuiteInvInit == SuiteInit => SuiteInv
<1> SUFFICES ASSUME SuiteInit PROVE SuiteInv
  OBVIOUS
<1>0. ReusedCtr \in Containers /\ SharedCtr \in Containers /\ SharedCtr # ReusedCtr
      /\ Tests \subseteq Containers /\ SharedCtr \notin Tests /\ ReusedCtr \notin Tests
  BY RuntimeAssumption DEF Containers
<1>1. TypeOK
  <2>1. RuntimeTypeOK
    BY DEF SuiteInit, TestInit, RuntimeTypeOK
  <2>2. cleanups \in [Tests -> Seq(Callbacks)]
    BY DEF SuiteInit, TestInit
  <2>3. QED
    BY <2>1, <2>2 DEF SuiteInit, TestInit, TypeOK, PCs
<1>2. TestsInv
  BY <1>1, TestsInit DEF SuiteInit
<1>3. HarnessTypeOK /\ HarnessOK
  BY <1>0 DEF SuiteInit, HarnessInit, HarnessTypeOK, HarnessOK, RunPoints
<1>4. ContainersOK
  BY <1>0 DEF SuiteInit, TestInit, ContainersOK
<1>5. VerdictOK /\ PrefixesSeen
  BY DEF SuiteInit, HarnessInit, TestInit, VerdictOK, PrefixesSeen
<1>6. QED
  BY <1>2, <1>3, <1>4, <1>5 DEF SuiteInv

---------------------------------------------------------------------------
(* The steps of Run.                                                       *)

(* Run keeps the shape of its own variables and of the runtime.            *)
LEMMA HarnessTypes ==
  ASSUME RuntimeTypeOK, HarnessTypeOK, HarnessStep
  PROVE  RuntimeTypeOK' /\ HarnessTypeOK'
<1> USE DEF RuntimeTypeOK, HarnessTypeOK, RunPoints, At, runtimeVars, harnessVars
<1>0. SharedCtr \in Containers /\ SharedCtr \in URLs
  BY DEF Containers, URLs
<1>1. CASE StartShared
  BY <1>0, <1>1 DEF StartShared, LaunchContainer
<1>2. CASE StartSharedFails
  BY <1>0, <1>2 DEF StartSharedFails, LaunchFails
<1>3. CASE StartSidecar
  <2> DEFINE s == SidecarList[Len(active) + 1]
  <2>1. s \in Sidecars
    BY <1>3, HarnessAssumption DEF StartSidecar
  <2>2. /\ servers' = [servers EXCEPT ![s] = IF s \in AsyncSidecars THEN "starting" ELSE "up"]
        /\ active' = Append(active, s) /\ edgeURL' = s
        /\ UNCHANGED <<process, containers, live, shared, run, code, unstopped>>
    BY <1>3 DEF StartSidecar
  <2> HIDE DEF s
  <2>3. QED
    BY <2>1, <2>2 DEF URLs
<1>4. CASE StartSidecarFails \/ RunTests
  BY <1>4 DEF StartSidecarFails, RunTests
<1>5. CASE StopSidecar
  <2>1. active' \in Seq(Sidecars)
    BY <1>5, PopSeq DEF StopSidecar, Front1
  <2>2. QED
    BY <1>5, <2>1 DEF StopSidecar
<1>6. CASE StopSidecarFails
  <2>1. active' \in Seq(Sidecars) /\ Last1(active) \in Sidecars
    BY <1>6, PopSeq DEF StopSidecarFails, Front1, Last1
  <2>2. QED
    BY <1>6, <2>1 DEF StopSidecarFails
<1>7. CASE StopShared
  BY <1>0, <1>7 DEF StopShared, TerminateContainer, AfterStop
<1>8. CASE StopSharedFails
  BY <1>8 DEF StopSharedFails, AfterStop
<1>9. CASE ClearShared
  BY <1>9 DEF ClearShared
<1>10. CASE OSExit
  BY <1>10 DEF OSExit, ServersAfterExit
<1>11. QED
  BY <1>1, <1>2, <1>3, <1>4, <1>5, <1>6, <1>7, <1>8, <1>9, <1>10 DEF HarnessStep

(* Run touches one container, the one it started itself, and that only     *)
(* while no test is on its way.                                            *)
LEMMA HarnessFrame ==
  ASSUME RuntimeTypeOK, HarnessStep
  PROVE  /\ process = "running"
         /\ \A c \in Containers \ {SharedCtr} : containers'[c] = containers[c]
         /\ run # "tests"
  BY DEF HarnessStep, StartShared, StartSharedFails, StartSidecar, StartSidecarFails, RunTests,
     StopSidecar, StopSidecarFails, StopShared, StopSharedFails, ClearShared, OSExit, At,
     Stopping, LaunchContainer, LaunchFails, TerminateContainer, RuntimeTypeOK, runtimeVars

(* stopAll goes through the sidecars, last one first.                      *)
LEMMA StopOrder ==
  ASSUME HarnessTypeOK, active # <<>>, NEW s \in Sidecars,
         \E i \in 1 .. Len(active) : active[i] = s
  PROVE  \/ s = Last1(active)
         \/ \E i \in 1 .. Len(Front1(active)) : Front1(active)[i] = s
<1>1. PICK i \in 1 .. Len(active) : active[i] = s
  OBVIOUS
<1>2. /\ Len(active) \in Nat \ {0} /\ Len(Front1(active)) = Len(active) - 1
      /\ \A j \in 1 .. Len(active) - 1 : Front1(active)[j] = active[j]
  BY PopSeq DEF HarnessTypeOK, Front1
<1>3. CASE i = Len(active)
  BY <1>1, <1>3 DEF Last1
<1>4. CASE i # Len(active)
  BY <1>1, <1>2, <1>4
<1>5. QED
  BY <1>3, <1>4

(* Run's steps keep its own invariant.                                     *)
LEMMA HarnessKeeps ==
  ASSUME RuntimeTypeOK, HarnessTypeOK, HarnessOK, HarnessStep
  PROVE  HarnessOK'
<1>0. SharedCtr \in Containers
  BY DEF Containers
<1>1. CASE StartShared
  BY <1>0, <1>1 DEF StartShared, LaunchContainer, At, HarnessOK, RuntimeTypeOK
<1>2. CASE StartSharedFails
  BY <1>2 DEF StartSharedFails, At, HarnessOK
<1>3. CASE StartSidecar
  <2> DEFINE s == SidecarList[Len(active) + 1]
  <2>1. s \in Sidecars /\ active \in Seq(Sidecars)
    BY <1>3, HarnessAssumption DEF StartSidecar, HarnessTypeOK
  <2>2. /\ \A x \in Sidecars \ {s} : servers'[x] = servers[x]
        /\ active' = Append(active, s) /\ run = "sidecars"
        /\ UNCHANGED <<process, containers, shared, run, code, unstopped>>
    BY <1>3, <2>1 DEF StartSidecar, At, RuntimeTypeOK
  <2> HIDE DEF s
  <2>3. /\ \A i \in 1 .. Len(active) : i \in 1 .. Len(active') /\ active'[i] = active[i]
        /\ Len(active) + 1 \in 1 .. Len(active') /\ active'[Len(active) + 1] = s
    BY <2>1, <2>2
  <2>4. ASSUME NEW x \in Sidecars \ unstopped', servers'[x] # "down"
        PROVE  \E i \in 1 .. Len(active') : active'[i] = x
    <3>1. CASE x = s
      BY <2>3, <3>1
    <3>2. CASE x # s
      BY <2>2, <2>3, <2>4, <3>2 DEF HarnessOK
    <3>3. QED
      BY <3>1, <3>2
  <2>5. QED
    BY <2>2, <2>4 DEF HarnessOK
<1>4. CASE StartSidecarFails \/ RunTests
  BY <1>4 DEF StartSidecarFails, RunTests, At, HarnessOK, runtimeVars
<1>5. CASE StopSidecar \/ StopSidecarFails
  <2>1. /\ Stopping /\ active # <<>> /\ active' = Front1(active)
        /\ UNCHANGED <<process, containers, shared, run, code>>
        /\ unstopped \subseteq unstopped'
        /\ \A x \in Sidecars \ {Last1(active)} : servers'[x] = servers[x]
        /\ Last1(active) \notin unstopped' /\ Last1(active) \in Sidecars
           => servers'[Last1(active)] = "down"
    BY <1>5 DEF StopSidecar, StopSidecarFails, RuntimeTypeOK, runtimeVars
  <2>2. ASSUME NEW x \in Sidecars \ unstopped', servers'[x] # "down"
        PROVE  \E i \in 1 .. Len(active') : active'[i] = x
    <3>1. x # Last1(active) /\ x \notin unstopped /\ servers[x] # "down"
      BY <2>1, <2>2
    <3>2. QED
      BY <2>1, <2>2, <3>1, StopOrder DEF HarnessOK
  <2>3. run \in {"failing", "stopping"}
    BY <2>1 DEF Stopping, At
  <2>4. QED
    BY <2>1, <2>2, <2>3 DEF HarnessOK
<1>6. CASE StopShared \/ StopSharedFails
  <2>1. /\ active = <<>> /\ run' \in {"exiting", "clearing"} /\ process = "running"
        /\ UNCHANGED <<process, servers, active, code>> /\ unstopped \subseteq unstopped'
    BY <1>6 DEF StopShared, StopSharedFails, AfterStop, SidecarsStopped, Stopping, At, runtimeVars
  <2>2. QED
    BY <2>1 DEF HarnessOK
<1>7. CASE ClearShared
  BY <1>7 DEF ClearShared, At, HarnessOK
<1>8. CASE OSExit
  BY <1>8 DEF OSExit, ServersAfterExit, At, HarnessOK, harnessVars
<1>9. QED
  BY <1>1, <1>2, <1>3, <1>4, <1>5, <1>6, <1>7, <1>8 DEF HarnessStep

(* What Run does lets the tests alone.                                     *)
LEMMA HarnessStepKeeps ==
  ASSUME SuiteInv, HarnessStep, UNCHANGED <<testVars, prefixVars>>
  PROVE  SuiteInv'
<1>0. TypeOK /\ RuntimeTypeOK
  BY DEF SuiteInv, TestsInv, TypeOK
<1>1. /\ process = "running" /\ run # "tests"
      /\ \A c \in Containers \ {SharedCtr} : containers'[c] = containers[c]
  BY <1>0, HarnessFrame
<1>2. RuntimeTypeOK' /\ HarnessTypeOK' /\ HarnessOK'
  BY <1>0, HarnessTypes, HarnessKeeps DEF SuiteInv
<1>3. TypeOK'
  BY <1>0, <1>2 DEF TypeOK, testVars
<1>4. /\ \A t \in Tests : containers'[t] = containers[t]
      /\ containers'[ReusedCtr] = containers[ReusedCtr]
  BY <1>1, RuntimeAssumption DEF Containers
<1>5. TestsInv'
  BY <1>1, <1>3, <1>4, AroundTests DEF SuiteInv
<1>6. ContainersOK'
  BY <1>4 DEF SuiteInv, ContainersOK, testVars
<1>7. PrefixesSeen'
  BY DEF SuiteInv, PrefixesSeen, testVars, prefixVars
<1>8. \A t \in Tests : pc'[t] \in {"idle", "done"}
  BY <1>1 DEF SuiteInv, VerdictOK, testVars
<1>9. ASSUME run' \in {"stopping", "clearing", "exiting"}, code' = 0
      PROVE  /\ run \in {"stopping", "clearing", "exiting"} /\ code = 0
             /\ run' \in {"clearing", "exiting"} =>
                  containers'[SharedCtr] = "removed" \/ SharedCtr \in unstopped'
  <2>0. SharedCtr \in Containers
    BY DEF Containers
  <2>1. CASE StopShared
    BY <1>0, <1>9, <2>0, <2>1 DEF StopShared, TerminateContainer, Stopping, At, SuiteInv,
         HarnessOK, RuntimeTypeOK
  <2>2. CASE StopSharedFails
    BY <1>9, <2>2 DEF StopSharedFails, Stopping, At, SuiteInv, HarnessOK
  <2>3. CASE StartShared \/ StartSharedFails \/ StartSidecar \/ StartSidecarFails \/ RunTests
    BY <1>9, <2>3 DEF StartShared, StartSharedFails, StartSidecar, StartSidecarFails, RunTests, At
  <2>4. CASE StopSidecar \/ StopSidecarFails
    BY <1>9, <2>4 DEF StopSidecar, StopSidecarFails, Stopping, At, SuiteInv, HarnessOK
  <2>5. CASE ClearShared \/ OSExit
    BY <1>9, <2>5 DEF ClearShared, OSExit, At, SuiteInv, VerdictOK, harnessVars
  <2>6. QED
    BY <2>1, <2>2, <2>3, <2>4, <2>5 DEF HarnessStep
<1>10. VerdictOK'
  BY <1>8, <1>9 DEF SuiteInv, VerdictOK, testVars
<1>11. QED
  BY <1>2, <1>5, <1>6, <1>7, <1>10 DEF SuiteInv

---------------------------------------------------------------------------
(* The steps of m.Run.                                                     *)

(* Under harness.Run no test starts or stops a container: New finds the    *)
(* shared one.                                                             *)
LEMMA NoOwnContainer ==
  ASSUME TestsInv, shared # None, NEW t \in Tests, ~own[t], TestStep(t)
  PROVE  UNCHANGED containers /\ ~own'[t]
<1>0. TypeOK /\ StackOK(t) /\ ~StartOwn(t) /\ ~StartOwnFails(t)
  BY DEF TestsInv, TestOK, StartOwn, StartOwnFails
<1>1. CASE AttachReused(t) \/ AttachShared(t)
  BY <1>0, <1>1 DEF AttachReused, AttachShared, Attach, TypeOK
<1>2. CASE SetUp(t) \/ SetUpFails(t)
  BY <1>2 DEF SetUp, SetUpFails, runtimeVars
<1>3. CASE BodyStep(t)
  BY <1>3 DEF BodyStep, Plan, PlanFails, Apply, ApplyFails, Seed, SeedFails, SeedMessage,
       AssertFails, BodyReturns, runtimeVars, testVars
<1>4. CASE CleanupStep(t)
  <2>1. ~RunStop(t)
    <3>1. SUFFICES ASSUME RunStop(t) PROVE FALSE
      OBVIOUS
    <3>2. Next1(t) \in {"stop"} /\ (Next1(t) = "stop" => own[t])
      BY <3>1, LastCallback DEF RunStop
    <3>3. QED
      BY <3>2
  <2>2. QED
    BY <1>4, <2>1 DEF CleanupStep, RunDump, RunUnseed, RunUnseedFails, SkipDestroy, RunDestroy,
         RunDestroyFails, SkipStop, RunStopFails, RemoveTempDir, Finish, Runs, runtimeVars
<1>5. QED
  BY <1>0, <1>1, <1>2, <1>3, <1>4 DEF TestStep, NewStep

(* A test has a prefix from New on.                                        *)
LEMMA PrefixFromNew ==
  ASSUME TypeOK, NEW t \in Tests, TestStep(t), pc[t] # "idle" => prefix[t] # None
  PROVE  prefix'[t] # None
<1>1. CASE CallsNew(t)
  BY <1>1, TestCaseAssumption DEF CallsNew, FreshPrefixes, TypeOK
<1>2. CASE SetUp(t) \/ SetUpFails(t)
  BY <1>2 DEF SetUp, SetUpFails
<1>3. CASE BodyStep(t)
  BY <1>3 DEF BodyStep, Plan, PlanFails, Apply, ApplyFails, Seed, SeedFails, SeedMessage,
       AssertFails, BodyReturns, InBody, testVars
<1>4. CASE CleanupStep(t)
  BY <1>4 DEF CleanupStep, RunDump, RunUnseed, RunUnseedFails, SkipDestroy, RunDestroy,
       RunDestroyFails, SkipStop, RunStop, RunStopFails, RemoveTempDir, Finish, Runs
<1>5. QED
  BY <1>1, <1>2, <1>3, <1>4 DEF TestStep, NewStep, AttachReused, AttachShared, StartOwn,
     StartOwnFails

(* A test's step inside m.Run.                                             *)
LEMMA TestStepKeeps ==
  ASSUME SuiteInv, At("tests"), NEW t \in Tests, TestStep(t),
         UNCHANGED <<harnessVars, prefixVars>>
  PROVE  SuiteInv'
<1>0. /\ TestsInv /\ TypeOK /\ run = "tests" /\ process = "running"
      /\ shared = SharedCtr /\ SharedCtr # None
  BY RuntimeAssumption DEF SuiteInv, TestsInv, At, HarnessOK, URLs, Containers
<1>1. /\ UNCHANGED <<process, shared, servers, containers>> /\ ~own'[t]
      /\ \A u \in Tests \ {t} : /\ own'[u] = own[u] /\ pc'[u] = pc[u]
                               /\ prefix'[u] = prefix[u] /\ failed'[u] = failed[u]
  BY <1>0, Frame, NoOwnContainer DEF SuiteInv, ContainersOK
<1>2. TestsInv'
  BY <1>0, TestsKept
<1>3. HarnessTypeOK' /\ HarnessOK' /\ ContainersOK' /\ VerdictOK'
  BY <1>0, <1>1 DEF SuiteInv, HarnessTypeOK, HarnessOK, ContainersOK, VerdictOK, harnessVars
<1>4. (pc[t] # "idle" => prefix[t] # None) => prefix'[t] # None
  BY <1>0, PrefixFromNew
<1>5. /\ failed[t] => failed'[t]
      /\ pc[t] \notin {"idle", "setup"} =>
           pc'[t] \notin {"idle", "setup"} /\ prefix'[t] = prefix[t]
  BY <1>0, FailedStays, PrefixSettled
<1>6. PrefixesSeen'
  BY <1>1, <1>4, <1>5 DEF SuiteInv, PrefixesSeen, prefixVars
<1>7. QED
  BY <1>2, <1>3, <1>6 DEF SuiteInv

(* harness.PrefixWarning: one step, under seenPrefixesMu.                  *)
LEMMA PrefixWarningKeeps ==
  ASSUME SuiteInv, At("tests"), NEW t \in Tests, PrefixWarning(t),
         UNCHANGED <<runtimeVars, harnessVars, pc, opts, prefix, stack, own, edge, work,
                     inited, tfState, cleanups, artifacts>>
  PROVE  SuiteInv'
<1>0. /\ TestsInv /\ TypeOK /\ run = "tests"
      /\ \A u \in Tests : StackOK(u) /\ CallbacksOK(u) /\ ~own[u]
  BY DEF SuiteInv, TestsInv, TestOK, At, ContainersOK
<1>1. /\ failed' \in [Tests -> BOOLEAN]
      /\ \A u \in Tests : failed[u] => failed'[u]
      /\ failed'[t] <=> failed[t] \/ prefix[t] \in seenPrefixes
  BY <1>0 DEF PrefixWarning, TypeOK
<1>2. TypeOK'
  BY <1>0, <1>1 DEF TypeOK, RuntimeTypeOK, runtimeVars
<1>3. TestsInv'
  BY <1>0, <1>2 DEF TestsInv, TestOK, StackOK, CallbacksOK, OwnUp
<1>4. HarnessTypeOK' /\ HarnessOK' /\ ContainersOK' /\ VerdictOK'
  BY <1>0 DEF SuiteInv, HarnessTypeOK, HarnessOK, ContainersOK, VerdictOK, harnessVars, runtimeVars
<1>5. prefix[t] \in Prefixes
  BY <1>0 DEF SuiteInv, PrefixesSeen, PrefixWarning, TypeOK
<1>6. PrefixesSeen'
  <2>1. /\ checked' = checked \cup {t} /\ seenPrefixes' = seenPrefixes \cup {prefix[t]}
        /\ pc[t] = "body"
    BY DEF PrefixWarning
  <2>2. \A u \in checked : prefix[u] = prefix[t] => failed'[t]
    BY <1>1 DEF SuiteInv, PrefixesSeen
  <2>3. QED
    BY <1>1, <1>5, <2>1, <2>2 DEF SuiteInv, PrefixesSeen
<1>7. QED
  BY <1>3, <1>4, <1>6 DEF SuiteInv

(* m.Run returns, with the tests' verdict.                                 *)
LEMMA RunReturnsKeeps ==
  ASSUME SuiteInv, AllDone, RunReturns(\A t \in Tests : ~failed[t]),
         UNCHANGED <<testVars, prefixVars>>
  PROVE  SuiteInv'
<1>1. UNCHANGED <<runtimeVars, edgeURL, active, unstopped>> /\ run = "tests" /\ run' = "stopping"
      /\ code' = IF \A t \in Tests : ~failed[t] THEN 0 ELSE 1
  BY DEF RunReturns, At
<1>2. TypeOK'
  BY <1>1 DEF SuiteInv, TestsInv, TypeOK, RuntimeTypeOK, runtimeVars, testVars
<1>3. TestsInv'
  BY <1>1, <1>2, AroundTests DEF SuiteInv, runtimeVars
<1>4. HarnessTypeOK' /\ HarnessOK' /\ ContainersOK' /\ PrefixesSeen'
  BY <1>1 DEF SuiteInv, HarnessTypeOK, RunPoints, HarnessOK, ContainersOK, PrefixesSeen,
       runtimeVars, testVars, prefixVars
<1>5. VerdictOK'
  BY <1>1 DEF AllDone, VerdictOK, testVars
<1>6. QED
  BY <1>3, <1>4, <1>5 DEF SuiteInv

(* What happens around Run and the tests.                                  *)
LEMMA SuiteOutsideKeeps ==
  ASSUME SuiteInv, SuiteOutside
  PROVE  SuiteInv'
<1>0. TestsInv /\ TypeOK /\ RuntimeTypeOK /\ UNCHANGED <<testVars, prefixVars>>
      /\ UNCHANGED harnessVars
  BY DEF SuiteInv, TestsInv, TypeOK, SuiteOutside, SidecarReady
<1> DEFINE Around ==
      /\ RuntimeTypeOK'
      /\ process' = "running" => process = "running" /\ UNCHANGED containers
      /\ process' # process => process' = "crashed"
      /\ shared' = shared
      /\ \A c \in Containers : containers'[c] # containers[c] =>
            c \in SessionContainers /\ containers[c] = "running" /\ containers'[c] = "removed"
      /\ \A s \in Sidecars : servers'[s] # "down" => servers[s] # "down"
<1>1. Around
  <2>1. ASSUME NEW s \in Sidecars, process = "running", SidecarReady(s) PROVE Around
    BY <1>0, <2>1 DEF SidecarReady, RuntimeTypeOK
  <2>2. CASE Crash
    BY <1>0, <2>2 DEF Crash, ServersAfterExit, RuntimeTypeOK
  <2>3. ASSUME NEW c \in SessionContainers, Reap(c) PROVE Around
    BY <1>0, <2>3 DEF Reap, TerminateContainer, RuntimeTypeOK
  <2>4. QED
    BY <2>1, <2>2, <2>3 DEF SuiteOutside
<1>2. TypeOK'
  BY <1>0, <1>1 DEF TypeOK, testVars
<1>3. TestsInv'
  BY <1>0, <1>1, <1>2, AroundTests
<1>4. HarnessTypeOK' /\ PrefixesSeen'
  BY <1>0 DEF SuiteInv, HarnessTypeOK, PrefixesSeen, harnessVars, testVars, prefixVars
<1>5. ReusedCtr \in Containers \ SessionContainers /\ SharedCtr \in Containers
      /\ Tests \subseteq Containers
  BY RuntimeAssumption DEF Containers, SessionContainers
<1>6. ContainersOK'
  BY <1>0, <1>1, <1>5 DEF SuiteInv, ContainersOK, testVars
<1>7. HarnessOK'
  BY <1>0, <1>1, <1>5 DEF SuiteInv, HarnessOK, harnessVars
<1>8. VerdictOK'
  BY <1>0, <1>1, <1>5 DEF SuiteInv, VerdictOK, harnessVars, testVars
<1>9. QED
  BY <1>3, <1>4, <1>6, <1>7, <1>8 DEF SuiteInv

(* The invariant is inductive.                                             *)
LEMMA SuiteInvNext == SuiteInv /\ [SuiteNext]_suiteVars => SuiteInv'
<1> SUFFICES ASSUME SuiteInv, [SuiteNext]_suiteVars PROVE SuiteInv'
  OBVIOUS
<1>1. CASE MRun
  BY <1>1, TestStepKeeps, PrefixWarningKeeps, RunReturnsKeeps DEF MRun
<1>2. CASE SuiteEnded \/ UNCHANGED suiteVars
  <2>1. UNCHANGED <<runtimeVars, testVars, harnessVars, prefixVars>>
    BY <1>2 DEF SuiteEnded, suiteVars, vars
  <2>2. TypeOK'
    BY <2>1 DEF SuiteInv, TestsInv, TypeOK, RuntimeTypeOK, runtimeVars, testVars
  <2>3. TestsInv'
    BY <2>1, <2>2, AroundTests DEF SuiteInv, runtimeVars
  <2>4. HarnessTypeOK' /\ HarnessOK' /\ ContainersOK'
    BY <2>1 DEF SuiteInv, HarnessTypeOK, HarnessOK, ContainersOK, runtimeVars, testVars,
         harnessVars
  <2>5. VerdictOK' /\ PrefixesSeen'
    BY <2>1 DEF SuiteInv, VerdictOK, PrefixesSeen, runtimeVars, testVars, harnessVars, prefixVars
  <2>6. QED
    BY <2>3, <2>4, <2>5 DEF SuiteInv
<1>3. QED
  BY <1>1, <1>2, HarnessStepKeeps, SuiteOutsideKeeps DEF SuiteNext

(* The invariant holds in every reachable state.                           *)
THEOREM SuiteInvariance == SuiteSpec => []SuiteInv
  BY SuiteInvInit, SuiteInvNext, PTL DEF SuiteSpec

---------------------------------------------------------------------------
(* What it implies.                                                        *)

(* Every variable of Run and of the tests keeps its shape                  *)
(* (testmain.go, libtftest.go).                                            *)
THEOREM SuiteTypes == SuiteSpec => []SuiteTypeOK
<1>1. SuiteInv => SuiteTypeOK
  BY DEF SuiteInv, TestsInv, PrefixesSeen, SuiteTypeOK
<1>2. QED
  BY <1>1, SuiteInvariance, PTL

(* Whichever step of Run fails, a test that runs has the shared container  *)
(* under it, and none starts one of its own (testmain.go:30).              *)
THEOREM SharedForAll == SuiteSpec => []NoTestStartsItsOwn
<1>1. SuiteInv => NoTestStartsItsOwn
  <2> SUFFICES ASSUME SuiteInv PROVE NoTestStartsItsOwn
    OBVIOUS
  <2>1. \A t \in Tests : containers[t] = "absent"
    BY DEF SuiteInv, ContainersOK
  <2>2. ASSUME process = "running", NEW t \in Tests, pc[t] \notin {"idle", "done"}
        PROVE  shared = SharedCtr /\ containers[SharedCtr] = "running"
    <3>1. run = "tests"
      BY <2>2 DEF SuiteInv, VerdictOK
    <3>2. QED
      BY <2>2, <3>1 DEF SuiteInv, HarnessOK
  <2>3. QED
    BY <2>1, <2>2 DEF NoTestStartsItsOwn
<1>2. QED
  BY <1>1, SuiteInvariance, PTL

(* A sidecar that accepts traffic has a LocalStack behind it, however many *)
(* Starts and Stops fail (testmain.go:80-97, 117-127).                     *)
THEOREM SidecarsCovered == SuiteSpec => []SidecarHasDownstream
<1>1. SuiteInv => SidecarHasDownstream
  <2> SUFFICES ASSUME SuiteInv, process = "running", NEW s \in Sidecars \ unstopped,
                      servers[s] # "down"
               PROVE  containers[SharedCtr] = "running"
    BY DEF SidecarHasDownstream
  <2>1. active # <<>>
    BY NoCallbacks DEF SuiteInv, HarnessOK
  <2>2. run \in {"sidecars", "tests", "failing", "stopping"}
    BY <2>1 DEF SuiteInv, HarnessTypeOK, RunPoints, HarnessOK
  <2>3. QED
    BY <2>2 DEF SuiteInv, HarnessOK
<1>2. QED
  BY <1>1, SuiteInvariance, PTL

(* Exit code 0 is given to a run only in which every test passed and       *)
(* whatever is left was logged (testmain.go:85, 103, 113).                 *)
THEOREM ExitCodeTrue == SuiteSpec => []ExitCodeHonest
<1>1. SuiteInv => ExitCodeHonest
  <2> SUFFICES ASSUME SuiteInv, process = "exited", code = 0
               PROVE  /\ \A t \in Tests : pc[t] = "done" /\ ~failed[t]
                      /\ containers[SharedCtr] = "removed" \/ SharedCtr \in unstopped
                      /\ \A s \in Sidecars \ unstopped : servers[s] = "down"
    BY DEF ExitCodeHonest
  <2>1. run = "exiting" /\ active = <<>>
    BY DEF SuiteInv, HarnessOK
  <2>2. \A s \in Sidecars \ unstopped : servers[s] = "down"
    BY <2>1, NoCallbacks DEF SuiteInv, HarnessOK
  <2>3. QED
    BY <2>1, <2>2 DEF SuiteInv, VerdictOK
<1>2. QED
  BY <1>1, SuiteInvariance, PTL

(* Two tests that drew one prefix and both called PrefixWarning do not     *)
(* both pass, and the run fails (testmain.go:130-150).                     *)
THEOREM CollisionsTold == SuiteSpec => []CollisionsAreReported
<1>1. SuiteInv => CollisionsAreReported
  <2> SUFFICES ASSUME SuiteInv, NEW t \in checked, NEW u \in checked,
                      t # u, prefix[t] = prefix[u]
               PROVE  (failed[t] \/ failed[u]) /\ (process = "exited" => code = 1)
    BY DEF CollisionsAreReported
  <2>1. t \in Tests /\ u \in Tests /\ (failed[t] \/ failed[u])
    BY DEF SuiteInv, PrefixesSeen
  <2>2. process = "exited" => run = "exiting" /\ code # 0
    BY <2>1 DEF SuiteInv, HarnessOK, VerdictOK
  <2>3. QED
    BY <2>1, <2>2 DEF SuiteInv, HarnessTypeOK
<1>2. QED
  BY <1>1, SuiteInvariance, PTL

---------------------------------------------------------------------------
(* The refinement of Lease.                                                *)

(* Run starts and stops the shared container while nobody uses it.         *)
LEMMA LeaseHarness ==
  ASSUME SuiteInv, HarnessStep, UNCHANGED <<testVars, prefixVars>>
  PROVE  [LeaseOfContainers!LeaseNext]_LeaseOfContainers!leaseVars
<1>0. /\ TypeOK /\ RuntimeTypeOK /\ SharedCtr \in Containers
      /\ run # "tests" /\ process = "running"
  BY HarnessFrame DEF SuiteInv, TestsInv, TypeOK, Containers
<1>1. \A t \in Tests : pc[t] \in {"idle", "done"} /\ cleanups[t] = <<>>
  BY <1>0 DEF SuiteInv, VerdictOK, TestsInv, TestOK, CallbacksOK
<1>2. \A c \in Containers, t \in Tests : ~Uses(t, c) /\ ~Uses(t, c)'
  BY <1>1, NoCallbacks DEF Uses, Pending, testVars
<1>3. Usage = [c \in Containers |-> {}] /\ Usage' = Usage
  BY <1>2 DEF Usage
<1>4. CASE UNCHANGED containers
  BY <1>3, <1>4 DEF Usage, LeaseOfContainers!leaseVars
<1>5. ASSUME containers[SharedCtr] = "absent",
             containers' = [containers EXCEPT ![SharedCtr] = "running"]
      PROVE  LeaseOfContainers!LeaseNext
  <2>1. Usage' = [Usage EXCEPT ![SharedCtr] = {}]
    BY <1>0, <1>3
  <2>2. LeaseOfContainers!Launch(SharedCtr, {})
    BY <1>5, <2>1 DEF Usage, LeaseOfContainers!Launch
  <2>3. QED
    BY <1>0, <2>2 DEF LeaseOfContainers!LeaseNext
<1>6. CASE StartShared
  BY <1>5, <1>6 DEF StartShared, LaunchContainer
<1>7. CASE StartSharedFails
  <2>1. PICK st \in {"absent", "running"} :
          containers' = [containers EXCEPT ![SharedCtr] = st] /\ containers[SharedCtr] = "absent"
    BY <1>7 DEF StartSharedFails, LaunchFails
  <2>2. CASE st = "absent"
    <3>1. UNCHANGED containers
      BY <1>0, <2>1, <2>2 DEF RuntimeTypeOK
    <3>2. QED
      BY <1>4, <3>1
  <2>3. QED
    BY <1>5, <2>1, <2>2
<1>8. CASE StopShared
  <2>1. containers[SharedCtr] = "running"
    BY <1>8 DEF StopShared, Stopping, At, SuiteInv, HarnessOK
  <2>2. Usage[SharedCtr] = {}
    BY <1>0, <1>3
  <2>3. LeaseOfContainers!Remove(SharedCtr)
    BY <1>3, <1>8, <2>1, <2>2 DEF Usage, StopShared, TerminateContainer, LeaseOfContainers!Remove
  <2>4. QED
    BY <1>0, <2>3 DEF LeaseOfContainers!LeaseNext
<1>9. QED
  BY <1>4, <1>6, <1>7, <1>8 DEF HarnessStep, StartSidecar, StartSidecarFails, RunTests, StopSidecar,
     StopSidecarFails, StopSharedFails, ClearShared, OSExit, runtimeVars

(* With harness.Run around the tests, containers are handled as Lease says *)
(* (testmain.go:60-127).                                                   *)
THEOREM SuiteRefinesLease == SuiteSpec => ContainersAreLeased
<1>1. SuiteInit => LeaseOfContainers!LeaseInit
  <2> SUFFICES ASSUME SuiteInit PROVE LeaseOfContainers!LeaseInit
    OBVIOUS
  <2>1. TestInit /\ containers \in [Containers -> {"absent", "running"}]
    BY DEF SuiteInit
  <2>2. QED
    BY <2>1, LeaseStarts
<1>2. SuiteInv /\ [SuiteNext]_suiteVars =>
        [LeaseOfContainers!LeaseNext]_LeaseOfContainers!leaseVars
  <2> SUFFICES ASSUME SuiteInv, [SuiteNext]_suiteVars
               PROVE  [LeaseOfContainers!LeaseNext]_LeaseOfContainers!leaseVars
    OBVIOUS
  <2>0. TestsInv /\ TypeOK
    BY DEF SuiteInv, TestsInv
  <2>1. ASSUME At("tests"), NEW t \in Tests, TestStep(t)
        PROVE  [LeaseOfContainers!LeaseNext]_LeaseOfContainers!leaseVars
    <3>1. containers[SharedCtr] = "running" /\ containers[ReusedCtr] = "running"
      BY <2>1 DEF SuiteInv, HarnessOK, ContainersOK, At
    <3>2. QED
      BY <2>0, <2>1, <3>1, LeaseNew, LeaseBody, LeaseCleanup DEF TestStep
  <2>2. ASSUME UNCHANGED <<process, containers, pc, stack, edge, cleanups>>
        PROVE  [LeaseOfContainers!LeaseNext]_LeaseOfContainers!leaseVars
    <3>1. \A c \in Containers, u \in Tests : Uses(u, c)' <=> Uses(u, c)
      BY <2>2 DEF Uses, Pending, Backend, Upstream
    <3>2. Usage' = Usage
      BY <3>1 DEF Usage
    <3>3. QED
      BY <2>2, <3>2 DEF Usage, LeaseOfContainers!leaseVars
  <2>3. CASE MRun
    BY <2>1, <2>2, <2>3 DEF MRun, RunReturns, runtimeVars, testVars
  <2>4. CASE SuiteOutside
    BY <2>0, <2>4, LeaseOutside DEF SuiteOutside, SidecarReady, Crash
  <2>5. CASE SuiteEnded \/ UNCHANGED suiteVars
    BY <2>2, <2>5 DEF SuiteEnded, suiteVars, vars, runtimeVars, testVars
  <2>6. QED
    BY <2>3, <2>4, <2>5, LeaseHarness DEF SuiteNext
<1>3. QED
  BY <1>1, <1>2, SuiteInvariance, PTL DEF SuiteSpec, ContainersAreLeased, LeaseOfContainers!LeaseSpec

=============================================================================
