---------------------------- MODULE CleanupProofs ----------------------------
(***************************************************************************)
(* Theorems about what the callbacks of TestCase achieve: which containers *)
(* and which resources are left, whatever runs in parallel.  They are on   *)
(* top of the invariant of TestCaseProofs.                                 *)
(***************************************************************************)
EXTENDS TestCaseProofs

---------------------------------------------------------------------------
(* The callbacks of a test.                                                *)

(* No callback is registered twice.                                        *)
Distinct(t) ==
  \A i, j \in 1 .. Len(cleanups[t]) : cleanups[t][i] = cleanups[t][j] => i = j

(* The indices of a list of callbacks.                                     *)
LEMMA Indices ==
  ASSUME TypeOK, NEW t \in Tests
  PROVE  /\ Len(cleanups[t]) \in Nat
         /\ Pending(t) = {cleanups[t][i] : i \in 1 .. Len(cleanups[t])}
<1>1. cleanups[t] \in Seq(Callbacks)
  BY DEF TypeOK
<1>2. QED
  BY <1>1 DEF Pending

(* A callback that runs is through, and the others are still to come.      *)
LEMMA PendingAfter ==
  ASSUME TestsInv, NEW t \in Tests, Distinct(t), NEW C, Runs(t, C)
  PROVE  /\ Next1(t) \in C /\ Next1(t) \in Pending(t)
         /\ Pending(t)' = Pending(t) \ {Next1(t)}
         /\ Distinct(t)'
<1>1. /\ Next1(t) \in C
      /\ Len(cleanups[t]) \in Nat \ {0}
      /\ Len(cleanups'[t]) = Len(cleanups[t]) - 1
      /\ \A i \in 1 .. Len(cleanups[t]) - 1 : cleanups'[t][i] = cleanups[t][i]
  BY LastCallback
<1>2. /\ Pending(t) = {cleanups[t][i] : i \in 1 .. Len(cleanups[t])}
      /\ Pending(t)' = {cleanups'[t][i] : i \in 1 .. Len(cleanups'[t])}
  <2>1. cleanups[t] \in Seq(Callbacks) /\ cleanups'[t] \in Seq(Callbacks)
    BY PopSeq DEF TestsInv, TypeOK, Runs
  <2>2. QED
    BY <2>1 DEF Pending
<1>3. \A i \in 1 .. Len(cleanups[t]) - 1 : cleanups[t][i] # Next1(t)
  BY <1>1 DEF Distinct, Next1
<1>4. Distinct(t)'
  <2> SUFFICES ASSUME NEW i \in 1 .. Len(cleanups[t]) - 1, NEW j \in 1 .. Len(cleanups[t]) - 1,
                      cleanups'[t][i] = cleanups'[t][j]
               PROVE  i = j
    BY <1>1 DEF Distinct
  <2>1. cleanups[t][i] = cleanups[t][j]
    BY <1>1
  <2>2. i \in 1 .. Len(cleanups[t]) /\ j \in 1 .. Len(cleanups[t])
    BY <1>1
  <2>3. QED
    BY <2>1, <2>2 DEF Distinct
<1>5. Next1(t) \in Pending(t)
  BY <1>1, <1>2 DEF Next1
<1>6. Pending(t)' = Pending(t) \ {Next1(t)}
  <2>1. ASSUME NEW x \in Pending(t)' PROVE x \in Pending(t) \ {Next1(t)}
    BY <1>1, <1>2, <1>3
  <2>2. ASSUME NEW x \in Pending(t), x # Next1(t) PROVE x \in Pending(t)'
    <3>1. PICK i \in 1 .. Len(cleanups[t]) : x = cleanups[t][i]
      BY <1>2
    <3>2. i \in 1 .. Len(cleanups[t]) - 1
      BY <1>1, <2>2, <3>1 DEF Next1
    <3>3. QED
      BY <1>1, <1>2, <3>1, <3>2
  <2>3. QED
    BY <2>1, <2>2
<1>7. QED
  BY <1>1, <1>4, <1>5, <1>6

(* The callbacks of a list.                                                *)
Members(cs) == {cs[i] : i \in DOMAIN cs}

(* What New registers: each callback once, the stop where the container is *)
(* the test's own.                                                         *)
LEMMA Registered ==
  ASSUME NEW t \in Tests, own[t] \in BOOLEAN,
         NEW cs, cs = <<"tempdir">> \o RegisterCleanup(t)
  PROVE  /\ Members(cs) =
              {"tempdir", "destroy", "dump"} \cup (IF own[t] THEN {"stop"} ELSE {})
         /\ \A i, j \in 1 .. Len(cs) : cs[i] = cs[j] => i = j
<1>1. cs \in Seq(Callbacks)
  BY RegisterCleanupType
<1>2. CASE own[t]
  <2>1. /\ Len(cs) = 4 /\ cs[1] = "tempdir" /\ cs[2] = "stop"
        /\ cs[3] = "destroy" /\ cs[4] = "dump"
    BY <1>2, RegisterCleanupList
  <2>2. DOMAIN cs = {1, 2, 3, 4}
    BY <1>1, <2>1
  <2>3. QED
    BY <1>2, <2>1, <2>2 DEF Members
<1>3. CASE ~own[t]
  <2>1. Len(cs) = 3 /\ cs[1] = "tempdir" /\ cs[2] = "destroy" /\ cs[3] = "dump"
    BY <1>3, RegisterCleanupList
  <2>2. DOMAIN cs = {1, 2, 3}
    BY <1>1, <2>1
  <2>3. QED
    BY <1>3, <2>1, <2>2 DEF Members
<1>4. QED
  BY <1>2, <1>3

(* New leaves its callbacks, and no other.                                 *)
LEMMA SetUpCallbacks ==
  ASSUME TypeOK, NEW t \in Tests, SetUp(t)
  PROVE  /\ Distinct(t)'
         /\ Pending(t)' = {"tempdir", "destroy", "dump"} \cup (IF own[t] THEN {"stop"} ELSE {})
<1> DEFINE cs == <<"tempdir">> \o RegisterCleanup(t)
<1>1. cleanups'[t] = cs /\ own[t] \in BOOLEAN
  BY DEF SetUp, TypeOK
<1>2. /\ Members(cs) = {"tempdir", "destroy", "dump"} \cup (IF own[t] THEN {"stop"} ELSE {})
      /\ \A i, j \in 1 .. Len(cs) : cs[i] = cs[j] => i = j
  BY <1>1, Registered
<1> HIDE DEF cs
<1>3. Distinct(t)'
  BY <1>1, <1>2 DEF Distinct
<1>4. Pending(t)' = Members(cs)
  BY <1>1 DEF Pending, Members
<1>5. QED
  BY <1>2, <1>3, <1>4

(* A seed registers one callback, which was not registered before.         *)
LEMMA SeedCallbacks ==
  ASSUME TypeOK, NEW t \in Tests, Distinct(t), NEW f \in Fixtures, Seed(t, f)
  PROVE  Distinct(t)' /\ Pending(t)' = Pending(t) \cup {f}
<1>1. /\ cleanups[t] \in Seq(Callbacks) /\ f \in Callbacks
      /\ cleanups'[t] = Append(cleanups[t], f) /\ f \notin Pending(t)
  BY DEF Seed, TypeOK, Callbacks
<1>2. /\ Len(cleanups[t]) \in Nat
      /\ Len(cleanups'[t]) = Len(cleanups[t]) + 1
      /\ \A i \in 1 .. Len(cleanups[t]) : cleanups'[t][i] = cleanups[t][i]
      /\ cleanups'[t][Len(cleanups[t]) + 1] = f
      /\ DOMAIN cleanups[t] = 1 .. Len(cleanups[t])
      /\ DOMAIN cleanups'[t] = 1 .. Len(cleanups[t]) + 1
  BY <1>1
<1>3. Pending(t)' = Pending(t) \cup {f}
  BY <1>2 DEF Pending
<1>4. \A i \in 1 .. Len(cleanups[t]) : cleanups[t][i] # f
  BY <1>1, <1>2 DEF Pending
<1>5. Distinct(t)'
  <2> SUFFICES ASSUME NEW i \in 1 .. Len(cleanups[t]) + 1, NEW j \in 1 .. Len(cleanups[t]) + 1,
                      cleanups'[t][i] = cleanups'[t][j]
               PROVE  i = j
    BY <1>2 DEF Distinct
  <2>1. CASE i <= Len(cleanups[t]) /\ j <= Len(cleanups[t])
    <3>1. i \in 1 .. Len(cleanups[t]) /\ j \in 1 .. Len(cleanups[t])
      BY <1>2, <2>1
    <3>2. QED
      BY <1>2, <3>1 DEF Distinct
  <2>2. \A k \in 1 .. Len(cleanups[t]) : cleanups'[t][k] # cleanups'[t][Len(cleanups[t]) + 1]
    BY <1>2, <1>4
  <2>3. CASE i = Len(cleanups[t]) + 1 /\ j <= Len(cleanups[t])
    <3>1. j \in 1 .. Len(cleanups[t])
      BY <1>2, <2>3
    <3>2. QED
      BY <2>2, <2>3, <3>1
  <2>4. CASE j = Len(cleanups[t]) + 1 /\ i <= Len(cleanups[t])
    <3>1. i \in 1 .. Len(cleanups[t])
      BY <1>2, <2>4
    <3>2. QED
      BY <2>2, <2>4, <3>1
  <2>5. QED
    BY <1>2, <2>1, <2>3, <2>4
<1>6. QED
  BY <1>3, <1>5

(* How a test's step changes what is pending: New registers its callbacks, *)
(* a seed one more, a callback that has run is gone.                       *)
LEMMA CallbackStep ==
  ASSUME TestsInv, NEW t \in Tests, Distinct(t), TestStep(t)
  PROVE  /\ Distinct(t)'
         /\ \/ Pending(t)' = Pending(t)
            \/ /\ SetUp(t)
               /\ Pending(t)' = {"tempdir", "destroy", "dump"}
                                  \cup (IF own[t] THEN {"stop"} ELSE {})
            \/ SetUpFails(t) /\ Pending(t)' = {"tempdir"}
            \/ \E f \in Fixtures : Seed(t, f) /\ Pending(t)' = Pending(t) \cup {f}
            \/ \E C : /\ CleanupStep(t) /\ Runs(t, C) /\ Next1(t) \in C \cap Pending(t)
                      /\ Pending(t)' = Pending(t) \ {Next1(t)}
<1>0. TypeOK
  BY DEF TestsInv
<1>1. CASE UNCHANGED cleanups
  BY <1>1 DEF Distinct, Pending
<1>2. CASE SetUp(t)
  BY <1>0, <1>2, SetUpCallbacks
<1>3. CASE SetUpFails(t)
  <2>1. cleanups'[t] = <<"tempdir">>
    BY <1>0, <1>3 DEF SetUpFails, TypeOK
  <2>2. QED
    BY <1>3, <2>1 DEF Pending, Distinct
<1>4. ASSUME NEW f \in Fixtures, Seed(t, f)
      PROVE  Distinct(t)' /\ Pending(t)' = Pending(t) \cup {f}
  BY <1>0, <1>4, SeedCallbacks
<1>5. ASSUME NEW C, CleanupStep(t), Runs(t, C)
      PROVE  /\ Distinct(t)' /\ Next1(t) \in C \cap Pending(t)
             /\ Pending(t)' = Pending(t) \ {Next1(t)}
  BY <1>5, PendingAfter
<1>6. CASE NewStep(t)
  BY <1>1, <1>2, <1>3, <1>6 DEF NewStep, AttachReused, AttachShared, StartOwn, StartOwnFails,
       CallsNew
<1>7. CASE BodyStep(t)
  BY <1>1, <1>4, <1>7 DEF BodyStep, Plan, PlanFails, Apply, ApplyFails, SeedFails, SeedMessage,
       AssertFails, BodyReturns, testVars
<1>8. CASE CleanupStep(t)
  <2>1. (\E C : Runs(t, C)) \/ UNCHANGED cleanups
    BY <1>8 DEF CleanupStep, RunDump, RunUnseed, RunUnseedFails, SkipDestroy, RunDestroy,
         RunDestroyFails, SkipStop, RunStop, RunStopFails, RemoveTempDir, Finish
  <2>2. QED
    BY <1>1, <1>5, <1>8, <2>1
<1>9. QED
  BY <1>6, <1>7, <1>8 DEF TestStep

---------------------------------------------------------------------------
(* The containers the tests start.                                         *)

(* The stop of its container is still ahead of a test.                     *)
StopOwed(t) == pc[t] = "setup" \/ "stop" \in Pending(t)

(* Nothing keeps a test from stopping the container it starts.             *)
StopsWork == {"start", "setup", "stop"} \cap Faults = {}

(* A container of its own that a test has not removed it will stop, unless *)
(* the test fails (by itself, or by a stop that fails); where nothing      *)
(* keeps it from that, unless it persists.                                 *)
StopInv(t) ==
  /\ process = "running" /\ own[t] /\ ~failed[t]
     => StopOwed(t) \/ containers[t] = "removed"
  /\ StopsWork /\ process # "crashed" /\ containers[t] = "running"
     => own[t] /\ (StopOwed(t) \/ Persists(t))

ContainersInv == TestsInv /\ \A t \in Tests : Distinct(t) /\ StopInv(t)

(* Whoever fails stays failed.                                             *)
LEMMA FailedStays ==
  ASSUME TypeOK, NEW t \in Tests, TestStep(t)
  PROVE  /\ failed[t] => failed'[t]
         /\ opts' = opts
         /\ Persists(t) => Persists(t)'
<1>1. (failed[t] => failed'[t]) /\ opts' = opts
  <2>1. CASE NewStep(t)
    BY <2>1 DEF NewStep, AttachReused, AttachShared, StartOwn, StartOwnFails, SetUp,
         SetUpFails, CallsNew, Attach, TypeOK, runtimeVars
  <2>2. CASE BodyStep(t)
    BY <2>2 DEF BodyStep, Plan, PlanFails, Apply, ApplyFails, Seed, SeedFails, SeedMessage,
         AssertFails, BodyReturns, CallFails, TypeOK, testVars
  <2>3. CASE CleanupStep(t)
    BY <2>3 DEF CleanupStep, RunDump, RunUnseed, RunUnseedFails, SkipDestroy, RunDestroy,
         RunDestroyFails, SkipStop, RunStop, RunStopFails, RemoveTempDir, Finish, Runs,
         Errorf, TypeOK
  <2>4. QED
    BY <2>1, <2>2, <2>3 DEF TestStep
<1>2. QED
  BY <1>1 DEF Persists

(* A test keeps its own part of the invariant.                             *)
LEMMA StopKept ==
  ASSUME ContainersInv, NEW t \in Tests, TestStep(t)
  PROVE  StopInv(t)'
<1>0. /\ TestsInv /\ TypeOK /\ StackOK(t) /\ CallbacksOK(t) /\ OwnUp(t) /\ Distinct(t)
      /\ StopInv(t) /\ process' = process
  BY Frame DEF ContainersInv, TestsInv, TestOK
<1>1. ASSUME UNCHANGED <<containers, own>>, StopOwed(t) => StopOwed(t)'
      PROVE  StopInv(t)'
  BY <1>0, <1>1, FailedStays DEF StopInv
<1>2. ASSUME NEW k \in {SharedCtr, ReusedCtr}, CallsNew(t), Attach(t, k, FALSE),
             UNCHANGED containers
      PROVE  StopInv(t)'
  <2>1. ~own[t] /\ ~own'[t] /\ UNCHANGED containers
    <3>1. stack[t] = None /\ t # None
      BY <1>0, <1>2, RuntimeAssumption DEF CallsNew, CallbacksOK, URLs, Containers
    <3>2. QED
      BY <1>0, <1>2, <3>1 DEF Attach, StackOK, TypeOK
  <2>2. QED
    BY <1>0, <2>1 DEF StopInv
<1>3. CASE AttachReused(t) \/ AttachShared(t)
  BY <1>0, <1>2, <1>3, OptionsType DEF AttachReused, AttachShared, TypeOK, RuntimeTypeOK
<1>4. CASE StartOwn(t)
  BY <1>0, <1>4 DEF StartOwn, Attach, StopInv, StopOwed, TypeOK
<1>5. CASE StartOwnFails(t)
  <2>1. failed'[t] /\ ~StopsWork
    BY <1>0, <1>5 DEF StartOwnFails, StopsWork, TypeOK
  <2>2. QED
    BY <2>1 DEF StopInv
<1>6. CASE SetUp(t)
  <2>1. pc[t] = "setup" /\ pc'[t] = "body" /\ UNCHANGED <<containers, own>>
    BY <1>0, <1>6 DEF SetUp, TypeOK, runtimeVars
  <2>2. own[t] => "stop" \in Pending(t)'
    BY <1>0, <1>6, SetUpCallbacks
  <2>3. QED
    BY <1>0, <2>1, <2>2 DEF StopInv, StopOwed
<1>7. CASE SetUpFails(t)
  <2>1. failed'[t] /\ ~StopsWork
    BY <1>0, <1>7 DEF SetUpFails, StopsWork, TypeOK
  <2>2. QED
    BY <2>1 DEF StopInv
<1>8. CASE BodyStep(t)
  <2>1. pc[t] = "body" /\ UNCHANGED <<containers, own>>
    BY <1>0, <1>8 DEF BodyStep, Plan, PlanFails, Apply, ApplyFails, Seed, SeedFails, SeedMessage,
         AssertFails, BodyReturns, InBody, runtimeVars, testVars
  <2>2. ~SetUp(t) /\ ~SetUpFails(t) /\ ~(\E C : Runs(t, C))
    BY <2>1 DEF SetUp, SetUpFails, Runs
  <2>3. Pending(t) \subseteq Pending(t)'
    BY <1>0, <2>2, CallbackStep
  <2>4. QED
    BY <1>1, <2>1, <2>3 DEF StopOwed
<1>9. ASSUME NEW C, CleanupStep(t), Runs(t, C), "stop" \notin C, UNCHANGED containers
      PROVE  StopInv(t)'
  <2>1. pc[t] = "cleanup" /\ pc' = pc /\ own' = own
    BY <1>9 DEF Runs
  <2>2. Next1(t) \in C /\ Pending(t)' = Pending(t) \ {Next1(t)}
    BY <1>0, <1>9, PendingAfter
  <2>3. QED
    BY <1>1, <1>9, <2>1, <2>2 DEF StopOwed
<1>10. CASE RunStop(t)
  <2>1. containers'[t] = "removed"
    <3>1. Next1(t) \in {"stop"} /\ (Next1(t) = "stop" => stack[t] = t)
      BY <1>0, <1>10, LastCallback DEF RunStop
    <3>2. QED
      BY <1>0, <1>10, <3>1 DEF RunStop, TerminateContainer, TypeOK, RuntimeTypeOK, Containers
  <2>2. QED
    BY <2>1 DEF StopInv
<1>11. CASE SkipStop(t)
  <2>1. Persists(t)' /\ failed'[t] /\ UNCHANGED <<containers, own, process>>
    BY <1>0, <1>11, FailedStays DEF SkipStop, Runs, Persists
  <2>2. QED
    BY <1>0, <2>1 DEF StopInv
<1>12. CASE RunStopFails(t)
  <2>1. failed'[t] /\ ~StopsWork
    BY <1>0, <1>12 DEF RunStopFails, Errorf, StopsWork, TypeOK
  <2>2. QED
    BY <2>1 DEF StopInv
<1>13. CASE Finish(t)
  BY <1>1, <1>13 DEF Finish, runtimeVars, StopOwed, Pending
<1>14. CASE CleanupStep(t)
  <2>1. CASE \E C : Runs(t, C) /\ "stop" \notin C /\ UNCHANGED containers
    BY <1>9, <1>14, <2>1
  <2>2. "stop" \notin Fixtures
    BY TestCaseAssumption DEF NewCallbacks
  <2>3. CASE RunUnseed(t) \/ RunUnseedFails(t)
    BY <2>1, <2>2, <2>3 DEF RunUnseed, RunUnseedFails
  <2>4. CASE RunDump(t) \/ SkipDestroy(t) \/ RunDestroy(t) \/ RunDestroyFails(t) \/ RemoveTempDir(t)
    BY <2>1, <2>4 DEF RunDump, SkipDestroy, RunDestroy, RunDestroyFails, RemoveTempDir
  <2>5. QED
    BY <1>10, <1>11, <1>12, <1>13, <1>14, <2>3, <2>4 DEF CleanupStep
<1>15. QED
  BY <1>3, <1>4, <1>5, <1>6, <1>7, <1>8, <1>14 DEF TestStep, NewStep

(* The process exits after the last test only.                             *)
ExitedLast == process = "exited" => \A t \in Tests : pc[t] = "done"

(* At first no container of a test runs.                                   *)
LEMMA ContainersInit == Init => ContainersInv /\ ExitedLast
<1> SUFFICES ASSUME Init PROVE ContainersInv /\ ExitedLast
  OBVIOUS
<1>1. TestsInv
  BY InvInit DEF IInv
<1>2. ASSUME NEW t \in Tests PROVE Distinct(t) /\ StopInv(t)
  <2>1. Distinct(t)
    BY NoCallbacks DEF Init, TestInit, Distinct
  <2>2. ~own[t] /\ containers[t] # "running"
    <3>1. t \in Containers /\ t # ReusedCtr /\ t # SharedCtr /\ t # None
      BY RuntimeAssumption DEF Containers, URLs
    <3>2. containers[t] = "absent"
      BY <3>1 DEF Init
    <3>3. QED
      BY <3>2 DEF Init, TestInit
  <2>3. QED
    BY <2>1, <2>2 DEF StopInv
<1>3. QED
  BY <1>1, <1>2 DEF ContainersInv, ExitedLast, Init

(* What a test owes does not depend on the other tests, nor on what        *)
(* happens around them.                                                    *)
LEMMA ContainersNext ==
  ASSUME ContainersInv, ExitedLast, [Next]_vars, TestsInv'
  PROVE  ContainersInv' /\ ExitedLast'
<1>1. ASSUME NEW t \in Tests, TestStep(t), NEW u \in Tests
      PROVE  Distinct(u)' /\ StopInv(u)'
  <2>1. CASE u = t
    BY <1>1, <2>1, StopKept, CallbackStep DEF ContainersInv
  <2>2. CASE u # t
    <3>1. /\ UNCHANGED <<process, opts>> /\ containers'[u] = containers[u]
          /\ pc'[u] = pc[u] /\ own'[u] = own[u] /\ failed'[u] = failed[u]
          /\ cleanups'[u] = cleanups[u]
      BY <1>1, <2>2, Frame DEF ContainersInv, Containers
    <3>2. QED
      BY <3>1 DEF ContainersInv, Distinct, StopInv, StopOwed, Pending, Persists
  <2>3. QED
    BY <2>1, <2>2
<1>2. ASSUME NEW t \in Tests, TestStep(t)
      PROVE  ExitedLast'
  <2>1. process' = process /\ process = "running"
    BY <1>2, Frame DEF ContainersInv, TestStep, NewStep, BodyStep, CleanupStep, AttachReused,
         AttachShared, StartOwn, StartOwnFails, SetUp, SetUpFails, CallsNew, InBody, Runs, Finish,
         Plan, PlanFails, Apply, ApplyFails, Seed, SeedFails, SeedMessage, AssertFails,
         BodyReturns, RunDump, RunUnseed, RunUnseedFails, SkipDestroy, RunDestroy,
         RunDestroyFails, SkipStop, RunStop, RunStopFails, RemoveTempDir
  <2>2. QED
    BY <2>1 DEF ExitedLast
<1>3. CASE Outside \/ Ended \/ UNCHANGED vars
  <2>1. UNCHANGED testVars
    BY <1>3 DEF Outside, Exit, Ended, vars
  <2>2. /\ process' = "running" => process = "running" /\ UNCHANGED containers
        /\ process' # "crashed" => process # "crashed"
        /\ process' = "exited" => process = "exited" \/ \A t \in Tests : pc[t] = "done"
    BY <1>3 DEF Outside, Exit, Crash, Reap, Ended, vars, runtimeVars
  <2>3. \A t \in Tests : containers'[t] = "running" => containers[t] = "running"
    BY <1>3 DEF Outside, Exit, Crash, Reap, TerminateContainer, Ended, vars, runtimeVars,
         ContainersInv, TestsInv, TypeOK, RuntimeTypeOK, Containers
  <2>4. ASSUME NEW t \in Tests PROVE Distinct(t)' /\ StopInv(t)'
    BY <2>1, <2>2, <2>3 DEF ContainersInv, Distinct, StopInv, StopOwed, Pending, Persists, testVars
  <2>5. ExitedLast'
    BY <2>1, <2>2 DEF ExitedLast, testVars
  <2>6. QED
    BY <2>4, <2>5 DEF ContainersInv
<1>4. QED
  BY <1>1, <1>2, <1>3 DEF Next, ContainersInv

(* Every container a test started is accounted for.                        *)
LEMMA ContainersAccounted == Spec => [](IInv /\ ContainersInv /\ ExitedLast)
<1>1. IInv /\ ContainersInv /\ ExitedLast /\ [Next]_vars => (IInv /\ ContainersInv /\ ExitedLast)'
  BY InvNext, ContainersNext DEF IInv
<1>2. QED
  BY InvInit, ContainersInit, <1>1, PTL DEF Spec

(* Without Ryuk no container is left when the binary exits, but that of a  *)
(* test that failed with PersistOnFailure, as long as Start, the setup and *)
(* the stop themselves do not fail (docs/impl/0001:510).                   *)
THEOREM NothingLeftAtExit ==
  ASSUME StopsWork
  PROVE  Spec => []ExitLeavesNoContainer
<1>1. IInv /\ ContainersInv /\ ExitedLast => ExitLeavesNoContainer
  <2> SUFFICES ASSUME ContainersInv, ExitedLast, process = "exited",
                      NEW t \in Tests, containers[t] = "running"
               PROVE  Persists(t)
    BY DEF ExitLeavesNoContainer
  <2>1. pc[t] = "done" /\ cleanups[t] = <<>>
    BY DEF ExitedLast, ContainersInv, TestsInv, TestOK, CallbacksOK
  <2>2. ~StopOwed(t)
    BY <2>1, NoCallbacks DEF StopOwed, Pending
  <2>3. QED
    BY <2>2 DEF ContainersInv, StopInv
<1>2. QED
  BY <1>1, ContainersAccounted, PTL

---------------------------------------------------------------------------
(* The verdict.                                                            *)

(* The callback that runs next is pending.                                 *)
LEMMA NextIsPending ==
  ASSUME TestsInv, NEW t \in Tests, NEW C, Runs(t, C)
  PROVE  Next1(t) \in C \cap Pending(t)
<1>1. Next1(t) \in C /\ Len(cleanups[t]) \in Nat \ {0}
  BY LastCallback
<1>2. QED
  BY <1>1, Indices DEF Next1, TestsInv

(* A test that passed its body and reached terraform init passes its       *)
(* callbacks too, for neither its cancelled context nor another test takes *)
(* from them what they need, and Terraform, AWS and the stop do not fail   *)
(* (libtftest.go:372, fixtures/).                                          *)
THEOREM VerdictKept ==
  ASSUME Faults \cap {"terraform", "aws", "stop"} = {}
  PROVE  Spec => CleanupKeepsVerdict
<1> DEFINE Verdict ==
      \A t \in Tests :
        pc[t] = "cleanup" /\ ~failed[t] /\ (inited[t] \/ ~work[t]) => ~failed'[t]
<1>1. IInv /\ [Next]_vars => [Verdict]_vars
  <2> SUFFICES ASSUME IInv, [Next]_vars, NEW t \in Tests,
                      pc[t] = "cleanup", ~failed[t], inited[t] \/ ~work[t]
               PROVE  ~failed'[t]
    OBVIOUS
  <2>0. TestsInv /\ TypeOK /\ CleanupHasItsBackend
    BY InvImplies DEF IInv, TestsInv
  <2>1. ASSUME NEW u \in Tests, TestStep(u), u # t
        PROVE  ~failed'[t]
    BY <2>0, <2>1, Frame
  <2>2. CASE TestStep(t)
    <3>1. CleanupStep(t) /\ process = "running"
      BY <2>2 DEF TestStep, NewStep, BodyStep, CleanupStep, AttachReused, AttachShared,
           StartOwn, StartOwnFails, SetUp, SetUpFails, CallsNew, InBody, Plan, PlanFails,
           Apply, ApplyFails, Seed, SeedFails, SeedMessage, AssertFails, BodyReturns, Runs,
           RunDump, RunUnseed, RunUnseedFails, SkipDestroy, RunDestroy, RunDestroyFails,
           SkipStop, RunStop, RunStopFails, RemoveTempDir, Finish
    <3>2. ASSUME NEW C, Runs(t, C), C \subseteq {"destroy"} \cup Fixtures
          PROVE  work[t] /\ Serves(edge[t])
      <4>1. Next1(t) \in C \cap Pending(t)
        BY <2>0, <3>2, NextIsPending
      <4>2. QED
        BY <2>0, <3>1, <3>2, <4>1 DEF CleanupHasItsBackend
    <3>3. ~RunUnseedFails(t)
      BY <3>2 DEF RunUnseedFails, WithoutCancel
    <3>4. ~RunDestroyFails(t)
      <4>1. SUFFICES ASSUME RunDestroyFails(t) PROVE FALSE
        OBVIOUS
      <4>2. work[t] /\ Serves(edge[t])
        BY <3>2, <4>1 DEF RunDestroyFails
      <4>3. CanDestroy(t)
        BY <4>2 DEF CanDestroy, WithoutCancel
      <4>4. QED
        BY <4>1, <4>3 DEF RunDestroyFails
    <3>5. ~RunStopFails(t)
      BY DEF RunStopFails
    <3>6. QED
      BY <3>1, <3>3, <3>4, <3>5 DEF CleanupStep, RunDump, RunUnseed, SkipDestroy, RunDestroy,
         SkipStop, RunStop, RemoveTempDir, Finish
  <2>3. CASE Outside \/ Ended \/ UNCHANGED vars
    BY <2>3 DEF Outside, Exit, Ended, vars, testVars
  <2>4. QED
    BY <2>1, <2>2, <2>3 DEF Next
<1>2. QED
  BY <1>1, Invariance, PTL DEF Spec, CleanupKeepsVerdict

---------------------------------------------------------------------------
(* The names.                                                              *)

(* Every resource carries a prefix of its own test: naming.Prefix never    *)
(* draws one twice, and every test asks for AutoPrefixVars (its module     *)
(* takes a name_prefix).                                                   *)
NamesApart == UniquePrefixes /\ \A o \in OptionSets : o.autoPrefix

(* A test has a prefix from New on, and, where the draws are unique, no    *)
(* other test has it.                                                      *)
PrefixesApart ==
  /\ \A t \in Tests : pc[t] = "idle" <=> prefix[t] = None
  /\ UniquePrefixes =>
       \A t, u \in Tests : prefix[t] # None /\ prefix[t] = prefix[u] => t = u

(* The draw of naming.Prefix keeps them so.                                *)
LEMMA PrefixesKept ==
  ASSUME TestsInv, PrefixesApart, NEW t \in Tests, TestStep(t)
  PROVE  PrefixesApart'
<1>0. TypeOK /\ None \notin Prefixes
  BY TestCaseAssumption DEF TestsInv
<1>1. \A u \in Tests \ {t} : prefix'[u] = prefix[u] /\ pc'[u] = pc[u]
  BY Frame
<1>2. ASSUME CallsNew(t), pc'[t] # "idle"
      PROVE  PrefixesApart'
  <2>1. PICK p \in FreshPrefixes : prefix' = [prefix EXCEPT ![t] = p]
    BY <1>2 DEF CallsNew
  <2>2. prefix'[t] = p /\ p # None
    BY <1>0, <2>1 DEF TypeOK, FreshPrefixes
  <2>3. UniquePrefixes => \A u \in Tests : prefix[u] # p
    BY <2>1 DEF FreshPrefixes
  <2>4. \A u \in Tests : pc'[u] = "idle" <=> prefix'[u] = None
    BY <1>1, <1>2, <2>2 DEF PrefixesApart
  <2>5. UniquePrefixes =>
          \A u, v \in Tests : prefix'[u] # None /\ prefix'[u] = prefix'[v] => u = v
    BY <1>1, <2>2, <2>3 DEF PrefixesApart
  <2>6. QED
    BY <2>4, <2>5 DEF PrefixesApart
<1>3. ASSUME UNCHANGED prefix, pc[t] # "idle", pc'[t] # "idle"
      PROVE  PrefixesApart'
  BY <1>1, <1>3 DEF PrefixesApart
<1>4. CASE NewStep(t)
  <2>1. CASE AttachReused(t) \/ AttachShared(t) \/ StartOwn(t) \/ StartOwnFails(t)
    BY <1>0, <1>2, <2>1 DEF AttachReused, AttachShared, StartOwn, StartOwnFails, Attach, TypeOK
  <2>2. CASE SetUp(t) \/ SetUpFails(t)
    BY <1>0, <1>3, <2>2 DEF SetUp, SetUpFails, TypeOK
  <2>3. QED
    BY <1>4, <2>1, <2>2 DEF NewStep
<1>5. CASE BodyStep(t)
  BY <1>0, <1>3, <1>5 DEF BodyStep, Plan, PlanFails, Apply, ApplyFails, Seed, SeedFails,
       SeedMessage, AssertFails, BodyReturns, CallFails, InBody, TypeOK, testVars
<1>6. CASE CleanupStep(t)
  BY <1>0, <1>3, <1>6 DEF CleanupStep, RunDump, RunUnseed, RunUnseedFails, SkipDestroy,
       RunDestroy, RunDestroyFails, SkipStop, RunStop, RunStopFails, RemoveTempDir, Finish,
       Runs, TypeOK
<1>7. QED
  BY <1>4, <1>5, <1>6 DEF TestStep

(* Different things of a test have different names, and, where names are   *)
(* apart, no two tests have a name in common.                              *)
LEMMA NamesDiffer ==
  ASSUME TypeOK, PrefixesApart, NEW t \in Tests, NEW u \in Tests, NEW x, NEW y,
         Name(t, x) = Name(u, y)
  PROVE  x = y /\ (NamesApart /\ pc[t] # "idle" => t = u)
<1>1. x = y
  BY DEF Name
<1>2. NamesApart => opts[t].autoPrefix /\ opts[u].autoPrefix
  BY DEF NamesApart, TypeOK
<1>3. NamesApart => prefix[t] = prefix[u]
  BY <1>2 DEF Name
<1>4. QED
  BY <1>1, <1>3 DEF PrefixesApart, NamesApart

(* How the names of a test begin; a test whose names no other test that is *)
(* under way, or was, has in common with it.                               *)
Sign(t)  == IF opts[t].autoPrefix THEN prefix[t] ELSE None
Alone(t) == \A u \in Tests \ {t} : pc[u] = "idle" \/ Sign(u) # Sign(t)

(* Where names are apart every test that has begun is alone.               *)
LEMMA ApartIsAlone ==
  ASSUME TypeOK, PrefixesApart, NamesApart, NEW t \in Tests, pc[t] # "idle"
  PROVE  Alone(t)
<1>1. \A u \in Tests : Sign(u) = prefix[u]
  BY DEF Sign, NamesApart, TypeOK
<1>2. UniquePrefixes /\ prefix[t] # None
  BY DEF PrefixesApart, NamesApart
<1>3. QED
  BY <1>1, <1>2 DEF Alone, PrefixesApart

(* A test draws its prefix in its first step, which registers no callback. *)
LEMMA PrefixStays ==
  ASSUME TestsInv, NEW t \in Tests, TestStep(t)
  PROVE  /\ pc[t] # "idle" => prefix' = prefix /\ pc'[t] # "idle"
         /\ pc[t] = "idle" => Pending(t)' = {}
<1>0. TypeOK /\ CallbacksOK(t)
  BY DEF TestsInv, TestOK
<1>1. CASE NewStep(t)
  <2>1. CASE AttachReused(t) \/ AttachShared(t) \/ StartOwn(t) \/ StartOwnFails(t)
    <3>1. pc[t] = "idle" /\ cleanups'[t] = <<>>
      BY <1>0, <2>1 DEF AttachReused, AttachShared, StartOwn, StartOwnFails, Attach, CallsNew,
                        CallbacksOK
    <3>2. QED
      BY <3>1, NoCallbacks DEF Pending
  <2>2. CASE SetUp(t) \/ SetUpFails(t)
    BY <1>0, <2>2 DEF SetUp, SetUpFails, TypeOK
  <2>3. QED
    BY <1>1, <2>1, <2>2 DEF NewStep
<1>2. CASE BodyStep(t)
  BY <1>0, <1>2 DEF BodyStep, Plan, PlanFails, Apply, ApplyFails, Seed, SeedFails,
       SeedMessage, AssertFails, BodyReturns, CallFails, InBody, TypeOK, testVars
<1>3. CASE CleanupStep(t)
  BY <1>0, <1>3 DEF CleanupStep, RunDump, RunUnseed, RunUnseedFails, SkipDestroy,
       RunDestroy, RunDestroyFails, SkipStop, RunStop, RunStopFails, RemoveTempDir, Finish,
       Runs, TypeOK
<1>4. QED
  BY <1>1, <1>2, <1>3 DEF TestStep

(* A test that is alone has been alone all the time.                       *)
LEMMA AloneBefore ==
  ASSUME TestsInv, NEW u \in Tests, TestStep(u), NEW t \in Tests, Alone(t)',
         t # u \/ pc[t] # "idle"
  PROVE  Alone(t)
<1>0. opts' = opts /\ \A v \in Tests \ {u} : pc'[v] = pc[v] /\ prefix'[v] = prefix[v]
  BY Frame
<1>1. pc[u] # "idle" => prefix'[u] = prefix[u] /\ pc'[u] # "idle"
  BY PrefixStays
<1>2. \A v \in Tests : v # u \/ pc[u] # "idle" => Sign(v)' = Sign(v)
  BY <1>0, <1>1 DEF Sign
<1>3. ASSUME NEW v \in Tests \ {t}, pc[v] # "idle"
      PROVE  Sign(v) # Sign(t)
  <2>1. pc'[v] # "idle" /\ Sign(v)' = Sign(v) /\ Sign(t)' = Sign(t)
    BY <1>0, <1>1, <1>2, <1>3
  <2>2. QED
    BY <1>3, <2>1 DEF Alone
<1>4. QED
  BY <1>3 DEF Alone

(* A test adds to its LocalStack, or deletes from it, what bears its name. *)
Adds(t, S)    == live' = [live EXCEPT ![Backend(t)] = @ \cup NamesOf(t, S)]
Deletes(t, S) == live' = [live EXCEPT ![Backend(t)] = @ \ NamesOf(t, S)]

(* A seed adds the one object, or, where the put failed, perhaps nothing.  *)
LEMMA SeedAdds ==
  ASSUME NEW t, NEW f, Seed(t, f) \/ SeedMessage(t, f) \/ SeedFails(t, f)
  PROVE  \E S : Adds(t, S)
<1>1. NamesOf(t, {f}) = {Name(t, f)} /\ NamesOf(t, {}) = {}
  BY DEF NamesOf
<1>2. CASE Seed(t, f) \/ SeedMessage(t, f)
  BY <1>1, <1>2 DEF Seed, SeedMessage, Adds
<1>3. CASE SeedFails(t, f)
  <2>1. PICK done \in SUBSET {Name(t, f)} :
          live' = [live EXCEPT ![Backend(t)] = @ \cup done]
    BY <1>3 DEF SeedFails
  <2>2. done = NamesOf(t, {f}) \/ done = NamesOf(t, {})
    BY <1>1
  <2>3. QED
    BY <2>1, <2>2 DEF Adds
<1>4. QED
  BY <1>2, <1>3

(* What the step of a test does to the LocalStacks: it adds to its own     *)
(* backend or deletes from it what bears its name, or stops the container  *)
(* it started.                                                             *)
LEMMA LiveStep ==
  ASSUME TestsInv, NEW t \in Tests, TestStep(t)
  PROVE  \/ UNCHANGED live
         \/ pc[t] = "body" /\ edge[t] # None /\ \E S : Adds(t, S)
         \/ edge[t] # None /\ \E S : Deletes(t, S)
         \/ RunStop(t) /\ own[t] /\ stack[t] = t /\ live' = [live EXCEPT ![t] = {}]
<1>0. TypeOK /\ CallbacksOK(t) /\ None \notin URLs
  BY RuntimeAssumption DEF TestsInv, TestOK
<1>1. ASSUME NEW x PROVE NamesOf(t, {x}) = {Name(t, x)} /\ NamesOf(t, {}) = {}
  BY DEF NamesOf
<1>2. CASE NewStep(t)
  BY <1>2 DEF NewStep, AttachReused, AttachShared, StartOwn, StartOwnFails, SetUp, SetUpFails,
       LaunchContainer, LaunchFails, runtimeVars
<1>3. CASE BodyStep(t)
  <2>1. pc[t] = "body" /\ edge[t] # None
    BY <1>0, <1>3 DEF CallbacksOK, BodyStep, Plan, PlanFails, Apply, ApplyFails, Seed, SeedFails,
         SeedMessage, AssertFails, BodyReturns, InBody
  <2>2. UNCHANGED live \/ \E S : Adds(t, S)
    <3>1. CASE Apply(t)
      BY <3>1 DEF Apply, Adds
    <3>2. CASE ApplyFails(t)
      BY <3>2 DEF ApplyFails, Adds
    <3>3. ASSUME NEW f, Seed(t, f) \/ SeedMessage(t, f) \/ SeedFails(t, f)
          PROVE  \E S : Adds(t, S)
      BY <3>3, SeedAdds
    <3>4. QED
      BY <1>3, <3>1, <3>2, <3>3 DEF BodyStep, Plan, PlanFails, AssertFails, BodyReturns,
           runtimeVars
  <2>3. QED
    BY <2>1, <2>2
<1>4. CASE RunUnseed(t)
  <2>1. edge[t] # None
    BY <1>0, <1>4 DEF RunUnseed, Serves
  <2>2. Deletes(t, {Next1(t)})
    BY <1>1, <1>4 DEF RunUnseed, Deletes
  <2>3. QED
    BY <2>1, <2>2
<1>5. CASE RunDestroy(t)
  BY <1>0, <1>5 DEF RunDestroy, CanDestroy, Serves, Deletes
<1>6. CASE RunDestroyFails(t)
  BY <1>0, <1>6 DEF RunDestroyFails, CanDestroy, Serves, Deletes
<1>7. CASE RunStop(t)
  <2>1. Next1(t) \in {"stop"} /\ (Next1(t) = "stop" => own[t] /\ stack[t] = t)
    BY <1>7, LastCallback DEF RunStop
  <2>2. QED
    BY <1>7, <2>1 DEF RunStop, TerminateContainer
<1>8. CASE CleanupStep(t)
  BY <1>4, <1>5, <1>6, <1>7, <1>8 DEF CleanupStep, RunDump, RunUnseedFails, SkipDestroy, SkipStop,
       RunStopFails, RemoveTempDir, Finish, runtimeVars
<1>9. QED
  BY <1>2, <1>3, <1>8 DEF TestStep

---------------------------------------------------------------------------
(* Nobody disturbs a test.                                                 *)

(* Before New is through no state file is written; a container of its own  *)
(* means there is no shared one; the body runs with the destroy pending.   *)
StateOK(t) ==
  /\ pc[t] \in {"idle", "setup"} => tfState[t] = {}
  /\ own[t] => shared = None
  /\ pc[t] = "body" => "destroy" \in Pending(t)

(* What the state file records and what the fixtures' callbacks still have *)
(* to delete is there, until the destroy has had its turn.                 *)
KeptAt(t) ==
  process = "running" /\ "destroy" \in Pending(t)
  => /\ NamesOf(t, tfState[t]) \subseteq live[Backend(t)]
     /\ NamesOf(t, Pending(t) \cap Fixtures) \subseteq live[Backend(t)]

(* Whose a test's container is does not change once New has resolved it.   *)
LEMMA OwnSettled ==
  ASSUME TestsInv, NEW t \in Tests, TestStep(t)
  PROVE  own'[t] = own[t] \/ (Pending(t)' = {} /\ (own'[t] => shared = None))
<1>0. TypeOK /\ CallbacksOK(t)
  BY DEF TestsInv, TestOK
<1>1. CASE StartOwn(t) \/ AttachReused(t) \/ AttachShared(t)
  <2>1. cleanups'[t] = <<>>
    BY <1>0, <1>1 DEF AttachReused, AttachShared, StartOwn, CallsNew, CallbacksOK
  <2>2. own'[t] => shared = None
    BY <1>0, <1>1 DEF AttachReused, AttachShared, StartOwn, Attach, TypeOK
  <2>3. QED
    BY <2>1, <2>2, NoCallbacks DEF Pending
<1>2. CASE StartOwnFails(t) \/ SetUp(t) \/ SetUpFails(t)
  BY <1>2 DEF StartOwnFails, SetUp, SetUpFails
<1>3. CASE BodyStep(t)
  BY <1>3 DEF BodyStep, Plan, PlanFails, Apply, ApplyFails, Seed, SeedFails, SeedMessage,
       AssertFails, BodyReturns, testVars
<1>4. CASE CleanupStep(t)
  BY <1>4 DEF CleanupStep, RunDump, RunUnseed, RunUnseedFails, SkipDestroy, RunDestroy,
       RunDestroyFails, SkipStop, RunStop, RunStopFails, RemoveTempDir, Finish, Runs
<1>5. QED
  BY <1>1, <1>2, <1>3, <1>4 DEF TestStep, NewStep

(* A test keeps to that.                                                   *)
LEMMA StateKept ==
  ASSUME TestsInv, NEW t \in Tests, Distinct(t), StateOK(t), TestStep(t)
  PROVE  StateOK(t)'
<1>0. TypeOK /\ CallbacksOK(t) /\ shared' = shared
  BY Frame DEF TestsInv, TestOK
<1>1. own'[t] => own[t] \/ shared = None
  BY OwnSettled
<1>2. CASE NewStep(t)
  <2>1. tfState' = tfState /\ pc[t] \in {"idle", "setup"}
    BY <1>2 DEF NewStep, AttachReused, AttachShared, StartOwn, StartOwnFails, SetUp, SetUpFails,
         CallsNew
  <2>2. pc'[t] = "body" => "destroy" \in Pending(t)'
    <3>1. CASE SetUp(t)
      BY <1>0, <3>1, SetUpCallbacks
    <3>2. CASE ~SetUp(t)
      BY <1>0, <1>2, <3>2 DEF NewStep, AttachReused, AttachShared, StartOwn, StartOwnFails,
           Attach, SetUpFails, TypeOK
    <3>3. QED
      BY <3>1, <3>2
  <2>3. QED
    BY <1>0, <1>1, <2>1, <2>2 DEF StateOK
<1>3. CASE BodyStep(t)
  <2>1. pc[t] = "body" /\ pc'[t] \in {"body", "cleanup"}
    BY <1>0, <1>3 DEF BodyStep, Plan, PlanFails, Apply, ApplyFails, Seed, SeedFails,
         SeedMessage, AssertFails, BodyReturns, CallFails, InBody, TypeOK, testVars
  <2>2. Pending(t) \subseteq Pending(t)'
    BY <2>1, CallbackStep DEF SetUp, SetUpFails, Runs
  <2>3. QED
    BY <1>0, <1>1, <2>1, <2>2 DEF StateOK
<1>4. CASE CleanupStep(t)
  <2>1. pc'[t] \in {"cleanup", "done"}
    BY <1>0, <1>4 DEF CleanupStep, RunDump, RunUnseed, RunUnseedFails, SkipDestroy,
         RunDestroy, RunDestroyFails, SkipStop, RunStop, RunStopFails, RemoveTempDir, Finish,
         Runs, TypeOK
  <2>2. QED
    BY <1>0, <1>1, <2>1 DEF StateOK
<1>5. QED
  BY <1>2, <1>3, <1>4 DEF TestStep

(* The LocalStack of a test with a container of its own is that container. *)
LEMMA OwnBackend ==
  ASSUME IInv, NEW t \in Tests, StateOK(t), own[t], edge[t] # None
  PROVE  Backend(t) = t
<1>1. StackOK(t) /\ EndpointsUp /\ t \notin Sidecars
  BY RuntimeAssumption DEF IInv, TestsInv, TestOK, Containers
<1>2. opts[t].override = None
  BY <1>1 DEF EndpointsUp, StateOK
<1>3. edge[t] = t
  BY <1>1, <1>2 DEF StackOK
<1>4. QED
  BY <1>1, <1>3 DEF Backend, Upstream

(* A test's step takes no name of another test from the other's            *)
(* LocalStack, where the other is alone or the LocalStack is its own.      *)
LEMMA OthersNames ==
  ASSUME IInv, PrefixesApart, NEW t \in Tests, NEW u \in Tests, t # u, TestStep(u),
         StateOK(t), own[t] \/ Alone(t), edge[t] # None,
         NEW x, Name(t, x) \in live[Backend(t)]
  PROVE  Name(t, x) \in live'[Backend(t)]
<1>0. /\ TestsInv /\ TypeOK /\ StackOK(t) /\ StackOK(u) /\ Backend(t) \in Containers
      /\ SharedCtr \notin Tests /\ ReusedCtr \notin Tests /\ None \notin Tests
      /\ Sidecars \cap Tests = {}
  BY BackendType, RuntimeAssumption DEF IInv, TestsInv, TestOK, Containers, URLs
<1>1. ASSUME NEW S, Adds(u, S)
      PROVE  Name(t, x) \in live'[Backend(t)]
  BY <1>0, <1>1 DEF Adds, TypeOK, RuntimeTypeOK
<1>2. ASSUME NEW S, Deletes(u, S), edge[u] # None
      PROVE  Name(t, x) \in live'[Backend(t)]
  <2>1. CASE Alone(t)
    <3>1. pc[u] # "idle"
      BY <1>0, <1>2 DEF TestsInv, TestOK, CallbacksOK
    <3>2. Sign(u) # Sign(t) /\ \A y : Name(u, y)[1] = Sign(u) /\ Name(t, y)[1] = Sign(t)
      BY <2>1, <3>1 DEF Alone, Name, Sign
    <3>3. Name(t, x) \notin NamesOf(u, S)
      BY <3>2 DEF NamesOf
    <3>4. QED
      BY <1>0, <1>2, <3>3 DEF Deletes, TypeOK, RuntimeTypeOK
  <2>2. CASE own[t]
    <3>1. Backend(t) = t
      BY <2>2, OwnBackend
    <3>2. Backend(u) # t
      BY <1>0, <1>2 DEF StackOK, Backend, Upstream
    <3>3. QED
      BY <1>0, <1>2, <3>1, <3>2 DEF Deletes, TypeOK, RuntimeTypeOK
  <2>3. QED
    BY <2>1, <2>2
<1>3. ASSUME live' = [live EXCEPT ![u] = {}], own[u]
      PROVE  Name(t, x) \in live'[Backend(t)]
  <2>1. Backend(t) # u
    BY <1>0 DEF StackOK, Backend, Upstream
  <2>2. QED
    BY <1>0, <1>3, <2>1 DEF TypeOK, RuntimeTypeOK
<1>4. QED
  BY <1>0, <1>1, <1>2, <1>3, LiveStep

(* A test keeps its own things itself until the destroy has had its turn:  *)
(* Apply and the seeds record what they make, the deletes that run first   *)
(* are of fixtures, and the stop comes after the destroy.                  *)
LEMMA KeptMine ==
  ASSUME TestsInv, PrefixesApart, NEW t \in Tests, Distinct(t), StateOK(t), KeptAt(t), TestStep(t)
  PROVE  KeptAt(t)'
<1>0. /\ TypeOK /\ CallbacksOK(t) /\ None \notin URLs /\ process' = process
      /\ "destroy" \notin Fixtures /\ Resources \cap (Fixtures \cup Messages) = {}
  BY Frame, RuntimeAssumption, TestCaseAssumption DEF TestsInv, TestOK, NewCallbacks
<1>1. ASSUME "destroy" \notin Pending(t)'
      PROVE  KeptAt(t)'
  BY <1>1 DEF KeptAt
<1>2. ASSUME UNCHANGED <<live, tfState, edge, opts, prefix>>, Pending(t)' \subseteq Pending(t)
      PROVE  KeptAt(t)'
  BY <1>0, <1>2 DEF KeptAt, NamesOf, Name, Backend, Upstream
<1>3. CASE NewStep(t)
  <2>1. CASE SetUp(t)
    <3>1. Pending(t)' \cap Fixtures = {}
      BY <1>0, <2>1, SetUpCallbacks, TestCaseAssumption DEF NewCallbacks
    <3>2. tfState'[t] = {}
      BY <2>1 DEF SetUp, StateOK
    <3>3. QED
      BY <3>1, <3>2 DEF KeptAt, NamesOf
  <2>2. CASE SetUpFails(t)
    <3>1. cleanups'[t] = <<"tempdir">>
      BY <1>0, <2>2 DEF SetUpFails, TypeOK
    <3>2. QED
      BY <1>1, <3>1 DEF Pending
  <2>3. CASE AttachReused(t) \/ AttachShared(t) \/ StartOwn(t) \/ StartOwnFails(t)
    <3>1. cleanups'[t] = <<>>
      BY <1>0, <2>3 DEF AttachReused, AttachShared, StartOwn, StartOwnFails, CallsNew, CallbacksOK
    <3>2. QED
      BY <1>1, <3>1, NoCallbacks DEF Pending
  <2>4. QED
    BY <1>3, <2>1, <2>2, <2>3 DEF NewStep
<1>4. CASE BodyStep(t)
  <2>0. /\ pc[t] = "body" /\ edge[t] # None /\ Backend(t) \in Containers
        /\ UNCHANGED <<edge, opts, prefix>> /\ KeptAt(t) /\ process = "running"
        /\ "destroy" \in Pending(t)
    BY <1>0, <1>4, BackendType DEF CallbacksOK, StateOK, BodyStep, Plan, PlanFails, Apply,
         ApplyFails, Seed, SeedFails, SeedMessage, AssertFails, BodyReturns, InBody, testVars
  <2>1. /\ Backend(t)' = Backend(t)
        /\ \A x : Name(t, x)' = Name(t, x)
    BY <2>0 DEF Backend, Upstream, Name
  <2>2. ASSUME NEW S, Adds(t, S), NEW R \in SUBSET S, tfState'[t] \subseteq tfState[t] \cup R,
               NEW F \in SUBSET S, Pending(t)' \cap Fixtures \subseteq Pending(t) \cup F
        PROVE  KeptAt(t)'
    <3>1. live'[Backend(t)] = live[Backend(t)] \cup NamesOf(t, S)
      BY <1>0, <2>0, <2>2 DEF Adds, TypeOK, RuntimeTypeOK
    <3>2. ASSUME NEW x \in tfState'[t] PROVE Name(t, x) \in live'[Backend(t)]
      BY <2>0, <2>2, <3>1 DEF KeptAt, NamesOf
    <3>3. ASSUME NEW x \in Pending(t)' \cap Fixtures PROVE Name(t, x) \in live'[Backend(t)]
      BY <2>0, <2>2, <3>1 DEF KeptAt, NamesOf
    <3>4. QED
      BY <2>1, <3>2, <3>3 DEF KeptAt, NamesOf
  <2>3. CASE Apply(t)
    <3>1. Adds(t, Resources) /\ tfState'[t] = Resources /\ Pending(t)' = Pending(t)
      BY <1>0, <2>3 DEF Apply, Adds, TypeOK, Pending
    <3>2. QED
      BY <2>2, <3>1
  <2>4. CASE ApplyFails(t)
    <3>1. PICK made \in SUBSET (Resources \ tfState[t]), recorded \in SUBSET Resources :
            /\ recorded \subseteq made
            /\ live' = [live EXCEPT ![Backend(t)] = @ \cup NamesOf(t, made)]
            /\ tfState' = [tfState EXCEPT ![t] = @ \cup recorded]
      BY <2>4 DEF ApplyFails
    <3>2. Adds(t, made) /\ tfState'[t] = tfState[t] \cup recorded
      BY <1>0, <3>1 DEF Adds, TypeOK
    <3>3. Pending(t)' = Pending(t)
      BY <2>4 DEF ApplyFails, Pending
    <3>4. recorded \in SUBSET made
      BY <3>1
    <3>5. QED
      BY <2>2, <3>2, <3>3, <3>4
  <2>5. ASSUME NEW f \in Fixtures, Seed(t, f)
        PROVE  KeptAt(t)'
    <3>1. Adds(t, {f}) /\ tfState' = tfState
      BY <2>5 DEF Seed, Adds, NamesOf
    <3>2. Pending(t)' = Pending(t) \cup {f}
      BY <1>0, <2>5, SeedCallbacks
    <3>3. QED
      BY <2>2, <3>1, <3>2
  <2>6. ASSUME UNCHANGED <<tfState, cleanups>>, \E S : Adds(t, S)
        PROVE  KeptAt(t)'
    BY <2>2, <2>6 DEF Pending
  <2>7. ASSUME NEW f, SeedFails(t, f) \/ SeedMessage(t, f)
        PROVE  KeptAt(t)'
    <3>1. UNCHANGED live \/ \E S : Adds(t, S)
      BY <2>7, SeedAdds
    <3>2. QED
      BY <1>2, <2>0, <2>6, <2>7, <3>1 DEF SeedFails, SeedMessage, testVars, Pending
  <2>8. CASE Plan(t) \/ PlanFails(t) \/ AssertFails(t) \/ BodyReturns(t)
    BY <1>2, <2>0, <2>8 DEF Plan, PlanFails, AssertFails, BodyReturns, runtimeVars, Pending
  <2>9. QED
    BY <1>4, <2>3, <2>4, <2>5, <2>7, <2>8 DEF BodyStep
<1>5. CASE RunUnseed(t)
  <2>1. /\ Next1(t) \in Fixtures /\ Pending(t)' = Pending(t) \ {Next1(t)}
        /\ UNCHANGED <<tfState, opts, prefix, edge>> /\ edge[t] # None
        /\ live' = [live EXCEPT ![Backend(t)] = @ \ {Name(t, Next1(t))}]
    BY <1>0, <1>5, PendingAfter DEF RunUnseed, Runs, Serves
  <2>2. Backend(t) \in Containers
    BY <1>0, <2>1, BackendType
  <2>3. /\ Backend(t)' = Backend(t)
        /\ \A x : Name(t, x)' = Name(t, x)
    BY <2>1 DEF Backend, Upstream, Name
  <2>4. live'[Backend(t)] = live[Backend(t)] \ {Name(t, Next1(t))}
    BY <1>0, <2>1, <2>2 DEF TypeOK, RuntimeTypeOK
  <2>5. \A x : x # Next1(t) => Name(t, x) # Name(t, Next1(t))
    BY DEF Name
  <2>6. tfState[t] \subseteq Resources
    BY <1>0 DEF TypeOK
  <2>7. QED
    BY <1>0, <2>1, <2>3, <2>4, <2>5, <2>6 DEF KeptAt, NamesOf
<1>6. CASE RunDestroy(t) \/ RunDestroyFails(t)
  <2>1. Runs(t, {"destroy"})
    BY <1>6 DEF RunDestroy, RunDestroyFails
  <2>2. Next1(t) \in {"destroy"} /\ Pending(t)' = Pending(t) \ {Next1(t)}
    BY <2>1, PendingAfter
  <2>3. QED
    BY <1>1, <2>2
<1>7. CASE RunStop(t) \/ RemoveTempDir(t)
  <2>1. PICK C \in {{"stop"}, {"tempdir"}} : Runs(t, C)
    BY <1>7 DEF RunStop, RemoveTempDir
  <2>2. /\ Len(cleanups[t]) \in Nat \ {0} /\ Len(cleanups'[t]) = Len(cleanups[t]) - 1
        /\ \A i \in 1 .. Len(cleanups[t]) - 1 : cleanups'[t][i] = cleanups[t][i]
        /\ Len(cleanups[t]) \in {1, 2}
    <3>1. Next1(t) \in C
      BY <2>1, LastCallback
    <3>2. QED
      BY <2>1, <3>1, LastCallback
  <2>3. Pending(t)' \subseteq {"tempdir"}
    <3>1. cleanups'[t] \in Seq(Callbacks)
      BY <1>0, <2>1, PopSeq DEF Runs, TypeOK
    <3>2. \A i \in 1 .. Len(cleanups'[t]) : i = 1 /\ cleanups'[t][i] = "tempdir"
      BY <1>0, <2>2 DEF CallbacksOK
    <3>3. QED
      BY <3>1, <3>2 DEF Pending
  <2>4. QED
    BY <1>1, <2>3
<1>8. CASE RunDump(t) \/ RunUnseedFails(t) \/ SkipDestroy(t) \/ SkipStop(t) \/ RunStopFails(t)
  <2>1. \E C : Runs(t, C)
    BY <1>8 DEF RunDump, RunUnseedFails, SkipDestroy, SkipStop, RunStopFails
  <2>2. Pending(t)' \subseteq Pending(t)
    BY <2>1, PendingShrinks
  <2>3. UNCHANGED <<live, tfState, edge, opts, prefix>>
    BY <1>8 DEF RunDump, RunUnseedFails, SkipDestroy, SkipStop, RunStopFails, Runs
  <2>4. QED
    BY <1>2, <2>2, <2>3
<1>9. CASE Finish(t)
  BY <1>2, <1>9 DEF Finish, runtimeVars, Pending
<1>10. QED
  BY <1>3, <1>4, <1>5, <1>6, <1>7, <1>8, <1>9 DEF TestStep, CleanupStep

(* Where its container is its own, or it is alone, nobody takes from a     *)
(* test what its callbacks still have to remove.                           *)
Kept(t) == own[t] \/ Alone(t) => KeptAt(t)

KeptInv == PrefixesApart /\ \A t \in Tests : Distinct(t) /\ StateOK(t) /\ Kept(t)

(* At first nothing is owed.                                               *)
LEMMA KeptInit == Init => KeptInv
<1> SUFFICES ASSUME Init PROVE KeptInv
  OBVIOUS
<1>1. PrefixesApart
  BY DEF Init, TestInit, PrefixesApart
<1>2. ASSUME NEW t \in Tests PROVE Distinct(t) /\ StateOK(t) /\ Kept(t)
  <2>1. Distinct(t) /\ Pending(t) = {}
    BY NoCallbacks DEF Init, TestInit, Distinct, Pending
  <2>2. StateOK(t)
    BY DEF Init, TestInit, StateOK
  <2>3. Kept(t)
    BY <2>1 DEF Kept, KeptAt
  <2>4. QED
    BY <2>1, <2>2, <2>3
<1>3. QED
  BY <1>1, <1>2 DEF KeptInv

(* The step of a test leaves the others what is theirs.                    *)
LEMMA KeptOthers ==
  ASSUME IInv, KeptInv, NEW u \in Tests, TestStep(u), NEW t \in Tests, t # u
  PROVE  Distinct(t)' /\ StateOK(t)' /\ Kept(t)'
<1>0. /\ UNCHANGED <<process, shared, opts>> /\ TestsInv
      /\ pc'[t] = pc[t] /\ own'[t] = own[t] /\ edge'[t] = edge[t]
      /\ cleanups'[t] = cleanups[t] /\ prefix'[t] = prefix[t] /\ tfState'[t] = tfState[t]
  BY Frame DEF IInv
<1>1. /\ Pending(t)' = Pending(t) /\ Backend(t)' = Backend(t)
      /\ \A x : Name(t, x)' = Name(t, x)
  BY <1>0 DEF Pending, Backend, Upstream, Name
<1>2. Distinct(t)' /\ StateOK(t)'
  BY <1>0, <1>1 DEF KeptInv, Distinct, StateOK
<1>3. ASSUME own[t] \/ Alone(t)', process = "running", "destroy" \in Pending(t)
      PROVE  KeptAt(t)'
  <2>0. own[t] \/ Alone(t)
    BY <1>0, <1>3, AloneBefore
  <2>1. KeptAt(t) /\ PrefixesApart /\ StateOK(t)
    BY <2>0 DEF KeptInv, Kept
  <2>2. edge[t] # None
    <3>1. TypeOK /\ CallbacksOK(t)
      BY <1>0 DEF TestsInv, TestOK
    <3>2. PICK i \in 1 .. Len(cleanups[t]) : cleanups[t][i] = "destroy"
      BY <1>3, <3>1 DEF Pending, TypeOK
    <3>3. i > 1 /\ edge[t] # None
      BY <3>1, <3>2 DEF CallbacksOK, TypeOK
    <3>4. QED
      BY <3>1, <3>3 DEF CallbacksOK
  <2>3. \A x : Name(t, x) \in live[Backend(t)] => Name(t, x) \in live'[Backend(t)]
    BY <2>0, <2>1, <2>2, OthersNames
  <2>4. QED
    BY <1>0, <1>1, <1>3, <2>1, <2>3 DEF KeptAt, NamesOf
<1>4. Kept(t)'
  BY <1>0, <1>1, <1>3 DEF Kept, KeptAt
<1>5. QED
  BY <1>2, <1>4

(* Every step keeps what is owed.                                          *)
LEMMA KeptNext ==
  ASSUME IInv, KeptInv, [Next]_vars
  PROVE  KeptInv'
<1>0. TestsInv
  BY DEF IInv
<1>1. ASSUME NEW t \in Tests, TestStep(t)
      PROVE  KeptInv'
  <2>1. PrefixesApart'
    BY <1>0, <1>1, PrefixesKept DEF KeptInv
  <2>2. Distinct(t)' /\ StateOK(t)'
    BY <1>0, <1>1, CallbackStep, StateKept DEF KeptInv
  <2>3. Kept(t)'
    <3>1. KeptAt(t) => KeptAt(t)'
      BY <1>0, <1>1, KeptMine DEF KeptInv
    <3>2. own'[t] = own[t] \/ "destroy" \notin Pending(t)'
      BY <1>0, <1>1, OwnSettled
    <3>3. Alone(t)' => Alone(t) \/ "destroy" \notin Pending(t)'
      BY <1>0, <1>1, AloneBefore, PrefixStays
    <3>4. QED
      BY <3>1, <3>2, <3>3 DEF KeptInv, Kept, KeptAt
  <2>4. QED
    BY <1>1, <2>1, <2>2, <2>3, KeptOthers DEF KeptInv
<1>2. CASE Outside \/ Ended \/ UNCHANGED vars
  <2>1. UNCHANGED testVars /\ (process' = "running" => UNCHANGED <<process, live>>)
        /\ shared' = shared
    BY <1>2 DEF Outside, Exit, Crash, Reap, Ended, vars, runtimeVars
  <2>2. PrefixesApart'
    BY <2>1 DEF KeptInv, PrefixesApart, testVars
  <2>3. ASSUME NEW t \in Tests PROVE Distinct(t)' /\ StateOK(t)' /\ Kept(t)'
    BY <2>1 DEF KeptInv, Distinct, StateOK, Kept, KeptAt, NamesOf, Name, Pending, Backend,
         Upstream, Alone, Sign, testVars
  <2>4. QED
    BY <2>2, <2>3 DEF KeptInv
<1>3. QED
  BY <1>1, <1>2 DEF Next

(* So nothing owed is ever lost.                                           *)
LEMMA KeptAlways == Spec => [](IInv /\ KeptInv)
<1>1. IInv /\ KeptInv /\ [Next]_vars => (IInv /\ KeptInv)'
  BY InvNext, KeptNext
<1>2. QED
  BY InvInit, KeptInit, <1>1, PTL DEF Spec

(* Tests that share a LocalStack do not undo each other, as long as every  *)
(* test draws a prefix of its own and gives it to its module and fixtures  *)
(* (libtftest.go:83).                                                      *)
THEOREM ParallelTestsApart ==
  ASSUME NamesApart
  PROVE  Spec => []Undisturbed
<1>1. IInv /\ KeptInv => Undisturbed
  <2> SUFFICES ASSUME IInv, KeptInv, NEW t \in Tests, process = "running",
                      "destroy" \in Pending(t)
               PROVE  KeptAt(t)
    BY DEF Undisturbed, KeptAt
  <2>1. TypeOK /\ CallbacksOK(t)
    BY DEF IInv, TestsInv, TestOK
  <2>2. pc[t] # "idle"
    BY <2>1, NoCallbacks DEF CallbacksOK, Pending
  <2>3. Alone(t)
    BY <2>1, <2>2, ApartIsAlone DEF KeptInv
  <2>4. QED
    BY <2>3 DEF KeptInv, Kept
<1>2. QED
  BY <1>1, KeptAlways, PTL

(* What a test that is alone still has to remove is there.                 *)
AloneUndisturbed == \A t \in Tests : Alone(t) => KeptAt(t)

(* A prefix that is drawn twice, or a module that takes none, costs those  *)
(* who have it in common and nobody else: a test whose names no other test *)
(* has is left alone, whatever the others do (naming/prefix.go:30).        *)
THEOREM CollisionsStayApart == Spec => []AloneUndisturbed
<1>1. KeptInv => AloneUndisturbed
  BY DEF KeptInv, Kept, AloneUndisturbed
<1>2. QED
  BY <1>1, KeptAlways, PTL

OwnUndisturbed == \A t \in Tests : own[t] => KeptAt(t)

(* A test with a container of its own needs no prefix at all, whatever its *)
(* neighbours do (ownStack, libtftest.go:319-327).                         *)
THEOREM OwnContainerApart == Spec => []OwnUndisturbed
<1>1. KeptInv => OwnUndisturbed
  BY DEF KeptInv, Kept, OwnUndisturbed
<1>2. QED
  BY <1>1, KeptAlways, PTL

---------------------------------------------------------------------------
(* A green test leaves nothing.                                            *)

(* Whatever exists bears the prefix of a test that New has set up.         *)
Signed ==
  \A c \in Containers : \A n \in live[c] :
    \E u \in Tests : pc[u] \notin {"idle", "setup"} /\ n[1] = prefix[u]

(* What a test that has not failed made is still to be removed: by the     *)
(* destroy, which finds it in the state file, or by its fixture's callback.*)
Traced(t) ==
  process = "running" /\ ~failed[t] /\ pc[t] \notin {"idle", "setup"}
  => /\ edge[t] # None
     /\ \A x \in Resources \cup Fixtures :
          Name(t, x) \in live[Backend(t)]
          => \/ "destroy" \in Pending(t) /\ x \in tfState[t]
             \/ x \in Pending(t) \cap Fixtures

(* New gives a test its prefix for good.                                   *)
LEMMA PrefixSettled ==
  ASSUME TypeOK, NEW t \in Tests, TestStep(t), pc[t] \notin {"idle", "setup"}
  PROVE  /\ prefix'[t] = prefix[t] /\ pc'[t] \notin {"idle", "setup"}
         /\ edge'[t] = edge[t] /\ process = "running"
         /\ BodyStep(t) \/ CleanupStep(t)
<1>1. BodyStep(t) \/ CleanupStep(t)
  BY DEF TestStep, NewStep, AttachReused, AttachShared, StartOwn, StartOwnFails, SetUp,
       SetUpFails, CallsNew
<1>2. CASE BodyStep(t)
  BY <1>2 DEF BodyStep, Plan, PlanFails, Apply, ApplyFails, Seed, SeedFails, SeedMessage,
       AssertFails, BodyReturns, CallFails, InBody, TypeOK, testVars
<1>3. CASE CleanupStep(t)
  BY <1>3 DEF CleanupStep, RunDump, RunUnseed, RunUnseedFails, SkipDestroy, RunDestroy,
       RunDestroyFails, SkipStop, RunStop, RunStopFails, RemoveTempDir, Finish, Runs, TypeOK
<1>4. QED
  BY <1>1, <1>2, <1>3

(* Only New's own test gets a name into a LocalStack.                      *)
LEMMA SignedKept ==
  ASSUME TestsInv, NamesApart, Signed, NEW t \in Tests, TestStep(t)
  PROVE  Signed'
<1>0. TypeOK /\ \A u \in Tests \ {t} : prefix'[u] = prefix[u] /\ pc'[u] = pc[u]
  BY Frame DEF TestsInv
<1>1. \A u \in Tests : pc[u] \notin {"idle", "setup"} =>
                      pc'[u] \notin {"idle", "setup"} /\ prefix'[u] = prefix[u]
  BY <1>0, PrefixSettled
<1>2. ASSUME NEW c \in Containers, NEW n \in live'[c], n \notin live[c]
      PROVE  pc[t] \notin {"idle", "setup"} /\ n[1] = prefix[t]
  <2>1. PICK S : pc[t] = "body" /\ edge[t] # None /\ Adds(t, S)
    <3>1. UNCHANGED live => FALSE
      BY <1>2
    <3>2. ASSUME NEW S, Deletes(t, S) PROVE FALSE
      BY <1>0, <1>2, <3>2 DEF Deletes, TypeOK, RuntimeTypeOK
    <3>3. live' = [live EXCEPT ![t] = {}] => FALSE
      BY <1>0, <1>2 DEF TypeOK, RuntimeTypeOK
    <3>4. QED
      BY <3>1, <3>2, <3>3, LiveStep
  <2>2. n \in NamesOf(t, S)
    BY <1>0, <1>2, <2>1 DEF Adds, TypeOK, RuntimeTypeOK
  <2>3. opts[t].autoPrefix
    BY <1>0 DEF NamesApart, TypeOK
  <2>4. QED
    BY <2>1, <2>2, <2>3 DEF NamesOf, Name
<1>3. QED
  BY <1>1, <1>2 DEF Signed

(* A test does not lose track of what it makes.                            *)
LEMMA TracedMine ==
  ASSUME IInv, KeptInv, NamesApart, "killed" \notin Faults, Signed,
         NEW t \in Tests, Traced(t), TestStep(t)
  PROVE  Traced(t)'
<1>0. /\ TestsInv /\ TypeOK /\ CallbacksOK(t) /\ StackOK(t) /\ Distinct(t) /\ StateOK(t)
      /\ PrefixesApart /\ process' = process /\ opts' = opts
      /\ "destroy" \notin Fixtures /\ "tempdir" \notin Fixtures
      /\ Resources \cap (Fixtures \cup Messages) = {} /\ Fixtures \cap Messages = {}
  BY Frame, TestCaseAssumption DEF IInv, TestsInv, TestOK, KeptInv, NewCallbacks
<1>1. ASSUME failed'[t] \/ pc'[t] \in {"idle", "setup"}
      PROVE  Traced(t)'
  BY <1>1 DEF Traced
<1>2. CASE NewStep(t)
  <2>1. CASE AttachReused(t) \/ AttachShared(t) \/ StartOwn(t)
    BY <1>0, <1>1, <2>1 DEF AttachReused, AttachShared, StartOwn, Attach, TypeOK
  <2>2. CASE StartOwnFails(t) \/ SetUpFails(t)
    BY <1>0, <1>1, <2>2 DEF StartOwnFails, SetUpFails, TypeOK
  <2>3. CASE SetUp(t)
    <3>1. TestOK(t)' /\ TypeOK' /\ pc'[t] = "body"
      BY <1>0, <1>2, <2>3, TestsKept DEF TestsInv, TestStep, SetUp, TypeOK
    <3>2. edge'[t] # None /\ (Backend(t) \in Containers)'
      <4>1. edge'[t] # None
        BY <3>1 DEF TestOK, CallbacksOK
      <4>2. edge'[t] \in URLs
        BY <3>1, <4>1 DEF TypeOK
      <4>3. QED
        BY <4>1, <4>2 DEF Backend, Upstream, URLs, Containers
    <3>3. UNCHANGED <<live, prefix, opts>> /\ pc[t] = "setup"
      BY <2>3 DEF SetUp, runtimeVars
    <3>4. \A c \in Containers : \A n \in live[c] : n[1] # prefix[t]
      BY <1>0, <3>3 DEF Signed, PrefixesApart, NamesApart
    <3>5. \A x : Name(t, x)'[1] = prefix[t]
      BY <1>0, <3>3 DEF Name, NamesApart, TypeOK
    <3>6. \A x : Name(t, x)' \notin live'[Backend(t)']
      BY <3>2, <3>3, <3>4, <3>5
    <3>7. QED
      BY <3>2, <3>6 DEF Traced
  <2>4. QED
    BY <1>2, <2>1, <2>2, <2>3 DEF NewStep
<1>3. CASE BodyStep(t) \/ CleanupStep(t)
  <2> SUFFICES ASSUME ~failed'[t] PROVE Traced(t)'
    BY <1>1
  <2>0. /\ pc[t] \notin {"idle", "setup"} /\ process = "running" /\ ~failed[t] /\ edge[t] # None
        /\ UNCHANGED <<opts>> /\ prefix'[t] = prefix[t] /\ edge'[t] = edge[t]
        /\ Backend(t) \in Containers
    <3>1. pc[t] \notin {"idle", "setup"}
      BY <1>3 DEF BodyStep, Plan, PlanFails, Apply, ApplyFails, Seed, SeedFails, SeedMessage,
         AssertFails, BodyReturns, InBody, CleanupStep, RunDump, RunUnseed, RunUnseedFails,
         SkipDestroy, RunDestroy, RunDestroyFails, SkipStop, RunStop, RunStopFails,
         RemoveTempDir, Finish, Runs
    <3>2. ~failed[t] /\ process = "running"
      BY <1>0, <3>1, FailedStays, PrefixSettled
    <3>3. QED
      BY <1>0, <3>1, <3>2, PrefixSettled, BackendType DEF Traced
  <2>1. /\ Backend(t)' = Backend(t)
        /\ \A x : Name(t, x)' = Name(t, x)
        /\ \A x, y : Name(t, x) = Name(t, y) => x = y
    BY <2>0 DEF Backend, Upstream, Name
  <2>2. \A x \in Resources \cup Fixtures :
          Name(t, x) \in live[Backend(t)]
          => \/ "destroy" \in Pending(t) /\ x \in tfState[t]
             \/ x \in Pending(t) \cap Fixtures
    BY <2>0 DEF Traced
  <2>3. ASSUME \A x \in Resources \cup Fixtures :
                 Name(t, x) \in live'[Backend(t)]
                 => \/ "destroy" \in Pending(t)' /\ x \in tfState'[t]
                    \/ x \in Pending(t)' \cap Fixtures
        PROVE  Traced(t)'
    BY <2>0, <2>1, <2>3 DEF Traced
  <2>4. ASSUME NEW S, Adds(t, S)
        PROVE  live'[Backend(t)] = live[Backend(t)] \cup NamesOf(t, S)
    BY <1>0, <2>0, <2>4 DEF Adds, TypeOK, RuntimeTypeOK
  <2>5. ASSUME UNCHANGED <<live, tfState>>, Pending(t)' = Pending(t) PROVE Traced(t)'
    BY <2>2, <2>3, <2>5
  <2>6. CASE BodyStep(t)
    <3>1. "destroy" \in Pending(t)
      BY <1>0, <2>6 DEF StateOK, BodyStep, Plan, PlanFails, Apply, ApplyFails, Seed, SeedFails,
           SeedMessage, AssertFails, BodyReturns, InBody
    <3>2. CASE Apply(t)
      <4>1. Adds(t, Resources) /\ tfState'[t] = Resources
        BY <1>0, <3>2 DEF Apply, Adds, TypeOK
      <4>2. Pending(t)' = Pending(t)
        BY <3>2 DEF Apply, Pending
      <4>3. live'[Backend(t)] = live[Backend(t)] \cup NamesOf(t, Resources)
        BY <2>4, <4>1
      <4>4. QED
        <5>1. ASSUME NEW x \in Resources \cup Fixtures, Name(t, x) \in live'[Backend(t)],
                     x \notin Resources
              PROVE  x \in Pending(t)' \cap Fixtures
          <6>1. Name(t, x) \notin NamesOf(t, Resources)
            BY <2>1, <5>1 DEF NamesOf
          <6>2. Name(t, x) \in live[Backend(t)] /\ x \notin tfState[t]
            BY <1>0, <4>3, <5>1, <6>1 DEF TypeOK
          <6>3. QED
            BY <2>2, <4>2, <5>1, <6>2
        <5>2. QED
          BY <2>3, <3>1, <4>1, <4>2, <5>1
    <3>3. CASE ApplyFails(t)
      <4>1. PICK made \in SUBSET (Resources \ tfState[t]) :
              /\ live' = [live EXCEPT ![Backend(t)] = @ \cup NamesOf(t, made)]
              /\ tfState' = [tfState EXCEPT ![t] = @ \cup made]
        BY <3>3 DEF ApplyFails
      <4>2. Adds(t, made) /\ tfState'[t] = tfState[t] \cup made
        BY <1>0, <4>1 DEF Adds, TypeOK
      <4>3. Pending(t)' = Pending(t)
        BY <3>3 DEF ApplyFails, Pending
      <4>4. live'[Backend(t)] = live[Backend(t)] \cup NamesOf(t, made)
        BY <2>4, <4>2
      <4>5. QED
        BY <2>1, <2>2, <2>3, <3>1, <4>2, <4>3, <4>4 DEF NamesOf
    <3>4. ASSUME NEW f \in Fixtures, Seed(t, f) PROVE Traced(t)'
      <4>1. Adds(t, {f}) /\ tfState' = tfState
        BY <3>4 DEF Seed, Adds, NamesOf
      <4>2. Pending(t)' = Pending(t) \cup {f}
        BY <1>0, <3>4, SeedCallbacks
      <4>3. live'[Backend(t)] = live[Backend(t)] \cup NamesOf(t, {f})
        BY <2>4, <4>1
      <4>4. QED
        <5>1. NamesOf(t, {f}) = {Name(t, f)}
          BY DEF NamesOf
        <5>2. QED
          BY <2>1, <2>2, <2>3, <4>1, <4>2, <4>3, <5>1
    <3>5. ASSUME NEW m \in Messages, SeedMessage(t, m) PROVE Traced(t)'
      <4>1. Adds(t, {m}) /\ tfState' = tfState /\ Pending(t)' = Pending(t)
        BY <3>5 DEF SeedMessage, Adds, NamesOf, testVars, Pending
      <4>2. live'[Backend(t)] = live[Backend(t)] \cup NamesOf(t, {m})
        BY <2>4, <4>1
      <4>3. m \notin Resources \cup Fixtures
        BY <1>0
      <4>4. QED
        <5>1. NamesOf(t, {m}) = {Name(t, m)}
          BY DEF NamesOf
        <5>2. QED
          BY <2>1, <2>2, <2>3, <4>1, <4>2, <4>3, <5>1
    <3>6. CASE Plan(t) \/ PlanFails(t) \/ AssertFails(t) \/ BodyReturns(t)
      BY <2>5, <3>6 DEF Plan, PlanFails, AssertFails, BodyReturns, runtimeVars, Pending
    <3>7. \A f \in Fixtures : ~SeedFails(t, f)
      BY <1>0 DEF SeedFails, TypeOK
    <3>8. QED
      BY <2>6, <3>2, <3>3, <3>4, <3>5, <3>6, <3>7 DEF BodyStep
  <2>7. CASE CleanupStep(t)
    <3>1. ~RunUnseedFails(t) /\ ~RunDestroyFails(t) /\ ~RunStopFails(t)
      BY <1>0 DEF RunUnseedFails, RunDestroyFails, RunStopFails, Errorf, TypeOK
    <3>2. ~SkipDestroy(t) /\ ~SkipStop(t)
      BY <2>0 DEF SkipDestroy, SkipStop, Persists
    <3>3. ASSUME NEW C, Runs(t, C)
          PROVE  Next1(t) \in C /\ Pending(t)' = Pending(t) \ {Next1(t)}
      BY <1>0, <3>3, PendingAfter
    <3>4. CASE RunDump(t)
      <4>1. /\ UNCHANGED <<live, tfState>> /\ Next1(t) = "dump"
            /\ Pending(t)' = Pending(t) \ {"dump"} /\ "dump" \notin Fixtures
        BY <3>3, <3>4, TestCaseAssumption DEF RunDump, NewCallbacks
      <4>2. QED
        BY <2>2, <2>3, <4>1
    <3>5. CASE RunUnseed(t)
      <4>1. /\ Next1(t) \in Fixtures /\ Pending(t)' = Pending(t) \ {Next1(t)}
            /\ UNCHANGED tfState
            /\ live'[Backend(t)] = live[Backend(t)] \ {Name(t, Next1(t))}
        BY <1>0, <2>0, <3>3, <3>5 DEF RunUnseed, TypeOK, RuntimeTypeOK
      <4>2. QED
        BY <1>0, <2>1, <2>2, <2>3, <4>1
    <3>6. CASE RunDestroy(t)
      <4>1. /\ Pending(t)' = Pending(t) \ {"destroy"}
            /\ live'[Backend(t)] = live[Backend(t)] \ NamesOf(t, tfState[t])
        BY <1>0, <2>0, <3>3, <3>6 DEF RunDestroy, TypeOK, RuntimeTypeOK
      <4>2. QED
        BY <1>0, <2>2, <2>3, <4>1 DEF NamesOf
    <3>7. CASE RunStop(t)
      <4>1. own[t] /\ live' = [live EXCEPT ![t] = {}] /\ Backend(t) = t
        <5>1. Next1(t) \in {"stop"} /\ (Next1(t) = "stop" => own[t] /\ stack[t] = t)
          BY <1>0, <3>7, LastCallback DEF RunStop
        <5>2. QED
          BY <1>0, <2>0, <3>7, <5>1, OwnBackend DEF RunStop, TerminateContainer
      <4>2. live'[Backend(t)] = {}
        BY <1>0, <2>0, <4>1 DEF TypeOK, RuntimeTypeOK
      <4>3. QED
        BY <2>3, <4>2
    <3>8. CASE RemoveTempDir(t)
      <4>1. Next1(t) \in {"tempdir"} /\ (Next1(t) = "tempdir" => Len(cleanups[t]) = 1)
        BY <1>0, <3>8, LastCallback DEF RemoveTempDir
      <4>2. Pending(t) = {"tempdir"}
        BY <1>0, <4>1, Indices DEF Next1
      <4>3. UNCHANGED live
        BY <3>8 DEF RemoveTempDir
      <4>4. QED
        BY <1>0, <2>2, <2>3, <4>2, <4>3
    <3>9. CASE Finish(t)
      BY <2>5, <3>9 DEF Finish, runtimeVars, Pending
    <3>10. QED
      BY <2>7, <3>1, <3>2, <3>4, <3>5, <3>6, <3>7, <3>8, <3>9 DEF CleanupStep
  <2>8. QED
    BY <1>3, <2>6, <2>7
<1>4. QED
  BY <1>2, <1>3 DEF TestStep

(* Nor does another test put one of its names into a LocalStack.           *)
LEMMA TracedOthers ==
  ASSUME IInv, PrefixesApart, NamesApart, NEW u \in Tests, TestStep(u),
         NEW t \in Tests, t # u, Traced(t)
  PROVE  Traced(t)'
<1> SUFFICES ASSUME process' = "running", ~failed'[t], pc'[t] \notin {"idle", "setup"}
             PROVE  Traced(t)'
  BY DEF Traced
<1>1. /\ UNCHANGED <<process, opts>> /\ TestsInv /\ TypeOK
      /\ pc'[t] = pc[t] /\ failed'[t] = failed[t] /\ edge'[t] = edge[t]
      /\ cleanups'[t] = cleanups[t] /\ prefix'[t] = prefix[t] /\ tfState'[t] = tfState[t]
  BY Frame DEF IInv, TestsInv
<1>2. /\ Pending(t)' = Pending(t) /\ Backend(t)' = Backend(t)
      /\ \A x : Name(t, x)' = Name(t, x)
  BY <1>1 DEF Pending, Backend, Upstream, Name
<1>3. edge[t] # None /\ Backend(t) \in Containers
  BY <1>1, BackendType DEF Traced
<1>4. ASSUME NEW x, Name(t, x) \in live'[Backend(t)]
      PROVE  Name(t, x) \in live[Backend(t)]
  <2>1. ASSUME NEW S, Adds(u, S) PROVE Name(t, x) \in live[Backend(t)]
    <3>1. Name(t, x) \notin NamesOf(u, S)
      BY <1>1, NamesDiffer DEF NamesOf
    <3>2. QED
      BY <1>1, <1>3, <1>4, <2>1, <3>1 DEF Adds, TypeOK, RuntimeTypeOK
  <2>2. ASSUME NEW S, Deletes(u, S) PROVE Name(t, x) \in live[Backend(t)]
    BY <1>1, <1>3, <1>4, <2>2 DEF Deletes, TypeOK, RuntimeTypeOK
  <2>3. live' = [live EXCEPT ![u] = {}] => Name(t, x) \in live[Backend(t)]
    BY <1>1, <1>3, <1>4 DEF TypeOK, RuntimeTypeOK
  <2>4. QED
    BY <1>1, <1>4, <2>1, <2>2, <2>3, LiveStep
<1>5. QED
  BY <1>1, <1>2, <1>3, <1>4 DEF Traced

TracedInv == Signed /\ \A t \in Tests : Traced(t)

(* Every step leaves a trace of what a green test made.                    *)
LEMMA TracedNext ==
  ASSUME NamesApart, "killed" \notin Faults, IInv, KeptInv, TracedInv, [Next]_vars
  PROVE  TracedInv'
<1>1. ASSUME NEW t \in Tests, TestStep(t)
      PROVE  TracedInv'
  BY <1>1, SignedKept, TracedMine, TracedOthers DEF TracedInv, IInv, KeptInv
<1>2. CASE Outside \/ Ended \/ UNCHANGED vars
  <2>1. UNCHANGED testVars /\ (process' = "running" => UNCHANGED <<process, live>>)
    BY <1>2 DEF Outside, Exit, Crash, Reap, Ended, vars, runtimeVars
  <2>2. \A c \in Containers : live'[c] \subseteq live[c]
    BY <1>2 DEF Outside, Exit, Crash, Reap, TerminateContainer, Ended, vars, runtimeVars,
         IInv, TestsInv, TypeOK, RuntimeTypeOK
  <2>3. Signed'
    BY <2>1, <2>2 DEF TracedInv, Signed, testVars
  <2>4. ASSUME NEW t \in Tests PROVE Traced(t)'
    BY <2>1 DEF TracedInv, Traced, Name, Pending, Backend, Upstream, testVars
  <2>5. QED
    BY <2>3, <2>4 DEF TracedInv
<1>3. QED
  BY <1>1, <1>2 DEF Next

(* A test that passed has left nothing behind, neither its container nor,  *)
(* in a LocalStack it shares, a resource or a fixture, as long as names    *)
(* are apart and no terraform is killed before it records what it made     *)
(* (libtftest.go:348-386, fixtures/).                                      *)
THEOREM GreenIsClean ==
  ASSUME NamesApart, "killed" \notin Faults
  PROVE  Spec => []GreenLeavesNothing
<1>1. Init => TracedInv
  BY DEF Init, TestInit, TracedInv, Signed, Traced
<1>2. IInv /\ KeptInv /\ TracedInv /\ [Next]_vars => TracedInv'
  BY TracedNext
<1>3. IInv /\ KeptInv /\ ContainersInv /\ TracedInv => GreenLeavesNothing
  <2> SUFFICES ASSUME IInv, KeptInv, ContainersInv, TracedInv, NEW t \in Tests,
                      process = "running", pc[t] = "done", ~failed[t]
               PROVE  /\ own[t] => containers[t] = "removed"
                      /\ NamesOf(t, Resources \cup Fixtures) \cap live[Backend(t)] = {}
    BY DEF GreenLeavesNothing
  <2>1. Pending(t) = {}
    BY NoCallbacks DEF IInv, TestsInv, TestOK, CallbacksOK, Pending
  <2>2. own[t] => containers[t] = "removed"
    BY <2>1 DEF ContainersInv, StopInv, StopOwed
  <2>3. \A x \in Resources \cup Fixtures : Name(t, x) \notin live[Backend(t)]
    BY <2>1 DEF TracedInv, Traced
  <2>4. QED
    BY <2>2, <2>3 DEF NamesOf
<1>4. QED
  BY <1>1, <1>2, <1>3, KeptAlways, ContainersAccounted, PTL DEF Spec

=============================================================================
