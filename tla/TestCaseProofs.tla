--------------------------- MODULE TestCaseProofs ---------------------------
(***************************************************************************)
(* Theorems about TestCase, for any number of tests, options, resources,   *)
(* fixtures and faults.                                                    *)
(***************************************************************************)
EXTENDS TestCase, SequenceTheorems, TLAPS

---------------------------------------------------------------------------
(* Sequences: what remains of the callbacks when the last one is taken.    *)

(* tb.Cleanup's list without its last callback: shorter by one, otherwise  *)
(* the same.                                                               *)
LEMMA PopSeq ==
  ASSUME NEW S, NEW s \in Seq(S), s # <<>>
  PROVE  /\ Len(s) \in Nat \ {0}
         /\ s[Len(s)] \in S
         /\ SubSeq(s, 1, Len(s) - 1) \in Seq(S)
         /\ Len(SubSeq(s, 1, Len(s) - 1)) = Len(s) - 1
         /\ \A i \in 1 .. Len(s) - 1 : SubSeq(s, 1, Len(s) - 1)[i] = s[i]
<1>1. Len(s) \in Nat \ {0}
  OBVIOUS
<1>2. s[Len(s)] \in S
  BY <1>1
<1>3. \A i \in 1 .. Len(s) - 1 : s[i] \in S
  BY <1>1
<1>4. /\ SubSeq(s, 1, Len(s) - 1) \in Seq(S)
      /\ Len(SubSeq(s, 1, Len(s) - 1)) = Len(s) - 1
      /\ \A i \in 1 .. Len(s) - 1 : SubSeq(s, 1, Len(s) - 1)[i] = s[i]
  <2> DEFINE m == Len(s) - 1
  <2>1. /\ SubSeq(s, 1, m) \in Seq(S)
        /\ Len(SubSeq(s, 1, m)) = IF 1 <= m THEN m - 1 + 1 ELSE 0
        /\ \A i \in 1 .. m - 1 + 1 : SubSeq(s, 1, m)[i] = s[1 + i - 1]
    BY <1>1, <1>3, SubSeqProperties
  <2>2. m \in Nat /\ m - 1 + 1 = m
    BY <1>1
  <2>3. Len(SubSeq(s, 1, m)) = m
    BY <2>1, <2>2
  <2>4. ASSUME NEW i \in 1 .. m
        PROVE  SubSeq(s, 1, m)[i] = s[i]
    <3>1. 1 + i - 1 = i /\ i \in 1 .. m - 1 + 1
      BY <2>2
    <3>2. SubSeq(s, 1, m)[i] = s[1 + i - 1]
      BY <3>1, <2>1
    <3>3. QED
      BY <3>1, <3>2
  <2>5. QED
    BY <2>1, <2>3, <2>4
<1>5. QED
  BY <1>1, <1>2, <1>4

(* What New registers is a list of callbacks.                              *)
LEMMA RegisterCleanupType ==
  ASSUME NEW t \in Tests
  PROVE  <<"tempdir">> \o RegisterCleanup(t) \in Seq(Callbacks)
<1>1. /\ <<"tempdir">> \in Seq(Callbacks)
      /\ <<"destroy", "dump">> \in Seq(Callbacks)
      /\ <<"stop", "destroy", "dump">> \in Seq(Callbacks)
  BY DEF Callbacks, NewCallbacks
<1>2. QED
  BY <1>1 DEF RegisterCleanup

(* The names of a test's resources, fixtures and messages.                 *)
LEMMA NamesType ==
  ASSUME TypeOK, NEW t \in Tests,
         NEW S \in SUBSET (Resources \cup Fixtures \cup Messages)
  PROVE  NamesOf(t, S) \in SUBSET Names
  BY DEF TypeOK, NamesOf, Name, Names

(* The fields of a test's Options.                                         *)
LEMMA OptionsType ==
  ASSUME TypeOK, NEW t \in Tests
  PROVE  /\ opts[t].reuse \in {None, ReusedCtr}
         /\ opts[t].override \in Sidecars \cup {None}
  BY TestCaseAssumption DEF TypeOK, Options

(* The LocalStack behind a URL is one of the containers.                   *)
LEMMA BackendType ==
  ASSUME TypeOK, NEW t \in Tests, edge[t] # None
  PROVE  Backend(t) \in Containers
  BY DEF TypeOK, Backend, Upstream, URLs, Containers

---------------------------------------------------------------------------
(* Type correctness.                                                       *)

(* New keeps the type invariant.                                           *)
LEMMA TypeNew ==
  ASSUME TypeOK, NEW t \in Tests, NewStep(t)
  PROVE  TypeOK'
<1> USE DEF TypeOK, RuntimeTypeOK, PCs
<1>1. CASE AttachReused(t)
  BY <1>1, OptionsType DEF AttachReused, CallsNew, Attach, FreshPrefixes, Containers
<1>2. CASE AttachShared(t)
  BY <1>2 DEF AttachShared, CallsNew, Attach, FreshPrefixes, Containers
<1>3. CASE StartOwn(t)
  BY <1>3 DEF StartOwn, CallsNew, Attach, FreshPrefixes, Containers, LaunchContainer
<1>4. CASE StartOwnFails(t)
  BY <1>4 DEF StartOwnFails, CallsNew, FreshPrefixes, Containers, LaunchFails
<1>5. CASE SetUp(t)
  BY <1>5, OptionsType, RegisterCleanupType DEF SetUp, runtimeVars, URLs
<1>6. CASE SetUpFails(t)
  <2>1. <<"tempdir">> \in Seq(Callbacks)
    BY DEF Callbacks, NewCallbacks
  <2>2. QED
    BY <1>6, <2>1 DEF SetUpFails, runtimeVars
<1>7. QED
  BY <1>1, <1>2, <1>3, <1>4, <1>5, <1>6 DEF NewStep

(* So does every call of the body.                                         *)
LEMMA TypeBody ==
  ASSUME TypeOK, NEW t \in Tests, BodyStep(t)
  PROVE  TypeOK'
<1> USE DEF TypeOK, RuntimeTypeOK, PCs, InBody
<1>1. CASE Plan(t)
  BY <1>1 DEF Plan, runtimeVars
<1>2. CASE PlanFails(t)
  BY <1>2 DEF PlanFails, CallFails, runtimeVars
<1>3. CASE Apply(t)
  <2>1. Resources \in SUBSET (Resources \cup Fixtures \cup Messages)
    OBVIOUS
  <2>2. NamesOf(t, Resources) \in SUBSET Names
    BY <2>1, NamesType
  <2>3. QED
    BY <1>3, <2>2 DEF Apply
<1>4. CASE ApplyFails(t)
  <2>1. PICK made \in SUBSET (Resources \ tfState[t]), recorded \in SUBSET Resources :
          /\ live' = [live EXCEPT ![Backend(t)] = @ \cup NamesOf(t, made)]
          /\ tfState' = [tfState EXCEPT ![t] = @ \cup recorded]
    BY <1>4 DEF ApplyFails
  <2>2. made \in SUBSET (Resources \cup Fixtures \cup Messages)
    OBVIOUS
  <2>3. NamesOf(t, made) \in SUBSET Names
    BY <2>2, NamesType
  <2>4. live' \in [Containers -> SUBSET Names] /\ tfState' \in [Tests -> SUBSET Resources]
    BY <2>1, <2>3
  <2>5. QED
    BY <1>4, <2>4 DEF ApplyFails, CallFails
<1>5. ASSUME NEW f \in Fixtures, Seed(t, f)
      PROVE  TypeOK'
  <2>1. Name(t, f) \in Names
    BY DEF Name, Names
  <2>2. live' \in [Containers -> SUBSET Names]
    BY <1>5, <2>1 DEF Seed
  <2>3. cleanups' \in [Tests -> Seq(Callbacks)]
    BY <1>5 DEF Seed, Callbacks
  <2>4. QED
    BY <1>5, <2>2, <2>3 DEF Seed
<1>6. ASSUME NEW f \in Fixtures, SeedFails(t, f)
      PROVE  TypeOK'
  <2>1. Name(t, f) \in Names
    BY DEF Name, Names
  <2>2. PICK done \in SUBSET {Name(t, f)} :
               live' = [live EXCEPT ![Backend(t)] = @ \cup done]
    BY <1>6 DEF SeedFails
  <2>3. live' \in [Containers -> SUBSET Names]
    BY <2>1, <2>2
  <2>4. QED
    BY <1>6, <2>3 DEF SeedFails
<1>7. ASSUME NEW m \in Messages, SeedMessage(t, m)
      PROVE  TypeOK'
  <2>1. Name(t, m) \in Names
    BY DEF Name, Names
  <2>2. live' \in [Containers -> SUBSET Names]
    BY <1>7, <2>1 DEF SeedMessage
  <2>3. QED
    BY <1>7, <2>2 DEF SeedMessage, testVars
<1>8. CASE AssertFails(t)
  BY <1>8 DEF AssertFails, runtimeVars
<1>9. CASE BodyReturns(t)
  BY <1>9 DEF BodyReturns, runtimeVars
<1>10. QED
  BY <1>1, <1>2, <1>3, <1>4, <1>5, <1>6, <1>7, <1>8, <1>9 DEF BodyStep

(* So does every callback.                                                 *)
LEMMA TypeCleanup ==
  ASSUME TypeOK, NEW t \in Tests, CleanupStep(t)
  PROVE  TypeOK'
<1> USE DEF TypeOK, RuntimeTypeOK, PCs
<1>0. ASSUME NEW C, Runs(t, C)
      PROVE  cleanups' \in [Tests -> Seq(Callbacks)]
  <2>1. SubSeq(cleanups[t], 1, Len(cleanups[t]) - 1) \in Seq(Callbacks)
    BY <1>0, PopSeq DEF Runs
  <2>2. QED
    BY <1>0, <2>1 DEF Runs
<1>1. CASE RunDump(t)
  BY <1>1, <1>0 DEF RunDump, DumpArtifact, Runs
<1>2. CASE RunUnseed(t)
  BY <1>2, <1>0 DEF RunUnseed, Runs
<1>3. CASE RunUnseedFails(t)
  BY <1>3, <1>0 DEF RunUnseedFails, Runs, Errorf
<1>4. CASE SkipDestroy(t)
  BY <1>4, <1>0 DEF SkipDestroy, Runs
<1>5. CASE RunDestroy(t)
  BY <1>5, <1>0 DEF RunDestroy, Runs
<1>6. CASE RunDestroyFails(t)
  <2>1. live' \in [Containers -> SUBSET Names] /\ tfState' \in [Tests -> SUBSET Resources]
    <3>1. CASE UNCHANGED <<live, tfState>>
      BY <3>1
    <3>2. ASSUME NEW gone \in SUBSET tfState[t],
                 live' = [live EXCEPT ![Backend(t)] = @ \ NamesOf(t, gone)],
                 tfState' = [tfState EXCEPT ![t] = @ \ gone]
          PROVE  /\ live' \in [Containers -> SUBSET Names]
                 /\ tfState' \in [Tests -> SUBSET Resources]
      BY <3>2
    <3>3. QED
      BY <1>6, <3>1, <3>2 DEF RunDestroyFails
  <2>2. QED
    BY <1>6, <1>0, <2>1 DEF RunDestroyFails, Runs, Errorf
<1>7. CASE SkipStop(t)
  BY <1>7, <1>0 DEF SkipStop, Runs
<1>8. CASE RunStop(t)
  BY <1>8, <1>0 DEF RunStop, Runs, TerminateContainer
<1>9. CASE RunStopFails(t)
  BY <1>9, <1>0 DEF RunStopFails, Runs, Errorf
<1>10. CASE RemoveTempDir(t)
  BY <1>10, <1>0 DEF RemoveTempDir, Runs
<1>11. CASE Finish(t)
  BY <1>11 DEF Finish, runtimeVars
<1>12. QED
  BY <1>1, <1>2, <1>3, <1>4, <1>5, <1>6, <1>7, <1>8, <1>9, <1>10, <1>11 DEF CleanupStep

(* And what happens around the tests.                                      *)
LEMMA TypeOutside ==
  ASSUME TypeOK, Outside \/ Ended \/ UNCHANGED vars
  PROVE  TypeOK'
<1> USE DEF TypeOK, RuntimeTypeOK, testVars
<1>1. CASE Exit
  BY <1>1 DEF Exit, ServersAfterExit
<1>2. CASE Crash /\ UNCHANGED testVars
  BY <1>2 DEF Crash, ServersAfterExit
<1>3. ASSUME NEW c \in SessionContainers, Reap(c), UNCHANGED testVars
      PROVE  TypeOK'
  BY <1>3 DEF Reap, TerminateContainer
<1>4. CASE Ended \/ UNCHANGED vars
  BY <1>4 DEF Ended, vars, runtimeVars
<1>5. QED
  BY <1>1, <1>2, <1>3, <1>4 DEF Outside

(* The type invariant holds initially.                                     *)
LEMMA TypeInit == Init => TypeOK
<1> SUFFICES ASSUME Init PROVE TypeOK
  OBVIOUS
<1>1. RuntimeTypeOK
  BY DEF Init, TestInit, RuntimeTypeOK
<1>2. cleanups \in [Tests -> Seq(Callbacks)]
  BY DEF Init, TestInit
<1>3. QED
  BY <1>1, <1>2 DEF Init, TestInit, TypeOK, PCs

(* Every variable keeps its shape, whatever the tests do and in whatever   *)
(* order (libtftest.go, fixtures/).                                        *)
THEOREM TypeCorrect == Spec => []TypeOK
<1>1. TypeOK /\ [Next]_vars => TypeOK'
  BY TypeNew, TypeBody, TypeCleanup, TypeOutside DEF Next, TestStep
<1>2. QED
  BY TypeInit, <1>1, PTL DEF Spec

---------------------------------------------------------------------------
(* The inductive invariant behind the safety theorems.                     *)

(* New resolved one of the three containers; it is the test's own exactly  *)
(* when the test started it.                                               *)
StackOK(t) ==
  /\ stack[t] \in {None, t, SharedCtr, ReusedCtr}
  /\ own[t] <=> stack[t] = t
  /\ edge[t] \in {None, stack[t]} \cup Sidecars
  /\ edge[t] \in Sidecars => opts[t].override # None

(* What tb.Cleanup holds: nothing before New's second half, then the       *)
(* TempDir removal at the bottom, the stop right above it and only if the  *)
(* container is the test's own, and whatever needs the workspace above.    *)
CallbacksOK(t) ==
  /\ pc[t] = "idle" => stack[t] = None
  /\ pc[t] = "setup" => stack[t] # None
  /\ pc[t] \in {"idle", "setup"} => cleanups[t] = <<>> /\ edge[t] = None
  /\ pc[t] = "body" => work[t] /\ edge[t] # None /\ cleanups[t] # <<>>
  /\ pc[t] = "done" => cleanups[t] = <<>>
  /\ \A i \in 1 .. Len(cleanups[t]) :
       /\ cleanups[t][i] = "tempdir" <=> i = 1
       /\ cleanups[t][i] = "stop" => i = 2 /\ own[t]
       /\ i > 1 => work[t]
       /\ i > 1 /\ cleanups[t][i] # "stop" => edge[t] # None

(* A test loses its own container to its own stop callback only, after     *)
(* everything but the TempDir removal, and not when it persists.           *)
OwnUp(t) ==
  process = "running" /\ own[t] /\ containers[t] # "running"
  => /\ pc[t] \in {"cleanup", "done"}
     /\ Len(cleanups[t]) <= 1
     /\ ~Persists(t)

TestOK(t) == StackOK(t) /\ CallbacksOK(t) /\ OwnUp(t)

(* What the tests see to by themselves, whoever provides the containers.   *)
TestsInv == TypeOK /\ \A t \in Tests : TestOK(t)

(* The shared container and its sidecars outlast every test, and so does a *)
(* container the caller keeps; nobody uses the shared one without          *)
(* harness.Run.                                                            *)
EndpointsUp ==
  /\ containers[ReusedCtr] = "running"
  /\ process = "running" /\ shared # None
     => containers[SharedCtr] = "running" /\ \A s \in Sidecars : servers[s] = "up"
  /\ \A t \in Tests : opts[t].override # None \/ stack[t] = SharedCtr => shared # None

IInv == TestsInv /\ EndpointsUp

(* The invariant holds initially.                                          *)
LEMMA TestsInit ==
  ASSUME TypeOK, TestInit
  PROVE  TestsInv
<1>1. ASSUME NEW t \in Tests PROVE TestOK(t)
  <2>1. t # None /\ None \notin {t, SharedCtr, ReusedCtr} \cup Sidecars
    BY RuntimeAssumption DEF URLs, Containers
  <2>2. StackOK(t)
    BY <2>1 DEF TestInit, StackOK
  <2>3. CallbacksOK(t)
    BY DEF TestInit, CallbacksOK
  <2>4. OwnUp(t)
    BY DEF TestInit, OwnUp
  <2>5. QED
    BY <2>2, <2>3, <2>4 DEF TestOK
<1>2. QED
  BY <1>1 DEF TestsInv

(* Before any test has begun.                                              *)
LEMMA InvInit == Init => IInv
<1> SUFFICES ASSUME Init PROVE IInv
  OBVIOUS
<1>1. TestsInv
  BY TypeInit, TestsInit DEF Init
<1>2. SharedCtr # None
  BY RuntimeAssumption DEF URLs, Containers
<1>3. EndpointsUp
  BY <1>2, RuntimeAssumption DEF Init, TestInit, EndpointsUp, Containers
<1>4. QED
  BY <1>1, <1>3 DEF IInv

(* The callback that runs next, and what is left after it: the stop        *)
(* callback leaves only the TempDir removal, which leaves nothing.         *)
LEMMA LastCallback ==
  ASSUME TestsInv, NEW t \in Tests, NEW C, Runs(t, C)
  PROVE  /\ Next1(t) \in C
         /\ cleanups'[t] = SubSeq(cleanups[t], 1, Len(cleanups[t]) - 1)
         /\ Len(cleanups[t]) \in Nat \ {0}
         /\ Len(cleanups'[t]) = Len(cleanups[t]) - 1
         /\ \A i \in 1 .. Len(cleanups[t]) - 1 : cleanups'[t][i] = cleanups[t][i]
         /\ Next1(t) = "stop" => own[t] /\ stack[t] = t /\ Len(cleanups[t]) = 2
         /\ Next1(t) = "tempdir" => Len(cleanups[t]) = 1
<1>1. cleanups[t] \in Seq(Callbacks) /\ cleanups[t] # <<>> /\ cleanups \in [Tests -> Seq(Callbacks)]
  BY DEF TestsInv, TypeOK, Runs
<1>2. cleanups'[t] = SubSeq(cleanups[t], 1, Len(cleanups[t]) - 1) /\ Next1(t) \in C
  BY <1>1 DEF Runs
<1>3. /\ Len(cleanups[t]) \in Nat \ {0}
      /\ Len(cleanups'[t]) = Len(cleanups[t]) - 1
      /\ \A i \in 1 .. Len(cleanups[t]) - 1 : cleanups'[t][i] = cleanups[t][i]
  BY <1>1, <1>2, PopSeq
<1>4. CallbacksOK(t) /\ StackOK(t)
  BY DEF TestsInv, TestOK
<1>5. Len(cleanups[t]) \in 1 .. Len(cleanups[t])
  BY <1>3
<1>6. /\ Next1(t) = "stop" => own[t] /\ stack[t] = t /\ Len(cleanups[t]) = 2
      /\ Next1(t) = "tempdir" => Len(cleanups[t]) = 1
  BY <1>4, <1>5 DEF CallbacksOK, StackOK, Next1
<1>7. QED
  BY <1>2, <1>3, <1>6

(* A step of one test touches no other test's variables, and no container  *)
(* but the one the test started.                                           *)
LEMMA Frame ==
  ASSUME TestsInv, NEW t \in Tests, TestStep(t)
  PROVE  /\ UNCHANGED <<process, shared, servers, opts>>
         /\ \A c \in Containers \ {t} : containers'[c] = containers[c]
         /\ \A u \in Tests \ {t} :
              /\ pc'[u] = pc[u] /\ stack'[u] = stack[u] /\ own'[u] = own[u]
              /\ edge'[u] = edge[u] /\ work'[u] = work[u] /\ failed'[u] = failed[u]
              /\ cleanups'[u] = cleanups[u] /\ prefix'[u] = prefix[u]
              /\ tfState'[u] = tfState[u] /\ inited'[u] = inited[u]
<1> USE DEF runtimeVars, testVars
<1>0. TypeOK
  BY DEF TestsInv
<1>1. CASE NewStep(t)
  BY <1>0, <1>1 DEF NewStep, AttachReused, AttachShared, StartOwn, StartOwnFails, SetUp,
       SetUpFails, CallsNew, Attach, LaunchContainer, LaunchFails, TypeOK, RuntimeTypeOK
<1>2. CASE BodyStep(t)
  BY <1>0, <1>2 DEF BodyStep, Plan, PlanFails, Apply, ApplyFails, Seed, SeedFails,
       SeedMessage, AssertFails, BodyReturns, CallFails, TypeOK, RuntimeTypeOK
<1>3. CASE RunStop(t)
  <2>1. stack[t] = t
    BY <1>3, LastCallback DEF RunStop
  <2>2. QED
    BY <1>0, <1>3, <2>1 DEF RunStop, Runs, TerminateContainer, TypeOK, RuntimeTypeOK
<1>4. CASE CleanupStep(t) /\ ~RunStop(t)
  BY <1>0, <1>4 DEF CleanupStep, RunDump, RunUnseed, RunUnseedFails, SkipDestroy, RunDestroy,
       RunDestroyFails, SkipStop, RunStopFails, RemoveTempDir, Finish, Runs, Errorf,
       TypeOK, RuntimeTypeOK
<1>5. QED
  BY <1>1, <1>2, <1>3, <1>4 DEF TestStep

(* So what held of the other tests still does.                             *)
LEMMA OthersKept ==
  ASSUME TestsInv, NEW t \in Tests, TestStep(t)
  PROVE  \A u \in Tests \ {t} : TestOK(u)'
<1>1. /\ UNCHANGED <<process, shared, servers, opts>>
      /\ \A c \in Containers \ {t} : containers'[c] = containers[c]
  BY Frame
<1>2. ASSUME NEW u \in Tests \ {t} PROVE TestOK(u)'
  <2>1. /\ pc'[u] = pc[u] /\ stack'[u] = stack[u] /\ own'[u] = own[u]
        /\ edge'[u] = edge[u] /\ work'[u] = work[u] /\ failed'[u] = failed[u]
        /\ cleanups'[u] = cleanups[u]
    BY Frame
  <2>2. containers'[u] = containers[u]
    BY <1>1 DEF Containers
  <2>3. TestOK(u)
    BY DEF TestsInv
  <2>4. StackOK(u)'
    BY <1>1, <2>1, <2>3 DEF TestOK, StackOK
  <2>5. CallbacksOK(u)'
    BY <2>1, <2>3 DEF TestOK, CallbacksOK
  <2>6. OwnUp(u)'
    BY <1>1, <2>1, <2>2, <2>3 DEF TestOK, OwnUp, Persists
  <2>7. QED
    BY <2>4, <2>5, <2>6 DEF TestOK
<1>3. QED
  BY <1>2

(* What registerCleanup hands to tb.Cleanup after the TempDir removal.     *)
LEMMA RegisterCleanupList ==
  ASSUME NEW t \in Tests, NEW cs, cs = <<"tempdir">> \o RegisterCleanup(t)
  PROVE  /\ own[t] => /\ Len(cs) = 4 /\ cs[1] = "tempdir" /\ cs[2] = "stop"
                      /\ cs[3] = "destroy" /\ cs[4] = "dump"
         /\ ~own[t] => /\ Len(cs) = 3 /\ cs[1] = "tempdir"
                       /\ cs[2] = "destroy" /\ cs[3] = "dump"
<1> DEFINE T == <<"tempdir">>
<1>1. /\ T \in Seq(NewCallbacks) /\ Len(T) = 1 /\ T[1] = "tempdir"
  BY DEF NewCallbacks
<1>2. CASE own[t]
  <2> DEFINE R == <<"stop", "destroy", "dump">>
  <2>1. /\ R \in Seq(NewCallbacks) /\ Len(R) = 3
        /\ R[1] = "stop" /\ R[2] = "destroy" /\ R[3] = "dump"
    BY DEF NewCallbacks
  <2>2. cs = T \o R
    BY <1>2 DEF RegisterCleanup
  <2> HIDE DEF T, R
  <2>3. Len(cs) = 4 /\ \A i \in 1 .. 4 : cs[i] = IF i <= 1 THEN T[i] ELSE R[i - 1]
    <3>1. T \in Seq(NewCallbacks) /\ R \in Seq(NewCallbacks)
      BY <1>1, <2>1
    <3>2. /\ Len(T \o R) = Len(T) + Len(R)
          /\ \A i \in 1 .. Len(T) + Len(R) :
               (T \o R)[i] = IF i <= Len(T) THEN T[i] ELSE R[i - Len(T)]
      BY <3>1, ConcatProperties
    <3>3. Len(T) = 1 /\ Len(T) + Len(R) = 4
      BY <1>1, <2>1
    <3>4. QED
      BY <2>2, <3>2, <3>3
  <2>4. cs[1] = "tempdir" /\ cs[2] = "stop" /\ cs[3] = "destroy" /\ cs[4] = "dump"
    BY <1>1, <2>1, <2>3
  <2>5. QED
    BY <1>2, <2>3, <2>4
<1>3. CASE ~own[t]
  <2> DEFINE R == <<"destroy", "dump">>
  <2>1. R \in Seq(NewCallbacks) /\ Len(R) = 2 /\ R[1] = "destroy" /\ R[2] = "dump"
    BY DEF NewCallbacks
  <2>2. cs = T \o R
    BY <1>3 DEF RegisterCleanup
  <2> HIDE DEF T, R
  <2>3. Len(cs) = 3 /\ \A i \in 1 .. 3 : cs[i] = IF i <= 1 THEN T[i] ELSE R[i - 1]
    <3>1. T \in Seq(NewCallbacks) /\ R \in Seq(NewCallbacks)
      BY <1>1, <2>1
    <3>2. /\ Len(T \o R) = Len(T) + Len(R)
          /\ \A i \in 1 .. Len(T) + Len(R) :
               (T \o R)[i] = IF i <= Len(T) THEN T[i] ELSE R[i - Len(T)]
      BY <3>1, ConcatProperties
    <3>3. Len(T) = 1 /\ Len(T) + Len(R) = 3
      BY <1>1, <2>1
    <3>4. QED
      BY <2>2, <3>2, <3>3
  <2>4. cs[1] = "tempdir" /\ cs[2] = "destroy" /\ cs[3] = "dump"
    BY <1>1, <2>1, <2>3
  <2>5. QED
    BY <1>3, <2>3, <2>4
<1>4. QED
  BY <1>2, <1>3

(* The TempDir removal is at the bottom, a stop only right above it.       *)
LEMMA RegisterCleanupShape ==
  ASSUME NEW t \in Tests, NEW cs, cs = <<"tempdir">> \o RegisterCleanup(t)
  PROVE  /\ cs # <<>>
         /\ \A i \in 1 .. Len(cs) :
              /\ cs[i] = "tempdir" <=> i = 1
              /\ cs[i] = "stop" => i = 2 /\ own[t]
<1>1. CASE own[t]
  <2>1. /\ Len(cs) = 4 /\ cs[1] = "tempdir" /\ cs[2] = "stop"
        /\ cs[3] = "destroy" /\ cs[4] = "dump"
    BY <1>1, RegisterCleanupList
  <2>2. QED
    BY <1>1, <2>1
<1>2. CASE ~own[t]
  <2>1. Len(cs) = 3 /\ cs[1] = "tempdir" /\ cs[2] = "destroy" /\ cs[3] = "dump"
    BY <1>2, RegisterCleanupList
  <2>2. QED
    BY <1>2, <2>1
<1>3. QED
  BY <1>1, <1>2

(* An empty list of callbacks has no index.                                *)
LEMMA NoCallbacks == \A i : i \notin 1 .. Len(<<>>)
  OBVIOUS

(* New keeps the invariant of the test that calls it.                      *)
LEMMA NewKeeps ==
  ASSUME TestsInv, NEW t \in Tests, NewStep(t)
  PROVE  TestOK(t)'
<1> USE DEF TestOK
<1>0. /\ TypeOK /\ StackOK(t) /\ CallbacksOK(t) /\ OwnUp(t)
      /\ t \in Containers /\ t # SharedCtr /\ t # ReusedCtr /\ SharedCtr # ReusedCtr
      /\ None \notin {t, SharedCtr, ReusedCtr} \cup Sidecars
      /\ Sidecars \cap {t, SharedCtr, ReusedCtr} = {}
  BY RuntimeAssumption DEF TestsInv, Containers, URLs
<1>1. ASSUME NEW c \in {SharedCtr, ReusedCtr}, CallsNew(t), Attach(t, c, FALSE),
             c = SharedCtr => shared # None
      PROVE  TestOK(t)'
  <2>1. pc[t] = "idle" /\ edge[t] = None /\ cleanups[t] = <<>>
    BY <1>0, <1>1 DEF CallsNew, CallbacksOK
  <2>2. /\ stack'[t] = c /\ own'[t] = FALSE /\ pc'[t] = "setup"
        /\ UNCHANGED <<process, shared, opts, edge, work, cleanups>>
    BY <1>0, <1>1 DEF Attach, CallsNew, TypeOK
  <2>3. StackOK(t)'
    BY <1>0, <1>1, <2>1, <2>2 DEF StackOK
  <2>4. CallbacksOK(t)'
    BY <1>0, <1>1, <2>1, <2>2, NoCallbacks DEF CallbacksOK
  <2>5. OwnUp(t)'
    BY <2>2 DEF OwnUp
  <2>6. QED
    BY <2>3, <2>4, <2>5
<1>2. CASE AttachReused(t)
  <2>1. opts[t].reuse = ReusedCtr
    BY <1>0, <1>2, OptionsType DEF AttachReused
  <2>2. QED
    BY <1>0, <1>1, <1>2, <2>1 DEF AttachReused
<1>3. CASE AttachShared(t)
  <2>1. shared = SharedCtr
    BY <1>0, <1>3 DEF AttachShared, TypeOK, RuntimeTypeOK
  <2>2. QED
    BY <1>0, <1>1, <1>3, <2>1 DEF AttachShared
<1>4. CASE StartOwn(t)
  <2>1. pc[t] = "idle" /\ edge[t] = None /\ cleanups[t] = <<>>
    BY <1>0, <1>4 DEF StartOwn, CallsNew, CallbacksOK
  <2>2. /\ stack'[t] = t /\ own'[t] = TRUE /\ pc'[t] = "setup"
        /\ containers'[t] = "running"
        /\ UNCHANGED <<process, shared, opts, edge, work, cleanups>>
    BY <1>0, <1>4 DEF StartOwn, Attach, CallsNew, LaunchContainer, TypeOK, RuntimeTypeOK
  <2>3. StackOK(t)'
    BY <1>0, <2>1, <2>2 DEF StackOK
  <2>4. CallbacksOK(t)'
    BY <1>0, <2>1, <2>2, NoCallbacks DEF CallbacksOK
  <2>5. OwnUp(t)'
    BY <2>2 DEF OwnUp
  <2>6. QED
    BY <2>3, <2>4, <2>5
<1>5. CASE StartOwnFails(t)
  <2>1. pc[t] = "idle" /\ edge[t] = None /\ cleanups[t] = <<>>
    BY <1>0, <1>5 DEF StartOwnFails, CallsNew, CallbacksOK
  <2>2. /\ pc'[t] = "cleanup"
        /\ UNCHANGED <<process, shared, opts, stack, own, edge, work, cleanups>>
    BY <1>0, <1>5 DEF StartOwnFails, CallsNew, LaunchFails, TypeOK, RuntimeTypeOK
  <2>3. stack[t] = None /\ ~own[t]
    BY <1>0, <1>5 DEF StartOwnFails, CallsNew, CallbacksOK, StackOK
  <2>4. StackOK(t)'
    BY <1>0, <2>2 DEF StackOK
  <2>5. CallbacksOK(t)'
    BY <2>1, <2>2, NoCallbacks DEF CallbacksOK
  <2>6. OwnUp(t)'
    BY <2>2, <2>3 DEF OwnUp
  <2>7. QED
    BY <2>4, <2>5, <2>6
<1>6. CASE SetUp(t)
  <2> DEFINE cs == <<"tempdir">> \o RegisterCleanup(t)
  <2>1. stack[t] # None /\ pc[t] = "setup" /\ process = "running"
    BY <1>0, <1>6 DEF SetUp, CallbacksOK
  <2>2. /\ pc'[t] = "body" /\ work'[t] = TRUE /\ cleanups'[t] = cs
        /\ edge'[t] = IF opts[t].override # None THEN opts[t].override ELSE stack[t]
        /\ UNCHANGED <<process, shared, containers, opts, stack, own, failed>>
    BY <1>0, <1>6 DEF SetUp, TypeOK, runtimeVars
  <2>3. /\ edge'[t] # None /\ edge'[t] \in {stack[t]} \cup Sidecars
        /\ edge'[t] \in Sidecars => opts[t].override # None
    BY <1>0, <2>1, <2>2, OptionsType DEF StackOK
  <2>4. StackOK(t)'
    BY <1>0, <2>2, <2>3 DEF StackOK
  <2>5. /\ cs # <<>>
        /\ \A i \in 1 .. Len(cs) :
             /\ cs[i] = "tempdir" <=> i = 1
             /\ cs[i] = "stop" => i = 2 /\ own[t]
    BY RegisterCleanupShape
  <2>6. CallbacksOK(t)'
    <3> HIDE DEF cs
    <3>1. QED
      BY <2>2, <2>3, <2>5 DEF CallbacksOK
  <2>7. OwnUp(t)'
    BY <1>0, <2>1, <2>2 DEF OwnUp
  <2>8. QED
    BY <2>4, <2>6, <2>7
<1>7. CASE SetUpFails(t)
  <2>1. edge[t] = None /\ pc[t] = "setup" /\ process = "running"
    BY <1>0, <1>7 DEF SetUpFails, CallbacksOK
  <2>2. /\ pc'[t] = "cleanup" /\ work'[t] = TRUE /\ cleanups'[t] = <<"tempdir">>
        /\ UNCHANGED <<process, shared, containers, opts, stack, own, edge>>
    BY <1>0, <1>7 DEF SetUpFails, TypeOK, runtimeVars
  <2>3. StackOK(t)'
    BY <1>0, <2>2 DEF StackOK
  <2>4. CallbacksOK(t)'
    BY <2>2 DEF CallbacksOK
  <2>5. OwnUp(t)'
    BY <1>0, <2>1, <2>2 DEF OwnUp
  <2>6. QED
    BY <2>3, <2>4, <2>5
<1>8. QED
  BY <1>2, <1>3, <1>4, <1>5, <1>6, <1>7 DEF NewStep

(* So does every call of the body: it can end the body or add a fixture's  *)
(* delete on top of what New registered.                                   *)
LEMMA BodyKeeps ==
  ASSUME TestsInv, NEW t \in Tests, BodyStep(t)
  PROVE  TestOK(t)'
<1>0. /\ TypeOK /\ StackOK(t) /\ CallbacksOK(t) /\ OwnUp(t)
      /\ cleanups[t] \in Seq(Callbacks)
  BY DEF TestsInv, TestOK, TypeOK
<1>1. /\ UNCHANGED <<process, shared, opts, stack, own, edge, work, containers>>
      /\ process = "running" /\ pc[t] = "body"
      /\ pc'[t] \in {"body", "cleanup"}
  BY <1>0 DEF BodyStep, Plan, PlanFails, Apply, ApplyFails, Seed, SeedFails, SeedMessage,
       AssertFails, BodyReturns, CallFails, InBody, TypeOK, PCs, runtimeVars, testVars
<1>2. StackOK(t)'
  BY <1>0, <1>1 DEF StackOK
<1>3. OwnUp(t)'
  BY <1>0, <1>1 DEF OwnUp
<1>4. CallbacksOK(t)'
  <2>1. CASE UNCHANGED cleanups
    BY <1>0, <1>1, <2>1 DEF CallbacksOK
  <2>2. ASSUME NEW f \in Fixtures, Seed(t, f)
        PROVE  CallbacksOK(t)'
    <3>1. /\ cleanups'[t] = Append(cleanups[t], f)
          /\ Len(cleanups'[t]) = Len(cleanups[t]) + 1
          /\ \A i \in 1 .. Len(cleanups[t]) : cleanups'[t][i] = cleanups[t][i]
          /\ cleanups'[t][Len(cleanups[t]) + 1] = f
      BY <1>0, <2>2 DEF Seed, TypeOK
    <3>2. f \notin {"tempdir", "stop"}
      BY TestCaseAssumption DEF NewCallbacks
    <3>3. work[t] /\ edge[t] # None /\ Len(cleanups[t]) \in Nat \ {0}
      BY <1>0, <1>1 DEF CallbacksOK
    <3>4. QED
      BY <1>0, <1>1, <3>1, <3>2, <3>3 DEF CallbacksOK
  <2>3. QED
    BY <1>0, <2>1, <2>2 DEF BodyStep, Plan, PlanFails, Apply, ApplyFails, SeedFails, SeedMessage,
         AssertFails, BodyReturns, testVars
<1>5. QED
  BY <1>2, <1>3, <1>4 DEF TestOK

(* So does every callback.                                                 *)
LEMMA CleanupKeeps ==
  ASSUME TestsInv, NEW t \in Tests, CleanupStep(t)
  PROVE  TestOK(t)'
<1>0. /\ TypeOK /\ StackOK(t) /\ CallbacksOK(t) /\ OwnUp(t)
      /\ cleanups[t] \in Seq(Callbacks)
  BY DEF TestsInv, TestOK, TypeOK
<1>1. /\ UNCHANGED <<process, shared, opts, stack, own, edge>>
      /\ process = "running" /\ pc[t] = "cleanup"
      /\ pc'[t] \in {"cleanup", "done"}
  BY <1>0 DEF CleanupStep, RunDump, RunUnseed, RunUnseedFails, SkipDestroy, RunDestroy,
       RunDestroyFails, SkipStop, RunStop, RunStopFails, RemoveTempDir, Finish, Runs,
       TypeOK, PCs, runtimeVars
<1>2. StackOK(t)'
  BY <1>0, <1>1 DEF StackOK
<1>3. CASE Finish(t)
  <2>1. UNCHANGED <<containers, cleanups, work, failed>> /\ cleanups[t] = <<>>
    BY <1>3 DEF Finish, runtimeVars
  <2>2. CallbacksOK(t)'
    BY <1>0, <1>1, <2>1 DEF CallbacksOK
  <2>3. OwnUp(t)'
    BY <1>0, <1>1, <2>1 DEF OwnUp, Persists
  <2>4. QED
    BY <1>2, <2>2, <2>3 DEF TestOK
<1>4. CASE RemoveTempDir(t)
  <2>1. UNCHANGED <<containers, failed>> /\ Runs(t, {"tempdir"})
    BY <1>4 DEF RemoveTempDir
  <2>2. Len(cleanups[t]) = 1 /\ Len(cleanups'[t]) = 0
    <3>1. /\ Next1(t) \in {"tempdir"}
          /\ Len(cleanups'[t]) = Len(cleanups[t]) - 1
          /\ Next1(t) = "tempdir" => Len(cleanups[t]) = 1
      BY <2>1, LastCallback
    <3>2. QED
      BY <3>1
  <2>3. CallbacksOK(t)'
    BY <1>1, <2>2 DEF CallbacksOK
  <2>4. OwnUp(t)'
    BY <1>0, <1>1, <2>1, <2>2 DEF OwnUp, Persists
  <2>5. QED
    BY <1>2, <2>3, <2>4 DEF TestOK
<1>5. ASSUME NEW C, Runs(t, C), UNCHANGED work
      PROVE  CallbacksOK(t)'
  <2>1. /\ Len(cleanups[t]) \in Nat \ {0}
        /\ Len(cleanups'[t]) = Len(cleanups[t]) - 1
        /\ \A i \in 1 .. Len(cleanups[t]) - 1 : cleanups'[t][i] = cleanups[t][i]
    BY <1>5, LastCallback
  <2>2. pc'[t] = "cleanup" /\ own'[t] = own[t] /\ edge'[t] = edge[t] /\ work'[t] = work[t]
    BY <1>1, <1>5 DEF Runs
  <2>3. ASSUME NEW i \in 1 .. Len(cleanups'[t])
        PROVE  /\ cleanups'[t][i] = "tempdir" <=> i = 1
               /\ cleanups'[t][i] = "stop" => i = 2 /\ own'[t]
               /\ i > 1 => work'[t]
               /\ i > 1 /\ cleanups'[t][i] # "stop" => edge'[t] # None
    <3>1. i \in 1 .. Len(cleanups[t]) - 1 /\ i \in 1 .. Len(cleanups[t])
      BY <2>1
    <3>2. cleanups'[t][i] = cleanups[t][i]
      BY <2>1, <3>1
    <3>3. QED
      BY <1>0, <2>2, <3>1, <3>2 DEF CallbacksOK
  <2>4. QED
    BY <2>2, <2>3 DEF CallbacksOK
<1>6. CASE RunStop(t)
  <2>1. Runs(t, {"stop"}) /\ UNCHANGED <<work, failed>> /\ ~Persists(t)
    BY <1>6 DEF RunStop
  <2>2. Len(cleanups[t]) = 2 /\ Len(cleanups'[t]) = 1
    <3>1. /\ Next1(t) \in {"stop"}
          /\ Len(cleanups'[t]) = Len(cleanups[t]) - 1
          /\ Next1(t) = "stop" => Len(cleanups[t]) = 2
      BY <2>1, LastCallback
    <3>2. QED
      BY <3>1
  <2>3. OwnUp(t)'
    BY <1>1, <2>1, <2>2 DEF OwnUp, Persists
  <2>4. QED
    BY <1>2, <1>5, <2>1, <2>3 DEF TestOK
<1>7. ASSUME Runs(t, {"dump", "destroy", "stop"} \cup Fixtures), UNCHANGED <<work, containers>>
      PROVE  TestOK(t)'
  <2>1. Next1(t) # "tempdir"
    BY <1>7, TestCaseAssumption DEF Runs, NewCallbacks
  <2>2. Len(cleanups[t]) > 1
    BY <1>0, <1>7, <2>1, LastCallback DEF CallbacksOK, Next1
  <2>3. OwnUp(t)'
    BY <1>0, <1>1, <1>7, <2>2 DEF OwnUp
  <2>4. QED
    BY <1>2, <1>5, <1>7, <2>3 DEF TestOK
<1>8. CASE CleanupStep(t) /\ ~Finish(t) /\ ~RemoveTempDir(t) /\ ~RunStop(t)
  BY <1>7, <1>8 DEF CleanupStep, RunDump, RunUnseed, RunUnseedFails, SkipDestroy, RunDestroy,
       RunDestroyFails, SkipStop, RunStopFails, Runs
<1>9. QED
  BY <1>3, <1>4, <1>6, <1>8

(* The tests' own steps keep what they see to.                             *)
LEMMA TestsKept ==
  ASSUME TestsInv, NEW t \in Tests, TestStep(t)
  PROVE  TestsInv'
<1>1. TypeOK'
  BY TypeNew, TypeBody, TypeCleanup DEF TestsInv, TestStep
<1>2. TestOK(t)'
  BY NewKeeps, BodyKeeps, CleanupKeeps DEF TestStep
<1>3. QED
  BY <1>1, <1>2, OthersKept DEF TestsInv

(* So does whatever happens around them that lets the containers they      *)
(* started alone, or ends the process.                                     *)
LEMMA AroundTests ==
  ASSUME TestsInv, TypeOK', UNCHANGED testVars,
         process' = "running" =>
           process = "running" /\ \A t \in Tests : containers'[t] = containers[t]
  PROVE  TestsInv'
  BY DEF TestsInv, TestOK, StackOK, CallbacksOK, OwnUp, Persists, testVars

(* The tests and what happens around them keep the shared endpoints up.    *)
LEMMA EndpointsKept ==
  ASSUME IInv, [Next]_vars
  PROVE  EndpointsUp'
<1> USE DEF IInv, EndpointsUp
<1>1. ASSUME NEW t \in Tests, TestStep(t)
      PROVE  EndpointsUp'
  <2>1. /\ UNCHANGED <<process, shared, servers, opts>>
        /\ \A c \in Containers \ {t} : containers'[c] = containers[c]
        /\ \A u \in Tests \ {t} : stack'[u] = stack[u]
    BY <1>1, Frame
  <2>2. {SharedCtr, ReusedCtr} \subseteq Containers \ {t}
    BY RuntimeAssumption DEF Containers
  <2>3. stack'[t] = SharedCtr => stack[t] = SharedCtr \/ shared # None
    <3>1. TypeOK /\ t # SharedCtr /\ ReusedCtr # SharedCtr
      BY RuntimeAssumption DEF TestsInv
    <3>2. CASE AttachReused(t)
      BY <3>1, <3>2, OptionsType DEF AttachReused, Attach, TypeOK
    <3>3. CASE AttachShared(t) \/ StartOwn(t)
      BY <3>1, <3>3 DEF AttachShared, StartOwn, Attach, TypeOK
    <3>4. CASE StartOwnFails(t) \/ SetUp(t) \/ SetUpFails(t)
      BY <3>4 DEF StartOwnFails, SetUp, SetUpFails
    <3>5. CASE BodyStep(t)
      BY <3>5 DEF BodyStep, Plan, PlanFails, Apply, ApplyFails, Seed, SeedFails, SeedMessage,
           AssertFails, BodyReturns, testVars
    <3>6. CASE CleanupStep(t)
      BY <3>6 DEF CleanupStep, RunDump, RunUnseed, RunUnseedFails, SkipDestroy, RunDestroy,
           RunDestroyFails, SkipStop, RunStop, RunStopFails, RemoveTempDir, Finish, Runs
    <3>7. QED
      BY <1>1, <3>2, <3>3, <3>4, <3>5, <3>6 DEF TestStep, NewStep
  <2>4. QED
    BY <2>1, <2>2, <2>3
<1>2. CASE Exit
  BY <1>2 DEF Exit, testVars
<1>3. CASE Crash /\ UNCHANGED testVars
  BY <1>3 DEF Crash, testVars
<1>4. ASSUME NEW c \in SessionContainers, Reap(c), UNCHANGED testVars
      PROVE  EndpointsUp'
  <2>1. c # ReusedCtr
    BY RuntimeAssumption DEF SessionContainers
  <2>2. QED
    BY <1>4, <2>1 DEF Reap, TerminateContainer, TestsInv, TypeOK, RuntimeTypeOK, testVars
<1>5. CASE Ended \/ UNCHANGED vars
  BY <1>5 DEF Ended, vars, runtimeVars, testVars
<1>6. QED
  BY <1>1, <1>2, <1>3, <1>4, <1>5 DEF Next, Outside

(* The invariant is inductive.                                             *)
LEMMA InvNext == IInv /\ [Next]_vars => IInv'
<1> SUFFICES ASSUME IInv, [Next]_vars PROVE IInv'
  OBVIOUS
<1>1. CASE \E t \in Tests : TestStep(t)
  BY <1>1, TestsKept, EndpointsKept DEF IInv
<1>2. CASE Outside \/ Ended \/ UNCHANGED vars
  <2>1. TypeOK'
    BY <1>2, TypeOutside DEF IInv, TestsInv
  <2>2. UNCHANGED testVars
    BY <1>2 DEF Outside, Exit, Ended, vars
  <2>3. process' = "running" =>
          process = "running" /\ \A t \in Tests : containers'[t] = containers[t]
    BY <1>2 DEF Outside, Exit, Crash, Reap, Ended, vars, runtimeVars
  <2>4. TestsInv'
    BY <2>1, <2>2, <2>3, AroundTests DEF IInv
  <2>5. QED
    BY <2>4, EndpointsKept DEF IInv
<1>3. QED
  BY <1>1, <1>2 DEF Next

(* It implies that the destroy and the fixtures' deletes have what they    *)
(* need, and that PersistOnFailure keeps the container.                    *)
LEMMA InvImplies == IInv => CleanupHasItsBackend /\ PersistKeepsContainer
<1> SUFFICES ASSUME IInv
             PROVE  CleanupHasItsBackend /\ PersistKeepsContainer
  OBVIOUS
<1>1. ASSUME NEW t \in Tests, process = "running",
             Pending(t) \cap ({"destroy"} \cup Fixtures) # {}
      PROVE  work[t] /\ Serves(edge[t])
  <2>1. TypeOK /\ EndpointsUp /\ StackOK(t) /\ CallbacksOK(t) /\ OwnUp(t)
    BY DEF IInv, TestsInv, TestOK
  <2>2. PICK i \in 1 .. Len(cleanups[t]) : cleanups[t][i] \in {"destroy"} \cup Fixtures
    BY <1>1, <2>1 DEF Pending, TypeOK
  <2>3. cleanups[t][i] # "tempdir" /\ cleanups[t][i] # "stop"
    BY <2>2, TestCaseAssumption DEF NewCallbacks
  <2>4. i > 1 /\ work[t] /\ edge[t] # None /\ Len(cleanups[t]) > 1
    BY <2>1, <2>2, <2>3 DEF CallbacksOK, TypeOK
  <2>5. own[t] => containers[t] = "running"
    BY <1>1, <2>1, <2>4 DEF OwnUp
  <2>6. CASE edge[t] \in Sidecars
    <3>1. shared # None
      BY <2>1, <2>6 DEF StackOK, EndpointsUp
    <3>2. containers[SharedCtr] = "running" /\ servers[edge[t]] = "up"
      BY <1>1, <2>1, <2>6, <3>1 DEF EndpointsUp
    <3>3. Serves(edge[t])
      BY <2>6, <3>2 DEF Serves, Upstream, URLs
    <3>4. QED
      BY <2>4, <3>3
  <2>7. CASE edge[t] \notin Sidecars
    BY <1>1, <2>1, <2>4, <2>5, <2>7 DEF StackOK, EndpointsUp, Serves, Upstream, URLs, Containers
  <2>8. QED
    BY <2>4, <2>6, <2>7
<1>2. ASSUME NEW t \in Tests, process = "running", own[t], Persists(t)
      PROVE  containers[t] = "running"
  BY <1>2 DEF IInv, TestsInv, TestOK, OwnUp
<1>3. QED
  BY <1>1, <1>2 DEF CleanupHasItsBackend, PersistKeepsContainer

(* The invariant holds in every reachable state.                           *)
THEOREM Invariance == Spec => []IInv
  BY InvInit, InvNext, PTL DEF Spec

(* Whatever the other tests do and whatever fails, a pending terraform     *)
(* destroy or fixture delete has its workspace and its LocalStack          *)
(* (libtftest.go:124-128).                                                 *)
THEOREM CleanupBackend == Spec => []CleanupHasItsBackend
  BY Invariance, InvImplies, PTL

(* A test that failed with PersistOnFailure never loses its own container  *)
(* while the process lives (libtftest.go:353).                             *)
THEOREM PersistKeeps == Spec => []PersistKeepsContainer
  BY Invariance, InvImplies, PTL

---------------------------------------------------------------------------
(* The refinement of Lease: every step of a test is one step of a lease.   *)

(* Who uses what, as ContainersAreLeased maps it.                          *)
Usage == [c \in Containers |-> {t \in Tests : Uses(t, c)}]

(* A test's step changes nobody else's use of a container.                 *)
LEMMA UsesFrame ==
  ASSUME TestsInv, NEW t \in Tests, TestStep(t), NEW u \in Tests \ {t}, NEW c \in Containers
  PROVE  Uses(u, c)' <=> Uses(u, c)
<1>1. /\ process' = process /\ pc'[u] = pc[u] /\ stack'[u] = stack[u]
      /\ edge'[u] = edge[u] /\ cleanups'[u] = cleanups[u]
  BY Frame
<1>2. QED
  BY <1>1 DEF Uses, Pending, Backend, Upstream

(* A test whose containers stay as they are and whose own use does not     *)
(* change, ends, or takes in one running container.                        *)
LEMMA LeaseByUse ==
  ASSUME TestsInv, NEW t \in Tests, TestStep(t), UNCHANGED containers,
         \/ \A c \in Containers : Uses(t, c)' <=> Uses(t, c)
         \/ \A c \in Containers : ~Uses(t, c)'
         \/ \E k \in Containers :
              /\ containers[k] = "running"
              /\ \A c \in Containers : Uses(t, c)' <=> Uses(t, c) \/ c = k
  PROVE  [LeaseOfContainers!LeaseNext]_LeaseOfContainers!leaseVars
<1>1. \A u \in Tests \ {t}, c \in Containers : Uses(u, c)' <=> Uses(u, c)
  BY UsesFrame
<1>2. CASE \A c \in Containers : Uses(t, c)' <=> Uses(t, c)
  <2>1. \A c \in Containers, u \in Tests : Uses(u, c)' <=> Uses(u, c)
    BY <1>1, <1>2
  <2>2. Usage' = Usage
    BY <2>1 DEF Usage
  <2>3. QED
    BY <2>2 DEF Usage, LeaseOfContainers!leaseVars
<1>3. CASE \A c \in Containers : ~Uses(t, c)'
  <2>1. \A c \in Containers, u \in Tests : Uses(u, c)' <=> Uses(u, c) /\ u \notin {t}
    BY <1>1, <1>3
  <2>2. Usage' = [c \in Containers |-> Usage[c] \ {t}]
    BY <2>1 DEF Usage
  <2>3. LeaseOfContainers!Leave({t})
    BY <2>2 DEF Usage, LeaseOfContainers!Leave
  <2>4. QED
    BY <2>3 DEF LeaseOfContainers!LeaseNext
<1>4. ASSUME NEW k \in Containers, containers[k] = "running",
             \A c \in Containers : Uses(t, c)' <=> Uses(t, c) \/ c = k
      PROVE  LeaseOfContainers!LeaseNext
  <2>1. \A c \in Containers, u \in Tests : Uses(u, c)' <=> Uses(u, c) \/ (u = t /\ c = k)
    BY <1>1, <1>4
  <2>2. Usage' = [Usage EXCEPT ![k] = @ \cup {t}]
    BY <2>1 DEF Usage
  <2>3. LeaseOfContainers!Join(t, k)
    BY <1>4, <2>2 DEF Usage, LeaseOfContainers!Join
  <2>4. QED
    BY <2>3 DEF LeaseOfContainers!LeaseNext
<1>5. QED
  BY <1>2, <1>3, <1>4

(* New: a test takes the container it found, and starts one for itself     *)
(* before it takes it (libtftest.go:314-346).                              *)
LEMMA LeaseNew ==
  ASSUME TestsInv, NEW t \in Tests, NewStep(t),
         containers[ReusedCtr] = "running",
         shared # None \/ opts[t].override # None => containers[SharedCtr] = "running"
  PROVE  [LeaseOfContainers!LeaseNext]_LeaseOfContainers!leaseVars
<1>0. /\ TypeOK /\ StackOK(t) /\ CallbacksOK(t) /\ TestStep(t)
      /\ {t, SharedCtr, ReusedCtr} \subseteq Containers
      /\ None \notin {t, SharedCtr, ReusedCtr} \cup Sidecars
      /\ Sidecars \cap Containers = {}
  BY RuntimeAssumption DEF TestsInv, TestOK, TestStep, Containers, URLs
<1>1. ASSUME pc[t] = "idle"
      PROVE  \A c \in Containers : ~Uses(t, c)
  <2>1. Pending(t) = {}
    BY <1>0, <1>1, NoCallbacks DEF CallbacksOK, Pending
  <2>2. QED
    BY <1>1, <2>1 DEF Uses
<1>2. ASSUME NEW k \in {SharedCtr, ReusedCtr}, CallsNew(t), Attach(t, k, FALSE),
             containers[k] = "running", UNCHANGED containers
      PROVE  [LeaseOfContainers!LeaseNext]_LeaseOfContainers!leaseVars
  <2>1. /\ pc'[t] = "setup" /\ stack'[t] = k /\ edge'[t] = None
        /\ process = "running" /\ process' = "running" /\ pc[t] = "idle"
    BY <1>0, <1>2 DEF CallsNew, Attach, TypeOK, CallbacksOK
  <2>2. \A c \in Containers : Uses(t, c)' <=> c = k
    BY <2>1 DEF Uses
  <2>3. QED
    BY <1>0, <1>1, <1>2, <2>1, <2>2, LeaseByUse
<1>3. CASE AttachReused(t)
  BY <1>0, <1>2, <1>3, OptionsType DEF AttachReused
<1>4. CASE AttachShared(t)
  BY <1>0, <1>2, <1>4 DEF AttachShared, TypeOK, RuntimeTypeOK
<1>5. ASSUME containers[t] = "absent", containers' = [containers EXCEPT ![t] = "running"],
             \A c \in Containers : c # t => (Uses(t, c)' <=> Uses(t, c))
      PROVE  LeaseOfContainers!LeaseNext
  <2>1. \A u \in Tests \ {t}, c \in Containers : Uses(u, c)' <=> Uses(u, c)
    BY <1>0, UsesFrame
  <2>2. \A c \in Containers, u \in Tests : c # t => (Uses(u, c)' <=> Uses(u, c))
    BY <1>5, <2>1
  <2> DEFINE us == {u \in Tests : Uses(u, t)'}
  <2>3. Usage' = [Usage EXCEPT ![t] = us]
    BY <1>0, <2>2 DEF Usage
  <2>4. us \in SUBSET Tests
    OBVIOUS
  <2> HIDE DEF us
  <2>5. LeaseOfContainers!Launch(t, us)
    BY <1>5, <2>3 DEF Usage, LeaseOfContainers!Launch
  <2>6. QED
    BY <1>0, <2>4, <2>5 DEF LeaseOfContainers!LeaseNext
<1>6. CASE StartOwn(t)
  <2>1. /\ pc'[t] = "setup" /\ stack'[t] = t /\ edge'[t] = None /\ pc[t] = "idle"
        /\ containers[t] = "absent" /\ containers' = [containers EXCEPT ![t] = "running"]
    BY <1>0, <1>6 DEF StartOwn, CallsNew, Attach, LaunchContainer, TypeOK, CallbacksOK
  <2>2. \A c \in Containers : c # t => ~Uses(t, c)'
    BY <2>1 DEF Uses
  <2>3. QED
    BY <1>1, <1>5, <2>1, <2>2
<1>7. CASE StartOwnFails(t)
  <2>1. /\ pc'[t] = "cleanup" /\ cleanups'[t] = <<>> /\ pc[t] = "idle"
        /\ containers[t] = "absent"
    BY <1>0, <1>7 DEF StartOwnFails, CallsNew, LaunchFails, TypeOK, CallbacksOK
  <2>2. \A c \in Containers : ~Uses(t, c)'
    BY <2>1, NoCallbacks DEF Uses, Pending
  <2>3. CASE containers' = [containers EXCEPT ![t] = "running"]
    BY <1>1, <1>5, <2>1, <2>2, <2>3
  <2>4. CASE containers' = [containers EXCEPT ![t] = "absent"]
    <3>1. UNCHANGED containers
      BY <1>0, <2>1, <2>4 DEF TypeOK, RuntimeTypeOK
    <3>2. QED
      BY <1>0, <2>2, <3>1, LeaseByUse
  <2>5. QED
    BY <1>7, <2>3, <2>4 DEF StartOwnFails, LaunchFails
<1>8. CASE SetUp(t)
  <2>1. /\ pc[t] = "setup" /\ pc'[t] = "body" /\ process = "running" /\ process' = "running"
        /\ edge[t] = None /\ stack'[t] = stack[t] /\ stack[t] # None
        /\ edge'[t] = IF opts[t].override # None THEN opts[t].override ELSE stack[t]
        /\ UNCHANGED containers
    BY <1>0, <1>8 DEF SetUp, TypeOK, CallbacksOK, runtimeVars
  <2>2. \A c \in Containers : Uses(t, c) <=> c = stack[t]
    BY <2>1 DEF Uses
  <2>3. CASE opts[t].override # None
    <3>1. edge'[t] \in Sidecars
      BY <1>0, <2>1, <2>3, OptionsType
    <3>2. \A c \in Containers : Uses(t, c)' <=> c = stack[t] \/ c = SharedCtr
      BY <1>0, <2>1, <3>1 DEF Uses, Backend, Upstream
    <3>3. containers[SharedCtr] = "running"
      BY <2>3
    <3>4. QED
      BY <1>0, <2>1, <2>2, <3>2, <3>3, LeaseByUse
  <2>4. CASE opts[t].override = None
    <3>1. edge'[t] = stack[t] /\ stack[t] \notin Sidecars /\ edge'[t] # None
      BY <1>0, <2>1, <2>4 DEF StackOK, Containers
    <3>2. \A c \in Containers : Uses(t, c)' <=> c = stack[t]
      BY <2>1, <3>1 DEF Uses, Backend, Upstream
    <3>3. QED
      BY <1>0, <2>1, <2>2, <3>2, LeaseByUse
  <2>5. QED
    BY <2>3, <2>4
<1>9. CASE SetUpFails(t)
  <2>1. pc'[t] = "cleanup" /\ cleanups'[t] = <<"tempdir">> /\ UNCHANGED containers
    BY <1>0, <1>9 DEF SetUpFails, TypeOK, runtimeVars
  <2>2. Pending(t)' = {"tempdir"}
    BY <2>1 DEF Pending
  <2>3. \A c \in Containers : ~Uses(t, c)'
    BY <2>1, <2>2, TestCaseAssumption DEF Uses, NewCallbacks
  <2>4. QED
    BY <1>0, <2>1, <2>3, LeaseByUse
<1>10. QED
  BY <1>3, <1>4, <1>6, <1>7, <1>8, <1>9 DEF NewStep

(* A test uses its containers at all.                                      *)
Using(t) ==
  /\ process = "running"
  /\ \/ pc[t] \in {"setup", "body"}
     \/ Pending(t) \cap ({"destroy"} \cup Fixtures) # {}

(* Once New is through, a step of a test that lets the containers alone    *)
(* can only end its use of them.                                           *)
LEMMA LeaseByEnd ==
  ASSUME TestsInv, NEW t \in Tests, TestStep(t), UNCHANGED containers,
         stack'[t] = stack[t], edge'[t] = edge[t], Using(t)' => Using(t)
  PROVE  [LeaseOfContainers!LeaseNext]_LeaseOfContainers!leaseVars
<1>1. \A c \in Containers :
        Uses(t, c) <=> Using(t) /\ (c = stack[t] \/ (edge[t] # None /\ c = Backend(t)))
  BY DEF Uses, Using
<1>2. \A c \in Containers :
        Uses(t, c)' <=> Using(t)' /\ (c = stack[t] \/ (edge[t] # None /\ c = Backend(t)))
  BY DEF Uses, Using, Backend, Upstream
<1>3. \/ \A c \in Containers : Uses(t, c)' <=> Uses(t, c)
      \/ \A c \in Containers : ~Uses(t, c)'
  BY <1>1, <1>2
<1>4. QED
  BY <1>3, LeaseByUse

(* The body keeps to the containers New found.                             *)
LEMMA LeaseBody ==
  ASSUME TestsInv, NEW t \in Tests, BodyStep(t)
  PROVE  [LeaseOfContainers!LeaseNext]_LeaseOfContainers!leaseVars
<1>1. /\ UNCHANGED <<process, containers, stack, edge>>
      /\ process = "running" /\ pc[t] = "body"
  BY DEF BodyStep, Plan, PlanFails, Apply, ApplyFails, Seed, SeedFails, SeedMessage,
       AssertFails, BodyReturns, InBody, runtimeVars, testVars
<1>2. Using(t)
  BY <1>1 DEF Using
<1>3. QED
  BY <1>1, <1>2, LeaseByEnd DEF TestStep

(* What is pending after a callback was pending before it.                 *)
LEMMA PendingShrinks ==
  ASSUME TestsInv, NEW t \in Tests, NEW C, Runs(t, C)
  PROVE  Pending(t)' \subseteq Pending(t)
<1>1. /\ Len(cleanups'[t]) = Len(cleanups[t]) - 1 /\ Len(cleanups[t]) \in Nat \ {0}
      /\ \A i \in 1 .. Len(cleanups[t]) - 1 : cleanups'[t][i] = cleanups[t][i]
  BY LastCallback
<1>2. cleanups[t] \in Seq(Callbacks) /\ cleanups'[t] \in Seq(Callbacks)
  BY PopSeq DEF TestsInv, TypeOK, Runs
<1>3. DOMAIN cleanups[t] = 1 .. Len(cleanups[t]) /\ DOMAIN cleanups'[t] = 1 .. Len(cleanups'[t])
  BY <1>2
<1>4. QED
  BY <1>1, <1>3 DEF Pending

(* A container a test stops is its own and nobody uses it: the test itself *)
(* is through with it by then, and no other test was ever given it         *)
(* (libtftest.go:124-128, 351-360).                                        *)
LEMMA LeaseStop ==
  ASSUME TestsInv, NEW t \in Tests, RunStop(t)
  PROVE  LeaseOfContainers!LeaseNext
<1>0. /\ TypeOK /\ \A u \in Tests : StackOK(u)
      /\ CallbacksOK(t) /\ OwnUp(t) /\ TestStep(t)
      /\ Runs(t, {"stop"}) /\ process = "running" /\ pc[t] = "cleanup"
      /\ t \in Containers
      /\ None \notin {SharedCtr, ReusedCtr} \cup Tests \cup Sidecars
      /\ SharedCtr \notin Tests /\ ReusedCtr \notin Tests /\ Sidecars \cap Tests = {}
  BY RuntimeAssumption DEF TestsInv, TestOK, TestStep, CleanupStep, RunStop, Runs, Containers, URLs
<1>1. own[t] /\ stack[t] = t /\ Len(cleanups[t]) = 2
  <2>1. /\ Next1(t) \in {"stop"}
        /\ Next1(t) = "stop" => own[t] /\ stack[t] = t /\ Len(cleanups[t]) = 2
    BY <1>0, LastCallback
  <2>2. QED
    BY <2>1
<1>2. containers[t] = "running"
  BY <1>0, <1>1 DEF OwnUp
<1>3. Pending(t) = {"tempdir", "stop"}
  <2>1. DOMAIN cleanups[t] = {1, 2}
    BY <1>0, <1>1 DEF TypeOK
  <2>2. cleanups[t][1] = "tempdir"
    BY <1>0, <1>1 DEF CallbacksOK
  <2>3. cleanups[t][2] = "stop"
    BY <1>0, <1>1 DEF Runs, Next1
  <2>4. QED
    BY <2>1, <2>2, <2>3 DEF Pending
<1>4. ~Using(t)
  BY <1>0, <1>3, TestCaseAssumption DEF Using, NewCallbacks
<1>5. ~Using(t)'
  <2>1. Pending(t)' \subseteq Pending(t) /\ pc'[t] = "cleanup"
    BY <1>0, PendingShrinks DEF Runs
  <2>2. QED
    BY <1>3, <2>1, TestCaseAssumption DEF Using, NewCallbacks
<1>6. \A c \in Containers : ~Uses(t, c) /\ ~Uses(t, c)'
  BY <1>4, <1>5 DEF Uses, Using
<1>7. \A u \in Tests \ {t} : ~Uses(u, t)
  BY <1>0 DEF StackOK, Uses, Backend, Upstream
<1>8. \A u \in Tests \ {t}, c \in Containers : Uses(u, c)' <=> Uses(u, c)
  BY <1>0, UsesFrame
<1>9. Usage' = Usage /\ Usage[t] = {}
  BY <1>0, <1>6, <1>7, <1>8 DEF Usage
<1>10. containers' = [containers EXCEPT ![t] = "removed"]
  BY <1>1 DEF RunStop, TerminateContainer
<1>11. LeaseOfContainers!Remove(t)
  BY <1>2, <1>9, <1>10 DEF Usage, LeaseOfContainers!Remove
<1>12. QED
  BY <1>0, <1>11 DEF LeaseOfContainers!LeaseNext

(* The callbacks end a test's use of its containers, then stop its own.    *)
LEMMA LeaseCleanup ==
  ASSUME TestsInv, NEW t \in Tests, CleanupStep(t)
  PROVE  [LeaseOfContainers!LeaseNext]_LeaseOfContainers!leaseVars
<1>1. CASE RunStop(t)
  BY <1>1, LeaseStop
<1>2. CASE Finish(t)
  <2>1. UNCHANGED <<containers, stack, edge, cleanups, process>> /\ pc[t] = "cleanup"
    BY <1>2 DEF Finish, runtimeVars
  <2>2. pc'[t] = "done"
    BY <1>2 DEF Finish, TestsInv, TypeOK
  <2>3. Using(t)' => Using(t)
    BY <2>1, <2>2 DEF Using, Pending
  <2>4. QED
    BY <2>1, <2>3, LeaseByEnd DEF TestStep
<1>3. ASSUME NEW C, Runs(t, C), UNCHANGED containers
      PROVE  [LeaseOfContainers!LeaseNext]_LeaseOfContainers!leaseVars
  <2>1. Pending(t)' \subseteq Pending(t)
    BY <1>3, PendingShrinks
  <2>2. UNCHANGED <<process, pc, stack, edge>>
    BY <1>3 DEF Runs
  <2>3. Using(t)' => Using(t)
    BY <2>1, <2>2 DEF Using
  <2>4. QED
    BY <1>3, <2>2, <2>3, LeaseByEnd DEF TestStep
<1>4. CASE CleanupStep(t) /\ ~RunStop(t) /\ ~Finish(t)
  BY <1>3, <1>4 DEF CleanupStep, RunDump, RunUnseed, RunUnseedFails, SkipDestroy, RunDestroy,
       RunDestroyFails, SkipStop, RunStopFails, RemoveTempDir
<1>5. QED
  BY <1>1, <1>2, <1>4

(* Nobody uses anything once the process has ended, and only then does the *)
(* reaper remove a container.                                              *)
LEMMA LeaseOutside ==
  ASSUME TypeOK, UNCHANGED testVars,
         \/ UNCHANGED <<process, containers>>
         \/ process' # "running" /\ UNCHANGED containers
         \/ \E c \in SessionContainers : Reap(c)
  PROVE  [LeaseOfContainers!LeaseNext]_LeaseOfContainers!leaseVars
<1>1. CASE UNCHANGED <<process, containers>>
  <2>1. \A c \in Containers, u \in Tests : Uses(u, c)' <=> Uses(u, c)
    BY <1>1 DEF Uses, Pending, Backend, Upstream, testVars
  <2>2. Usage' = Usage
    BY <2>1 DEF Usage
  <2>3. QED
    BY <1>1, <2>2 DEF Usage, LeaseOfContainers!leaseVars
<1>2. CASE process' # "running" /\ UNCHANGED containers
  <2>1. \A c \in Containers, u \in Tests : ~Uses(u, c)'
    BY <1>2 DEF Uses
  <2>2. Usage' = [c \in Containers |-> Usage[c] \ Tests]
    BY <2>1 DEF Usage
  <2>3. LeaseOfContainers!Leave(Tests)
    BY <1>2, <2>2 DEF Usage, LeaseOfContainers!Leave
  <2>4. QED
    BY <2>3 DEF LeaseOfContainers!LeaseNext
<1>3. ASSUME NEW k \in SessionContainers, Reap(k)
      PROVE  LeaseOfContainers!LeaseNext
  <2>1. \A c \in Containers, u \in Tests : ~Uses(u, c) /\ ~Uses(u, c)'
    BY <1>3 DEF Uses, Reap
  <2>2. k \in Containers
    BY DEF SessionContainers, Containers
  <2>3. Usage' = Usage /\ Usage[k] = {}
    BY <2>1, <2>2 DEF Usage
  <2>4. LeaseOfContainers!Remove(k)
    BY <1>3, <2>3 DEF Usage, Reap, TerminateContainer, LeaseOfContainers!Remove
  <2>5. QED
    BY <2>2, <2>4 DEF LeaseOfContainers!LeaseNext
<1>4. QED
  BY <1>1, <1>2, <1>3

(* At first nobody uses anything.                                          *)
LEMMA LeaseStarts ==
  ASSUME TestInit, containers \in [Containers -> {"absent", "running"}]
  PROVE  LeaseOfContainers!LeaseInit
<1>1. ASSUME NEW c \in Containers, NEW t \in Tests
      PROVE  ~Uses(t, c)
  <2>1. stack[t] = None /\ edge[t] = None /\ c # None
    BY RuntimeAssumption DEF TestInit, URLs
  <2>2. QED
    BY <2>1 DEF Uses
<1>2. Usage = [c \in Containers |-> {}]
  BY <1>1 DEF Usage
<1>3. QED
  BY <1>2 DEF Usage, LeaseOfContainers!LeaseInit

(* However a test finds its container (libtftest.go:314-346), the binary   *)
(* handles containers as Lease says: nobody uses one that does not run,    *)
(* and nobody removes one that somebody uses.                              *)
THEOREM RefinesLease == Spec => ContainersAreLeased
<1>1. Init => LeaseOfContainers!LeaseInit
  <2> SUFFICES ASSUME Init PROVE LeaseOfContainers!LeaseInit
    OBVIOUS
  <2>1. TestInit /\ containers \in [Containers -> {"absent", "running"}]
    BY DEF Init
  <2>2. QED
    BY <2>1, LeaseStarts
<1>2. IInv /\ [Next]_vars => [LeaseOfContainers!LeaseNext]_LeaseOfContainers!leaseVars
  <2> SUFFICES ASSUME IInv, [Next]_vars
               PROVE  [LeaseOfContainers!LeaseNext]_LeaseOfContainers!leaseVars
    OBVIOUS
  <2>1. TestsInv /\ EndpointsUp /\ TypeOK
    BY DEF IInv, TestsInv
  <2>2. ASSUME NEW t \in Tests, NewStep(t)
        PROVE  [LeaseOfContainers!LeaseNext]_LeaseOfContainers!leaseVars
    <3>1. process = "running"
      BY <2>2 DEF NewStep, AttachReused, AttachShared, StartOwn, StartOwnFails, SetUp,
           SetUpFails, CallsNew
    <3>2. QED
      BY <2>1, <2>2, <3>1, LeaseNew DEF EndpointsUp
  <2>3. ASSUME NEW t \in Tests, BodyStep(t) \/ CleanupStep(t)
        PROVE  [LeaseOfContainers!LeaseNext]_LeaseOfContainers!leaseVars
    BY <2>1, <2>3, LeaseBody, LeaseCleanup
  <2>4. CASE Outside \/ Ended \/ UNCHANGED vars
    <3>1. UNCHANGED testVars
      BY <2>4 DEF Outside, Exit, Ended, vars
    <3>2. \/ UNCHANGED <<process, containers>>
          \/ process' # "running" /\ UNCHANGED containers
          \/ \E c \in SessionContainers : Reap(c)
      BY <2>4 DEF Outside, Exit, Crash, Ended, vars, runtimeVars
    <3>3. QED
      BY <2>1, <3>1, <3>2, LeaseOutside
  <2>5. QED
    BY <2>2, <2>3, <2>4 DEF Next, TestStep
<1>3. QED
  BY <1>1, <1>2, Invariance, PTL DEF Spec, ContainersAreLeased, LeaseOfContainers!LeaseSpec
=============================================================================
