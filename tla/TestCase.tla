------------------------------ MODULE TestCase ------------------------------
(***************************************************************************)
(* libtftest.TestCase: New, the Terraform and fixture calls a test body    *)
(* makes, and the callbacks New and the fixtures leave with tb.Cleanup.    *)
(* Several tests run in parallel in one binary.                            *)
(*                                                                         *)
(* A test goes idle -> setup -> body -> cleanup -> done.  New is two       *)
(* steps, the container (which can block for minutes) and everything       *)
(* after it; each call of the body and each callback is one step.          *)
(***************************************************************************)
EXTENDS Runtime, FiniteSets, Sequences

CONSTANTS
  Resources,      \* what the module under test declares
  Fixtures,       \* objects a body seeds with a Seed*Context call
  Messages,       \* SQS messages a body sends with SeedMessageContext
  Prefixes,       \* what naming.Prefix can return
  UniquePrefixes, \* no two tests of the run draw the same prefix
  OptionSets,     \* the Options the tests pass to New
  ArtifactDirSet, \* LIBTFTEST_ARTIFACT_DIR is set
  Faults          \* what may go wrong outside the program in this run

(* The callbacks New registers; a fixture's callback is the fixture.       *)
NewCallbacks == {"tempdir", "stop", "destroy", "dump"}
Callbacks    == NewCallbacks \cup Fixtures
Names        == (Prefixes \cup {None}) \X (Resources \cup Fixtures \cup Messages)
PCs          == {"idle", "setup", "body", "cleanup", "done"}
AllFaults    == {"start", "setup", "terraform", "killed", "aws", "stop"}

Options == [reuse      : {None, ReusedCtr},       \* Options.Reuse
            persist    : BOOLEAN,                 \* Options.PersistOnFailure
            override   : Sidecars \cup {None},    \* Options.EdgeURLOverride
            autoPrefix : BOOLEAN]                 \* Options.AutoPrefixVars

ASSUME TestCaseAssumption ==
  /\ Fixtures \cap NewCallbacks = {}
  /\ Resources \cap (Fixtures \cup Messages) = {}
  /\ Fixtures \cap Messages = {}
  /\ None \notin Prefixes
  /\ UniquePrefixes \in BOOLEAN
  /\ ArtifactDirSet \in BOOLEAN
  /\ OptionSets \subseteq Options
  /\ Faults \subseteq AllFaults

VARIABLES
  pc,        \* where each test is
  opts,      \* TestCase.opts
  prefix,    \* TestCase.prefix, None before New
  stack,     \* TestCase.stack: a container or None
  own,       \* TestCase.ownStack
  edge,      \* the URL New wrote into the overrides and the AWS config
  work,      \* the scratch workspace (inside tb.TempDir()) exists
  inited,    \* terraform init has completed in the workspace
  tfState,   \* the resources its terraform.tfstate records
  failed,    \* tb.Failed()
  cleanups,  \* the callbacks tb.Cleanup holds, in the order registered
  artifacts  \* where dumpArtifacts wrote: "none", "scratch" or "ci"

testVars == <<pc, opts, prefix, stack, own, edge, work, inited, tfState,
              failed, cleanups, artifacts>>
vars     == <<runtimeVars, testVars>>

---------------------------------------------------------------------------
(* The name a resource or fixture x of test t gets: with its own prefix if *)
(* the module takes name_prefix, else the literal name of the module.      *)
Name(t, x)   == <<IF opts[t].autoPrefix THEN prefix[t] ELSE None, x>>
NamesOf(t, S) == {Name(t, x) : x \in S}

(* The LocalStack the test's Terraform and SDK clients talk to.            *)
Backend(t) == Upstream(edge[t])

(* The callback that runs next: testing.T runs them last in, first out.    *)
Next1(t)  == cleanups[t][Len(cleanups[t])]
Pending(t) == {cleanups[t][i] : i \in DOMAIN cleanups[t]}

(* Mutants of RegisterCleanup: the stop callback registered last, so that  *)
(* it runs first; no destroy; no stop.                                     *)
StopRegisteredLast(t) ==
  IF own[t] THEN <<"destroy", "dump", "stop">> ELSE <<"destroy", "dump">>
DestroyNotRegistered(t) ==
  IF own[t] THEN <<"stop", "dump">> ELSE <<"dump">>
StopNotRegistered(t) == <<"destroy", "dump">>

(* What registerCleanup registers, in its order.                           *)
RegisterCleanup(t) ==
  IF own[t] THEN <<"stop", "destroy", "dump">> ELSE <<"destroy", "dump">>

(* PersistOnFailure && Failed(), which the stop and the destroy callback   *)
(* each evaluate when they run.                                            *)
Persists(t) == opts[t].persist /\ failed[t]

(* tb.Context() is cancelled just before the first callback runs; a        *)
(* context derived from it with context.WithoutCancel is not.              *)
ContextAlive(t)     == pc[t] \in {"idle", "setup", "body"}
ContextPassedOn(alive) == alive   \* mutant: tb.Context() used as it is
WithoutCancel(alive)   == TRUE

FreshPrefixes ==
  IF UniquePrefixes THEN Prefixes \ {prefix[t] : t \in Tests} ELSE Prefixes

---------------------------------------------------------------------------
(* A test binary before any test function has called New.                  *)
TestInit ==
  /\ live = [c \in Containers |-> {}]
  /\ pc = [t \in Tests |-> "idle"]
  /\ opts \in [Tests -> OptionSets]
  /\ prefix = [t \in Tests |-> None]
  /\ stack = [t \in Tests |-> None]
  /\ own = [t \in Tests |-> FALSE]
  /\ edge = [t \in Tests |-> None]
  /\ work = [t \in Tests |-> FALSE]
  /\ inited = [t \in Tests |-> FALSE]
  /\ tfState = [t \in Tests |-> {}]
  /\ failed = [t \in Tests |-> FALSE]
  /\ cleanups = [t \in Tests |-> <<>>]
  /\ artifacts = [t \in Tests |-> "none"]

(* Without harness.Run there is no shared container; under it the shared   *)
(* container and the sidecars are up before the first test starts.         *)
Init ==
  /\ process = "running"
  /\ shared \in {None, SharedCtr}
  /\ containers = [c \in Containers |->
                     IF c = ReusedCtr \/ c = shared THEN "running" ELSE "absent"]
  /\ servers = [s \in Sidecars |-> IF shared = None THEN "down" ELSE "up"]
  /\ TestInit
  /\ \A t \in Tests : opts[t].override # None => shared # None

---------------------------------------------------------------------------
(* New, first half: the prefix and resolveContainer.                       *)
CallsNew(t) ==
  /\ process = "running"
  /\ pc[t] = "idle"
  /\ \E p \in FreshPrefixes : prefix' = [prefix EXCEPT ![t] = p]
  /\ UNCHANGED <<process, shared, servers, opts, edge, work, inited, tfState,
                 artifacts, cleanups>>

(* Mutant: every container counts as the test's own.                       *)
AttachOwned(t, c, owned) ==
  /\ stack' = [stack EXCEPT ![t] = c]
  /\ own' = [own EXCEPT ![t] = TRUE]
  /\ pc' = [pc EXCEPT ![t] = "setup"]
  /\ UNCHANGED failed

Attach(t, c, owned) ==
  /\ stack' = [stack EXCEPT ![t] = c]
  /\ own' = [own EXCEPT ![t] = owned]
  /\ pc' = [pc EXCEPT ![t] = "setup"]
  /\ UNCHANGED failed

(* An explicit Reuse wins over everything.                                 *)
AttachReused(t) ==
  /\ CallsNew(t)
  /\ opts[t].reuse # None
  /\ Attach(t, opts[t].reuse, FALSE)
  /\ UNCHANGED <<containers, live>>

(* Next comes the container harness.Current() returns.                     *)
AttachShared(t) ==
  /\ CallsNew(t)
  /\ opts[t].reuse = None
  /\ shared # None
  /\ Attach(t, shared, FALSE)
  /\ UNCHANGED <<containers, live>>

(* Else the test starts a container of its own.                            *)
StartOwn(t) ==
  /\ CallsNew(t)
  /\ opts[t].reuse = None
  /\ shared = None
  /\ LaunchContainer(t)
  /\ Attach(t, t, TRUE)

(* localstack.Start failed: t.Fatalf with no callback registered yet.      *)
StartOwnFails(t) ==
  /\ "start" \in Faults
  /\ CallsNew(t)
  /\ opts[t].reuse = None
  /\ shared = None
  /\ LaunchFails(t)
  /\ failed' = [failed EXCEPT ![t] = TRUE]
  /\ pc' = [pc EXCEPT ![t] = "cleanup"]
  /\ UNCHANGED <<stack, own>>

(* New, second half: edge URL, NewWorkspace, WriteOverrides, AWS config,   *)
(* registerCleanup.  tb.TempDir() registers its own removal first.         *)
SetUp(t) ==
  /\ process = "running"
  /\ pc[t] = "setup"
  /\ edge' = [edge EXCEPT ![t] =
                IF opts[t].override # None THEN opts[t].override ELSE stack[t]]
  /\ work' = [work EXCEPT ![t] = TRUE]
  /\ cleanups' = [cleanups EXCEPT ![t] = <<"tempdir">> \o RegisterCleanup(t)]
  /\ pc' = [pc EXCEPT ![t] = "body"]
  /\ UNCHANGED <<runtimeVars, opts, prefix, stack, own, inited, tfState,
                 failed, artifacts>>

(* copyTree, WriteOverrides or LoadDefaultConfig failed: t.Fatalf before   *)
(* registerCleanup, with only the removal of the TempDir registered.       *)
SetUpFails(t) ==
  /\ "setup" \in Faults
  /\ process = "running"
  /\ pc[t] = "setup"
  /\ work' = [work EXCEPT ![t] = TRUE]
  /\ cleanups' = [cleanups EXCEPT ![t] = <<"tempdir">>]
  /\ failed' = [failed EXCEPT ![t] = TRUE]
  /\ pc' = [pc EXCEPT ![t] = "cleanup"]
  /\ UNCHANGED <<runtimeVars, opts, prefix, stack, own, edge, inited, tfState,
                 artifacts>>

---------------------------------------------------------------------------
(* The body.  A failing call is either the Fatal form (the body ends) or   *)
(* the E form (an error the body may go on from).                          *)
InBody(t) == process = "running" /\ pc[t] = "body"

CallFails(t) ==
  \E fatal \in BOOLEAN :
    /\ failed' = [failed EXCEPT ![t] = failed[t] \/ fatal]
    /\ pc' = [pc EXCEPT ![t] = IF fatal THEN "cleanup" ELSE "body"]

(* PlanContext: terraform init, plan and show; and OutputContext.          *)
Plan(t) ==
  /\ InBody(t)
  /\ Serves(edge[t])
  /\ inited' = [inited EXCEPT ![t] = TRUE]
  /\ UNCHANGED <<runtimeVars, pc, opts, prefix, stack, own, edge, work,
                 tfState, failed, cleanups, artifacts>>

PlanFails(t) ==
  /\ InBody(t)
  /\ "terraform" \in Faults
  /\ \E ok \in BOOLEAN : inited' = [inited EXCEPT ![t] = inited[t] \/ ok]
  /\ CallFails(t)
  /\ UNCHANGED <<runtimeVars, opts, prefix, stack, own, edge, work, tfState,
                 cleanups, artifacts>>

(* ApplyContext: terraform init and apply.                                 *)
Apply(t) ==
  /\ InBody(t)
  /\ Serves(edge[t])
  /\ inited' = [inited EXCEPT ![t] = TRUE]
  /\ live' = [live EXCEPT ![Backend(t)] = @ \cup NamesOf(t, Resources)]
  /\ tfState' = [tfState EXCEPT ![t] = Resources]
  /\ UNCHANGED <<process, containers, shared, servers, pc, opts, prefix, stack,
                 own, edge, work, failed, cleanups, artifacts>>

(* An apply that fails may have created part of the module.  Terraform     *)
(* records what it created unless the context's deadline kills it.         *)
ApplyFails(t) ==
  /\ InBody(t)
  /\ "terraform" \in Faults
  /\ Serves(edge[t])
  /\ inited' = [inited EXCEPT ![t] = TRUE]
  /\ \E made \in SUBSET (Resources \ tfState[t]), recorded \in SUBSET Resources :
       /\ IF "killed" \in Faults THEN recorded \subseteq made ELSE recorded = made
       /\ live' = [live EXCEPT ![Backend(t)] = @ \cup NamesOf(t, made)]
       /\ tfState' = [tfState EXCEPT ![t] = @ \cup recorded]
  /\ CallFails(t)
  /\ UNCHANGED <<process, containers, shared, servers, opts, prefix, stack,
                 own, edge, work, cleanups, artifacts>>

(* SeedObject, SeedSecret, SeedParameter: the put, then tb.Cleanup of the  *)
(* delete, bound to a context derived with WithoutCancel.                  *)
Seed(t, f) ==
  /\ InBody(t)
  /\ Serves(edge[t])
  /\ f \notin Pending(t)
  /\ live' = [live EXCEPT ![Backend(t)] = @ \cup {Name(t, f)}]
  /\ cleanups' = [cleanups EXCEPT ![t] = Append(@, f)]
  /\ UNCHANGED <<process, containers, shared, servers, pc, opts, prefix, stack,
                 own, edge, work, inited, tfState, failed, artifacts>>

(* The put returned an error: Fatalf before tb.Cleanup.  LocalStack may    *)
(* have done it all the same (an answer that came too late).               *)
SeedFails(t, f) ==
  /\ InBody(t)
  /\ "aws" \in Faults
  /\ Serves(edge[t])
  /\ f \notin Pending(t)
  /\ \E done \in SUBSET {Name(t, f)} :
       live' = [live EXCEPT ![Backend(t)] = @ \cup done]
  /\ failed' = [failed EXCEPT ![t] = TRUE]
  /\ pc' = [pc EXCEPT ![t] = "cleanup"]
  /\ UNCHANGED <<process, containers, shared, servers, opts, prefix, stack,
                 own, edge, work, inited, tfState, cleanups, artifacts>>

(* SeedMessage registers no callback.                                      *)
SeedMessage(t, m) ==
  /\ InBody(t)
  /\ Serves(edge[t])
  /\ live' = [live EXCEPT ![Backend(t)] = @ \cup {Name(t, m)}]
  /\ UNCHANGED <<process, containers, shared, servers, testVars>>

(* An assertion of the body fails: tb.Errorf, or tb.Fatalf.                *)
AssertFails(t) ==
  /\ InBody(t)
  /\ failed' = [failed EXCEPT ![t] = TRUE]
  /\ \E next \in {"body", "cleanup"} : pc' = [pc EXCEPT ![t] = next]
  /\ UNCHANGED <<runtimeVars, opts, prefix, stack, own, edge, work, inited,
                 tfState, cleanups, artifacts>>

BodyReturns(t) ==
  /\ InBody(t)
  /\ pc' = [pc EXCEPT ![t] = "cleanup"]
  /\ UNCHANGED <<runtimeVars, opts, prefix, stack, own, edge, work, inited,
                 tfState, failed, cleanups, artifacts>>

---------------------------------------------------------------------------
(* The callbacks.                                                          *)
Runs(t, callbacks) ==
  /\ process = "running"
  /\ pc[t] = "cleanup"
  /\ cleanups[t] # <<>>
  /\ Next1(t) \in callbacks
  /\ cleanups' = [cleanups EXCEPT ![t] = SubSeq(@, 1, Len(@) - 1)]
  /\ UNCHANGED <<process, shared, servers, pc, opts, prefix, stack, own, edge>>

Errorf(t) == failed' = [failed EXCEPT ![t] = TRUE]

(* Where logx puts a dump.                                                 *)
DumpArtifact == IF ArtifactDirSet THEN "ci" ELSE "scratch"

(* The artifact dump: only for a failed test.                              *)
RunDump(t) ==
  /\ Runs(t, {"dump"})
  /\ artifacts' = [artifacts EXCEPT ![t] =
                     IF failed[t] THEN DumpArtifact ELSE @]
  /\ UNCHANGED <<containers, live, work, inited, tfState, failed>>

(* A fixture's delete, which may fail: tb.Errorf.                          *)
RunUnseed(t) ==
  /\ Runs(t, Fixtures)
  /\ WithoutCancel(ContextAlive(t)) /\ Serves(edge[t])
  /\ live' = [live EXCEPT ![Backend(t)] = @ \ {Name(t, Next1(t))}]
  /\ UNCHANGED <<containers, work, inited, tfState, failed, artifacts>>

RunUnseedFails(t) ==
  /\ Runs(t, Fixtures)
  /\ \/ "aws" \in Faults
     \/ ~(WithoutCancel(ContextAlive(t)) /\ Serves(edge[t]))
  /\ Errorf(t)
  /\ UNCHANGED <<containers, live, work, inited, tfState, artifacts>>

(* The early return of the destroy callback.                               *)
SkipDestroy(t) ==
  /\ Runs(t, {"destroy"})
  /\ Persists(t)
  /\ UNCHANGED <<containers, live, work, inited, tfState, failed, artifacts>>

(* terraform destroy needs the initialised workspace with its state file,  *)
(* a context that is not cancelled and LocalStack behind the edge URL.     *)
CanDestroy(t) ==
  /\ work[t] /\ inited[t]
  /\ WithoutCancel(ContextAlive(t))
  /\ Serves(edge[t])

RunDestroy(t) ==
  /\ Runs(t, {"destroy"})
  /\ ~Persists(t)
  /\ CanDestroy(t)
  /\ live' = [live EXCEPT ![Backend(t)] = @ \ NamesOf(t, tfState[t])]
  /\ tfState' = [tfState EXCEPT ![t] = {}]
  /\ UNCHANGED <<containers, work, inited, failed, artifacts>>

(* Mutant: a destroy that cannot run is waited for, not reported.          *)
NeverReported(t) == FALSE

RunDestroyFails(t) ==
  /\ Runs(t, {"destroy"})
  /\ ~Persists(t)
  /\ \/ ~CanDestroy(t) /\ UNCHANGED <<live, tfState>>
     \/ /\ CanDestroy(t)
        /\ "terraform" \in Faults
        /\ \E gone \in SUBSET tfState[t] :
             /\ live' = [live EXCEPT ![Backend(t)] = @ \ NamesOf(t, gone)]
             /\ tfState' = [tfState EXCEPT ![t] = @ \ gone]
  /\ Errorf(t)
  /\ UNCHANGED <<containers, work, inited, artifacts>>

(* The stop callback: PersistOnFailure, Container.Stop, or its error.      *)
SkipStop(t) ==
  /\ Runs(t, {"stop"})
  /\ Persists(t)
  /\ UNCHANGED <<containers, live, work, inited, tfState, failed, artifacts>>

(* Mutant: stops the container whatever PersistOnFailure says.             *)
StopsRegardless(t) ==
  /\ Runs(t, {"stop"})
  /\ TerminateContainer(stack[t])
  /\ UNCHANGED <<work, inited, tfState, failed, artifacts>>

RunStop(t) ==
  /\ Runs(t, {"stop"})
  /\ ~Persists(t)
  /\ TerminateContainer(stack[t])
  /\ UNCHANGED <<work, inited, tfState, failed, artifacts>>

RunStopFails(t) ==
  /\ Runs(t, {"stop"})
  /\ ~Persists(t)
  /\ "stop" \in Faults
  /\ Errorf(t)
  /\ UNCHANGED <<containers, live, work, inited, tfState, artifacts>>

(* testing's own callback removes the TempDir: the workspace, its state    *)
(* file and whatever was dumped below it.                                  *)
RemoveTempDir(t) ==
  /\ Runs(t, {"tempdir"})
  /\ work' = [work EXCEPT ![t] = FALSE]
  /\ inited' = [inited EXCEPT ![t] = FALSE]
  /\ tfState' = [tfState EXCEPT ![t] = {}]
  /\ artifacts' = [artifacts EXCEPT ![t] = IF @ = "scratch" THEN "none" ELSE @]
  /\ UNCHANGED <<containers, live, failed>>

Finish(t) ==
  /\ process = "running"
  /\ pc[t] = "cleanup"
  /\ cleanups[t] = <<>>
  /\ pc' = [pc EXCEPT ![t] = "done"]
  /\ UNCHANGED <<runtimeVars, opts, prefix, stack, own, edge, work, inited,
                 tfState, failed, cleanups, artifacts>>

---------------------------------------------------------------------------
NewStep(t) ==
  \/ AttachReused(t) \/ AttachShared(t) \/ StartOwn(t) \/ StartOwnFails(t)
  \/ SetUp(t) \/ SetUpFails(t)

BodyStep(t) ==
  \/ Plan(t) \/ PlanFails(t) \/ Apply(t) \/ ApplyFails(t)
  \/ \E f \in Fixtures : Seed(t, f) \/ SeedFails(t, f)
  \/ \E m \in Messages : SeedMessage(t, m)
  \/ AssertFails(t) \/ BodyReturns(t)

CleanupStep(t) ==
  \/ RunDump(t)
  \/ RunUnseed(t) \/ RunUnseedFails(t)
  \/ SkipDestroy(t) \/ RunDestroy(t) \/ RunDestroyFails(t)
  \/ SkipStop(t) \/ RunStop(t) \/ RunStopFails(t)
  \/ RemoveTempDir(t)
  \/ Finish(t)

TestStep(t) == NewStep(t) \/ BodyStep(t) \/ CleanupStep(t)

(* Every test has finished: the binary exits.                              *)
Exit ==
  /\ process = "running"
  /\ \A t \in Tests : pc[t] = "done"
  /\ process' = "exited"
  /\ servers' = ServersAfterExit
  /\ UNCHANGED <<containers, live, shared, testVars>>

(* What happens around the tests' own code.                                *)
Outside ==
  \/ Exit
  \/ Crash /\ UNCHANGED testVars
  \/ \E c \in SessionContainers : Reap(c) /\ UNCHANGED testVars

(* The end: a stuttering step, so that TLC tells it from a deadlock.       *)
Ended == process # "running" /\ UNCHANGED vars

Next == (\E t \in Tests : TestStep(t)) \/ Outside \/ Ended

(* A test function returns (go test -timeout stops one that does not), New *)
(* returns and so does every callback.                                     *)
Progress(t) == NewStep(t) \/ BodyReturns(t) \/ CleanupStep(t)

Spec == Init /\ [][Next]_vars

---------------------------------------------------------------------------
(* Properties.                                                             *)

RuntimeTypeOK ==
  /\ process \in {"running", "exited", "crashed"}
  /\ containers \in [Containers -> {"absent", "running", "removed"}]
  /\ live \in [Containers -> SUBSET Names]
  /\ shared \in {None, SharedCtr}
  /\ servers \in [Sidecars -> {"down", "starting", "up"}]

(* Every variable keeps its shape over New, the body and the callbacks.    *)
TypeOK ==
  /\ RuntimeTypeOK
  /\ pc \in [Tests -> PCs]
  /\ opts \in [Tests -> OptionSets]
  /\ prefix \in [Tests -> Prefixes \cup {None}]
  /\ stack \in [Tests -> Containers \cup {None}]
  /\ own \in [Tests -> BOOLEAN]
  /\ edge \in [Tests -> URLs \cup {None}]
  /\ work \in [Tests -> BOOLEAN]
  /\ inited \in [Tests -> BOOLEAN]
  /\ tfState \in [Tests -> SUBSET Resources]
  /\ failed \in [Tests -> BOOLEAN]
  /\ cleanups \in [Tests -> Seq(Callbacks)]
  /\ artifacts \in [Tests -> {"none", "scratch", "ci"}]

(* As long as a destroy or a fixture's delete is still to run, what it     *)
(* needs is there: the workspace with the state file, and LocalStack       *)
(* behind the edge URL.  This is what the LIFO order of registerCleanup    *)
(* (libtftest.go:124) is for, and no other test may disturb it.            *)
CleanupHasItsBackend ==
  \A t \in Tests :
    /\ process = "running"
    /\ Pending(t) \cap ({"destroy"} \cup Fixtures) # {}
    => work[t] /\ Serves(edge[t])

(* Tests that share a LocalStack in parallel do not undo each other: what  *)
(* a test's state file records and what it still has to delete is there    *)
(* until the test's own callbacks remove it (New's "parallel-safe prefix"  *)
(* and ownStack, libtftest.go:83 and 319-327).                             *)
Undisturbed ==
  \A t \in Tests :
    process = "running" /\ "destroy" \in Pending(t)
    => /\ NamesOf(t, tfState[t]) \subseteq live[Backend(t)]
       /\ NamesOf(t, Pending(t) \cap Fixtures) \subseteq live[Backend(t)]

(* A test that passed has left nothing behind: no container of its own     *)
(* and, in a shared or reused LocalStack, none of its resources and        *)
(* fixtures (libtftest.go:348-386, fixtures/).                             *)
GreenLeavesNothing ==
  \A t \in Tests :
    process = "running" /\ pc[t] = "done" /\ ~failed[t]
    => /\ own[t] => containers[t] = "removed"
       /\ NamesOf(t, Resources \cup Fixtures) \cap live[Backend(t)] = {}

(* With PersistOnFailure the container of a failed test outlives the       *)
(* test, also when the failure is one of its own callbacks that ran        *)
(* before the stop callback (libtftest.go:353).                            *)
PersistKeepsContainer ==
  \A t \in Tests :
    process = "running" /\ pc[t] = "done" /\ own[t] /\ Persists(t)
    => containers[t] = "running"

(* When nothing outside goes wrong, the callbacks of a test that reached   *)
(* terraform init do not turn a pass into a failure: destroy and the       *)
(* fixtures' deletes run after tb.Context() is cancelled, so they need the *)
(* WithoutCancel context (libtftest.go:372, docs/examples/07).             *)
CleanupKeepsVerdict ==
  [][\A t \in Tests :
       pc[t] = "cleanup" /\ ~failed[t] /\ (inited[t] \/ ~work[t]) => ~failed'[t]]_vars

(* A container a test starts is gone by the time the binary exits, without *)
(* any help from Ryuk, unless the test failed with PersistOnFailure        *)
(* (docs/impl/0001:510: "rely solely on t.Cleanup").                       *)
ExitLeavesNoContainer ==
  process = "exited"
  => \A t \in Tests : containers[t] = "running" => Persists(t)

(* Every test whose body ended gets through all its callbacks.             *)
CleanupCompletes ==
  \A t \in Tests : pc[t] = "cleanup" ~> pc[t] = "done" \/ process # "running"

(* Container c is used by t from New's second half on until t's destroy    *)
(* and the deletes of its fixtures are through.                            *)
Uses(t, c) ==
  /\ process = "running"
  /\ \/ pc[t] \in {"setup", "body"}
     \/ Pending(t) \cap ({"destroy"} \cup Fixtures) # {}
  /\ c = stack[t] \/ (edge[t] # None /\ c = Backend(t))

LeaseOfContainers == INSTANCE Lease
  WITH Users <- Tests,
       state <- containers,
       users <- [c \in Containers |-> {t \in Tests : Uses(t, c)}]

(* Whichever of the three ways a test finds its container (Reuse, harness, *)
(* its own: libtftest.go:314), it uses the container only while it runs    *)
(* and nobody removes a container that a test still uses.                  *)
ContainersAreLeased == LeaseOfContainers!LeaseSpec

---------------------------------------------------------------------------
(* What the repository's documents say and the code does not do: each is   *)
(* the property of a run that expects a violation.                         *)

(* libtftest.go:388: a failed test leaves its debug artifacts.             *)
FailureLeavesArtifacts ==
  \A t \in Tests :
    process = "running" /\ pc[t] = "done" /\ failed[t] /\ edge[t] # None
    => artifacts[t] # "none"

============================================================================
