# libtftest in TLA+

libtftest is a Go library for testing Terraform modules against LocalStack: it
starts (or borrows) a LocalStack container per test, copies the module into a
scratch workspace, points Terraform and the AWS SDK at the container, seeds
fixtures, and takes everything down with `tb.Cleanup`. `harness.Run` shares one
container between the tests of a binary and can put sidecar proxies
(sneakystack) in front of it. What is hard in it is not computation but
*lifetimes*: callbacks in LIFO order, parallel tests on one container, calls
that fail half-way, contexts that are already cancelled, processes that die.
That is what these modules are about.

All paths are relative to the repository root.

## 1. Inventory

| Component | State | Operations | Interacts with | Hard behaviour | Correct when |
|---|---|---|---|---|---|
| `libtftest.go` TestCase | stack, ownStack, work, prefix, callbacks of `testing.T` | New, Plan, Apply, Output, AssertIdempotent*, cleanup | localstack, tf, harness, logx, Terraform | LIFO callbacks, failure inside New, PersistOnFailure read twice, `tb.Context()` cancelled in callbacks | callbacks have what they need; green leaves nothing; parallel tests do not undo each other; callbacks keep the verdict |
| `harness` | `shared`, `edgeURL`, list of started sidecars | Run, Current, EdgeURL, stopAll, PrefixWarning | localstack, Sidecar, `testing.M` | a sidecar failing with others up, startup context cancelled before stopAll, kill | container outlives tests and sidecars; exit code tells; nothing stays for ever |
| `fixtures/*` | one callback per seeded object | Seed*Context | TestCase's `testing.T`, LocalStack | a put that happened though its answer was lost; delete after the context ended | every object a green test seeded is deleted |
| `localstack` | the container | Start, Stop, ResolveImage, Env, health, edition, hooks | Docker, testcontainers, Ryuk | start that fails with a container left, a health answer that names some of the services | a container that was started is stopped; it is accepted when the services of the answer are up |
| `tf` | scratch tree, override files, plugin cache dir | NewWorkspace/copyTree, WriteOverrides, BuildOptions, PluginCacheDir | file system, Terraform | symlink cycles, shared plugin cache, a fixed list of services | the copy is the module; Terraform and the SDK call one URL |
| `internal/logx` | artifact files | DumpArtifact, ResolveArtifactDir | TestCase's dump callback | dump below a directory that is about to go | a failed test leaves its artifacts |
| `internal/naming` | none | Prefix | TestCase | 24-bit collision | parallel tests have different names, or are told |
| `internal/dockerx` | none | Ping | localstack.Start | none | – |
| `sneakystack` | store maps and lock, listener, requests in flight | Put/Get/List/Delete, ServeHTTP, Start/Stop/Healthy | harness, LocalStack, HTTP clients | overlapping calls, Start vs. the serving goroutine, Stop vs. requests in flight, WriteTimeout | calls are atomic, the URL works once returned, Stop leaves nobody behind |
| `cmd/sneakystack` | the same server, a signal goroutine | main | – | main returns while Shutdown drains | shutdown is graceful |
| `assert/snapshot` | the snapshot file | JSONStrict, JSONStructural, NormalizeJSON, Extract* | file system, later runs | parallel calls on one file, a run killed while writing | compare runs never write and pass only on a match; update runs stick |
| `assert/tags` | none | PropagatesFromRoot, diffTags | LocalStack | set comparison | every missing tag is reported |
| `assert/{s3,dynamodb,iam,lambda,ssm}` | none | one SDK call each | LocalStack, `testing.T` | RequirePro before the call, answers with holes | green exactly if AWS answered what is claimed |
| `awsx` | none | New, a constructor per client | the assertions and fixtures | – | not modelled: nothing calls New, the constructors only wrap the SDK's |
| `internal/testfake` | what was called on it | FakeTB's Errorf, Fatalf, Skip, Cleanup | unit tests of assertions and fixtures | its caller goes on where testing.T ends it | it shows the failures testing.T shows |
| `tools/docgen` | the IR file, `docs/feature-matrix.md` | scan, render, check | the source tree, other runs of itself | a tree edited while it is walked, an old IR, a pipe whose other end failed | rows are markers that were there; gates that were checked have a row |
| `cmd/libtftest`, scripts, images, workflows | – | – | – | build and release | not modelled |

`PROJECT.json` lists each of them with its status, and under `hazards` every
place in the code where one of these behaviours bites, with the properties that
watch it.

## 2. Modules

| Module | Models | Used by |
|---|---|---|
| `Runtime` | the process, the containers, what lives in them, `harness.shared`, the sidecars' listeners; crash and Ryuk | TestCase, Harness |
| `TestCase` | New, the body's calls, every callback, for parallel tests | Suite |
| `Lease` | abstract: a container is used only while it runs and removed only when unused | TestCase, Suite (refinement) |
| `Harness` | harness.Run and stopAll as one goroutine | Suite |
| `Suite` | Harness around TestCase: a whole test binary, with fairness | |
| `Store` | MapStore: two-level maps and the RWMutex, in the steps a missing lock would expose | Sneakystack |
| `AtomicStore` | abstract: each call takes effect at one instant between call and return | Store (refinement) |
| `Server` | listener, serving goroutine, requests in flight, Shutdown; sidecar and standalone | Sneakystack |
| `Sneakystack` | Proxy.ServeHTTP: requests through the server to a handler's store call or to LocalStack | |
| `LocalStack` | localstack.Start step by step: Ping, init hooks, Run and its health poll, endpoint; image, token and edition | OneTest |
| `Workspace` | NewWorkspace and copyTree over a tree with symbolic links, the override files | OneTest |
| `Assertions` | parsePlanChanges, AssertIdempotent, AssertIdempotentApply, tags.PropagatesFromRoot | OneTest, Probes, Extract |
| `Probes` | the assertions of assert/s3, dynamodb, iam, lambda, ssm on `testing.T` and on testfake.FakeTB | OneTest |
| `Extract` | ExtractIAMPolicies and ExtractResourceAttribute over the JSON of a plan | OneTest |
| `OneTest` | one test with all of the detail of these five; implements TestCase | |
| `Docgen` | tools/docgen: check, scan and render over a source tree that changes | |
| `Snapshot` | compareSnapshot and writeSnapshot on one file, over several runs | |
| `TestCaseProofs`, `CleanupProofs` | proofs about TestCase: what its callbacks have, what they leave | SuiteProofs |
| `SuiteProofs`, `SneakystackProofs`, `SnapshotProofs`, `DocgenProofs` | proofs about Suite; about Store, Server and Sneakystack; about Snapshot; about Docgen | |
| `WorkspaceProofs` | lemmas about trees, paths and walks, and the invariant of the copy | OneTestProofs |
| `OneTestProofs` | proofs about OneTest and the five modules it is made of | |
| `MCTestCase`, `MCSuite`, `MCSneakystack`, `MCSnapshot`, `MCOneTest`, `MCDocgen` | model values and option sets for TLC | |

### How state and actions correspond to the code

* **Runtime.** A container a test starts is identified with the test, so
  `containers` is indexed by tests, `SharedCtr` (harness.Run) and `ReusedCtr`
  (Options.Reuse). A URL is identified with what listens there. `LaunchFails`
  lets a container stay behind when `testcontainers.Run` fails after creating
  it: `localstack/container.go:138-141` drops that handle. `Reap` is Ryuk, which
  acts only when the process is gone, and not at all with `RyukEnabled = FALSE`.
* **TestCase.** `pc` is where a test function is. `New` is two steps:
  prefix and `resolveContainer` (minutes long), then everything to
  `registerCleanup`. Each call of the body is a step with a failing variant: the
  Fatal form ends the body, the E form may go on. `cleanups` is the callback
  stack of `testing.T`; "tempdir" is `TempDir`'s own removal, registered first
  by NewWorkspace. PersistOnFailure is evaluated by the stop and the destroy
  callback separately, each when it runs, as in the code. `ApplyFails` creates any part of the
  module and records it in the state file, unless `"killed"` (the context's
  deadline kills Terraform) is among the faults. Resource and fixture names carry
  the test's prefix only if the module takes it (`autoPrefix`).
* **Harness.** The startup context is cancelled before `m.Run`
  (`testmain.go:100`), so `StopContext` is FALSE in the stopAll after the tests
  and TRUE after a failed sidecar (`:86` passes Background). `Container.Stop`
  ignores its context. A sidecar in the process closes its listener whatever the
  context says; one outside (`Detached`) gives up. `unstopped` is what stopAll
  wrote an error about to the log.
* **Suite.** `PrefixWarning` is a step of a test's body because nothing else
  calls it: a body may or may not. Its check and set are one step, under
  `prefixMu`.
* **Store.** `MakeBucket`/`Put` and `ListOne`/`ListEnds` are the points where
  another goroutine could get in if the lock were not held. The filter of List
  is ignored, as in the code.
* **Server.** `Start` opens the listener; `Serve` is the goroutine getting to
  run (in `main`, the second half of ListenAndServe). Shutdown closes only a
  listener that Serve has taken over, as net/http does. `WriteTimeout` loses the
  answer but not the handler.
* **LocalStack.** `starting` is where Start is; `env` and `cfg` are what
  ResolveImage, Env and DetectEdition each read for themselves. `health` is what
  `/_localstack/health` would answer now: nothing, then any of the services, all
  "initializing" at first, then more of them, each on its own way. An answer without
  a service counts as ready, as in the code. `PollAccepts` is the wait strategy's
  matcher, and `accepted` the answer it took; `PollTimesOut` may come at any moment,
  as the context's end may. `CreateFails` and `PollTimesOut` are one error to Start
  (`container.go:139`), but only the second leaves a container.
* **Workspace.** `walks` is the Go stack of copyTree calls, each with what
  WalkDir still has to visit and its own `seen` map; `copy` is what has been
  written. Names are nodes, paths sequences of names, and `MaxPath` is the path
  length the file system refuses. `overrides` has the files written and the
  endpoint of each service of `Catalog`, the list in `override.go:18`.
* **Assertions.** `drift` is what a plan would show of every resource; an apply
  may change it to anything the module can show, so that drift which only a
  second apply brings up is a behaviour. Tag problems are pairs of resource and
  key in place of the text that names them. `looked` is the last call of an
  assertion or helper that keeps nothing: what it was asked, answered and told.
* **Probes.** An assertion is the sequence of calls it would make on `tb` if none
  ended it, with Errorf once per problem and "panic" where the code dereferences a
  nil pointer (`ssm.go:47`, the only place). `T` cuts the sequence at the first
  Fatalf, Skip or panic; `FakeTB` records all of it. The answers go over every
  pointer the assertions read and every value they distinguish.
* **Extract.** A string is told by what it is as JSON and by how it begins,
  which are the two things the code asks of it; a resource has one field that
  may hold a document.
* **Docgen.** A command is a walk: `Begins`, a `ReadsFile` per file in any order, and
  its end, with edits in between. `history` is the tree after each edit, so that what
  a command found can be compared with what there was; `since` and `upto` say between
  which edits its walk lay. A function has a file of its own, which may not parse, and
  an edit does not move it. Tags are a sequence: a marker may repeat one, and "pro,,pro"
  has an empty one. A file that `os.WriteFile` truncated and did not write is `Torn`.
* **OneTest.** `sdk` is the aws.Config that New builds with config.LoadDefaultConfig.
  `phase` follows New from line 84 to 130. The tree, the environment, the options, the
  module's plans and the answers to tag calls come from `Cases`. `TerraformCalls` is
  where the default aws provider calls a service: the override's endpoint, or `None`,
  wherever the provider finds it by itself. Its callbacks are not run: that is TestCase's part, which it refines
  (`NewIsAtomic`), with the container it starts counted from the moment
  `resolveContainer` has it.
* **Snapshot.** Documents are a JSON value and a layout; NormalizeJSON removes
  the layout. `os.WriteFile` is two steps, `Truncate` and `Write`; between them
  a parallel call finds `Torn`. A write over what another call has written since, and
  one that fails or dies half-way, may leave `Mixed`, which is taken not to be JSON.

## 3. Runs

| Run | Instance | Shows |
|---|---|---|
| `testcase_safety` | 2 tests, every way to find a container, Persist on and off, all faults but killed, a crash anywhere | callbacks have their backend, tests do not undo each other, green leaves nothing, Persist keeps the container; refines Lease |
| `testcase_quiet` | 2 tests with their own containers, 2 resources, 1 fixture, 1 message, no fault, no Ryuk | callbacks never turn a pass red; tb.Cleanup alone removes every container |
| `suite` | 2 tests that may draw one prefix, 2 sidecars (one asynchronous, one detached), failing starts, stops and applies, a kill anywhere, under fairness | the shared container outlives tests and sidecars; exit code 0 means all green, and what is left is in the log; PrefixWarning reports a collision; refines Lease; the run ends, callbacks complete, no container stays for ever |
| `sneakystack_sidecar` | 3 requests, each a store call or a forward, 1 kind, 2 ids | overlapping store calls are atomic; nobody is refused before Stop; Stop drains |
| `snapshot_files` | 2 parallel calls on one file, 2 texts in 2 layouts and a broken one, 2 runs, kill anywhere | compare runs are sound and read-only, green update runs stick |
| `onetest_detail` | 1 test; each environment and configuration, each way to find a container, each link structure over 3 directories, a file and 2 links, each plan of 2 resources, each health answer over 2 services, 1 of them in the catalog, each tag answer over 2 ARNs and 2 keys, each answer to a single call, plan files of 2 resources | image, token and edition agree; Start returns only on an answer whose services are past initializing, and cleans up after a failed endpoint; the copy is the module; Terraform and the SDK call the catalog's services at one URL; assertions say what is true, the extractions agree; refines TestCase |
| `docgen` | 2 functions of 11 shapes, 1 edit at any moment, files that do not parse, all commands in any order | the rows of a function are the markers it had when it was read; a gate that stays through the walks of check and scan has a row |
| `testcase_f_setupleak` | 1 test, setup fails | **violated**: New leaks its container |
| `testcase_f_artifacts` | 1 test | **violated**: artifacts vanish with the TempDir |
| `suite_f_routing` | 1 test, 1 sidecar | **violated**: traffic bypasses the sidecar |
| `sneakystack_f_graceful` | 1 request, standalone | **violated**: a signal cuts off a request |
| `onetest_f_cycle` | a directory with one link in it | **violated**: a cycle of links is not rejected, the copy fails |

Bounds. Two tests are enough for every pairwise interference, and no property
relates three; a third would only wait. One resource and one fixture suffice
where names are told apart by prefix; `testcase_quiet` has two resources. Two
sidecars are the least for which order matters. In `sneakystack_sidecar` three one-call requests give a Put, a Delete
and a List that overlap. Two runs of Snapshot are a cause and its effect: the
second finds whatever the first could leave, and the first may start with any
file. In `onetest_detail` a case varies one thing and leaves the rest plain
(`MCCases`), for nothing in New makes one of them depend on another: the copy
does not look at the environment, nor a plan at the tree. Two services, two
hooks, two links, two resources and two keys are the least for one to be done
and another not. `MaxPath` is 4, which is longer than any path through that
tree that does not go round a cycle, so only cycles meet it; for the real limit
of 4096 bytes the behaviour is the same and longer. Tag answers leave out
combinations of two odd entries. A plan file varies one resource and has an
`aws_iam_policy` beside it, good or bad, which is enough for one document to
spoil another's extraction. In `docgen` one edit, between two commands or two
files of one walk, is what makes a file stale; a second one would make it no
staler, and `MaxEdits` is 1. `MaxRuns`, `MaxPath` and `MaxEdits`
are the only bounds; `snapshot_files` is checked without
deadlock detection because the behaviour ends with the last run.
`UniquePrefixes` is TRUE but in `suite`: two tests that draw the same 24 bits do
undo each other (set it to FALSE and TLC violates `Undisturbed`), and no call of
New reports it. `CollisionsAreReported` shows that a body which calls
`harness.PrefixWarning` is told.

Fairness (`SuiteFairness`). Weak fairness of Run's own steps (one goroutine whose
calls return: Start has its three-minute context, Stop returns or fails), of each test's `Progress`: New, the
return of the body and the callbacks, which `go test` runs without being asked;
not of any single body call, nor of a failure; of m.Run's return once all tests
are done; and of Ryuk, where enabled, after the process. Nothing is assumed of
a detached sidecar.

## 4. Proofs

Every invariant, every action property and every refinement that a passing run
checks is proved here for every value of the constants, four of them under a
hypothesis that is named below. The two liveness properties
of `suite` are only model-checked (end of this section).

A theorem `Spec => []P` mostly has the same three parts: an inductive invariant
`Inv`, a lemma per kind of step that keeps it, and `Inv => P`. The invariants are
what a reader should look at; each says why its property holds.

### Hypotheses

The proofs use the modules' named ASSUMEs, which TLC evaluates in every run, and
nothing else about the constants. They say

* that constants of different kinds do not overlap (a container is not a
  sidecar; `Missing`, `Torn`, `Mixed` and `Undefined` are not payloads and not each other;
  a file is not a directory; `Nil` is not a health map);
* that a set whose size the code counts is finite (`Declared`, `Flags`);
* that inputs are of the shape the code's types give them (`CaseRecord`,
  `TagCall`: a key occurs once in an answer of GetResources; `Order` names every
  node once; a tag key asked for is not empty; a sidecar stands once in the list);
* that a test that names a sidecar in `EdgeURLOverride` runs in a binary whose
  `harness.Run` has published the container behind it (`CaseRecord`): the
  sidecars that are modelled are Run's.

Four theorems have a hypothesis of their own, because the code needs it too:

| Theorem | Hypothesis | Why |
|---|---|---|
| `NothingLeftAtExit` | `StopsWork`: no fault in start, setup or stop | `testcase_f_setupleak` shows the leak otherwise; a container that Docker does not stop stays |
| `VerdictKept` | Terraform, AWS and stop do not fail | a failing destroy is an Errorf; what is proved is that *nothing else* turns a green test red |
| `ParallelTestsApart` | `NamesApart`: prefixes unique, every module takes one | with a collision TLC violates `Undisturbed` (section 3, Bounds); `OwnContainerApart` and `CollisionsStayApart` need no hypothesis |
| `GreenIsClean` | `NamesApart`, and Terraform is not killed | a killed apply leaves resources out of the state file, so destroy cannot know them |

### TestCase (`TestCaseProofs`, `CleanupProofs`)

* `TypeCorrect`, and `Invariance`: `Spec => []IInv`. `CleanupHasItsBackend` is not
  inductive: it speaks of callbacks that are pending but not of the order they
  are in, so a stop could come next. `IInv` adds
  * `CallbacksOK`, the shape of the callback stack: the TempDir removal is at the
    bottom and nowhere else, a stop is right above it and only where the test owns
    its container, whatever is above needs the workspace, which is still there. So
    while a destroy or a fixture's delete is pending, neither stop nor TempDir
    removal has run;
  * `StackOK`, ownership: a test's container is its own exactly when the test
    started it, so no other test's stop touches it, and its edge URL is that
    container or a sidecar of the published one;
  * `OwnUp`: a test loses its own container to its own stop callback only, after
    everything but the TempDir removal, and not when it persists;
  * `EndpointsUp`: the reused container, the published one and the sidecars in
    front of it are up while the process runs.
* `CleanupBackend` and `PersistKeeps` follow from it, and so does `RefinesLease`,
  `Spec => ContainersAreLeased`: `Usage` says who uses what, and every step of a
  test is a step of one lease or of none.
* `NothingLeftAtExit`: `StopInv` says of every container that still runs that its
  stop is ahead or that its test persists, `Distinct` that a callback taken is
  gone, `ExitedLast` that the process does not exit before the last test.
* `ParallelTestsApart`, `OwnContainerApart`, `CollisionsStayApart`: `KeptAt` is
  `Undisturbed` for the whole time a destroy is pending, not only while it runs.
  It is kept for a test that has its own container or is `Alone`: no other test
  that has begun has names that begin the same way. A step of another test then
  only adds and deletes other names, and a test that is alone now has always been
  (`AloneBefore`), so nothing was taken from it earlier either. Where names are
  apart every test is alone (`ApartIsAlone`); where two tests collide, they alone
  pay for it.
* `GreenIsClean`: `Signed` (whatever exists bears the prefix of a test that New has
  set up) and `Traced` (what a test made and has not removed is in its state file
  with the destroy pending, or its fixture callback is).
* `VerdictKept`, an action property: with their backend there, callbacks fail only
  by the faults it excludes.

### Suite (`SuiteProofs`)

`SuiteInvariance`: `SuiteInv` takes `TestsInv` over and puts `HarnessOK` in the
place of `EndpointsUp`, whose containers now come and go with Run: from its
publication to the end of stopAll the shared container is up, and a sidecar that is
not down is one stopAll has yet to come to or could not stop. `VerdictOK` ties the
exit code to the tests, `PrefixesSeen` the seen prefixes to the tests that asked.
From it: `SuiteTypes`, `SharedForAll`, `SidecarsCovered`, `ExitCodeTrue`,
`CollisionsTold`, and `SuiteRefinesLease`.

### sneakystack (`SneakystackProofs`)

* Store: `StoreTypeCorrect`, `MutualExclusion`. `NoConcurrentMapWrite` does not
  mention the lock; `LockInv` says that whoever works on the maps holds it in its
  call's mode, that there is one writer at most and no reader beside it.
* `StoreRefinesAtomic`: `StoreSpec => StoreIsAtomic`. A List builds its result entry by
  entry; `Listed` says that what it has so far is an enumeration without
  repetition of ids that are there (`InOrder`), which stays true because it holds
  the lock. At its last step the enumeration is of all ids, which is
  AtomicStore's List at one instant.
* `ProxyInvariance` and its consequences: a step of the proxy is a step of the
  store or leaves it alone, so the above holds behind the server too
  (`ProxyMutualExclusion`, `ProxyStoreIsAtomic`). `ListenerOK` says where the listener
  is while Serve and Shutdown race; `NobodyTurnedAway` and `StopHasDrained` follow from
  it with `AnswersOK`, `LockIsReleased` from `CallsOK`.

### assert/snapshot (`SnapshotProofs`)

`GreenUpdateSticks` speaks of the end of a run. While calls truncate and write over
each other it rests on `UpdateInv`: among calls that agree an open file is torn
or already right, and a call that has passed sees it spoiled only while another
has it open, as long as nobody has failed or was killed (`SomeoneGaveUp`). `WritersKnow` keeps what did not parse out
of the file. Theorems: `SnapshotTypes`, `CompareIsSound`, `CompareLeavesFile` (an action
property: a compare run never changes the file), `UpdateSticks`, `StrictRecovers`.

### One test (`OneTestProofs`, `WorkspaceProofs`)

* `NewInvariance`: `StartInv` (what the container runs with is what the environment
  still says, and from "endpoint" on there is an accepted answer whose services have
  not gone back) and `RouteInv` (what New has decided at each phase, the endpoints of
  the override included). From it `EditionReal`, `StartReady`,
  `FailedStartLeavesNone` and `BodyRouted`.
* `AssertInvariance`: between a plan and the comparison nothing moves what the plan
  showed. With `CountsTellDrift` (three counts are zero exactly if no action
  creates, updates or deletes) it gives `VerdictTrue`.
* `GapsReported`, `ProbesTrue`, `ExtractsMatchAlways`: what was looked at stays until
  the next look, so each is a fact about one step: `GapsAreTold` about diffTags, one
  lemma per assertion about `T` and `FakeTB`, `ExtractsMatch` about the two extractions.
* `CopyAlwaysSound`, `CopyAlwaysComplete`: `CopyInv` says that every visit a walk has
  left is to a node that is at its path, that no two of them are to places one
  of which holds the other, and that no link whose target was seen is ahead, if no
  two links lead to one place. `CoverInv` says that every path of the source is
  copied or is below a visit that is left. A directory hands its paths to its
  entries, a link to the copyTree call of its target, and a link is never
  skipped because none of those ahead leads where one has led. The trees, the
  links and the length of paths are arbitrary, cycles of links included.
  `Lookup` and `SourcePaths` are recursive functions; that they meet their
  equations, and what they return, is shown with the least element of a set of
  natural numbers (`NatLeast`, `NatSetInduction`), which needs no theorem with an
  operator as a parameter.
* `DetailTypeCorrect`, the types of all of it.
* `NewImplementsTestCase`: `DetailSpec => NewIsAtomic`. `AtomInv` says what New has left of
  the test's variables at each phase; then every step either leaves TestCase's
  variables alone (`Stutters`: Start's polls, the walk, the assertions that change
  nothing) or is one of its steps: finding a container, starting one, failing to,
  the second half of New, a plan, an apply, a failure. `AtomicAssumptions` shows that
  TestCase's assumptions hold of the constants it is instantiated with.

### tools/docgen (`DocgenProofs`)

`DocgenInvariance`, `GatesListed` and `RowsThere`, for any functions, declarations and
number of edits, whenever in a walk they come. Neither property is inductive: they
speak of matrices, and a matrix comes of a walk, perhaps of long ago. `DocgenInv` says
of a walk that goes on that each function is still to be read or had, at some edit
since the walk began, the rows found for it (`HadRows`) or nothing for check to
complain of (`HadPassed`), and the same, over the whole of their walks, of the IR file,
of the matrix and of the last check that passed. An edit only appends to `history`, so
what was seen stays seen (`SeenStays`); no edit moves a file, so what a walk set out to
read is what it should (`HistoryOK`).

### Only model-checked

`SuiteEnds` and `CleanupCompletes`, the liveness properties of `suite`: they need
ENABLED and a well-founded argument under fairness, which the prover does not do. The runs that end
in a violation are counterexamples and need no proof.

## 5. Where the code and its documents disagree

Five have a run of their own (section 3) and an entry under `findings`. Others
were met on the way:

* The workspace is below `tb.TempDir()` (`tf/workspace.go:25`), which testing removes
  whatever PersistOnFailure says; DESIGN-0001:188 says it "keeps the container and
  scratch dir alive". The cause is the one `testcase_f_artifacts` shows.
* AllServicesReady ranges over the services the health answer names, so an answer with
  none of them, or with some, is ready (`health.go:30`), and `health_test.go:31-35`
  expects that; DESIGN-0001:532-533 has the waiter block "until every declared service is
  `running` or `available`". `StartedIsReady` says what Start can promise: the answer it
  accepted.
* The provider override has endpoints for the 21 services of a list (`override.go:18`),
  without ecs, rds, eks, apigateway and elbv2 for example; Terraform finds those
  wherever its provider does without libtftest. The comment above RenderProviderOverride
  says it "routes all AWS services". `BodyIsRouted` speaks of the list, `Catalog`.
* A stored snapshot that is not JSON makes JSONStructural fail in update mode too and is
  not rewritten (`snapshot.go:73`), whether it never was JSON, a killed run cut it off
  or a parallel call has just truncated it; `assert/snapshot/doc.go:24-26` says mismatched
  snapshots are overwritten and the test passes. JSONStrict does as the document says
  (`StrictUpdatePasses`).
* docgen's summary counts how often a tag is named (`render.go:63`): a marker "pro,pro"
  counts twice, two markers of one function do too. The comment above renderSummary
  speaks of "how many functions gate on each tag". `RowsWereThere` says what holds: the
  count of a tag that no marker repeats is that of its rows.
* The endpoints of the override are the default aws provider's. A provider with an
  alias that the module declares has none of them, nor the test credentials.
* DESIGN-0001:528-530 has startup fail fast when Edition is Pro and there is no token;
  Start runs the community image and reports it as "pro" (`edition.go:36`).
* Start does not look at a health endpoint again once it has accepted an answer: a
  service that breaks afterwards, or was not named, is the test's to find.
* ParameterHasValue panics on an answer without a parameter (`ssm.go:47`), which the
  SDK's type allows; the other assertions check the pointers they read.
* A scan of a tree that is edited meanwhile may mix two trees, and its IR does not
  say so.
* DetectEdition is given Config.Edition only and does not see Config.AuthToken,
  which hasAuthToken and Env do: with a token in the Config alone the single
  image would run as "community". New and `harness.Run`'s callers in the
  repository never set it, and `EditionIsReal` is checked for New.
* WriteInitHooks makes a directory that nothing removes.
* `localstack/container.go:138-141` drops a container created by a Run that failed
  (`LaunchFails`); only Ryuk removes it.
* Ryuk removes the container that PersistOnFailure kept as soon as the process
  ends.
* `harness/testmain.go:106` hands stopAll a context that line 100 has cancelled.
* Destroy after a test that never ran `terraform init` fails, so a test that
  only calls New goes red; a failing destroy is `Errorf`, where DESIGN-0001
  speaks of a warning and of a primary result that is preserved.
* The dump runs first, so it can show nothing of a failing destroy.
* `SeedMessageContext` registers no callback: messages stay in a shared container.
* Run never calls `Sidecar.Healthy`.
* A second link to a place a walk has seen is dropped without a word, cycle or
  not (`tf/workspace.go:70`): two modules that link one file get it once.
  `CopyIsComplete` leaves such trees out.
* Parallel `terraform init` share one plugin cache (`tf/options.go:70`).
* NormalizeJSON goes through float64, so integers beyond 2^53 that differ
  compare as equal.
* docs/examples/02-shared-container.md:76 has the harness emit a warning when a
  test does not use its prefix. `PrefixWarning` compares the prefixes it is given
  and never sees a resource's name; it is an Errorf; nothing but its own test
  calls it.
* `RequirePro` skips "when the running container is Community edition"
  (`libtftest.go:433`); it asks whether the environment has a token.
* `assert/snapshot/doc.go:15-17` says that what the extractions return is ready
  for JSONStructural; a `.managed:` entry is a bare ARN and fails there
  (`ExtractsAgree` leaves attachments out). Resources of child modules and
  documents that are not known before the apply have no entry, and no error.
* A document that is a JSON scalar is itself by ExtractIAMPolicies and a quoted
  string by ExtractResourceAttribute; one that is no JSON at all is an error of
  the first and a quoted string of the second, unless it begins like JSON.
* `fixtures/s3/s3_test.go:57-71` finds a cleanup registered after a put that
  failed. On `testing.T` there is none, for Fatalf ends the seed; the test shows
  FakeTB's going on (`testfake.go:60-63`).
* `tools/docgen/doc.go:4` speaks of "every function calling libtftest.RequirePro"
  and of gating CI. A renamed import, a function literal at package level and
  `_test.go` files escape `check` (`check.go:46, 83, 119-131`; `GatesAreListed`
  is about the rest), and no workflow runs it: `just ci` does.
* Nothing compares `docs/feature-matrix.md` with the tree, so it may be stale.
  With standard input neither a terminal nor a pipe with data, `render` without
  `-in` fails instead of scanning, whatever its usage says (`main.go:81, 148-154`).
* If the plugin cache directory cannot be made, the fallback directory is named
  but not made (`tf/options.go:101-104`); the comment above PluginCacheDir says it
  is created.

## 6. Not modelled

The text of overrides, logs and errors; providers with an alias; the body of a
fixture or request; `awsx`; edits that move a Go file while it is scanned;
Terraform, Docker and Ryuk beyond what the code relies on (marked external in the
map); the plugin cache directory, which is Terraform's to share;
FormatContainerInfo, ParseHealth and the accessors, which have no state;
`RegisterHandler`, which nothing calls; positions, sorting and escaping in
`tools/docgen`; the repository's automation.

## 7. Plan

Done: the modules and runs above, and proofs of all that the passing runs check
except liveness. What could come next is the safety half of `SuiteEnds`: a measure
that every step of Run, of a test and of Ryuk lowers, and that no state but a
final one has every step of them disabled, which would leave TLC the fairness
argument alone.
