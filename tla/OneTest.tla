------------------------------- MODULE OneTest -------------------------------
(***************************************************************************)
(* One test in detail: every step of libtftest.New, with localstack.Start  *)
(* and the copy of the module, and a body that uses the assertions built   *)
(* on Terraform's plans and on AWS.  TestCase has the same test with New   *)
(* in two steps, and its callbacks; this module implements it.             *)
(***************************************************************************)
EXTENDS LocalStack, Workspace, Probes, Extract

CONSTANTS
  Test,       \* the test, and the container it starts
  SharedCtr, ReusedCtr, Proxies, Prefixes, None,   \* as in Runtime, TestCase
  Cases       \* what the test is run on: each a CaseRecord

VARIABLES
  phase,      \* where New, and then the test, is
  opts,       \* TestCase.opts as far as New branches on it
  shared,     \* harness.Current()
  prefix, stack, own, edge, failed,  \* as in TestCase
  sdk,        \* TestCase.awsCfg, None before
  callbacks,  \* what tb.Cleanup holds
  inited,     \* terraform init has completed
  applied,    \* terraform apply has completed
  module      \* what the body meets: what plans can show, its tag assertions
              \* with GetResources' answers, other answers of AWS, plan files

oneVars   == <<phase, opts, shared, prefix, stack, own, edge, sdk, failed,
               callbacks, inited, applied, module>>
detailVars == <<localStackVars, workspaceVars, assertionVars, oneVars>>

(* GetResources answers with each key of a resource once.                  *)
TagCall(c) ==
  /\ c.baseline \in Baselines /\ c.arns \subseteq Arns
  /\ c.mappings \in [DOMAIN c.mappings -> SUBSET Tags]
  /\ \A arn \in DOMAIN c.mappings : \A t, u \in c.mappings[arn] : t.key = u.key => t = u

CaseRecord(c) ==
  /\ c.env \in Envs /\ c.cfg \in Configs /\ c.tree \in Trees
  /\ c.shared \in {None, SharedCtr} /\ c.reuse \in {None, ReusedCtr}
  /\ c.override \in Proxies \cup {None} /\ (c.override # None => c.shared # None)
  /\ c.shapes \subseteq Actions /\ c.plans \subseteq PlanFiles /\ c.probes \in BOOLEAN
  /\ \A call \in c.tagCalls : TagCall(call)

ASSUME OneTestAssumption ==
  /\ Test \notin {SharedCtr, ReusedCtr, None} /\ SharedCtr \notin {ReusedCtr, None}
  /\ ReusedCtr # None /\ None \notin Prefixes
  /\ {Test, SharedCtr, ReusedCtr, None} \cap Proxies = {}
  /\ Catalog \subseteq Services
  /\ \A c \in Cases : CaseRecord(c)

---------------------------------------------------------------------------
(* New never sets Config.AuthToken.                                        *)
DetailInit ==
  /\ \E c \in Cases :
       /\ env = c.env /\ cfg = [c.cfg EXCEPT !.authToken = FALSE] /\ tree = c.tree
       /\ shared = c.shared
       /\ opts = [reuse |-> c.reuse, persist |-> FALSE, override |-> c.override,
                  autoPrefix |-> TRUE]
       /\ module = [shapes |-> c.shapes, tagCalls |-> c.tagCalls, probes |-> c.probes,
                    plans |-> c.plans]
  /\ LocalStackInit /\ WorkspaceInit /\ AssertionsInit
  /\ phase = "idle"
  /\ prefix = None /\ stack = None /\ own = FALSE /\ edge = None /\ sdk = None
  /\ failed = FALSE /\ callbacks = <<>> /\ inited = FALSE /\ applied = FALSE

Moves(from, to) == phase = from /\ phase' = to

(* tb.Fatalf: the test function ends here.                                 *)
Fatalf == phase' = "cleanup" /\ failed' = TRUE

---------------------------------------------------------------------------
(* New: the prefix, then resolveContainer.                                 *)
DrawsPrefix == \E p \in Prefixes : prefix' = p

FindContainer ==
  /\ Moves("idle", "workspace")
  /\ DrawsPrefix
  /\ \/ opts.reuse # None /\ stack' = opts.reuse
     \/ opts.reuse = None /\ shared # None /\ stack' = shared
  /\ UNCHANGED <<opts, shared, own, edge, sdk, failed, callbacks, inited, applied, module>>
  /\ UNCHANGED <<localStackVars, workspaceVars, assertionVars>>

CallStart ==
  /\ Moves("idle", "starting")
  /\ DrawsPrefix
  /\ opts.reuse = None /\ shared = None
  /\ starting' = "ping"
  /\ UNCHANGED <<env, cfg, edition, hookDir, ctr, health, accepted, startErr>>
  /\ UNCHANGED <<opts, shared, stack, own, edge, sdk, failed, callbacks, inited, applied, module>>
  /\ UNCHANGED <<workspaceVars, assertionVars>>

StartGoesOn ==
  /\ phase = "starting"
  /\ Start
  /\ UNCHANGED <<workspaceVars, assertionVars, oneVars>>

(* The container lives on by itself.                                       *)
ContainerLives == Booting /\ UNCHANGED <<workspaceVars, assertionVars, oneVars>>

StartReturns ==
  /\ Moves("starting", "workspace")
  /\ starting = "started"
  /\ stack' = Test /\ own' = TRUE
  /\ UNCHANGED <<opts, shared, prefix, edge, sdk, failed, callbacks, inited, applied, module>>
  /\ UNCHANGED <<localStackVars, workspaceVars, assertionVars>>

StartReturnsError ==
  /\ phase = "starting"
  /\ starting = "failed"
  /\ Fatalf
  /\ UNCHANGED <<opts, shared, prefix, stack, own, edge, sdk, callbacks, inited, applied, module>>
  /\ UNCHANGED <<localStackVars, workspaceVars, assertionVars>>

---------------------------------------------------------------------------
(* New goes on: the edge URL, then NewWorkspace, whose tb.TempDir registers *)
(* the first callback.                                                     *)
CallNewWorkspace ==
  /\ Moves("workspace", "copying")
  /\ edge' = IF opts.override # None THEN opts.override ELSE stack
  /\ callbacks' = <<"tempdir">>
  /\ NewWorkspace
  /\ UNCHANGED <<opts, shared, prefix, stack, own, sdk, failed, inited, applied, module>>
  /\ UNCHANGED <<localStackVars, assertionVars>>

CopyGoesOn ==
  /\ phase = "copying"
  /\ CopyStep
  /\ UNCHANGED <<localStackVars, assertionVars, oneVars>>

(* Mutant: the provider override names the container, not the edge URL.    *)
WriteContainerURL ==
  /\ phase = "copying"
  /\ WriteProvider(stack)
  /\ UNCHANGED <<localStackVars, assertionVars, oneVars>>

WriteFirstOverride ==
  /\ phase = "copying"
  /\ WriteProvider(edge)
  /\ UNCHANGED <<localStackVars, assertionVars, oneVars>>

WriteSecondOverride ==
  /\ Moves("copying", "config")
  /\ WriteBackend
  /\ UNCHANGED <<opts, shared, prefix, stack, own, edge, sdk, failed, callbacks, inited,
                 applied, module>>
  /\ UNCHANGED <<localStackVars, assertionVars>>

(* New's aws.Config: an explicit endpoint for every service and static     *)
(* credentials, neither of which the environment or a profile overrides.   *)
AWSConfig(edgeURL) == [endpoint |-> edgeURL, credentials |-> "static"]

(* Mutant: the stop is registered last, so that it runs first.             *)
RegisterStopLast ==
  /\ Moves("config", "body")
  /\ sdk' = AWSConfig(edge)
  /\ callbacks' = callbacks \o <<"destroy", "dump">> \o (IF own THEN <<"stop">> ELSE <<>>)
  /\ UNCHANGED <<opts, shared, prefix, stack, own, edge, failed, inited, applied, module>>
  /\ UNCHANGED <<localStackVars, workspaceVars, assertionVars>>

(* config.LoadDefaultConfig, then registerCleanup.                         *)
LoadConfig ==
  /\ Moves("config", "body")
  /\ sdk' = AWSConfig(edge)
  /\ callbacks' = callbacks \o (IF own THEN <<"stop">> ELSE <<>>) \o <<"destroy", "dump">>
  /\ UNCHANGED <<opts, shared, prefix, stack, own, edge, failed, inited, applied, module>>
  /\ UNCHANGED <<localStackVars, workspaceVars, assertionVars>>

(* The copy, an override or the configuration failed.                      *)
SetUpFatal ==
  /\ \/ phase = "copying" /\ copying = "failed"
     \/ "io" \in CopyFaults /\ copying = "done" /\ phase \in {"copying", "config"}
  /\ Fatalf
  /\ UNCHANGED <<opts, shared, prefix, stack, own, edge, sdk, callbacks, inited, applied, module>>
  /\ UNCHANGED <<localStackVars, workspaceVars, assertionVars>>

---------------------------------------------------------------------------
(* The body.                                                               *)
RunsTerraform ==
  /\ phase = "body"
  /\ inited' = TRUE
  /\ UNCHANGED <<phase, opts, shared, prefix, stack, own, edge, sdk, failed, callbacks, module>>
  /\ UNCHANGED <<localStackVars, workspaceVars>>

Plans(from, to) == RunsTerraform /\ PlanFor(from, to) /\ UNCHANGED applied

Applies(from, to) ==
  /\ RunsTerraform
  /\ ApplyFor(from, to)
  /\ drift' \in [Declared -> module.shapes]
  /\ applied' = TRUE

PlanContext           == Plans("no", "no")
ApplyContext          == Applies("no", "no")
AssertIdempotent      == Plans("no", "plan")
AssertIdempotentApply == Plans("no", "first plan")
SecondApply           == Applies("apply", "second plan due")
SecondPlan            == Plans("second plan due", "second plan")

JudgePlan ==
  /\ phase = "body"
  /\ Judge
  /\ failed' = (failed \/ verdict' = "red")
  /\ UNCHANGED <<phase, opts, shared, prefix, stack, own, edge, sdk, callbacks, inited,
                 applied, module>>
  /\ UNCHANGED <<localStackVars, workspaceVars>>

(* A Terraform call fails: Fatalf, or an error the body goes on from if it *)
(* called an E form itself.                                                *)
TerraformFails ==
  /\ phase = "body"
  /\ asserting \in {"no", "apply", "second plan due"}
  /\ asserting' = "no" /\ verdict' = "none"
  /\ \E ok \in BOOLEAN : inited' = (inited \/ ok)
  /\ \/ Fatalf
     \/ asserting = "no" /\ UNCHANGED <<phase, failed>>
  /\ UNCHANGED <<drift, planned, looked>>
  /\ UNCHANGED <<opts, shared, prefix, stack, own, edge, sdk, callbacks, applied, module>>
  /\ UNCHANGED <<localStackVars, workspaceVars>>

CheckTags ==
  /\ phase = "body"
  /\ \E c \in module.tagCalls : AssertTags(c.baseline, c.arns, c.mappings)
  /\ failed' = (failed \/ verdict' = "red")
  /\ UNCHANGED <<phase, opts, shared, prefix, stack, own, edge, sdk, callbacks, inited,
                 applied, module>>
  /\ UNCHANGED <<localStackVars, workspaceVars>>

(* GetResources, which a call without a baseline or ARNs does not get to,  *)
(* has an error: nothing was compared, and the assertion says so.          *)
GetResourcesFails ==
  /\ phase = "body"
  /\ asserting = "no"
  /\ \E c \in module.tagCalls : DOMAIN c.baseline # {} /\ c.arns # {}
  /\ failed' = TRUE /\ verdict' = "none" /\ looked' = NoCall
  /\ UNCHANGED <<phase, opts, shared, prefix, stack, own, edge, sdk, callbacks, inited,
                 applied, module>>
  /\ UNCHANGED <<drift, planned, asserting, localStackVars, workspaceVars>>

(* An assertion on one answer, or a seed that fails: testing.T ends the     *)
(* test at the first Fatalf, Skip or panic, and runs its callbacks.        *)
LooksAtAWS ==
  /\ phase = "body"
  /\ module.probes
  /\ Probe(env.token) \/ SeedFails(env.token)
  /\ failed' = (failed \/ Failed(T(looked'.calls)))
  /\ phase' = IF Ends(T(looked'.calls)) THEN "cleanup" ELSE phase
  /\ UNCHANGED <<opts, shared, prefix, stack, own, edge, sdk, callbacks, inited, applied, module>>
  /\ UNCHANGED <<localStackVars, workspaceVars>>

(* A body takes documents out of the JSON of a plan it made.               *)
LooksAtPlan ==
  /\ phase = "body"
  /\ inited
  /\ \E plan \in module.plans : ExtractFrom(plan)
  /\ UNCHANGED <<localStackVars, workspaceVars, oneVars>>

(* The body returns, or RequirePro skips the rest of it.                   *)
Leaves ==
  /\ Moves("body", "cleanup")
  /\ asserting = "no"
  /\ UNCHANGED <<opts, shared, prefix, stack, own, edge, sdk, failed, callbacks, inited,
                 applied, module>>
  /\ UNCHANGED <<localStackVars, workspaceVars, assertionVars>>

RequirePro == ~env.token /\ Leaves
BodyReturns == Leaves

---------------------------------------------------------------------------
New ==
  \/ FindContainer \/ CallStart \/ StartGoesOn \/ StartReturns \/ StartReturnsError
  \/ CallNewWorkspace \/ CopyGoesOn \/ WriteFirstOverride \/ WriteSecondOverride
  \/ LoadConfig \/ SetUpFatal

Body ==
  \/ PlanContext \/ ApplyContext
  \/ AssertIdempotent \/ AssertIdempotentApply \/ SecondApply \/ SecondPlan
  \/ JudgePlan \/ TerraformFails \/ CheckTags \/ GetResourcesFails
  \/ LooksAtAWS \/ LooksAtPlan
  \/ RequirePro \/ BodyReturns

(* The callbacks are TestCase's.                                           *)
InCallbacks == phase = "cleanup" /\ UNCHANGED detailVars

DetailNext == New \/ ContainerLives \/ Body \/ InCallbacks

DetailSpec == DetailInit /\ [][DetailNext]_detailVars

---------------------------------------------------------------------------
(* Properties.                                                             *)

(* All of the detail keeps its shape.                                      *)
DetailTypeOK ==
  /\ LocalStackTypeOK /\ WorkspaceTypeOK /\ AssertionsTypeOK
  /\ phase \in {"idle", "starting", "workspace", "copying", "config", "body", "cleanup"}
  /\ prefix \in Prefixes \cup {None}
  /\ {stack, edge} \subseteq {Test, SharedCtr, ReusedCtr, None} \cup Proxies
  /\ {own, failed, inited, applied} \subseteq BOOLEAN

(* Where the calls of Terraform's default aws provider to a service go;    *)
(* None is wherever the provider finds the service without libtftest.      *)
TerraformCalls(s) ==
  IF s \in DOMAIN overrides.endpoints THEN overrides.endpoints[s] ELSE None

(* When Terraform runs, the whole module is in the workspace and both      *)
(* overrides are there: Terraform calls every service of the catalog at    *)
(* the URL that the SDK calls, a LocalStack's or a proxy's, so both see    *)
(* the same resources (libtftest.go:96-119, override.go:54-58).  It speaks *)
(* of no other service and of no provider with an alias: what the module   *)
(* does with those goes where the module sends it.                         *)
BodyIsRouted ==
  phase = "body" =>
    /\ copying = "done"
    /\ overrides.files = {"provider", "backend"}
    /\ \A s \in Catalog : TerraformCalls(s) = sdk.endpoint
    /\ sdk = [endpoint |-> edge, credentials |-> "static"]
    /\ edge # None

Containers == {Test, SharedCtr, ReusedCtr}

(* The state TestCase has while this module has its detail.                *)
Registered == "destroy" \in {callbacks[i] : i \in DOMAIN callbacks}

PC == CASE phase \in {"idle", "starting"} -> "idle"
        [] phase \in {"workspace", "copying", "config"} -> "setup"
        [] phase \in {"body", "cleanup"} -> phase

OwnContainer ==
  IF phase \in {"idle", "starting"} \/ ctr.state \notin {"running", "stuck"}
  THEN "absent" ELSE "running"

AtomicNew == INSTANCE TestCase WITH
  Tests <- {Test}, Sidecars <- Proxies, Detached <- {}, RyukEnabled <- TRUE,
  Resources <- Declared, Fixtures <- {}, Messages <- {}, UniquePrefixes <- TRUE,
  OptionSets <- [reuse : {None, ReusedCtr}, persist : {FALSE},
                 override : Proxies \cup {None}, autoPrefix : {TRUE}],
  ArtifactDirSet <- FALSE, Faults <- {"start", "setup", "terraform"},
  process <- "running",
  containers <- [c \in Containers |->
                   IF c = Test THEN OwnContainer
                   ELSE IF c \in {shared, ReusedCtr} THEN "running" ELSE "absent"],
  live <- [c \in Containers |->
             IF applied /\ c = (IF edge \in Proxies THEN SharedCtr ELSE edge)
             THEN {<<prefix, r>> : r \in Declared} ELSE {}],
  servers <- [s \in Proxies |-> IF shared = None THEN "down" ELSE "up"],
  pc <- [t \in {Test} |-> PC],
  opts <- [t \in {Test} |-> opts],
  prefix <- [t \in {Test} |-> IF PC = "idle" THEN None ELSE prefix],
  stack <- [t \in {Test} |-> stack],
  own <- [t \in {Test} |-> own],
  edge <- [t \in {Test} |-> IF Registered THEN edge ELSE None],
  work <- [t \in {Test} |-> Registered \/ (phase = "cleanup" /\ callbacks # <<>>)],
  inited <- [t \in {Test} |-> inited],
  tfState <- [t \in {Test} |-> IF applied THEN Declared ELSE {}],
  failed <- [t \in {Test} |-> failed],
  cleanups <- [t \in {Test} |-> IF PC = "setup" THEN <<>> ELSE callbacks],
  artifacts <- [t \in {Test} |-> "none"]

(* New and the assertions, step by step, do what TestCase says they do in  *)
(* one: a test finds its container by the same priority, fails in the same *)
(* states and registers its callbacks in the same order                    *)
(* (libtftest.go:69-132, 314-386).                                         *)
NewIsAtomic == AtomicNew!Spec
=============================================================================
