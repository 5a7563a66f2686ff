---------------------------- MODULE OneTestProofs ----------------------------
(***************************************************************************)
(* Proofs about one test in detail, for any services, hooks, module, plans *)
(* and answers of AWS: what localstack.Start promises of its container,    *)
(* what New promises to the body, that the workspace has the module, what  *)
(* the body's assertions say, and that all of it is what TestCase has in   *)
(* fewer steps.                                                            *)
(***************************************************************************)
EXTENDS OneTest, WorkspaceProofs, FiniteSetTheorems, SequenceTheorems, TLAPS

---------------------------------------------------------------------------
(* localstack.Start.  The three readings of the environment agree because  *)
(* they are made of the same two variables, which stay as they were while  *)
(* Start goes on: StartInv says what each step has left of them.           *)

(* The container that Run creates, and what Start has decided before it.   *)
Created    == [state |-> "running", image |-> ResolveImage, token |-> Env]
HooksThere == cfg.hooks # {} => hookDir = cfg.hooks
Booted     ==
  /\ accepted \in Healths /\ health \in Healths
  /\ \A s \in DOMAIN accepted : s \in DOMAIN health /\ health[s] # "initializing"

StartInv ==
  /\ cfg.authToken = FALSE
  /\ starting \in {"no", "ping"} => ctr = Absent
  /\ starting \in {"hooks", "run"} => ctr = Absent /\ edition = DetectEdition
  /\ starting \in {"polling", "endpoint", "started"} =>
       ctr = Created /\ edition = DetectEdition
  /\ starting = "run" => HooksThere
  /\ starting \in {"endpoint", "started"} => Booted
  /\ starting = "failed" =>
       \/ ctr \in {Absent, Removed}
       \/ ctr = [Created EXCEPT !.state = "stuck"]
       \/ ctr = Created /\ startErr = "run"
  /\ ctr.state = "running" => HooksThere

(* Nobody sets the configuration or the environment after the test began.  *)
ReadsSame == ResolveImage' = ResolveImage /\ Env' = Env /\ DetectEdition' = DetectEdition

(* A step of Start.                                                        *)
LEMMA StartKeeps ==
  ASSUME LocalStackTypeOK, StartInv, Start
  PROVE  LocalStackTypeOK' /\ StartInv'
<1>a. env' = env /\ cfg' = cfg
  BY DEF Start, Ping, PingFails, WriteHook, WriteHookFails, CreateContainer, CreateFails,
         PollAccepts, PollTimesOut, PortEndpoint, PortEndpointFails, Fails
<1>b. ReadsSame
  BY <1>a DEF ReadsSame, ResolveImage, hasAuthToken, Env, DetectEdition
<1>c. /\ ResolveImage \in {"custom", "single", "community"} /\ Env \in BOOLEAN
      /\ DetectEdition \in {"community", "pro"}
  BY DEF LocalStackTypeOK, ResolveImage, hasAuthToken, Env, DetectEdition, Envs, Configs
<1>d. Absent.state = "absent" /\ Created.state = "running" /\ Removed.state = "removed"
  BY DEF Absent, Created, Removed
<1> HIDE DEF Absent, Created, Removed
<1>1. CASE Ping
  BY <1>1, <1>a, <1>b, <1>c, <1>d
     DEF Ping, Goes, LocalStackTypeOK, StartInv, ReadsSame, HooksThere
<1>2. CASE PingFails \/ WriteHookFails
  BY <1>2, <1>a, <1>b, <1>d
     DEF PingFails, WriteHookFails, Fails, Goes, LocalStackTypeOK, StartInv, HooksThere
<1>3. ASSUME NEW h \in Hooks, WriteHook(h)
      PROVE  LocalStackTypeOK' /\ StartInv'
  <2>1. PICK written \in SUBSET Hooks :
          /\ h \in cfg.hooks \ written
          /\ hookDir' = written \cup {h}
          /\ starting' = IF hookDir' = cfg.hooks THEN "run" ELSE "hooks"
    <3>1. (IF hookDir = Nil THEN {} ELSE hookDir) \in SUBSET Hooks
      BY DEF LocalStackTypeOK
    <3> QED BY <3>1, <1>3 DEF WriteHook
  <2>2. LocalStackTypeOK'
    BY <2>1, <1>3, <1>a DEF WriteHook, LocalStackTypeOK
  <2>3. starting = "hooks" /\ ctr = Absent /\ edition = DetectEdition
    BY <1>3 DEF WriteHook, StartInv
  <2>4. StartInv'
    BY <2>1, <2>3, <1>3, <1>a, <1>b, <1>d DEF WriteHook, StartInv, ReadsSame, HooksThere
  <2> QED BY <2>2, <2>4
<1>4. CASE CreateContainer
  <2>1. ctr' = Created /\ ctr'.state = "running"
    BY <1>4, <1>d DEF CreateContainer, Created
  <2>2. Created' = Created
    BY <1>b DEF Created, ReadsSame
  <2>3. ctr' \in [state : {"absent", "running", "stuck", "removed"},
                  image : {Nil, "custom", "single", "community"}, token : BOOLEAN]
    BY <2>1, <1>c DEF Created
  <2>4. LocalStackTypeOK'
    BY <1>4, <1>a, <2>3 DEF CreateContainer, Goes, LocalStackTypeOK
  <2>5. StartInv'
    BY <1>4, <1>a, <1>b, <1>d, <2>1, <2>2
       DEF CreateContainer, Goes, StartInv, ReadsSame, HooksThere
  <2> QED BY <2>4, <2>5
<1>5. CASE CreateFails
  BY <1>5, <1>a, <1>b, <1>d
     DEF CreateFails, Fails, Goes, LocalStackTypeOK, StartInv, HooksThere
<1>6. CASE PollAccepts
  <2>1. Booted'
    BY <1>6 DEF PollAccepts, AllServicesReady, Booted, LocalStackTypeOK
  <2>2. Created' = Created
    BY <1>b DEF Created, ReadsSame
  <2> QED BY <1>6, <1>a, <1>b, <1>d, <2>1, <2>2
             DEF PollAccepts, Goes, LocalStackTypeOK, StartInv, ReadsSame, HooksThere, Booted
<1>7. CASE PollTimesOut
  <2>2. Created' = Created
    BY <1>b DEF Created, ReadsSame
  <2> QED BY <1>7, <1>a, <1>b, <1>d, <2>2
             DEF PollTimesOut, Fails, Goes, LocalStackTypeOK, StartInv, HooksThere
<1>8. CASE PortEndpoint
  <2>2. Created' = Created
    BY <1>b DEF Created, ReadsSame
  <2> QED BY <1>8, <1>a, <1>b, <1>d, <2>2
             DEF PortEndpoint, Goes, LocalStackTypeOK, StartInv, ReadsSame, HooksThere, Booted
<1>9. CASE PortEndpointFails
  <2>1. Created' = Created /\ ctr = Created
    BY <1>b, <1>9 DEF Created, ReadsSame, PortEndpointFails, Fails, Goes, StartInv
  <2>2. \/ ctr' = Removed /\ health' = Nil
        \/ ctr' = [Created EXCEPT !.state = "stuck"] /\ health' = health
    BY <1>9, <2>1 DEF PortEndpointFails
  <2>3. /\ starting' = "failed" /\ startErr' = "endpoint"
        /\ UNCHANGED <<edition, hookDir, accepted>>
    BY <1>9 DEF PortEndpointFails, Fails, Goes
  <2>4. [Created EXCEPT !.state = "stuck"].state = "stuck"
    BY DEF Created
  <2>5. ctr' \in [state : {"absent", "running", "stuck", "removed"},
                  image : {Nil, "custom", "single", "community"}, token : BOOLEAN]
    <3>1. CASE ctr' = Removed
      BY <3>1 DEF Removed
    <3>2. CASE ctr' = [Created EXCEPT !.state = "stuck"]
      <4>1. ctr' = [state |-> "stuck", image |-> ResolveImage, token |-> Env]
        BY <3>2 DEF Created
      <4> QED BY <4>1, <1>c
    <3> QED BY <2>2, <3>1, <3>2
  <2>6. LocalStackTypeOK'
    BY <2>2, <2>3, <2>5, <1>a DEF LocalStackTypeOK
  <2>7. StartInv'
    BY <2>1, <2>2, <2>3, <2>4, <1>a, <1>d DEF StartInv
  <2> QED BY <2>6, <2>7
<1> QED BY <1>1, <1>2, <1>3, <1>4, <1>5, <1>6, <1>7, <1>8, <1>9 DEF Start

(* A step of the container's own.                                          *)
LEMMA BootingKeeps ==
  ASSUME LocalStackTypeOK, StartInv, Booting
  PROVE  LocalStackTypeOK' /\ StartInv'
<1>a. UNCHANGED <<env, cfg, starting, edition, hookDir, ctr, accepted, startErr>>
  BY DEF Booting, Boots, ServiceAppears, ServiceMoves
<1>b. ReadsSame /\ Created' = Created
  BY <1>a DEF ReadsSame, ResolveImage, hasAuthToken, Env, DetectEdition, Created
<1>1. health' \in Healths
  <2>1. CASE Boots
    BY <2>1 DEF Boots, Statuses, Healths
  <2>2. ASSUME NEW s \in Services, ServiceAppears(s)
        PROVE  health' \in Healths
    <3>1. PICK S \in SUBSET Services : health \in [S -> Statuses]
      BY <2>2 DEF ServiceAppears, LocalStackTypeOK, Healths
    <3>2. health' \in [S \cup {s} -> Statuses]
      BY <2>2, <3>1 DEF ServiceAppears, Statuses
    <3> QED BY <3>2 DEF Healths
  <2>3. ASSUME NEW s \in Services, ServiceMoves(s)
        PROVE  health' \in Healths
    <3>1. PICK S \in SUBSET Services : health \in [S -> Statuses]
      BY <2>3 DEF ServiceMoves, LocalStackTypeOK, Healths
    <3>2. health' \in [S -> Statuses]
      BY <2>3, <3>1 DEF ServiceMoves, Statuses
    <3> QED BY <3>2 DEF Healths
  <2> QED BY <2>1, <2>2, <2>3 DEF Booting
<1>2. ASSUME Booted
      PROVE  Booted'
  <2>1. ~Boots
    BY <1>2, LocalStackAssumption DEF Booted, Boots
  <2>2. PICK s \in Services : ServiceAppears(s) \/ ServiceMoves(s)
    BY <2>1 DEF Booting
  <2>3. accepted' = accepted
    BY <1>a
  <2>4. ASSUME NEW x \in DOMAIN health
        PROVE  x \in DOMAIN health' /\ (health'[x] = "initializing" => health[x] = "initializing")
    BY <2>2 DEF ServiceAppears, ServiceMoves
  <2> QED BY <1>1, <1>2, <2>3, <2>4 DEF Booted
<1>3. LocalStackTypeOK'
  BY <1>a, <1>1 DEF LocalStackTypeOK
<1>4. StartInv'
  BY <1>a, <1>b, <1>2 DEF StartInv, ReadsSame, HooksThere
<1> QED BY <1>3, <1>4

---------------------------------------------------------------------------
(* New.  BodyIsRouted says where a test is once New has returned; RouteInv *)
(* says how far New has come, and that the URL it is about to write is the *)
(* one it has picked.                                                      *)

Unrouted     == [files |-> {}, endpoints |-> <<>>]
Routed(fs)   == [files |-> fs, endpoints |-> [s \in Catalog |-> edge]]
PickedURL    == IF opts.override # None THEN opts.override ELSE stack

OneTypeOK ==
  /\ opts \in [reuse : {None, ReusedCtr}, persist : {FALSE},
               override : Proxies \cup {None}, autoPrefix : {TRUE}]
  /\ shared \in {None, SharedCtr}
  /\ opts.override # None => shared # None
  /\ phase \in {"idle", "starting", "workspace", "copying", "config", "body", "cleanup"}
  /\ prefix \in Prefixes \cup {None}
  /\ {stack, edge} \subseteq {Test, SharedCtr, ReusedCtr, None} \cup Proxies
  /\ {own, failed, inited, applied} \subseteq BOOLEAN

RouteInv ==
  /\ phase = "idle" => starting = "no"
  /\ phase \in {"idle", "starting", "workspace"} => copying = "no" /\ overrides = Unrouted
  /\ phase \in {"workspace", "copying", "config", "body"} =>
       stack \in {Test, SharedCtr, ReusedCtr}
  /\ phase \in {"copying", "config", "body"} => edge = PickedURL
  /\ phase = "copying" => \/ overrides = Unrouted
                          \/ overrides = Routed({"provider"}) /\ copying = "done"
  /\ phase \in {"config", "body"} =>
       copying = "done" /\ overrides = Routed({"provider", "backend"})
  /\ phase = "body" => sdk = AWSConfig(edge)

NewInv == LocalStackTypeOK /\ StartInv /\ OneTypeOK /\ RouteInv

(* Before New.                                                             *)
LEMMA NewInitially ==
  ASSUME DetailInit
  PROVE  NewInv
<1>1. PICK c \in Cases :
        /\ env = c.env /\ cfg = [c.cfg EXCEPT !.authToken = FALSE]
        /\ shared = c.shared
        /\ opts = [reuse |-> c.reuse, persist |-> FALSE, override |-> c.override,
                   autoPrefix |-> TRUE]
  BY DEF DetailInit
<1>2. CaseRecord(c)
  BY OneTestAssumption
<1>3. env \in Envs /\ cfg \in Configs /\ cfg.authToken = FALSE
  <2>1. c.cfg \in Configs /\ c.env \in Envs
    BY <1>2 DEF CaseRecord
  <2> QED BY <1>1, <2>1 DEF Configs
<1>4. LocalStackInit /\ WorkspaceInit
  BY DEF DetailInit
<1>5. LocalStackTypeOK
  BY <1>3, <1>4 DEF LocalStackInit, LocalStackTypeOK, Absent
<1>6. StartInv
  BY <1>3, <1>4 DEF LocalStackInit, StartInv, Absent
<1>7. OneTypeOK
  BY <1>1, <1>2 DEF CaseRecord, DetailInit, OneTypeOK
<1>8. RouteInv
  BY <1>4 DEF DetailInit, LocalStackInit, WorkspaceInit, RouteInv, Unrouted
<1> QED BY <1>5, <1>6, <1>7, <1>8 DEF NewInv

(* A step of New or of the container.                                      *)
LEMMA NewKeeps ==
  ASSUME NewInv, New \/ ContainerLives
  PROVE  NewInv'
<1> USE DEF NewInv, Moves
<1>1. ASSUME UNCHANGED localStackVars
      PROVE  LocalStackTypeOK' /\ StartInv'
  BY <1>1 DEF localStackVars, LocalStackTypeOK, StartInv, HooksThere, Created, Booted,
              ResolveImage, hasAuthToken, Env, DetectEdition
<1>2. CASE FindContainer
  <2>1. OneTypeOK' /\ RouteInv'
    BY <1>2 DEF FindContainer, DrawsPrefix, OneTypeOK, RouteInv, workspaceVars, Unrouted
  <2> QED BY <1>1, <1>2, <2>1 DEF FindContainer
<1>3. CASE CallStart
  <2>1. /\ starting = "no" /\ starting' = "ping"
        /\ UNCHANGED <<env, cfg, edition, hookDir, ctr, health, accepted, startErr>>
    BY <1>3 DEF CallStart, RouteInv
  <2>2. LocalStackTypeOK' /\ StartInv'
    BY <2>1 DEF LocalStackTypeOK, StartInv, HooksThere, Created, Booted,
                ResolveImage, hasAuthToken, Env, DetectEdition
  <2>3. OneTypeOK' /\ RouteInv'
    BY <1>3 DEF CallStart, DrawsPrefix, OneTypeOK, RouteInv, workspaceVars, Unrouted
  <2> QED BY <2>2, <2>3
<1>4. ASSUME UNCHANGED <<workspaceVars, oneVars>>, phase # "idle"
      PROVE  OneTypeOK' /\ RouteInv'
  BY <1>4 DEF workspaceVars, oneVars, OneTypeOK, RouteInv, Unrouted, Routed, PickedURL
<1>5. CASE StartGoesOn
  BY <1>4, <1>5, StartKeeps DEF StartGoesOn
<1>6. CASE ContainerLives
  <2>1. LocalStackTypeOK' /\ StartInv'
    BY <1>6, BootingKeeps DEF ContainerLives
  <2>2. UNCHANGED starting
    BY <1>6 DEF ContainerLives, Booting, Boots, ServiceAppears, ServiceMoves
  <2>3. OneTypeOK' /\ RouteInv'
    BY <1>6, <2>2 DEF ContainerLives, workspaceVars, oneVars, OneTypeOK, RouteInv, Unrouted,
                      Routed, PickedURL
  <2> QED BY <2>1, <2>3
<1>7. CASE StartReturns
  <2>1. OneTypeOK' /\ RouteInv'
    BY <1>7 DEF StartReturns, OneTypeOK, RouteInv, workspaceVars, Unrouted
  <2> QED BY <1>1, <1>7, <2>1 DEF StartReturns
<1>8. CASE StartReturnsError \/ SetUpFatal
  <2>1. OneTypeOK' /\ RouteInv'
    BY <1>8 DEF StartReturnsError, SetUpFatal, Fatalf, OneTypeOK, RouteInv
  <2> QED BY <1>1, <1>8, <2>1 DEF StartReturnsError, SetUpFatal
<1>9. CASE CallNewWorkspace
  <2>1. /\ phase = "workspace" /\ phase' = "copying" /\ edge' = PickedURL
        /\ UNCHANGED <<opts, shared, prefix, stack, own, failed, inited, applied>>
        /\ UNCHANGED <<localStackVars, overrides>>
    BY <1>9 DEF CallNewWorkspace, NewWorkspace, PickedURL
  <2>2. PickedURL \in {Test, SharedCtr, ReusedCtr} \cup Proxies
    BY <2>1 DEF PickedURL, RouteInv, OneTypeOK
  <2>3. PickedURL' = PickedURL
    BY <2>1 DEF PickedURL
  <2>4. OneTypeOK'
    BY <2>1, <2>2 DEF OneTypeOK
  <2>5. RouteInv'
    BY <2>1, <2>3 DEF RouteInv, Unrouted
  <2> QED BY <1>1, <2>1, <2>4, <2>5
<1>10. CASE CopyGoesOn
  <2>1. /\ phase = "copying" /\ phase' = "copying" /\ overrides' = overrides
        /\ UNCHANGED <<oneVars, localStackVars>>
    BY <1>10 DEF CopyGoesOn, CopyStep, VisitDir, VisitFile, SkipSeen, FollowToFile,
                 FollowToDir, WalkEnds, CopyFails, Visits, oneVars
  <2>2. copying = "walking"
    BY <1>10 DEF CopyGoesOn, CopyStep, VisitDir, VisitFile, SkipSeen, FollowToFile,
                 FollowToDir, WalkEnds, CopyFails, Visits
  <2>3. OneTypeOK' /\ RouteInv'
    BY <2>1, <2>2 DEF oneVars, OneTypeOK, RouteInv, Unrouted, Routed, PickedURL
  <2> QED BY <1>1, <2>1, <2>3
<1>11. CASE WriteFirstOverride
  <2>1. /\ phase = "copying" /\ copying = "done" /\ copying' = copying
        /\ overrides' = Routed({"provider"})
        /\ UNCHANGED <<oneVars, localStackVars>>
    BY <1>11 DEF WriteFirstOverride, WriteProvider, Routed
  <2>2. OneTypeOK' /\ RouteInv'
    BY <2>1 DEF oneVars, OneTypeOK, RouteInv, Unrouted, Routed, PickedURL
  <2> QED BY <1>1, <2>1, <2>2
<1>12. CASE WriteSecondOverride
  <2>1. /\ phase = "copying" /\ phase' = "config" /\ copying' = copying
        /\ overrides.files = {"provider"}
        /\ overrides' = [overrides EXCEPT !.files = @ \cup {"backend"}]
        /\ UNCHANGED <<opts, shared, prefix, stack, own, edge, failed, inited, applied>>
        /\ UNCHANGED localStackVars
    BY <1>12 DEF WriteSecondOverride, WriteBackend
  <2>2. overrides = Routed({"provider"}) /\ copying = "done"
    BY <2>1 DEF RouteInv, Unrouted
  <2>3. overrides' = Routed({"provider", "backend"})
    BY <2>1, <2>2 DEF Routed
  <2>4. OneTypeOK' /\ RouteInv'
    BY <2>1, <2>2, <2>3 DEF OneTypeOK, RouteInv, Routed, PickedURL
  <2> QED BY <1>1, <2>1, <2>4
<1>13. CASE LoadConfig
  <2>1. OneTypeOK' /\ RouteInv'
    BY <1>13 DEF LoadConfig, workspaceVars, OneTypeOK, RouteInv, Routed, PickedURL, AWSConfig
  <2> QED BY <1>1, <1>13, <2>1 DEF LoadConfig
<1> QED BY <1>2, <1>3, <1>5, <1>6, <1>7, <1>8, <1>9, <1>10, <1>11, <1>12, <1>13 DEF New

(* What a step of the body, a callback or a stutter may do to a test.      *)
LEMMA BodyFrame ==
  ASSUME Body \/ InCallbacks \/ UNCHANGED detailVars
  PROVE  /\ UNCHANGED <<localStackVars, workspaceVars, opts, shared, prefix, stack, own, edge,
                       sdk, callbacks, module>>
         /\ phase' = phase \/ (phase = "body" /\ phase' = "cleanup")
<1>1. CASE InCallbacks \/ UNCHANGED detailVars
  BY <1>1 DEF InCallbacks, detailVars, oneVars
<1>2. CASE PlanContext \/ AssertIdempotent \/ AssertIdempotentApply \/ SecondPlan
  BY <1>2 DEF PlanContext, AssertIdempotent, AssertIdempotentApply, SecondPlan, Plans,
              RunsTerraform
<1>3. CASE ApplyContext \/ SecondApply
  BY <1>3 DEF ApplyContext, SecondApply, Applies, RunsTerraform
<1>4. CASE JudgePlan \/ CheckTags \/ GetResourcesFails
  BY <1>4 DEF JudgePlan, CheckTags, GetResourcesFails
<1>5. CASE TerraformFails
  BY <1>5 DEF TerraformFails, Fatalf
<1>6. CASE LooksAtAWS
  BY <1>6 DEF LooksAtAWS
<1>7. CASE LooksAtPlan
  BY <1>7 DEF LooksAtPlan, oneVars
<1>8. CASE RequirePro \/ BodyReturns
  BY <1>8 DEF RequirePro, BodyReturns, Leaves, Moves
<1> QED BY <1>1, <1>2, <1>3, <1>4, <1>5, <1>6, <1>7, <1>8 DEF Body

(* The booleans it may set.                                                *)
LEMMA BodyTypes ==
  ASSUME OneTypeOK, Body \/ InCallbacks \/ UNCHANGED detailVars
  PROVE  {own, failed, inited, applied}' \subseteq BOOLEAN
<1> USE DEF OneTypeOK
<1>1. CASE InCallbacks \/ UNCHANGED detailVars
  BY <1>1 DEF InCallbacks, detailVars, oneVars
<1>2. CASE PlanContext \/ AssertIdempotent \/ AssertIdempotentApply \/ SecondPlan
  BY <1>2 DEF PlanContext, AssertIdempotent, AssertIdempotentApply, SecondPlan, Plans,
              RunsTerraform
<1>3. CASE ApplyContext \/ SecondApply
  BY <1>3 DEF ApplyContext, SecondApply, Applies, RunsTerraform
<1>4. CASE JudgePlan \/ CheckTags \/ GetResourcesFails
  BY <1>4 DEF JudgePlan, CheckTags, GetResourcesFails
<1>5. CASE TerraformFails
  BY <1>5 DEF TerraformFails, Fatalf
<1>6. CASE LooksAtAWS
  <2>1. Failed(T(looked'.calls)) \in BOOLEAN
    BY DEF Failed, T, Left
  <2> QED BY <1>6, <2>1 DEF LooksAtAWS
<1>7. CASE LooksAtPlan
  BY <1>7 DEF LooksAtPlan, oneVars
<1>8. CASE RequirePro \/ BodyReturns
  BY <1>8 DEF RequirePro, BodyReturns, Leaves, Moves
<1> QED BY <1>1, <1>2, <1>3, <1>4, <1>5, <1>6, <1>7, <1>8 DEF Body

(* The body leaves what New has set up.                                    *)
LEMMA BodyKeepsNew ==
  ASSUME NewInv, Body \/ InCallbacks \/ UNCHANGED detailVars
  PROVE  NewInv'
<1>1. /\ UNCHANGED <<opts, shared, prefix, stack, own, edge, sdk>>
      /\ UNCHANGED localStackVars /\ UNCHANGED workspaceVars
      /\ phase' = phase \/ (phase = "body" /\ phase' = "cleanup")
  BY BodyFrame
<1>2. LocalStackTypeOK' /\ StartInv'
  BY <1>1 DEF NewInv, localStackVars, LocalStackTypeOK, StartInv, HooksThere, Created, Booted,
              ResolveImage, hasAuthToken, Env, DetectEdition
<1>3. OneTypeOK'
  BY <1>1, BodyTypes DEF NewInv, OneTypeOK
<1>4. RouteInv'
  BY <1>1 DEF NewInv, RouteInv, workspaceVars, localStackVars, Unrouted, Routed, PickedURL
<1> QED BY <1>2, <1>3, <1>4 DEF NewInv

(* The inductive invariant of New.                                         *)
THEOREM NewInvariance == DetailSpec => []NewInv
<1>1. DetailInit => NewInv
  BY NewInitially
<1>2. NewInv /\ [DetailNext]_detailVars => NewInv'
  BY NewKeeps, BodyKeepsNew DEF DetailNext
<1> QED BY <1>1, <1>2, PTL DEF DetailSpec

(* The image that needs a token runs with one, and the edition that is     *)
(* reported is the one that runs (container.go:53, 82; edition.go:36).     *)
THEOREM EditionReal == DetailSpec => []EditionIsReal
<1>1. NewInv => EditionIsReal
  <2> SUFFICES ASSUME NewInv
               PROVE  EditionIsReal
    OBVIOUS
  <2>1. ctr.state = "running" => ctr = Created
    <3>1. Absent.state = "absent" /\ Removed.state = "removed"
      BY DEF Absent, Removed
    <3>2. [Created EXCEPT !.state = "stuck"].state = "stuck"
      BY DEF Created
    <3> HIDE DEF Absent, Removed, Created
    <3> QED BY <3>1, <3>2 DEF NewInv, StartInv, LocalStackTypeOK
  <2>2. ResolveImage = "single" => Env
    BY DEF NewInv, LocalStackTypeOK, ResolveImage, hasAuthToken, Env, Envs, Configs
  <2>3. ctr.state = "running" /\ ctr.image = "single" => ctr.token
    BY <2>1, <2>2 DEF Created
  <2>4. ASSUME starting = "started", cfg.edition = "auto", ctr.image # "custom"
        PROVE  edition = "pro" <=> ctr.image = "single"
    <3>1. ctr.image = ResolveImage /\ edition = DetectEdition /\ cfg.authToken = FALSE
      BY <2>4 DEF NewInv, StartInv, Created
    <3>2. env.token \in BOOLEAN /\ env.image \in {Nil, "custom"} /\ cfg.image \in {Nil, "custom"}
      BY DEF NewInv, LocalStackTypeOK, Envs, Configs
    <3> QED BY <2>4, <3>1, <3>2 DEF ResolveImage, hasAuthToken, DetectEdition
  <2> QED BY <2>3, <2>4 DEF EditionIsReal
<1> QED BY <1>1, NewInvariance, PTL

(* Start returns a container whose health endpoint has answered, and every *)
(* service of the answer it returned on is past its initialization and     *)
(* stays so; it booted with every hook in place (container.go:102, 121;    *)
(* health.go:31).                                                          *)
THEOREM StartReady == DetailSpec => []StartedIsReady
<1>1. NewInv => StartedIsReady
  BY LocalStackAssumption DEF NewInv, StartInv, Booted, HooksThere, StartedIsReady
<1> QED BY <1>1, NewInvariance, PTL

(* A Start that fails after its Run has succeeded leaves no container that *)
(* Docker would have removed (container.go:143-146).                       *)
THEOREM FailedStartLeavesNone == DetailSpec => []FailedStartCleansUp
<1>1. NewInv => FailedStartCleansUp
  BY DEF NewInv, StartInv, FailedStartCleansUp, Absent, Removed, Created
<1> QED BY <1>1, NewInvariance, PTL

(* Terraform and the SDK clients of a body call every service of the       *)
(* catalog at the same URL, that of the LocalStack or proxy that New       *)
(* picked, whatever the catalog is (libtftest.go:96-119, override.go:54).  *)
THEOREM BodyRouted == DetailSpec => []BodyIsRouted
<1>1. NewInv => BodyIsRouted
  <2> SUFFICES ASSUME NewInv, phase = "body"
               PROVE  /\ copying = "done"
                      /\ overrides.files = {"provider", "backend"}
                      /\ \A s \in Catalog : TerraformCalls(s) = sdk.endpoint
                      /\ sdk = [endpoint |-> edge, credentials |-> "static"]
                      /\ edge # None
    BY DEF BodyIsRouted
  <2>1. /\ copying = "done" /\ overrides.files = {"provider", "backend"}
        /\ overrides.endpoints = [s \in Catalog |-> edge]
    BY DEF NewInv, RouteInv, Routed
  <2>2. sdk = [endpoint |-> edge, credentials |-> "static"]
    BY DEF NewInv, RouteInv, AWSConfig
  <2>4. \A s \in Catalog : TerraformCalls(s) = sdk.endpoint
    BY <2>1, <2>2 DEF TerraformCalls
  <2>3. edge # None
    BY OneTestAssumption DEF NewInv, RouteInv, OneTypeOK, PickedURL
  <2> QED BY <2>1, <2>2, <2>3, <2>4
<1> QED BY <1>1, NewInvariance, PTL

---------------------------------------------------------------------------
(* The idempotency assertions.  Between a plan and the comparison nothing  *)
(* moves what the plan has shown, so the verdict is about the module as it *)
(* is: AssertInv.                                                          *)

Drifting == Creates \cup Updates \cup Deletes \cup Replaces

AssertInv ==
  /\ AssertionsTypeOK
  /\ module.shapes \subseteq Actions
  /\ asserting \in {"plan", "first plan", "second plan"} => planned = ParsePlanChanges
  /\ VerdictIsTrue

(* A set of resources is counted, and by zero only if it is empty.         *)
LEMMA ShowingCounts ==
  ASSUME NEW shapes
  PROVE  /\ Showing(shapes) \in Nat
         /\ Showing(shapes) = 0 <=> \A r \in Declared : drift[r] \notin shapes
<1> DEFINE S == {r \in Declared : drift[r] \in shapes}
<1>1. IsFiniteSet(S)
  <2>1. S \subseteq Declared
    OBVIOUS
  <2> HIDE DEF S
  <2> QED BY <2>1, AssertionsAssumption, FS_Subset
<1>2. Cardinality(S) \in Nat /\ (Cardinality(S) = 0 <=> S = {})
  <2> HIDE DEF S
  <2> QED BY <1>1, FS_CardinalityType, FS_EmptySet
<1> QED BY <1>2 DEF Showing

(* The counts of a plan are zero exactly if no action of it creates,       *)
(* updates or deletes (parsePlanChanges counts a replacement twice, an     *)
(* unknown action nowhere: libtftest.go:288-312).                          *)
LEMMA CountsTellDrift ==
  ASSUME drift \in [Declared -> Actions]
  PROVE  /\ ParsePlanChanges \in [Add : Nat, Change : Nat, Destroy : Nat]
         /\ Changes(ParsePlanChanges) <=> Drifts
<1>1. /\ Showing(Creates \cup Replaces) \in Nat /\ Showing(Updates) \in Nat
      /\ Showing(Deletes \cup Replaces) \in Nat
  BY ShowingCounts
<1>2. Changes(ParsePlanChanges) <=> \E r \in Declared : drift[r] \in Drifting
  <2>1. Changes(ParsePlanChanges) <=> \/ Showing(Creates \cup Replaces) # 0
                                     \/ Showing(Updates) # 0
                                     \/ Showing(Deletes \cup Replaces) # 0
    BY <1>1 DEF ParsePlanChanges, Changes
  <2>2. /\ Showing(Creates \cup Replaces) = 0 <=>
             \A r \in Declared : drift[r] \notin Creates \cup Replaces
        /\ Showing(Updates) = 0 <=> \A r \in Declared : drift[r] \notin Updates
        /\ Showing(Deletes \cup Replaces) = 0 <=>
             \A r \in Declared : drift[r] \notin Deletes \cup Replaces
    BY ShowingCounts
  <2> QED BY <2>1, <2>2 DEF Drifting
<1>3. ASSUME NEW a \in Actions
      PROVE  a \in Drifting <=> \E i \in DOMAIN a : a[i] \in {"create", "update", "delete"}
  <2>1. CASE a = <<>>
    BY <2>1 DEF Drifting, Creates, Updates, Deletes, Replaces
  <2>2. CASE a \in {<<"no-op">>, <<"read">>, <<"forget">>}
    BY <2>2 DEF Drifting, Creates, Updates, Deletes, Replaces
  <2>3. CASE a \in Drifting
    BY <2>3 DEF Drifting, Creates, Updates, Deletes, Replaces
  <2> QED BY <2>1, <2>2, <2>3 DEF Actions, Drifting
<1>4. Drifts <=> \E r \in Declared : drift[r] \in Drifting
  BY <1>3 DEF Drifts
<1> QED BY <1>1, <1>2, <1>4 DEF ParsePlanChanges

(* What an assertion has looked at is not "nothing".                       *)
LEMMA LookedKinds ==
  /\ NoCall.kind = "none"
  /\ \A of, token, answer, calls : Looks(of, token, answer, calls) =>
       looked'.kind = "probe"
  /\ \A plan : ExtractFrom(plan) => looked'.kind = "extract"
  /\ \A b, a, m : AssertTags(b, a, m) => looked'.kind = "tags"
BY DEF NoCall, Looks, ExtractFrom, AssertTags

(* A seed that fails counts as a look at AWS.                              *)
LEMMA ProbeKind ==
  ASSUME NEW token, Probe(token) \/ SeedFails(token)
  PROVE  looked'.kind = "probe"
BY LookedKinds DEF Probe, SeedFails, CallError, S3Probe, DynamoDBProbe, IAMProbe,
                   LambdaProbe, SSMProbe, There, Answered

Looking == LooksAtAWS \/ LooksAtPlan \/ CheckTags

(* A step of the body that asserts on AWS or on a plan's JSON.             *)
LEMMA LookingFrame ==
  ASSUME AssertInv, Looking
  PROVE  /\ looked' # NoCall
         /\ UNCHANGED <<drift, planned, asserting, module>>
         /\ verdict' \in {"none", "green", "red"}
<1>1. CASE CheckTags
  <2>1. PICK c \in module.tagCalls : AssertTags(c.baseline, c.arns, c.mappings)
    BY <1>1 DEF CheckTags
  <2> QED BY <1>1, <2>1, LookedKinds DEF CheckTags, AssertTags
<1>2. CASE LooksAtPlan
  <2>1. PICK plan \in module.plans : ExtractFrom(plan)
    BY <1>2 DEF LooksAtPlan
  <2> QED BY <1>2, <2>1, LookedKinds DEF LooksAtPlan, ExtractFrom, oneVars
<1>3. CASE LooksAtAWS
  <2>1. \E of, token, answer, calls : Looks(of, token, answer, calls)
    BY <1>3 DEF LooksAtAWS, Probe, SeedFails, CallError, S3Probe, DynamoDBProbe, IAMProbe,
                LambdaProbe, SSMProbe, There, Answered
  <2> QED BY <1>3, <2>1, LookedKinds DEF LooksAtAWS, Looks
<1> QED BY <1>1, <1>2, <1>3 DEF Looking

(* A step of the test.                                                     *)
LEMMA AssertKeeps ==
  ASSUME AssertInv, [DetailNext]_detailVars
  PROVE  AssertInv'
<1> USE DEF AssertInv, AssertionsTypeOK, VerdictIsTrue
<1>0. /\ ParsePlanChanges \in [Add : Nat, Change : Nat, Destroy : Nat]
      /\ Changes(ParsePlanChanges) <=> Drifts
  BY CountsTellDrift
<1>s. ASSUME drift' = drift
      PROVE  ParsePlanChanges' = ParsePlanChanges /\ (Drifts' <=> Drifts)
  BY <1>s DEF ParsePlanChanges, Showing, Drifts
<1>u. ASSUME UNCHANGED assertionVars, module' = module
      PROVE  AssertInv'
  <2>1. UNCHANGED <<drift, planned, asserting, verdict, looked, module>>
    BY <1>u DEF assertionVars
  <2>2. ParsePlanChanges' = ParsePlanChanges /\ (Drifts' <=> Drifts)
    BY <2>1, <1>s
  <2> QED BY <2>1, <2>2
<1>1. CASE New \/ ContainerLives
  <2>1. UNCHANGED assertionVars /\ module' = module
    BY <1>1 DEF New, FindContainer, CallStart, StartGoesOn, StartReturns, StartReturnsError,
                CallNewWorkspace, CopyGoesOn, WriteFirstOverride, WriteSecondOverride,
                LoadConfig, SetUpFatal, ContainerLives, oneVars
  <2> QED BY <2>1, <1>u
<1>2. CASE InCallbacks \/ UNCHANGED detailVars
  <2>1. UNCHANGED assertionVars /\ module' = module
    BY <1>2 DEF InCallbacks, detailVars, oneVars
  <2> QED BY <2>1, <1>u
<1>3. ASSUME NEW from, NEW to \in {"no", "plan", "first plan", "second plan"}, Plans(from, to)
      PROVE  AssertInv'
  <2>1. /\ asserting' = to /\ planned' = ParsePlanChanges /\ verdict' = "none"
        /\ drift' = drift /\ module' = module
    BY <1>3 DEF Plans, RunsTerraform, PlanFor
  <2> QED BY <2>1, <1>0, <1>s
<1>4. ASSUME NEW from, NEW to \in {"no", "second plan due"}, Applies(from, to)
      PROVE  AssertInv'
  <2>1. /\ asserting' = to /\ planned' = planned /\ verdict' = "none"
        /\ drift' \in [Declared -> Actions] /\ module' = module
    BY <1>4 DEF Applies, RunsTerraform, ApplyFor
  <2> QED BY <2>1
<1>5. CASE JudgePlan
  <2>1. /\ planned = ParsePlanChanges
        /\ asserting' \in {"no", "apply"}
        /\ verdict' \in {"none", "green", "red"}
        /\ verdict' = "red" => Changes(planned)
        /\ verdict' = "green" => ~Changes(planned)
        /\ UNCHANGED <<drift, planned, looked, module>>
    BY <1>5 DEF JudgePlan, Judge
  <2>2. ParsePlanChanges' = ParsePlanChanges /\ (Drifts' <=> Drifts)
    BY <2>1, <1>s
  <2>3. (verdict' = "green" => ~Drifts') /\ (verdict' = "red" => Drifts')
    BY <2>1, <2>2, <1>0
  <2> QED BY <2>1, <2>2, <2>3
<1>6. CASE TerraformFails \/ GetResourcesFails
  <2>1. /\ asserting' \in {"no", asserting} /\ verdict' = "none"
        /\ UNCHANGED <<drift, planned, module>>
    BY <1>6 DEF TerraformFails, GetResourcesFails
  <2> QED BY <2>1, <1>s
<1>7. CASE Looking
  BY <1>7, <1>s, LookingFrame
<1>8. CASE RequirePro \/ BodyReturns
  <2>1. UNCHANGED assertionVars /\ module' = module
    BY <1>8 DEF RequirePro, BodyReturns, Leaves
  <2> QED BY <2>1, <1>u
<1> HIDE DEF AssertInv, AssertionsTypeOK, VerdictIsTrue
<1>9. CASE Body
  <2>1. CASE PlanContext \/ AssertIdempotent \/ AssertIdempotentApply \/ SecondPlan
    BY <1>3, <2>1 DEF PlanContext, AssertIdempotent, AssertIdempotentApply, SecondPlan
  <2>2. CASE ApplyContext \/ SecondApply
    BY <1>4, <2>2 DEF ApplyContext, SecondApply
  <2> QED BY <1>5, <1>6, <1>7, <1>8, <1>9, <2>1, <2>2 DEF Body, Looking
<1> QED BY <1>1, <1>2, <1>9 DEF DetailNext

(* The inductive invariant of the idempotency assertions.                  *)
THEOREM AssertInvariance == DetailSpec => []AssertInv
<1>1. DetailInit => AssertInv
  <2> SUFFICES ASSUME DetailInit
               PROVE  AssertInv
    OBVIOUS
  <2>1. PICK c \in Cases : module.shapes = c.shapes
    BY DEF DetailInit
  <2>2. module.shapes \subseteq Actions
    BY <2>1, OneTestAssumption DEF CaseRecord
  <2>3. AssertionsTypeOK /\ asserting = "no" /\ verdict = "none"
    BY DEF DetailInit, AssertionsInit, AssertionsTypeOK, NoChanges, Actions
  <2> QED BY <2>2, <2>3 DEF AssertInv, VerdictIsTrue
<1>2. AssertInv /\ [DetailNext]_detailVars => AssertInv'
  BY AssertKeeps
<1> QED BY <1>1, <1>2, PTL DEF DetailSpec

(* An idempotency assertion is green if the module as it stands has        *)
(* nothing left to create, change or destroy, and red if it has            *)
(* (libtftest.go:240-248, 264-272).                                        *)
THEOREM VerdictTrue == DetailSpec => []VerdictIsTrue
BY AssertInvariance, PTL DEF AssertInv

---------------------------------------------------------------------------
(* The workspace.  Only New's steps move it, and each is one of those that *)
(* WorkspaceProofs is about.                                               *)

(* A step of the test.                                                     *)
LEMMA CopyKeeps ==
  ASSUME CopyInv, [DetailNext]_detailVars
  PROVE  CopyInv' /\ (CoverInv => CoverInv')
<1>u. ASSUME UNCHANGED workspaceVars
      PROVE  CopyInv' /\ (CoverInv => CoverInv')
  <2>1. UNCHANGED <<tree, walks, copy, copying>> /\ overrides' = overrides
    BY <1>u DEF workspaceVars
  <2>2. Overriding(overrides')
    BY <2>1 DEF CopyInv
  <2> QED BY <2>1, <2>2, CopyRests
<1>1. CASE Body \/ InCallbacks \/ UNCHANGED detailVars
  BY <1>1, <1>u, BodyFrame
<1>2. CASE FindContainer \/ CallStart \/ StartGoesOn \/ StartReturns \/ StartReturnsError
           \/ LoadConfig \/ SetUpFatal \/ ContainerLives
  <2>1. UNCHANGED workspaceVars
    BY <1>2 DEF FindContainer, CallStart, StartGoesOn, StartReturns, StartReturnsError,
                LoadConfig, SetUpFatal, ContainerLives
  <2> QED BY <2>1, <1>u
<1>3. CASE CallNewWorkspace
  BY <1>3, NewWorkspaceKeeps DEF CallNewWorkspace
<1>4. CASE CopyGoesOn
  BY <1>4, CopyStepKeeps DEF CopyGoesOn
<1>5. CASE WriteFirstOverride \/ WriteSecondOverride
  BY <1>5, OverridesKeep DEF WriteFirstOverride, WriteSecondOverride
<1> QED BY <1>1, <1>2, <1>3, <1>4, <1>5 DEF DetailNext, New

(* The inductive invariant of the copy: every walk is where it should be,  *)
(* and what is not copied yet lies ahead of one of them                    *)
(* (workspace.go:36-114).                                                  *)
THEOREM CopyInvariance == DetailSpec => [](CopyInv /\ CoverInv)
<1>1. DetailInit => CopyInv /\ CoverInv
  <2> SUFFICES ASSUME DetailInit PROVE CopyInv /\ CoverInv
    OBVIOUS
  <2>1. WorkspaceInit /\ tree \in Trees
    BY OneTestAssumption DEF DetailInit, CaseRecord
  <2> QED BY <2>1, CopyInitially
<1>2. CopyInv /\ CoverInv /\ [DetailNext]_detailVars => CopyInv' /\ CoverInv'
  BY CopyKeeps
<1> QED BY <1>1, <1>2, PTL DEF DetailSpec

(* Whatever links the source has, rings of them too, nothing stands in the *)
(* workspace that the module does not have at that path                    *)
(* (workspace.go:32-35).                                                   *)
THEOREM CopyAlwaysSound == DetailSpec => []CopyIsSound
BY CopyInvariance, CopySound, PTL

(* A copy that succeeds is all of the module, its links replaced by what   *)
(* they lead to, if no two links lead to the same place                    *)
(* (workspace.go:36-114).                                                  *)
THEOREM CopyAlwaysComplete == DetailSpec => []CopyIsComplete
BY CopyInvariance, CopyComplete, PTL

(* All of the detail keeps its shape.                                      *)
THEOREM DetailTypeCorrect == DetailSpec => []DetailTypeOK
<1>1. NewInv /\ AssertInv /\ CopyInv => DetailTypeOK
  BY CopyTypes DEF NewInv, AssertInv, OneTypeOK, DetailTypeOK
<1> QED BY <1>1, NewInvariance, AssertInvariance, CopyInvariance, PTL

---------------------------------------------------------------------------
(* The assertions on one answer.  What they have looked at stays until the *)
(* next look, so each property is one of a single step (LookedAt).         *)

(* The test's case: the answers and plans its body meets.                  *)
CaseInv ==
  /\ \A call \in module.tagCalls : TagCall(call)
  /\ module.plans \subseteq PlanFiles
  /\ env.token \in BOOLEAN

(* Nothing the program does changes them.                                  *)
THEOREM CaseInvariance == DetailSpec => []CaseInv
<1>1. DetailInit => CaseInv
  <2> SUFFICES ASSUME DetailInit
               PROVE  CaseInv
    OBVIOUS
  <2>1. PICK c \in Cases : /\ env = c.env /\ module.tagCalls = c.tagCalls
                           /\ module.plans = c.plans
    BY DEF DetailInit
  <2>2. CaseRecord(c)
    BY OneTestAssumption
  <2> QED BY <2>1, <2>2 DEF CaseRecord, CaseInv, Envs
<1>2. CaseInv /\ [DetailNext]_detailVars => CaseInv'
  <2> SUFFICES ASSUME CaseInv, [DetailNext]_detailVars
               PROVE  UNCHANGED <<module, env>>
    BY DEF CaseInv, TagCall
  <2>1. CASE New \/ ContainerLives
    <3>1. module' = module
      BY <2>1 DEF New, FindContainer, CallStart, StartGoesOn, StartReturns, StartReturnsError,
                  CallNewWorkspace, CopyGoesOn, WriteFirstOverride, WriteSecondOverride,
                  LoadConfig, SetUpFatal, ContainerLives, oneVars
    <3>2. env' = env
      BY <2>1 DEF New, FindContainer, CallStart, StartGoesOn, StartReturns, StartReturnsError,
                  CallNewWorkspace, CopyGoesOn, WriteFirstOverride, WriteSecondOverride,
                  LoadConfig, SetUpFatal, ContainerLives, localStackVars,
                  Start, Ping, PingFails, WriteHook, WriteHookFails, CreateContainer,
                  CreateFails, PollAccepts, PollTimesOut, PortEndpoint, PortEndpointFails,
                  Fails, Booting, Boots, ServiceAppears, ServiceMoves
    <3> QED BY <3>1, <3>2
  <2>2. CASE Body \/ InCallbacks \/ UNCHANGED detailVars
    BY <2>2, BodyFrame DEF localStackVars
  <2> QED BY <2>1, <2>2 DEF DetailNext
<1> QED BY <1>1, <1>2, PTL DEF DetailSpec

(* A step that changes what was looked at last.                            *)
LEMMA LookedAt ==
  ASSUME [DetailNext]_detailVars
  PROVE  \/ looked' = looked \/ looked' = NoCall
         \/ \E c \in module.tagCalls : AssertTags(c.baseline, c.arns, c.mappings)
         \/ \E plan \in module.plans : ExtractFrom(plan)
         \/ Probe(env.token) \/ SeedFails(env.token)
<1>1. CASE New \/ ContainerLives
  BY <1>1 DEF New, FindContainer, CallStart, StartGoesOn, StartReturns, StartReturnsError,
              CallNewWorkspace, CopyGoesOn, WriteFirstOverride, WriteSecondOverride,
              LoadConfig, SetUpFatal, ContainerLives, assertionVars
<1>2. CASE InCallbacks \/ UNCHANGED detailVars
  BY <1>2 DEF InCallbacks, detailVars, assertionVars
<1>3. CASE Body
  <2>1. CASE PlanContext \/ AssertIdempotent \/ AssertIdempotentApply \/ SecondPlan
    BY <2>1 DEF PlanContext, AssertIdempotent, AssertIdempotentApply, SecondPlan, Plans, PlanFor
  <2>2. CASE ApplyContext \/ SecondApply
    BY <2>2 DEF ApplyContext, SecondApply, Applies, ApplyFor
  <2>3. CASE JudgePlan \/ TerraformFails \/ GetResourcesFails
    BY <2>3 DEF JudgePlan, Judge, TerraformFails, GetResourcesFails
  <2>4. CASE LooksAtAWS \/ LooksAtPlan \/ CheckTags
    BY <2>4 DEF LooksAtAWS, LooksAtPlan, CheckTags
  <2>5. CASE RequirePro \/ BodyReturns
    BY <2>5 DEF RequirePro, BodyReturns, Leaves, assertionVars
  <2> QED BY <1>3, <2>1, <2>2, <2>3, <2>4, <2>5 DEF Body
<1> QED BY <1>1, <1>2, <1>3 DEF DetailNext

(* diffTags tells a gap of a resource from a resource that is missing, and *)
(* finds each of them (tags.go:56-99).                                     *)
LEMMA GapsAreTold ==
  ASSUME NEW baseline, NEW arns, NEW mappings,
         TagCall([baseline |-> baseline, arns |-> arns, mappings |-> mappings]),
         NEW arn \in arns, NEW key \in DOMAIN baseline
  PROVE  Carries(mappings, arn, key, baseline[key])
         <=> PropagatesFromRoot(baseline, arns, mappings) \cap {<<arn>>, <<arn, key>>} = {}
<1> DEFINE got      == IndexByARN(mappings)
           gaps(a)  == {k \in DOMAIN baseline : k \notin DOMAIN got[a] \/ got[a][k] # baseline[k]}
           problems == PropagatesFromRoot(baseline, arns, mappings)
<1>1. /\ baseline \in Baselines /\ arns \subseteq Arns
      /\ mappings \in [DOMAIN mappings -> SUBSET Tags]
      /\ \A a \in DOMAIN mappings : \A t, u \in mappings[a] : t.key = u.key => t = u
  BY DEF TagCall
<1>2. arn # NoPtr /\ key # NoPtr
  <2>1. DOMAIN baseline \subseteq Keys
    BY <1>1 DEF Baselines
  <2> QED BY <1>1, <2>1, AssertionsAssumption
<1>3. DOMAIN got = DOMAIN mappings \ {NoPtr}
  BY DEF IndexByARN
<1>4. ASSUME arn \in DOMAIN mappings
      PROVE  /\ DOMAIN got[arn] = {t.key : t \in mappings[arn]} \ {NoPtr}
             /\ \A k \in DOMAIN got[arn] :
                  got[arn][k] = Text((CHOOSE t \in mappings[arn] : t.key = k).value)
  BY <1>2, <1>4 DEF IndexByARN
<1>5. Carries(mappings, arn, key, baseline[key])
      <=> arn \in DOMAIN got /\ key \notin gaps(arn)
  <2>1. CASE arn \notin DOMAIN mappings
    BY <2>1, <1>3 DEF Carries
  <2>2. CASE arn \in DOMAIN mappings
    <3>1. key \in DOMAIN got[arn] <=> \E t \in mappings[arn] : t.key = key
      BY <2>2, <1>2, <1>4
    <3>2. ASSUME NEW t \in mappings[arn], t.key = key
          PROVE  got[arn][key] = Text(t.value)
      <4>1. (CHOOSE u \in mappings[arn] : u.key = key) = t
        BY <3>2, <2>2, <1>1
      <4>2. key \in DOMAIN got[arn]
        BY <3>1, <3>2
      <4> QED BY <4>1, <4>2, <2>2, <1>4
    <3>3. key \notin gaps(arn) <=> key \in DOMAIN got[arn] /\ got[arn][key] = baseline[key]
      OBVIOUS
    <3> HIDE DEF got, gaps
    <3> QED BY <2>2, <1>2, <1>3, <3>1, <3>2, <3>3 DEF Carries
  <2> QED BY <2>1, <2>2
<1>6. problems = {<<a>> : a \in arns \ DOMAIN got} \cup
                   UNION {{<<a, k>> : k \in gaps(a)} : a \in arns \cap DOMAIN got}
  BY DEF PropagatesFromRoot, DiffTags
<1>7. <<arn>> \in problems <=> arn \notin DOMAIN got
  <2> HIDE DEF gaps, got, problems
  <2> QED BY <1>6
<1>8. <<arn, key>> \in problems <=> arn \in DOMAIN got /\ key \in gaps(arn)
  <2> HIDE DEF gaps, got, problems
  <2> QED BY <1>6
<1>9. problems \cap {<<arn>>, <<arn, key>>} = {} <=> <<arn>> \notin problems /\ <<arn, key>> \notin problems
  OBVIOUS
<1> HIDE DEF gaps, got, problems
<1> QED BY <1>5, <1>7, <1>8, <1>9 DEF problems

(* A tag assertion is green exactly if every resource carries every tag of *)
(* the baseline with its value, and a red one names every gap in one go    *)
(* (tags.go:16-31).                                                        *)
THEOREM GapsReported == DetailSpec => []EveryGapIsReported
<1>1. DetailInit => EveryGapIsReported
  BY LookedKinds DEF DetailInit, AssertionsInit, EveryGapIsReported
<1>2. CaseInv /\ EveryGapIsReported /\ [DetailNext]_detailVars => EveryGapIsReported'
  <2> SUFFICES ASSUME CaseInv, EveryGapIsReported, [DetailNext]_detailVars
               PROVE  EveryGapIsReported'
    OBVIOUS
  <2>1. CASE looked' = looked
    BY <2>1 DEF EveryGapIsReported
  <2>2. ASSUME NEW c \in module.tagCalls, AssertTags(c.baseline, c.arns, c.mappings)
        PROVE  EveryGapIsReported'
    <3>1. TagCall(c)
      BY DEF CaseInv
    <3>2. TagCall([baseline |-> c.baseline, arns |-> c.arns, mappings |-> c.mappings])
      BY <3>1 DEF TagCall
    <3>3. /\ looked'.baseline = c.baseline /\ looked'.arns = c.arns
          /\ looked'.mappings = c.mappings
          /\ looked'.problems = PropagatesFromRoot(c.baseline, c.arns, c.mappings)
      BY <2>2 DEF AssertTags
    <3> QED BY <3>2, <3>3, GapsAreTold DEF EveryGapIsReported
  <2>3. CASE looked'.kind \in {"none", "probe", "extract"}
    BY <2>3 DEF EveryGapIsReported
  <2> QED BY <2>1, <2>2, <2>3, LookedAt, LookedKinds, ProbeKind
<1> QED BY <1>1, <1>2, CaseInvariance, PTL DEF DetailSpec

(* The documents that the root module's plan knows.                        *)
Known(plan) ==
  {r \in Root(plan) : plan[r].type \in PolicyTypes /\ plan[r].doc \in Strings
     /\ (plan[r].type = "aws_iam_role_policy" => plan[r].name \in Strings \ {"empty"})}

(* A document is an error exactly if it is not JSON (extract.go).          *)
LEMMA OutcomesDiffer ==
  ASSUME NEW s
  PROVE  Normal(s) = Error <=> ~IsJSON(s)
BY DEF Normal, Error, Quoted, Bare

(* An ARN, and a value that is no document, never is.                      *)
LEMMA BareIsNoError ==
  ASSUME NEW s
  PROVE  Bare(s) # Error /\ Quoted(s) # Error /\ Quoted(s).form = "quoted"
BY DEF Error, Quoted, Bare

(* A resource's document has a slot exactly if it is known, and an         *)
(* attachment's ARN is returned as it is (extract.go:29-77).               *)
LEMMA SlotsAreKnown ==
  ASSUME NEW plan \in PlanFiles, NEW r \in Root(plan)
  PROVE  /\ r \in Known(plan) => HasSlot(plan[r]) /\ Slot(plan[r]) = Normal(plan[r].doc)
         /\ HasSlot(plan[r]) /\ Slot(plan[r]) = Error
            <=> r \in Known(plan) /\ ~IsJSON(plan[r].doc)
<1>1. plan[r] \in PlanResources
  BY DEF PlanFiles, Root
<1> DEFINE p == plan[r]
<1>2. p.type \in PolicyTypes \cup {Attachment, "other"}
  BY <1>1 DEF PlanResources
<1> HIDE DEF p
<1>3. HasSlot(p) /\ p.type # Attachment <=>
        /\ p.type \in PolicyTypes /\ p.doc \in Strings
        /\ p.type = "aws_iam_role_policy" => p.name \in Strings \ {"empty"}
  BY <1>2 DEF HasSlot, PolicyTypes, Attachment
<1>4. r \in Known(plan) <=> HasSlot(p) /\ p.type # Attachment
  BY <1>3 DEF Known, p
<1>5. p.type = Attachment => Slot(p) # Error
  BY BareIsNoError DEF Slot
<1>6. p.type # Attachment => Slot(p) = Normal(p.doc)
  BY DEF Slot
<1> QED BY <1>4, <1>5, <1>6, OutcomesDiffer DEF p

(* The two helpers on one plan.                                            *)
LEMMA ExtractsMatch ==
  ASSUME NEW plan \in PlanFiles, ExtractFrom(plan)
  PROVE  ExtractsAgree'
<1> DEFINE slots      == {r \in Root(plan) : HasSlot(plan[r])}
           policies   == ExtractIAMPolicies(plan)
           attribute(a) == ExtractResourceAttribute(plan, a[1], a[2])
<1>1. /\ looked'.plan = plan /\ looked'.policies = policies
      /\ looked'.attributes = [a \in Declared \X Paths |-> attribute(a)]
  BY DEF ExtractFrom
<1>2. [r \in slots |-> Slot(plan[r])] # Error
  <2>1. slots \subseteq Declared
    BY DEF Root
  <2>2. DOMAIN [r \in slots |-> Slot(plan[r])] = slots
    OBVIOUS
  <2>3. DOMAIN Error = {"error"}
    BY DEF Error
  <2> HIDE DEF slots
  <2> QED BY <2>1, <2>2, <2>3, ExtractAssumption
<1>3. policies = Error <=> \E r \in Known(plan) : ~IsJSON(plan[r].doc)
  <2>1. policies = Error <=> \E r \in slots : Slot(plan[r]) = Error
    BY <1>2 DEF ExtractIAMPolicies
  <2> QED BY <2>1, SlotsAreKnown DEF Known
<1>4. ASSUME policies # Error, NEW r \in Known(plan)
      PROVE  r \in DOMAIN policies /\ policies[r] = Normal(plan[r].doc)
  <2>1. policies = [s \in slots |-> Slot(plan[s])]
    BY <1>4 DEF ExtractIAMPolicies
  <2>2. r \in slots /\ Slot(plan[r]) = Normal(plan[r].doc)
    BY SlotsAreKnown DEF Known
  <2> HIDE DEF slots, policies
  <2> QED BY <2>1, <2>2
<1>5. ASSUME NEW r \in Known(plan), LooksLikeJSON(plan[r].doc)
      PROVE  attribute(<<r, <<"doc">>>>) = Normal(plan[r].doc)
  <2>1. r \in Root(plan) /\ plan[r].doc # "absent"
    BY DEF Known, Strings
  <2>2. Len(<<"doc">>) = 1
    OBVIOUS
  <2> QED BY <1>5, <2>1, <2>2 DEF ExtractResourceAttribute
<1>6. ASSUME NEW a \in Declared \X Paths, attribute(a) # Error
      PROVE  attribute(a).form # "bare"
  BY <1>6, BareIsNoError DEF ExtractResourceAttribute, Normal, Quoted
<1>7. \A r \in Known(plan) : <<r, <<"doc">>>> \in Declared \X Paths
  BY DEF Known, Root, Paths
<1> HIDE DEF slots, policies, attribute
<1>8. looked'.policies = Error <=> \E r \in Known(plan) : ~IsJSON(plan[r].doc)
  BY <1>1, <1>3
<1>9. looked'.policies # Error =>
        \A r \in Known(plan) : /\ r \in DOMAIN looked'.policies
                               /\ LooksLikeJSON(plan[r].doc)
                                  => looked'.policies[r] = looked'.attributes[<<r, <<"doc">>>>]
  <2> SUFFICES ASSUME policies # Error, NEW r \in Known(plan)
               PROVE  /\ r \in DOMAIN policies
                      /\ LooksLikeJSON(plan[r].doc)
                         => policies[r] = looked'.attributes[<<r, <<"doc">>>>]
    BY <1>1
  <2>1. looked'.attributes[<<r, <<"doc">>>>] = attribute(<<r, <<"doc">>>>)
    BY <1>1, <1>7
  <2> QED BY <2>1, <1>4, <1>5
<1>10. \A a \in DOMAIN looked'.attributes :
         looked'.attributes[a] # Error => looked'.attributes[a].form # "bare"
  BY <1>1, <1>6
<1>11. Known(plan) = {r \in Root(plan) : plan[r].type \in PolicyTypes /\ plan[r].doc \in Strings
          /\ (plan[r].type = "aws_iam_role_policy" => plan[r].name \in Strings \ {"empty"})}
  BY DEF Known
<1> QED BY <1>1, <1>8, <1>9, <1>10, <1>11 DEF ExtractsAgree

(* The two helpers that take policy documents out of a plan agree on it:   *)
(* neither leaves out or changes one the other returns                     *)
(* (extract.go:29-77, 85-128).                                             *)
THEOREM ExtractsMatchAlways == DetailSpec => []ExtractsAgree
<1>1. DetailInit => ExtractsAgree
  BY LookedKinds DEF DetailInit, AssertionsInit, ExtractsAgree
<1>2. CaseInv /\ ExtractsAgree /\ [DetailNext]_detailVars => ExtractsAgree'
  <2> SUFFICES ASSUME CaseInv, ExtractsAgree, [DetailNext]_detailVars
               PROVE  ExtractsAgree'
    OBVIOUS
  <2>1. CASE looked' = looked
    BY <2>1 DEF ExtractsAgree
  <2>2. ASSUME NEW plan \in module.plans, ExtractFrom(plan)
        PROVE  ExtractsAgree'
    BY <2>2, ExtractsMatch DEF CaseInv
  <2>3. CASE looked'.kind \in {"none", "probe", "tags"}
    BY <2>3 DEF ExtractsAgree
  <2> QED BY <2>1, <2>2, <2>3, LookedAt, LookedKinds, ProbeKind
<1> QED BY <1>1, <1>2, CaseInvariance, PTL DEF DetailSpec

---------------------------------------------------------------------------
(* The assertions of assert/s3, dynamodb, iam, lambda and ssm.             *)

(* What ProbeIsTrue says of one look.                                      *)
Sound(of, token, answer, calls) ==
  LET t == T(calls)  fake == FakeTB(calls)
      true == answer # <<>> /\ Claim(of, answer[1])
      noParameter == of = "ParameterHasValue" /\ answer = <<NoPtr>>
  IN  IF of = "Seed"
      THEN Ends(t) /\ Failed(t) /\ t.cleanups = 0 /\ Failed(fake) /\ fake.cleanups = 1
      ELSE IF of \in ProOnly /\ ~token
      THEN t.skipped /\ ~Failed(t) /\ fake.skipped
      ELSE (Ends(t) <=> noParameter) /\ (~Failed(t) <=> true) /\ fake = t

(* It is what was looked at, and nothing else, that ProbeIsTrue speaks of. *)
LEMMA LookIsTrue ==
  ASSUME NEW of, NEW token, NEW answer, NEW calls,
         Looks(of, token, answer, calls), Sound(of, token, answer, calls)
  PROVE  ProbeIsTrue'
<1>1. /\ looked'.of = of /\ looked'.token = token /\ looked'.answer = answer
      /\ looked'.calls = calls
  BY DEF Looks
<1> QED BY <1>1 DEF ProbeIsTrue, Sound

(* Errorf does not end the test: both kinds of tb get every one of them.   *)
LEMMA ErrorsAreSeen ==
  ASSUME NEW n \in Nat
  PROVE  LET tb == T(Errorfs(n))
         IN  /\ tb = FakeTB(Errorfs(n))
             /\ tb.errored <=> n > 0
             /\ ~tb.fatalled /\ ~tb.skipped /\ ~tb.panicked
<1> DEFINE calls == Errorfs(n)
<1>1. DOMAIN calls = 1 .. n /\ \A i \in 1 .. n : calls[i] = "Errorf"
  BY DEF Errorfs
<1> HIDE DEF calls
<1>2. Made(calls) = DOMAIN calls
  BY <1>1 DEF Made, Stops
<1>3. \A i \in DOMAIN calls : calls[i] \notin {"Fatalf", "Skip", "panic"}
  BY <1>1
<1>4. (\E i \in DOMAIN calls : calls[i] = "Errorf") <=> n > 0
  BY <1>1
<1> QED BY <1>2, <1>3, <1>4 DEF T, FakeTB, Left, calls

(* Skip ends it: testing.T gets nothing after it.                          *)
LEMMA SkipIsAll ==
  ASSUME NEW n \in Nat
  PROVE  LET calls == <<"Skip">> \o Errorfs(n)
         IN  /\ T(calls).skipped /\ ~T(calls).errored /\ ~T(calls).fatalled
             /\ ~T(calls).panicked
             /\ FakeTB(calls).skipped
<1> DEFINE calls == <<"Skip">> \o Errorfs(n)
<1>1. Errorfs(n) \in Seq({"Skip", "Errorf"}) /\ <<"Skip">> \in Seq({"Skip", "Errorf"})
  BY DEF Errorfs
<1>2. Len(<<"Skip">>) = 1 /\ <<"Skip">>[1] = "Skip" /\ Len(Errorfs(n)) = n
  BY DEF Errorfs
<1>3. calls \in Seq({"Skip", "Errorf"}) /\ Len(calls) = 1 + n /\ calls[1] = "Skip"
  BY <1>1, <1>2, ConcatProperties
<1> HIDE DEF calls
<1>4. DOMAIN calls = 1 .. (1 + n) /\ 1 \in DOMAIN calls
  BY <1>3
<1>5. Made(calls) = {1}
  BY <1>3, <1>4 DEF Made, Stops
<1> QED BY <1>3, <1>4, <1>5 DEF T, FakeTB, Left, calls

(* An assertion whose answer makes for n complaints.                       *)
LEMMA AnswersAreTrue ==
  ASSUME NEW of, of # "Seed", NEW token \in BOOLEAN, NEW answer, NEW n \in Nat,
         of = "ParameterHasValue" => answer # <<NoPtr>>,
         n = 0 <=> answer # <<>> /\ Claim(of, answer[1])
  PROVE  Sound(of, token, answer, Tells(of, token, Errorfs(n)))
<1>1. CASE of \in ProOnly /\ ~token
  <2>1. Tells(of, token, Errorfs(n)) = <<"Skip">> \o Errorfs(n)
    BY <1>1 DEF Tells
  <2> QED BY <1>1, <2>1, SkipIsAll DEF Sound, Failed
<1>2. CASE ~(of \in ProOnly /\ ~token)
  <2>1. Tells(of, token, Errorfs(n)) = <<>> \o Errorfs(n)
    BY <1>2 DEF Tells
  <2>2. Errorfs(n) \in Seq({"Errorf"})
    BY DEF Errorfs
  <2>3. Tells(of, token, Errorfs(n)) = Errorfs(n)
    BY <2>1, <2>2, ConcatEmptySeq
  <2>4. ~Failed(T(Errorfs(n))) <=> n = 0
    BY ErrorsAreSeen DEF Failed
  <2>5. ~Ends(T(Errorfs(n))) /\ FakeTB(Errorfs(n)) = T(Errorfs(n))
    BY ErrorsAreSeen DEF Ends
  <2> QED BY <1>2, <2>3, <2>4, <2>5 DEF Sound
<1> QED BY <1>1, <1>2

(* A fixture whose put failed.                                             *)
LEMMA SeedIsTrue ==
  ASSUME NEW token
  PROVE  Sound("Seed", token, <<>>, <<"Fatalf", "Cleanup">>)
<1> DEFINE calls == <<"Fatalf", "Cleanup">>
<1>1. DOMAIN calls = {1, 2} /\ calls[1] = "Fatalf" /\ calls[2] = "Cleanup"
  OBVIOUS
<1> HIDE DEF calls
<1>2. Made(calls) = {1}
  BY <1>1 DEF Made, Stops
<1>3. {i \in {1} : calls[i] = "Cleanup"} = {} /\ {i \in DOMAIN calls : calls[i] = "Cleanup"} = {2}
  BY <1>1
<1>4. Cardinality({}) = 0 /\ Cardinality({2}) = 1
  BY FS_EmptySet, FS_Singleton
<1>5. T(calls).fatalled /\ T(calls).cleanups = 0
  BY <1>1, <1>2, <1>3, <1>4 DEF T, Left
<1>6. FakeTB(calls).fatalled /\ FakeTB(calls).cleanups = 1
  BY <1>1, <1>3, <1>4 DEF FakeTB, Left
<1> QED BY <1>5, <1>6 DEF Sound, Ends, Failed, calls

(* GetParameter without a parameter.                                       *)
LEMMA PanicIsTold ==
  ASSUME NEW token,
         Looks("ParameterHasValue", token, <<NoPtr>>, Tells("ParameterHasValue", token, <<"panic">>))
  PROVE  ProbeIsTrue'
<1> DEFINE calls == <<"panic">>
<1>1. Tells("ParameterHasValue", token, calls) = calls
  <2>1. calls \in Seq({"panic"})
    OBVIOUS
  <2> QED BY <2>1, ConcatEmptySeq DEF Tells, ProOnly
<1>2. DOMAIN calls = {1} /\ calls[1] = "panic"
  OBVIOUS
<1> HIDE DEF calls
<1>3. Made(calls) = {1}
  BY <1>2 DEF Made, Stops
<1>4. T(calls) = FakeTB(calls)
  BY <1>2, <1>3 DEF T, FakeTB
<1>5. T(calls).panicked
  BY <1>2, <1>3 DEF T, Left
<1>6. ~Claim("ParameterHasValue", <<NoPtr>>[1])
  BY DEF Claim
<1>7. Sound("ParameterHasValue", token, <<NoPtr>>, calls)
  BY <1>4, <1>5, <1>6 DEF Sound, Ends, Failed, ProOnly
<1> QED BY <1>1, <1>7, LookIsTrue DEF calls

(* One complaint, or none, about an answer.                                *)
LEMMA ProblemIsTold ==
  ASSUME NEW of, of # "Seed", NEW token \in BOOLEAN, NEW answer, NEW bad \in BOOLEAN,
         of = "ParameterHasValue" => answer # NoPtr,
         ~bad <=> Claim(of, answer),
         Answered(of, token, answer, Problem(bad))
  PROVE  ProbeIsTrue'
<1>1. Problem(bad) \in Nat /\ (Problem(bad) = 0 <=> Claim(of, answer))
  BY DEF Problem
<1>2. <<answer>> # <<>> /\ <<answer>>[1] = answer /\ (<<answer>> = <<NoPtr>> => answer = NoPtr)
  OBVIOUS
<1>3. Sound(of, token, <<answer>>, Tells(of, token, Errorfs(Problem(bad))))
  BY <1>1, <1>2, AnswersAreTrue
<1> QED BY <1>3, LookIsTrue DEF Answered

(* The four checks of a bucket's settings, block by block and tag by tag.  *)
LEMMA BlockIsTold ==
  ASSUME NEW token \in BOOLEAN,
         NEW a \in {NoPtr} \cup [Flags -> BOOLEAN \cup {NoPtr}],
         Answered("BucketBlocksPublicAccess", token, a, BucketBlocksPublicAccess(a))
  PROVE  ProbeIsTrue'
<1> DEFINE off == {f \in Flags : a[f] # TRUE}
<1>1. IsFiniteSet(off) /\ Cardinality(off) \in Nat
  BY ProbesAssumption, FS_Subset, FS_CardinalityType
<1>2. Cardinality(off) = 0 <=> \A f \in Flags : a[f] = TRUE
  BY <1>1, FS_EmptySet
<1>3. BucketBlocksPublicAccess(a) = IF a = NoPtr THEN 1 ELSE Cardinality(off)
  BY DEF BucketBlocksPublicAccess
<1>4. /\ BucketBlocksPublicAccess(a) \in Nat
      /\ BucketBlocksPublicAccess(a) = 0 <=> Claim("BucketBlocksPublicAccess", a)
  BY <1>1, <1>2, <1>3 DEF Claim
<1>5. <<a>> # <<>> /\ <<a>>[1] = a
  OBVIOUS
<1>6. Sound("BucketBlocksPublicAccess", token, <<a>>,
            Tells("BucketBlocksPublicAccess", token, Errorfs(BucketBlocksPublicAccess(a))))
  BY <1>4, <1>5, AnswersAreTrue
<1> QED BY <1>6, LookIsTrue DEF Answered

(* The first tag with the key is the only one.                             *)
LEMMA TagIsTold ==
  ASSUME NEW token \in BOOLEAN, NEW n \in 0 .. 2, NEW a \in [1 .. n -> Tags],
         Len(a) = 2 => a[1].key # a[2].key,
         Answered("BucketHasTag", token, a, BucketHasTag(a))
  PROVE  ProbeIsTrue'
<1> DEFINE hits == {i \in DOMAIN a : Text(a[i].key) = Key}
<1> DEFINE bad == hits = {} \/ Text(a[Min(hits)].value) # Wanted
<1>1. DOMAIN a = 1 .. n /\ Len(a) = n
  BY LenProperties
<1>2. \A i \in DOMAIN a : Text(a[i].key) = Key <=> a[i].key = Key
  <2>1. Key \in Keys /\ Key # Empty /\ NoPtr \notin Keys
    BY ProbesAssumption, AssertionsAssumption
  <2> QED BY <2>1 DEF Text
<1>3. \A i, j \in hits : i = j
  BY <1>1, <1>2
<1>4. hits # {} => Min(hits) \in hits
  <2> SUFFICES ASSUME NEW i \in hits
               PROVE  Min(hits) \in hits
    OBVIOUS
  <2>1. \A j \in hits : i <= j
    BY <1>1, <1>3
  <2> QED BY <2>1 DEF Min
<1>5. bad \in BOOLEAN /\ (~bad <=> Claim("BucketHasTag", a))
  <2>1. Claim("BucketHasTag", a) <=>
        \E i \in DOMAIN a : a[i].key = Key /\ Text(a[i].value) = Wanted
    BY DEF Claim
  <2>2. (\E i \in DOMAIN a : a[i].key = Key /\ Text(a[i].value) = Wanted)
        <=> \E i \in hits : Text(a[i].value) = Wanted
    BY <1>2
  <2> HIDE DEF hits
  <2>3. ~bad <=> \E i \in hits : Text(a[i].value) = Wanted
    BY <1>3, <1>4
  <2> QED BY <2>1, <2>2, <2>3
<1>6. BucketHasTag(a) = Problem(bad)
  BY DEF BucketHasTag
<1> HIDE DEF bad
<1> QED BY <1>5, <1>6, ProblemIsTold

(* One step of the body that looks at AWS.                                 *)
LEMMA ProbesTell ==
  ASSUME CaseInv, Probe(env.token) \/ SeedFails(env.token)
  PROVE  ProbeIsTrue'
<1> DEFINE token == env.token
<1>t. token \in BOOLEAN
  BY DEF CaseInv
<1> HIDE DEF token
<1>1. CASE SeedFails(token)
  BY <1>1, SeedIsTrue, LookIsTrue DEF SeedFails
<1>2. CASE CallError(token)
  <2>1. PICK of : of # "Seed" /\ Looks(of, token, <<>>, Tells(of, token, Errorfs(1)))
    BY <1>2 DEF CallError, Existence, ProOnly
  <2>2. Sound(of, token, <<>>, Tells(of, token, Errorfs(1)))
    BY <1>t, <2>1, AnswersAreTrue
  <2> QED BY <2>1, <2>2, LookIsTrue
<1>3. ASSUME NEW of \in Existence \cup ProOnly, There(of, token)
      PROVE  ProbeIsTrue'
  <2>1. of \notin {"Seed", "ParameterHasValue"} /\ Claim(of, "there")
    BY DEF Existence, ProOnly, Claim
  <2>2. <<"there">> # <<>> /\ <<"there">>[1] = "there"
    OBVIOUS
  <2>3. Sound(of, token, <<"there">>, Tells(of, token, Errorfs(0)))
    BY <1>t, <2>1, <2>2, AnswersAreTrue
  <2> QED BY <1>3, <2>3, LookIsTrue DEF There, Answered
<1>4. CASE DynamoDBProbe(token) \/ LambdaProbe(token) \/ IAMProbe(token)
  BY <1>3, <1>4 DEF DynamoDBProbe, LambdaProbe, IAMProbe, Existence
<1>5. CASE SSMProbe(token)
  <2>1. ASSUME NEW a, a # NoPtr,
               Looks("ParameterHasValue", token, <<a>>,
                     Tells("ParameterHasValue", token, ParameterHasValue(a)))
        PROVE  ProbeIsTrue'
    <3>1. ~(Text(a.value) # Wanted) <=> Claim("ParameterHasValue", a)
      BY <2>1 DEF Claim
    <3>2. Answered("ParameterHasValue", token, a, Problem(Text(a.value) # Wanted))
      BY <2>1 DEF Answered, ParameterHasValue
    <3> QED BY <1>t, <2>1, <3>1, <3>2, ProblemIsTold
  <2>2. ASSUME Looks("ParameterHasValue", token, <<NoPtr>>,
                     Tells("ParameterHasValue", token, ParameterHasValue(NoPtr)))
        PROVE  ProbeIsTrue'
    BY <2>2, PanicIsTold DEF ParameterHasValue
  <2> QED BY <1>3, <1>5, <2>1, <2>2 DEF SSMProbe, Existence
<1>6. CASE S3Probe(token)
  <2>1. ASSUME NEW a, Answered("BucketHasEncryption", token, a, BucketHasEncryption(a))
        PROVE  ProbeIsTrue'
    <3>1. ~(a = NoPtr \/ Wanted \notin a) <=> Claim("BucketHasEncryption", a)
      BY DEF Claim
    <3> QED BY <1>t, <2>1, <3>1, ProblemIsTold DEF BucketHasEncryption
  <2>2. ASSUME NEW a, Answered("BucketHasVersioning", token, a, BucketHasVersioning(a))
        PROVE  ProbeIsTrue'
    <3>1. ~(a # "Enabled") <=> Claim("BucketHasVersioning", a)
      BY DEF Claim
    <3> QED BY <1>t, <2>2, <3>1, ProblemIsTold DEF BucketHasVersioning
  <2>3. ASSUME NEW a \in UNION {[1 .. n -> Tags] : n \in 0 .. 2},
               Len(a) = 2 => a[1].key # a[2].key,
               Answered("BucketHasTag", token, a, BucketHasTag(a))
        PROVE  ProbeIsTrue'
    BY <1>t, <2>3, TagIsTold
  <2> QED BY <1>3, <1>6, <1>t, <2>1, <2>2, <2>3, BlockIsTold DEF S3Probe, Existence
<1> QED BY <1>1, <1>2, <1>4, <1>5, <1>6 DEF Probe, token

(* After one of these assertions a test goes on green exactly if AWS       *)
(* answered as the assertion claims, an iam assertion without a Pro token  *)
(* skips, only GetParameter's answer without a parameter ends the test,    *)
(* and a FakeTB sees the same failures as testing.T (s3.go:35-158,         *)
(* ssm.go:34-50, iam.go:19 and 44, testfake.go:60-113).                    *)
THEOREM ProbesTrue == DetailSpec => []ProbeIsTrue
<1>1. DetailInit => ProbeIsTrue
  BY LookedKinds DEF DetailInit, AssertionsInit, ProbeIsTrue, Probed
<1>2. CaseInv /\ ProbeIsTrue /\ [DetailNext]_detailVars => ProbeIsTrue'
  <2> SUFFICES ASSUME CaseInv, ProbeIsTrue, [DetailNext]_detailVars
               PROVE  ProbeIsTrue'
    OBVIOUS
  <2>1. CASE looked' = looked
    BY <2>1 DEF ProbeIsTrue, Probed
  <2>2. CASE looked'.kind \in {"none", "tags", "extract"}
    BY <2>2 DEF ProbeIsTrue, Probed
  <2>3. CASE Probe(env.token) \/ SeedFails(env.token)
    BY <2>3, ProbesTell
  <2> QED BY <2>1, <2>2, <2>3, LookedAt, LookedKinds
<1> QED BY <1>1, <1>2, CaseInvariance, PTL DEF DetailSpec

---------------------------------------------------------------------------
(* NewIsAtomic.  What TestCase's variables are while this test is under    *)
(* way; PC, OwnContainer and Registered are OneTest's, and its mapping has *)
(* the same expressions.                                                   *)

Tempdir == Registered \/ (phase = "cleanup" /\ callbacks # <<>>)
Taken   == IF PC = "setup" THEN <<>> ELSE callbacks
Drawn   == IF PC = "idle" THEN None ELSE prefix
Routes  == IF Registered THEN edge ELSE None

(* What New has left of a test's own variables at each phase.              *)
AtomInv ==
  /\ phase # "idle" => prefix \in Prefixes
  /\ phase \in {"idle", "starting"} => stack = None /\ own = FALSE
  /\ phase \in {"idle", "starting", "workspace"} => callbacks = <<>>
  /\ phase \in {"copying", "config"} => callbacks = <<"tempdir">>
  /\ phase \notin {"body", "cleanup"} => inited = FALSE /\ applied = FALSE
  /\ phase = "starting" => opts.reuse = None /\ shared = None
  /\ phase \in {"workspace", "copying", "config", "body"} =>
       \/ own = TRUE /\ stack = Test /\ starting = "started"
       \/ own = FALSE /\ stack = ReusedCtr
       \/ own = FALSE /\ stack = SharedCtr /\ shared = SharedCtr
  /\ phase = "body" => Registered

(* A list of callbacks with others after it.                               *)
LEMMA Joined ==
  ASSUME NEW S, NEW X \in Seq(S), NEW Y \in Seq(S)
  PROVE  /\ X \o Y \in Seq(S) /\ Len(X \o Y) = Len(X) + Len(Y)
         /\ \A i \in 1 .. Len(X) : (X \o Y)[i] = X[i]
         /\ \A i \in 1 .. Len(Y) : (X \o Y)[Len(X) + i] = Y[i]
<1>1. DOMAIN X = 1 .. Len(X) /\ DOMAIN Y = 1 .. Len(Y)
  OBVIOUS
<1> QED BY <1>1, Joint

(* The callbacks that New registers, in the order TestCase has them in.    *)
LEMMA CallbacksMatch ==
  LET mine(o) == <<"tempdir">> \o (IF o THEN <<"stop">> ELSE <<>>) \o <<"destroy", "dump">>
  IN  /\ mine(TRUE) = <<"tempdir">> \o <<"stop", "destroy", "dump">>
      /\ mine(FALSE) = <<"tempdir">> \o <<"destroy", "dump">>
      /\ \A o \in BOOLEAN : \E i \in DOMAIN mine(o) : mine(o)[i] = "destroy"
<1> DEFINE S == {"tempdir", "stop", "destroy", "dump"}
<1> DEFINE A == <<"tempdir">>
           B == <<"stop">>
           C == <<"destroy", "dump">>
           D == <<"stop", "destroy", "dump">>
<1>1. /\ A \in Seq(S) /\ Len(A) = 1 /\ A[1] = "tempdir"
      /\ B \in Seq(S) /\ Len(B) = 1 /\ B[1] = "stop"
      /\ C \in Seq(S) /\ Len(C) = 2 /\ C[1] = "destroy" /\ C[2] = "dump"
      /\ D \in Seq(S) /\ Len(D) = 3 /\ D[1] = "stop" /\ D[2] = "destroy" /\ D[3] = "dump"
  OBVIOUS
<1> HIDE DEF A, B, C, D, S
<1>s. A \in Seq(S) /\ B \in Seq(S) /\ C \in Seq(S) /\ D \in Seq(S)
  BY <1>1
<1> DEFINE AB == A \o B
<1>2. AB \in Seq(S) /\ Len(AB) = 2 /\ AB[1] = "tempdir" /\ AB[2] = "stop"
  <2>1. /\ A \o B \in Seq(S) /\ Len(A \o B) = Len(A) + Len(B)
        /\ \A i \in 1 .. Len(A) : (A \o B)[i] = A[i]
        /\ \A i \in 1 .. Len(B) : (A \o B)[Len(A) + i] = B[i]
    BY <1>s, Joined
  <2>2. (A \o B)[1] = A[1] /\ (A \o B)[1 + 1] = B[1]
    BY <1>1, <2>1
  <2> QED BY <1>1, <2>1, <2>2
<1> HIDE DEF AB
<1>3. /\ AB \o C \in Seq(S) /\ Len(AB \o C) = 4
      /\ (AB \o C)[1] = "tempdir" /\ (AB \o C)[2] = "stop"
      /\ (AB \o C)[3] = "destroy" /\ (AB \o C)[4] = "dump"
  <2>1. /\ AB \o C \in Seq(S) /\ Len(AB \o C) = Len(AB) + Len(C)
        /\ \A i \in 1 .. Len(AB) : (AB \o C)[i] = AB[i]
        /\ \A i \in 1 .. Len(C) : (AB \o C)[Len(AB) + i] = C[i]
    <3>1. AB \in Seq(S)
      BY <1>2
    <3> QED BY <1>s, <3>1, Joined
  <2>2. /\ (AB \o C)[1] = AB[1] /\ (AB \o C)[2] = AB[2]
        /\ (AB \o C)[2 + 1] = C[1] /\ (AB \o C)[2 + 2] = C[2]
    BY <1>1, <1>2, <2>1
  <2> QED BY <1>1, <1>2, <2>1, <2>2
<1>4. /\ A \o D \in Seq(S) /\ Len(A \o D) = 4
      /\ (A \o D)[1] = "tempdir" /\ (A \o D)[2] = "stop"
      /\ (A \o D)[3] = "destroy" /\ (A \o D)[4] = "dump"
  <2>1. /\ A \o D \in Seq(S) /\ Len(A \o D) = Len(A) + Len(D)
        /\ \A i \in 1 .. Len(A) : (A \o D)[i] = A[i]
        /\ \A i \in 1 .. Len(D) : (A \o D)[Len(A) + i] = D[i]
    BY <1>s, Joined
  <2>2. /\ (A \o D)[1] = A[1] /\ (A \o D)[1 + 1] = D[1]
        /\ (A \o D)[1 + 2] = D[2] /\ (A \o D)[1 + 3] = D[3]
    BY <1>1, <2>1
  <2> QED BY <1>1, <2>1, <2>2
<1>5. A \o C \in Seq(S) /\ Len(A \o C) = 3 /\ (A \o C)[2] = "destroy"
  <2>1. /\ A \o C \in Seq(S) /\ Len(A \o C) = Len(A) + Len(C)
        /\ \A i \in 1 .. Len(C) : (A \o C)[Len(A) + i] = C[i]
    BY <1>s, Joined
  <2>2. (A \o C)[1 + 1] = C[1]
    BY <1>1, <2>1
  <2> QED BY <1>1, <2>1, <2>2
<1>6. AB \o C = A \o D
  <2>1. \A i \in 1 .. 4 : i = 1 \/ i = 2 \/ i = 3 \/ i = 4
    OBVIOUS
  <2>2. \A i \in 1 .. 4 : (AB \o C)[i] = (A \o D)[i]
    BY <1>3, <1>4, <2>1
  <2> QED BY <1>3, <1>4, <2>2, SeqEqual
<1>7. A \o <<>> = A
  BY <1>1, ConcatEmptySeq
<1>8. 3 \in DOMAIN (AB \o C) /\ 2 \in DOMAIN (A \o C)
  BY <1>3, <1>5
<1> QED BY <1>3, <1>5, <1>6, <1>7, <1>8 DEF A, B, C, D, AB

(* PC, phase by phase.                                                     *)
LEMMA PCs ==
  ASSUME OneTypeOK
  PROVE  /\ phase \in {"idle", "starting"} => PC = "idle"
         /\ phase \in {"workspace", "copying", "config"} => PC = "setup"
         /\ phase = "body" => PC = "body"
         /\ phase = "cleanup" => PC = "cleanup"
BY DEF PC, OneTypeOK

(* A test before New.                                                      *)
LEMMA AtomInitially == DetailInit => AtomInv
BY DEF DetailInit, AtomInv, LocalStackInit

(* A step of the test.                                                     *)
LEMMA AtomKeeps ==
  ASSUME NewInv, AtomInv, [DetailNext]_detailVars
  PROVE  AtomInv'
<1> USE DEF AtomInv, Moves
<1>0. OneTypeOK
  BY DEF NewInv
<1>1. CASE FindContainer
  BY <1>0, <1>1, OneTestAssumption DEF FindContainer, DrawsPrefix, OneTypeOK, Registered
<1>2. CASE CallStart
  BY <1>2 DEF CallStart, DrawsPrefix
<1>3. CASE StartGoesOn
  BY <1>3 DEF StartGoesOn, oneVars
<1>4. CASE ContainerLives
  <2>1. UNCHANGED <<phase, opts, shared, prefix, stack, own, callbacks, inited, applied, starting>>
    BY <1>4 DEF ContainerLives, oneVars, Booting, Boots, ServiceAppears,
              ServiceMoves
  <2> QED BY <2>1 DEF Registered
<1>5. CASE StartReturns
  BY <1>5 DEF StartReturns, localStackVars
<1>6. CASE StartReturnsError \/ SetUpFatal
  BY <1>6 DEF StartReturnsError, SetUpFatal, Fatalf
<1>7. CASE CallNewWorkspace
  BY <1>7 DEF CallNewWorkspace, localStackVars
<1>8. CASE CopyGoesOn \/ WriteFirstOverride
  BY <1>8 DEF CopyGoesOn, WriteFirstOverride, oneVars, localStackVars
<1>9. CASE WriteSecondOverride
  BY <1>9 DEF WriteSecondOverride, localStackVars
<1>10. CASE LoadConfig
  <2>1. Registered'
    BY <1>0, <1>10, CallbacksMatch DEF LoadConfig, Registered, OneTypeOK
  <2> QED BY <1>10, <2>1 DEF LoadConfig, localStackVars
<1>11. CASE Body \/ InCallbacks \/ UNCHANGED detailVars
  <2>1. /\ UNCHANGED <<localStackVars, opts, shared, prefix, stack, own, callbacks>>
        /\ phase' = phase \/ (phase = "body" /\ phase' = "cleanup")
    BY <1>11, BodyFrame
  <2>2. phase \in {"body", "cleanup"} \/ UNCHANGED <<inited, applied>>
    BY <1>11 DEF Body, InCallbacks, detailVars, oneVars, PlanContext, ApplyContext,
       AssertIdempotent, AssertIdempotentApply, SecondApply, SecondPlan, JudgePlan,
       TerraformFails, CheckTags, GetResourcesFails, LooksAtAWS, LooksAtPlan, RequirePro,
       BodyReturns, Leaves, Plans, Applies, RunsTerraform
  <2> QED BY <2>1, <2>2 DEF localStackVars, Registered
<1> QED BY <1>1, <1>2, <1>3, <1>4, <1>5, <1>6, <1>7, <1>8, <1>9, <1>10, <1>11
        DEF DetailNext, New

(* A step that TestCase does not tell from no step at all.                 *)
LEMMA Stutters ==
  ASSUME UNCHANGED <<opts, shared, stack, own, failed, inited, applied>>,
         PC' = PC, OwnContainer' = OwnContainer, Registered' <=> Registered,
         Tempdir' <=> Tempdir, Taken' = Taken, Drawn' = Drawn, Routes' = Routes,
         applied => edge' = edge /\ prefix' = prefix
  PROVE  UNCHANGED AtomicNew!vars
<1>1. [t \in {Test} |-> PC]' = [t \in {Test} |-> PC]
  OBVIOUS
<1>2. [c \in Containers |-> IF c = Test THEN OwnContainer
                            ELSE IF c \in {shared, ReusedCtr} THEN "running" ELSE "absent"]'
      = [c \in Containers |-> IF c = Test THEN OwnContainer
                              ELSE IF c \in {shared, ReusedCtr} THEN "running" ELSE "absent"]
  BY DEF Containers
<1>3. [c \in Containers |->
             IF applied /\ c = (IF edge \in Proxies THEN SharedCtr ELSE edge)
             THEN {<<prefix, r>> : r \in Declared} ELSE {}]'
      = [c \in Containers |->
             IF applied /\ c = (IF edge \in Proxies THEN SharedCtr ELSE edge)
             THEN {<<prefix, r>> : r \in Declared} ELSE {}]
  BY DEF Containers
<1>4. [t \in {Test} |-> IF PC = "idle" THEN None ELSE prefix]'
      = [t \in {Test} |-> IF PC = "idle" THEN None ELSE prefix]
  BY DEF Drawn
<1>5. [t \in {Test} |-> IF Registered THEN edge ELSE None]'
      = [t \in {Test} |-> IF Registered THEN edge ELSE None]
  BY DEF Routes
<1>6. [t \in {Test} |-> Registered \/ (phase = "cleanup" /\ callbacks # <<>>)]'
      = [t \in {Test} |-> Registered \/ (phase = "cleanup" /\ callbacks # <<>>)]
  <2>1. (Registered \/ (phase = "cleanup" /\ callbacks # <<>>))'
        = (Registered \/ (phase = "cleanup" /\ callbacks # <<>>))
    BY Zenon DEF Tempdir
  <2> QED BY <2>1
<1>7. [t \in {Test} |-> IF PC = "setup" THEN <<>> ELSE callbacks]'
      = [t \in {Test} |-> IF PC = "setup" THEN <<>> ELSE callbacks]
  BY DEF Taken
<1> QED
  BY <1>1, <1>2, <1>3, <1>4, <1>5, <1>6, <1>7 DEF AtomicNew!vars, AtomicNew!runtimeVars, AtomicNew!testVars

(* TestCase's containers and what lives in them.                           *)
Running == [c \in Containers |-> IF c = Test THEN OwnContainer
                                 ELSE IF c \in {shared, ReusedCtr} THEN "running" ELSE "absent"]
Living  == [c \in Containers |->
              IF applied /\ c = (IF edge \in Proxies THEN SharedCtr ELSE edge)
              THEN {<<prefix, r>> : r \in Declared} ELSE {}]

(* The first half of New, whatever it does for a container.                *)
LEMMA NewIsCalled ==
  ASSUME PC = "idle", Drawn' \in Prefixes, UNCHANGED <<opts, shared, inited, applied>>,
         Routes' = Routes, Tempdir' <=> Tempdir, Taken' = Taken
  PROVE  AtomicNew!CallsNew(Test)
<1>1. Drawn' \in AtomicNew!FreshPrefixes
  BY OneTestAssumption DEF AtomicNew!FreshPrefixes
<1>2. [t \in {Test} |-> Drawn'] = [[t \in {Test} |-> Drawn] EXCEPT ![Test] = Drawn']
  OBVIOUS
<1>3. [t \in {Test} |-> Tempdir]' = [t \in {Test} |-> Tempdir]
  <2>1. Tempdir' = Tempdir
    BY Zenon DEF Tempdir
  <2> QED BY <2>1
<1>4. [t \in {Test} |-> Taken]' = [t \in {Test} |-> Taken] /\ [t \in {Test} |-> Routes]' = [t \in {Test} |-> Routes]
  OBVIOUS
<1> QED BY <1>1, <1>2, <1>3, <1>4 DEF AtomicNew!CallsNew, Drawn, Tempdir, Taken, Routes

(* What New has while it looks for a container.                            *)
LEMMA StillFinding ==
  ASSUME NewInv, AtomInv, phase \in {"idle", "starting"}
  PROVE  /\ PC = "idle" /\ ~Registered /\ ~Tempdir /\ Taken = <<>> /\ Drawn = None
         /\ Routes = None /\ OwnContainer = "absent" /\ Living = [c \in Containers |-> {}]
         /\ callbacks = <<>> /\ stack = None /\ own = FALSE /\ applied = FALSE
<1>1. PC = "idle"
  BY DEF PC
<1>2. callbacks = <<>> /\ stack = None /\ own = FALSE /\ applied = FALSE
  BY DEF AtomInv
<1>3. ~Registered
  BY <1>2 DEF Registered
<1> QED BY <1>1, <1>2, <1>3 DEF Tempdir, Taken, Drawn, Routes, OwnContainer, Living

(* Reuse or the shared container.                                          *)
LEMMA FindIsAttach ==
  ASSUME NewInv, AtomInv, FindContainer
  PROVE  AtomicNew!AttachReused(Test) \/ AtomicNew!AttachShared(Test)
<1>1. /\ phase = "idle" /\ phase' = "workspace" /\ prefix' \in Prefixes
      /\ UNCHANGED <<opts, shared, own, edge, failed, callbacks, inited, applied, ctr>>
  BY DEF FindContainer, Moves, DrawsPrefix, localStackVars
<1>a. /\ PC = "idle" /\ ~Registered /\ ~Tempdir /\ Taken = <<>> /\ Routes = None
      /\ OwnContainer = "absent" /\ Living = [c \in Containers |-> {}]
      /\ callbacks = <<>> /\ own = FALSE /\ applied = FALSE
  BY <1>1, StillFinding
<1>2. PC' = "setup"
  BY <1>1 DEF PC
<1>3. ~Registered'
  BY <1>1, <1>a DEF Registered
<1>4. OwnContainer' = "absent"
  <2>1. ctr = Absent
    BY <1>1 DEF NewInv, RouteInv, StartInv
  <2> QED BY <1>1, <2>1 DEF OwnContainer, Absent
<1>5. ~Tempdir' /\ Taken' = <<>> /\ Routes' = None /\ Drawn' \in Prefixes
  BY <1>1, <1>2, <1>3 DEF Tempdir, Taken, Routes, Drawn
<1>6. AtomicNew!CallsNew(Test)
  BY <1>1, <1>a, <1>5, NewIsCalled
<1>7. Running' = Running /\ Living' = Living
  BY <1>1, <1>a, <1>4 DEF Running, Living, Containers
<1>8. \/ opts.reuse # None /\ stack' = opts.reuse
      \/ opts.reuse = None /\ shared # None /\ stack' = shared
  BY DEF FindContainer
<1>9. AtomicNew!Attach(Test, stack', FALSE)
  BY <1>1, <1>a, <1>2 DEF AtomicNew!Attach
<1> QED BY <1>6, <1>7, <1>8, <1>9
           DEF AtomicNew!AttachReused, AtomicNew!AttachShared, Running, Living

(* localstack.Start has returned.                                          *)
LEMMA ReturnIsStartOwn ==
  ASSUME NewInv, AtomInv, StartReturns
  PROVE  AtomicNew!StartOwn(Test)
<1>1. /\ phase = "starting" /\ phase' = "workspace" /\ starting = "started"
      /\ stack' = Test /\ own' = TRUE
      /\ UNCHANGED <<opts, shared, prefix, edge, failed, callbacks, inited, applied, ctr>>
  BY DEF StartReturns, Moves, localStackVars
<1>a. /\ PC = "idle" /\ ~Registered /\ ~Tempdir /\ Taken = <<>> /\ Routes = None
      /\ OwnContainer = "absent" /\ Living = [c \in Containers |-> {}]
      /\ callbacks = <<>> /\ own = FALSE /\ applied = FALSE
  BY <1>1, StillFinding
<1>b. prefix \in Prefixes /\ opts.reuse = None /\ shared = None
  BY <1>1 DEF AtomInv
<1>2. PC' = "setup"
  BY <1>1 DEF PC
<1>3. ~Registered'
  BY <1>1, <1>a DEF Registered
<1>4. OwnContainer' = "running"
  <2>1. ctr = Created
    BY <1>1 DEF NewInv, StartInv
  <2> QED BY <1>1, <2>1 DEF OwnContainer, Created
<1>5. ~Tempdir' /\ Taken' = <<>> /\ Routes' = None /\ Drawn' \in Prefixes
  BY <1>1, <1>b, <1>2, <1>3 DEF Tempdir, Taken, Routes, Drawn
<1>6. AtomicNew!CallsNew(Test)
  BY <1>1, <1>a, <1>5, NewIsCalled
<1>7. Running[Test] = "absent" /\ Running' = [Running EXCEPT ![Test] = "running"]
  BY <1>1, <1>a, <1>4 DEF Running, Containers
<1>8. Living' = Living
  BY <1>1, <1>a DEF Living, Containers
<1>9. AtomicNew!Attach(Test, Test, TRUE)
  BY <1>1, <1>a, <1>2 DEF AtomicNew!Attach
<1> QED BY <1>b, <1>6, <1>7, <1>8, <1>9
           DEF AtomicNew!StartOwn, AtomicNew!LaunchContainer, Running, Living

(* localstack.Start has failed.                                            *)
LEMMA ErrorIsStartOwnFails ==
  ASSUME NewInv, AtomInv, StartReturnsError
  PROVE  AtomicNew!StartOwnFails(Test)
<1>1. /\ phase = "starting" /\ phase' = "cleanup" /\ starting = "failed" /\ failed' = TRUE
      /\ UNCHANGED <<opts, shared, prefix, stack, own, edge, callbacks, inited, applied, ctr>>
  BY DEF StartReturnsError, Fatalf, localStackVars
<1>a. /\ PC = "idle" /\ ~Registered /\ ~Tempdir /\ Taken = <<>> /\ Routes = None
      /\ OwnContainer = "absent" /\ Living = [c \in Containers |-> {}]
      /\ callbacks = <<>> /\ own = FALSE /\ applied = FALSE
  BY <1>1, StillFinding
<1>b. prefix \in Prefixes /\ opts.reuse = None /\ shared = None
  BY <1>1 DEF AtomInv
<1>2. PC' = "cleanup"
  BY <1>1 DEF PC
<1>3. ~Registered'
  BY <1>1, <1>a DEF Registered
<1>4. OwnContainer' \in {"absent", "running"}
  BY <1>1 DEF OwnContainer
<1>5. ~Tempdir' /\ Taken' = <<>> /\ Routes' = None /\ Drawn' \in Prefixes
  BY <1>1, <1>a, <1>b, <1>2, <1>3 DEF Tempdir, Taken, Routes, Drawn
<1>6. AtomicNew!CallsNew(Test)
  BY <1>1, <1>a, <1>5, NewIsCalled
<1>7. Running[Test] = "absent" /\ Running' = [Running EXCEPT ![Test] = OwnContainer']
  BY <1>1, <1>a, <1>4 DEF Running, Containers
<1>8. Living' = Living
  BY <1>1, <1>a DEF Living, Containers
<1>9. AtomicNew!LaunchFails(Test)
  BY <1>4, <1>7, <1>8 DEF AtomicNew!LaunchFails, Running, Living
<1> QED BY <1>1, <1>b, <1>2, <1>6, <1>9 DEF AtomicNew!StartOwnFails

(* The steps of New on its way to a container or to the body.              *)
LEMMA NewStutters ==
  ASSUME NewInv, AtomInv,
         \/ CallStart \/ StartGoesOn \/ ContainerLives
         \/ CallNewWorkspace \/ CopyGoesOn \/ WriteFirstOverride \/ WriteSecondOverride
  PROVE  UNCHANGED AtomicNew!vars
<1>1. CASE CallStart \/ StartGoesOn
  <2>1. /\ phase \in {"idle", "starting"} /\ phase' = "starting"
        /\ UNCHANGED <<opts, shared, stack, own, edge, failed, callbacks, inited, applied>>
    BY <1>1 DEF CallStart, StartGoesOn, Moves, oneVars
  <2>2. /\ PC = "idle" /\ ~Registered /\ ~Tempdir /\ Taken = <<>> /\ Drawn = None
        /\ Routes = None /\ OwnContainer = "absent" /\ callbacks = <<>> /\ applied = FALSE
    BY <2>1, StillFinding
  <2>3. PC' = "idle" /\ OwnContainer' = "absent" /\ ~Registered'
    BY <2>1, <2>2 DEF PC, OwnContainer, Registered
  <2>4. ~Tempdir' /\ Taken' = <<>> /\ Drawn' = None /\ Routes' = None
    BY <2>1, <2>2, <2>3 DEF Tempdir, Taken, Drawn, Routes
  <2> QED BY <2>1, <2>2, <2>3, <2>4, Stutters
<1>2. CASE ContainerLives
  <2>1. UNCHANGED <<phase, opts, shared, prefix, stack, own, edge, failed, callbacks, inited,
                    applied, ctr>>
    BY <1>2 DEF ContainerLives, oneVars, Booting, Boots, ServiceAppears,
              ServiceMoves
  <2>2. PC' = PC /\ OwnContainer' = OwnContainer /\ (Registered' <=> Registered)
    BY <2>1 DEF PC, OwnContainer, Registered
  <2>3. /\ (Tempdir' <=> Tempdir) /\ Taken' = Taken /\ Drawn' = Drawn /\ Routes' = Routes
    BY <2>1, <2>2 DEF Tempdir, Taken, Drawn, Routes
  <2> QED BY <2>1, <2>2, <2>3, Stutters
<1>3. CASE CallNewWorkspace \/ CopyGoesOn \/ WriteFirstOverride \/ WriteSecondOverride
  <2>1. /\ phase \in {"workspace", "copying", "config"} /\ phase' \in {"copying", "config"}
        /\ callbacks \in {<<>>, <<"tempdir">>} /\ callbacks' = <<"tempdir">>
        /\ UNCHANGED <<opts, shared, prefix, stack, own, failed, inited, applied, ctr>>
    <3>1. CASE CallNewWorkspace
      BY <1>3, <3>1 DEF CallNewWorkspace, Moves, AtomInv, localStackVars
    <3>2. CASE CopyGoesOn \/ WriteFirstOverride
      BY <3>2 DEF CopyGoesOn, WriteFirstOverride, AtomInv, localStackVars, oneVars
    <3>3. CASE WriteSecondOverride
      BY <3>3 DEF WriteSecondOverride, Moves, AtomInv, localStackVars
    <3> QED BY <1>3, <3>1, <3>2, <3>3
  <2>2. PC = "setup" /\ PC' = "setup" /\ OwnContainer' = OwnContainer
    BY <2>1 DEF PC, OwnContainer
  <2>3. ~Registered /\ ~Registered'
    BY <2>1 DEF Registered
  <2>4. applied = FALSE
    BY <2>1 DEF AtomInv
  <2>5. /\ ~Tempdir /\ ~Tempdir' /\ Taken = <<>> /\ Taken' = <<>> /\ Drawn' = Drawn
        /\ Routes = None /\ Routes' = None
    BY <2>1, <2>2, <2>3 DEF Tempdir, Taken, Drawn, Routes
  <2> QED BY <2>1, <2>2, <2>3, <2>4, <2>5, Stutters
<1> QED BY <1>1, <1>2, <1>3

(* What New has before it registers its callbacks.                         *)
LEMMA StillSettingUp ==
  ASSUME NewInv, AtomInv, phase \in {"copying", "config"}
  PROVE  /\ PC = "setup" /\ ~Registered /\ ~Tempdir /\ Taken = <<>> /\ Drawn = prefix
         /\ Routes = None /\ Living = [c \in Containers |-> {}]
         /\ callbacks = <<"tempdir">> /\ inited = FALSE /\ applied = FALSE
<1>1. PC = "setup"
  BY DEF PC
<1>2. callbacks = <<"tempdir">> /\ inited = FALSE /\ applied = FALSE
  BY DEF AtomInv
<1>3. ~Registered
  BY <1>2 DEF Registered
<1> QED BY <1>1, <1>2, <1>3 DEF Tempdir, Taken, Drawn, Routes, Living

(* New returns.                                                            *)
LEMMA LoadConfigIsSetUp ==
  ASSUME NewInv, AtomInv, LoadConfig
  PROVE  AtomicNew!SetUp(Test)
<1>1. /\ phase = "config" /\ phase' = "body"
      /\ callbacks' = callbacks \o (IF own THEN <<"stop">> ELSE <<>>) \o <<"destroy", "dump">>
      /\ UNCHANGED <<opts, shared, prefix, stack, own, edge, failed, inited, applied, ctr>>
  BY DEF LoadConfig, Moves, localStackVars
<1>a. /\ PC = "setup" /\ ~Registered /\ ~Tempdir /\ Taken = <<>> /\ Drawn = prefix
      /\ Routes = None /\ Living = [c \in Containers |-> {}]
      /\ callbacks = <<"tempdir">> /\ applied = FALSE
  BY <1>1, StillSettingUp
<1>b. own \in BOOLEAN /\ edge = PickedURL
  BY <1>1 DEF NewInv, OneTypeOK, RouteInv
<1>2. PC' = "body" /\ OwnContainer' = OwnContainer
  BY <1>1 DEF PC, OwnContainer
<1>3. /\ callbacks' = <<"tempdir">> \o AtomicNew!RegisterCleanup(Test)
      /\ \E i \in DOMAIN callbacks' : callbacks'[i] = "destroy"
  <2>1. AtomicNew!RegisterCleanup(Test)
        = IF own THEN <<"stop", "destroy", "dump">> ELSE <<"destroy", "dump">>
    BY DEF AtomicNew!RegisterCleanup
  <2>2. CASE own = TRUE
    BY <1>1, <1>a, <2>1, <2>2, CallbacksMatch
  <2>3. CASE own = FALSE
    BY <1>1, <1>a, <2>1, <2>3, CallbacksMatch
  <2> QED BY <1>b, <2>2, <2>3
<1>4. Registered'
  BY <1>3 DEF Registered
<1>5. /\ Tempdir' /\ Taken' = <<"tempdir">> \o AtomicNew!RegisterCleanup(Test)
      /\ Routes' = PickedURL /\ Drawn' = Drawn
  BY <1>1, <1>a, <1>b, <1>2, <1>3, <1>4 DEF Tempdir, Taken, Routes, Drawn
<1>6. Running' = Running /\ Living' = Living
  BY <1>1, <1>a, <1>2 DEF Running, Living, Containers
<1>7. /\ [t \in {Test} |-> PC]' = [[t \in {Test} |-> PC] EXCEPT ![Test] = "body"]
      /\ [t \in {Test} |-> Routes]' = [[t \in {Test} |-> Routes] EXCEPT ![Test] = PickedURL]
      /\ [t \in {Test} |-> Taken]'
         = [[t \in {Test} |-> Taken] EXCEPT
              ![Test] = <<"tempdir">> \o AtomicNew!RegisterCleanup(Test)]
      /\ [t \in {Test} |-> Drawn]' = [t \in {Test} |-> Drawn]
  BY <1>2, <1>5
<1>8. [t \in {Test} |-> Tempdir]' = [[t \in {Test} |-> Tempdir] EXCEPT ![Test] = TRUE]
  <2>1. Tempdir' = TRUE
    BY <1>5, Zenon DEF Tempdir
  <2> QED BY <2>1
<1> QED
  BY <1>1, <1>a, <1>6, <1>7, <1>8
     DEF AtomicNew!SetUp, AtomicNew!runtimeVars, Running, Living, Tempdir, Taken, Routes, Drawn,
         PickedURL

(* New gives up.                                                           *)
LEMMA FatalIsSetUpFails ==
  ASSUME NewInv, AtomInv, SetUpFatal
  PROVE  AtomicNew!SetUpFails(Test)
<1>1. /\ phase \in {"copying", "config"} /\ phase' = "cleanup" /\ failed' = TRUE
      /\ UNCHANGED <<opts, shared, prefix, stack, own, edge, callbacks, inited, applied, ctr>>
  BY DEF SetUpFatal, Fatalf, localStackVars
<1>a. /\ PC = "setup" /\ ~Registered /\ ~Tempdir /\ Taken = <<>> /\ Drawn = prefix
      /\ Routes = None /\ Living = [c \in Containers |-> {}]
      /\ callbacks = <<"tempdir">> /\ applied = FALSE
  BY <1>1, StillSettingUp
<1>2. PC' = "cleanup" /\ OwnContainer' = OwnContainer
  BY <1>1 DEF PC, OwnContainer
<1>3. ~Registered' /\ callbacks' = <<"tempdir">> /\ callbacks' # <<>>
  <2>1. callbacks' = <<"tempdir">>
    BY <1>1, <1>a
  <2> QED BY <2>1 DEF Registered
<1>5. Tempdir' /\ Taken' = <<"tempdir">> /\ Routes' = Routes /\ Drawn' = Drawn
  BY <1>1, <1>a, <1>2, <1>3 DEF Tempdir, Taken, Routes, Drawn
<1>6. Running' = Running /\ Living' = Living
  BY <1>1, <1>a, <1>2 DEF Running, Living, Containers
<1>7. /\ [t \in {Test} |-> PC]' = [[t \in {Test} |-> PC] EXCEPT ![Test] = "cleanup"]
      /\ [t \in {Test} |-> Routes]' = [t \in {Test} |-> Routes]
      /\ [t \in {Test} |-> Taken]' = [[t \in {Test} |-> Taken] EXCEPT ![Test] = <<"tempdir">>]
      /\ [t \in {Test} |-> Drawn]' = [t \in {Test} |-> Drawn]
      /\ [t \in {Test} |-> failed]' = [[t \in {Test} |-> failed] EXCEPT ![Test] = TRUE]
  BY <1>1, <1>2, <1>5
<1>8. [t \in {Test} |-> Tempdir]' = [[t \in {Test} |-> Tempdir] EXCEPT ![Test] = TRUE]
  <2>1. Tempdir' = TRUE
    BY <1>5, Zenon DEF Tempdir
  <2> QED BY <2>1
<1> QED
  BY <1>1, <1>a, <1>6, <1>7, <1>8
     DEF AtomicNew!SetUpFails, AtomicNew!runtimeVars, Running, Living, Tempdir, Taken, Routes,
         Drawn

(* What a step of the body leaves alone.                                   *)
BodyLeaves == UNCHANGED <<opts, shared, prefix, stack, own, edge, callbacks, ctr>>

(* TestCase's state over a step of the body.                               *)
LEMMA BodyMoves ==
  ASSUME NewInv, AtomInv, phase = "body", phase' \in {"body", "cleanup"}, BodyLeaves
  PROVE  /\ PC = "body" /\ PC' = phase' /\ (Tempdir' <=> Tempdir) /\ Taken' = Taken
         /\ Routes' = Routes /\ Routes = edge /\ Drawn' = Drawn /\ Drawn = prefix
         /\ OwnContainer' = OwnContainer /\ Running' = Running
         /\ Registered /\ Registered'
<1>1. UNCHANGED <<opts, shared, prefix, stack, own, edge, callbacks, ctr>>
  BY DEF BodyLeaves
<1>2. PC = "body" /\ PC' = phase' /\ OwnContainer' = OwnContainer
  BY <1>1 DEF PC, OwnContainer
<1>3. Registered /\ Registered'
  BY <1>1 DEF AtomInv, Registered
<1> QED BY <1>1, <1>2, <1>3 DEF Tempdir, Taken, Routes, Drawn, Running

(* Behind the edge URL there is a LocalStack that runs.                    *)
LEMMA BodyIsServed ==
  ASSUME NewInv, AtomInv, phase = "body"
  PROVE  /\ AtomicNew!Serves(edge) /\ AtomicNew!Upstream(edge) \in Containers
         /\ AtomicNew!Upstream(edge) = IF edge \in Proxies THEN SharedCtr ELSE edge
<1>1. edge = PickedURL /\ stack \in {Test, SharedCtr, ReusedCtr}
  BY DEF NewInv, RouteInv
<1>2. \/ own = TRUE /\ stack = Test /\ starting = "started"
      \/ own = FALSE /\ stack = ReusedCtr
      \/ own = FALSE /\ stack = SharedCtr /\ shared = SharedCtr
  BY DEF AtomInv
<1>3. AtomicNew!Upstream(edge) = IF edge \in Proxies THEN SharedCtr ELSE edge
  BY DEF AtomicNew!Upstream
<1>4. CASE opts.override # None
  <2>1. edge \in Proxies /\ shared = SharedCtr
    BY <1>1, <1>4 DEF PickedURL, NewInv, OneTypeOK
  <2>2. Running[SharedCtr] = "running"
    BY <2>1, OneTestAssumption DEF Running, Containers
  <2> QED BY <1>3, <2>1, <2>2, OneTestAssumption
             DEF AtomicNew!Serves, AtomicNew!URLs, Running, Containers
<1>5. CASE opts.override = None
  <2>1. edge = stack /\ edge \notin Proxies /\ edge \in Containers
    BY <1>1, <1>5, OneTestAssumption DEF PickedURL, Containers
  <2>2. Running[edge] = "running"
    <3>1. CASE stack = Test /\ starting = "started"
      <4>1. ctr = Created
        BY <3>1 DEF NewInv, StartInv
      <4>2. OwnContainer = "running"
        BY <4>1 DEF OwnContainer, Created
      <4> QED BY <2>1, <3>1, <4>2 DEF Running
    <3>2. CASE stack = ReusedCtr \/ (stack = SharedCtr /\ shared = SharedCtr)
      BY <2>1, <3>2, OneTestAssumption DEF Running, Containers
    <3> QED BY <1>2, <3>1, <3>2
  <2> QED BY <1>3, <2>1, <2>2
             DEF AtomicNew!Serves, AtomicNew!URLs, AtomicNew!Containers, Running, Containers
<1> QED BY <1>3, <1>4, <1>5

(* An assertion, or the end of the body.                                   *)
LEMMA BodyVerdict ==
  ASSUME NewInv, AtomInv, phase = "body", phase' \in {"body", "cleanup"}, BodyLeaves,
         UNCHANGED <<inited, applied>>, failed' \in BOOLEAN, failed => failed'
  PROVE  AtomicNew!AssertFails(Test) \/ AtomicNew!BodyReturns(Test) \/ UNCHANGED AtomicNew!vars
<1>1. UNCHANGED <<opts, shared, prefix, stack, own, edge, callbacks, ctr>>
  BY DEF BodyLeaves
<1>2. /\ PC = "body" /\ PC' = phase' /\ (Tempdir' <=> Tempdir) /\ Taken' = Taken
      /\ Routes' = Routes /\ Drawn' = Drawn /\ OwnContainer' = OwnContainer
      /\ Running' = Running /\ (Registered' <=> Registered)
  BY BodyMoves
<1>3. Living' = Living
  BY <1>1 DEF Living, Containers
<1>4. CASE phase' = "body" /\ failed' = failed
  BY <1>1, <1>2, <1>4, Stutters
<1>5. /\ [t \in {Test} |-> Routes]' = [t \in {Test} |-> Routes]
      /\ [t \in {Test} |-> Taken]' = [t \in {Test} |-> Taken]
      /\ [t \in {Test} |-> Drawn]' = [t \in {Test} |-> Drawn]
      /\ [t \in {Test} |-> PC]' = [[t \in {Test} |-> PC] EXCEPT ![Test] = phase']
  BY <1>2
<1>6. [t \in {Test} |-> Tempdir]' = [t \in {Test} |-> Tempdir]
  <2>1. Tempdir' = Tempdir
    BY <1>2, Zenon DEF Tempdir
  <2> QED BY <2>1
<1>7. CASE failed' = TRUE
  BY <1>1, <1>2, <1>3, <1>5, <1>6, <1>7
     DEF AtomicNew!AssertFails, AtomicNew!InBody, AtomicNew!runtimeVars, Running, Living,
         Tempdir, Taken, Routes, Drawn
<1>8. CASE failed' = failed /\ phase' = "cleanup"
  BY <1>1, <1>2, <1>3, <1>5, <1>6, <1>8
     DEF AtomicNew!BodyReturns, AtomicNew!InBody, AtomicNew!runtimeVars, Running, Living,
         Tempdir, Taken, Routes, Drawn
<1>9. failed \in BOOLEAN
  BY DEF NewInv, OneTypeOK
<1> QED BY <1>4, <1>7, <1>8, <1>9

(* Terraform's init and plan.                                              *)
LEMMA PlansIsPlan ==
  ASSUME NewInv, AtomInv, phase = "body", phase' = "body", BodyLeaves,
         inited' = TRUE, UNCHANGED <<failed, applied>>
  PROVE  AtomicNew!Plan(Test)
<1>1. UNCHANGED <<opts, shared, prefix, stack, own, edge, callbacks, ctr>>
  BY DEF BodyLeaves
<1>2. /\ PC = "body" /\ PC' = "body" /\ (Tempdir' <=> Tempdir) /\ Taken' = Taken
      /\ Routes' = Routes /\ Routes = edge /\ Drawn' = Drawn /\ Running' = Running
  BY BodyMoves
<1>3. Living' = Living
  BY <1>1 DEF Living, Containers
<1>4. AtomicNew!Serves(edge)
  BY BodyIsServed
<1>5. /\ [t \in {Test} |-> Routes]' = [t \in {Test} |-> Routes]
      /\ [t \in {Test} |-> Taken]' = [t \in {Test} |-> Taken]
      /\ [t \in {Test} |-> Drawn]' = [t \in {Test} |-> Drawn]
      /\ [t \in {Test} |-> PC]' = [t \in {Test} |-> PC]
      /\ [t \in {Test} |-> Routes][Test] = edge
  BY <1>2
<1>6. [t \in {Test} |-> Tempdir]' = [t \in {Test} |-> Tempdir]
  <2>1. Tempdir' = Tempdir
    BY <1>2, Zenon DEF Tempdir
  <2> QED BY <2>1
<1> HIDE DEF BodyLeaves
<1>7. AtomicNew!InBody(Test)
  BY <1>2 DEF AtomicNew!InBody
<1>8. AtomicNew!Serves([t \in {Test} |-> IF Registered THEN edge ELSE None][Test])
  BY <1>4, <1>5 DEF Routes
<1> QED
  BY <1>1, <1>3, <1>2, <1>5, <1>6, <1>7, <1>8
     DEF AtomicNew!Plan, AtomicNew!runtimeVars, Running, Living, Tempdir, Taken, Routes, Drawn

(* A Terraform call that fails.                                            *)
LEMMA FailsIsPlanFails ==
  ASSUME NewInv, AtomInv, TerraformFails
  PROVE  AtomicNew!PlanFails(Test)
<1>1. /\ UNCHANGED <<opts, shared, prefix, stack, own, edge, callbacks, applied>>
      /\ UNCHANGED ctr /\ phase = "body"
      /\ \/ phase' = "cleanup" /\ failed' = TRUE
         \/ phase' = "body" /\ failed' = failed
  BY DEF TerraformFails, Fatalf, localStackVars
<1>2. /\ PC = "body" /\ PC' = phase' /\ (Tempdir' <=> Tempdir) /\ Taken' = Taken
      /\ Routes' = Routes /\ Drawn' = Drawn /\ Running' = Running
  BY <1>1, BodyMoves DEF BodyLeaves
<1>3. Living' = Living
  BY <1>1 DEF Living, Containers
<1>4. failed \in BOOLEAN /\ inited \in BOOLEAN
  BY DEF NewInv, OneTypeOK
<1>5. /\ [t \in {Test} |-> Routes]' = [t \in {Test} |-> Routes]
      /\ [t \in {Test} |-> Taken]' = [t \in {Test} |-> Taken]
      /\ [t \in {Test} |-> Drawn]' = [t \in {Test} |-> Drawn]
  BY <1>2
<1>6. [t \in {Test} |-> Tempdir]' = [t \in {Test} |-> Tempdir]
  <2>1. Tempdir' = Tempdir
    BY <1>2, Zenon DEF Tempdir
  <2> QED BY <2>1
<1>7. AtomicNew!InBody(Test)
  BY <1>2 DEF AtomicNew!InBody
<1>8. PICK ok \in BOOLEAN : inited' = (inited \/ ok)
  BY DEF TerraformFails
<1>9. AtomicNew!CallFails(Test)
  <2>1. CASE phase' = "cleanup" /\ failed' = TRUE
    BY <1>2, <1>4, <2>1 DEF AtomicNew!CallFails
  <2>2. CASE phase' = "body" /\ failed' = failed
    BY <1>2, <1>4, <2>2 DEF AtomicNew!CallFails
  <2> QED BY <1>1, <2>1, <2>2
<1>10. \E o \in BOOLEAN :
         [t \in {Test} |-> inited]'
         = [[t \in {Test} |-> inited] EXCEPT ![Test] = [t \in {Test} |-> inited][Test] \/ o]
  BY <1>4, <1>8
<1> QED
  BY <1>1, <1>3, <1>2, <1>5, <1>6, <1>7, <1>9, <1>10
     DEF AtomicNew!PlanFails, AtomicNew!runtimeVars, Running, Living, Tempdir, Taken, Routes, Drawn

(* Terraform's init and apply.                                             *)
LEMMA AppliesIsApply ==
  ASSUME NewInv, AtomInv, phase = "body", phase' = "body", BodyLeaves,
         inited' = TRUE, applied' = TRUE, UNCHANGED failed
  PROVE  AtomicNew!Apply(Test)
<1>1. UNCHANGED <<opts, shared, prefix, stack, own, edge, callbacks, ctr>>
  BY DEF BodyLeaves
<1>2. /\ PC = "body" /\ PC' = "body" /\ (Tempdir' <=> Tempdir) /\ Taken' = Taken
      /\ Routes' = Routes /\ Routes = edge /\ Drawn' = Drawn /\ Drawn = prefix
      /\ Running' = Running
  BY BodyMoves
<1>3. /\ AtomicNew!Serves(edge) /\ AtomicNew!Upstream(edge) \in Containers
      /\ AtomicNew!Upstream(edge) = IF edge \in Proxies THEN SharedCtr ELSE edge
  BY BodyIsServed
<1> DEFINE U == AtomicNew!Upstream(edge)
           N == {<<prefix, r>> : r \in Declared}
<1>4. AtomicNew!NamesOf(Test, Declared) = N
  <2>1. opts.autoPrefix = TRUE
    BY DEF NewInv, OneTypeOK
  <2> QED BY <1>2, <2>1 DEF AtomicNew!NamesOf, AtomicNew!Name, Drawn
<1>5. AtomicNew!Backend(Test) = U
  BY <1>2 DEF AtomicNew!Backend, Routes
<1>6. Living' = [Living EXCEPT ![U] = @ \cup N]
  <2>1. Living = [c \in Containers |-> IF applied /\ c = U THEN N ELSE {}]
    BY <1>3 DEF Living
  <2>2. Living' = [c \in Containers |-> IF c = U THEN N ELSE {}]
    BY <1>1, <1>3 DEF Living, Containers
  <2>3. U \in Containers
    BY <1>3
  <2> HIDE DEF U, N
  <2>4. [Living EXCEPT ![U] = @ \cup N] = [c \in Containers |-> IF c = U THEN N ELSE {}]
    <3>1. CASE applied
      BY <2>1, <2>3, <3>1
    <3>2. CASE ~applied
      BY <2>1, <2>3, <3>2
    <3> QED BY <3>1, <3>2
  <2> QED BY <2>2, <2>4
<1>7. /\ [t \in {Test} |-> Routes]' = [t \in {Test} |-> Routes]
      /\ [t \in {Test} |-> Taken]' = [t \in {Test} |-> Taken]
      /\ [t \in {Test} |-> Drawn]' = [t \in {Test} |-> Drawn]
      /\ [t \in {Test} |-> PC]' = [t \in {Test} |-> PC]
      /\ [t \in {Test} |-> Routes][Test] = edge
  BY <1>2
<1>8. [t \in {Test} |-> Tempdir]' = [t \in {Test} |-> Tempdir]
  <2>1. Tempdir' = Tempdir
    BY <1>2, Zenon DEF Tempdir
  <2> QED BY <2>1
<1>9. AtomicNew!InBody(Test)
  BY <1>2 DEF AtomicNew!InBody
<1>10. AtomicNew!Serves([t \in {Test} |-> IF Registered THEN edge ELSE None][Test])
  BY <1>3, <1>7 DEF Routes
<1>11. [t \in {Test} |-> IF applied THEN Declared ELSE {}]'
       = [[t \in {Test} |-> IF applied THEN Declared ELSE {}] EXCEPT ![Test] = Declared]
  OBVIOUS
<1>12. Living' = [Living EXCEPT ![AtomicNew!Backend(Test)]
                                  = @ \cup AtomicNew!NamesOf(Test, Declared)]
  BY <1>4, <1>5, <1>6
<1> QED
  BY <1>1, <1>2, <1>7, <1>8, <1>9, <1>10, <1>11, <1>12
     DEF AtomicNew!Apply, Running, Living, Tempdir, Taken, Routes, Drawn

(* A step of the body, a callback or a stutter.                            *)
LEMMA BodyIsBody ==
  ASSUME NewInv, AtomInv, Body \/ InCallbacks \/ UNCHANGED detailVars
  PROVE  AtomicNew!BodyStep(Test) \/ UNCHANGED AtomicNew!vars
<1>1. CASE InCallbacks \/ UNCHANGED detailVars
  <2>1. UNCHANGED <<phase, opts, shared, prefix, stack, own, edge, failed, callbacks, inited,
                    applied, ctr>>
    BY <1>1 DEF InCallbacks, detailVars, oneVars, localStackVars
  <2>2. PC' = PC /\ OwnContainer' = OwnContainer /\ (Registered' <=> Registered)
    BY <2>1 DEF PC, OwnContainer, Registered
  <2>3. /\ (Tempdir' <=> Tempdir) /\ Taken' = Taken /\ Drawn' = Drawn /\ Routes' = Routes
    BY <2>1, <2>2 DEF Tempdir, Taken, Drawn, Routes
  <2> QED BY <2>1, <2>2, <2>3, Stutters
<1>2. CASE Body
  <2>1. phase = "body" /\ phase' \in {"body", "cleanup"} /\ BodyLeaves
    <3>1. phase = "body"
      BY <1>2 DEF Body, PlanContext, ApplyContext, AssertIdempotent, AssertIdempotentApply,
         SecondApply, SecondPlan, JudgePlan, TerraformFails, CheckTags, GetResourcesFails,
         LooksAtAWS, LooksAtPlan, RequirePro, BodyReturns, Leaves, Moves, Plans, Applies,
         RunsTerraform
    <3> QED BY <1>2, <3>1, BodyFrame DEF BodyLeaves, localStackVars
  <2>2. CASE PlanContext \/ AssertIdempotent \/ AssertIdempotentApply \/ SecondPlan
    <3>1. phase' = "body" /\ inited' = TRUE /\ UNCHANGED <<failed, applied>>
      BY <2>1, <2>2 DEF PlanContext, AssertIdempotent, AssertIdempotentApply, SecondPlan, Plans,
         RunsTerraform
    <3> QED BY <2>1, <3>1, PlansIsPlan DEF AtomicNew!BodyStep
  <2>3. CASE ApplyContext \/ SecondApply
    <3>1. phase' = "body" /\ inited' = TRUE /\ applied' = TRUE /\ UNCHANGED failed
      BY <2>1, <2>3 DEF ApplyContext, SecondApply, Applies, RunsTerraform
    <3> QED BY <2>1, <3>1, AppliesIsApply DEF AtomicNew!BodyStep
  <2>4. CASE TerraformFails
    BY <2>4, FailsIsPlanFails DEF AtomicNew!BodyStep
  <2>5. CASE \/ JudgePlan \/ CheckTags \/ GetResourcesFails \/ LooksAtAWS \/ LooksAtPlan
             \/ RequirePro \/ BodyReturns
    <3>1. failed \in BOOLEAN
      BY DEF NewInv, OneTypeOK
    <3>2. UNCHANGED <<inited, applied>>
      BY <2>5 DEF JudgePlan, CheckTags, GetResourcesFails, LooksAtAWS, LooksAtPlan, oneVars,
         RequirePro, BodyReturns, Leaves
    <3>3. failed' \in BOOLEAN /\ (failed => failed')
      <4>1. CASE JudgePlan \/ CheckTags
        BY <3>1, <4>1 DEF JudgePlan, CheckTags
      <4>2. CASE LooksAtAWS
        <5>1. Failed(T(looked'.calls)) \in BOOLEAN
          BY DEF Failed, T, Left
        <5> QED BY <3>1, <4>2, <5>1 DEF LooksAtAWS
      <4>3. CASE GetResourcesFails
        BY <4>3 DEF GetResourcesFails
      <4>4. CASE LooksAtPlan \/ RequirePro \/ BodyReturns
        BY <3>1, <4>4 DEF LooksAtPlan, oneVars, RequirePro, BodyReturns, Leaves
      <4> QED BY <2>5, <4>1, <4>2, <4>3, <4>4
    <3> QED BY <2>1, <3>2, <3>3, BodyVerdict DEF AtomicNew!BodyStep
  <2> QED BY <1>2, <2>2, <2>3, <2>4, <2>5 DEF Body
<1> QED BY <1>1, <1>2

(* A step of New or of the container.                                      *)
LEMMA NewIsNew ==
  ASSUME NewInv, AtomInv, New \/ ContainerLives
  PROVE  AtomicNew!NewStep(Test) \/ UNCHANGED AtomicNew!vars
BY NewStutters, FindIsAttach, ReturnIsStartOwn, ErrorIsStartOwnFails, LoadConfigIsSetUp,
   FatalIsSetUpFails DEF New, AtomicNew!NewStep

(* A test before New is one of TestCase's.                                 *)
LEMMA AtomInit ==
  ASSUME DetailInit, NewInv, AtomInv
  PROVE  AtomicNew!Init
<1>1. phase = "idle" /\ failed = FALSE /\ inited = FALSE
  BY DEF DetailInit
<1>2. /\ PC = "idle" /\ ~Registered /\ ~Tempdir /\ Taken = <<>> /\ Drawn = None
      /\ Routes = None /\ OwnContainer = "absent" /\ Living = [c \in Containers |-> {}]
      /\ stack = None /\ own = FALSE /\ applied = FALSE
  BY <1>1, StillFinding
<1>3. /\ opts \in [reuse : {None, ReusedCtr}, persist : {FALSE},
                   override : Proxies \cup {None}, autoPrefix : {TRUE}]
      /\ shared \in {None, SharedCtr} /\ (opts.override # None => shared # None)
  BY DEF NewInv, OneTypeOK
<1>4. Running = [c \in Containers |-> IF c = ReusedCtr \/ c = shared THEN "running" ELSE "absent"]
  BY <1>2, <1>3, OneTestAssumption DEF Running, Containers
<1>5. /\ [t \in {Test} |-> PC] = [t \in {Test} |-> "idle"]
      /\ [t \in {Test} |-> Drawn] = [t \in {Test} |-> None]
      /\ [t \in {Test} |-> Routes] = [t \in {Test} |-> None]
      /\ [t \in {Test} |-> Taken] = [t \in {Test} |-> <<>>]
  BY <1>2
<1>6. [t \in {Test} |-> Tempdir] = [t \in {Test} |-> FALSE]
  <2>1. Tempdir = FALSE
    BY <1>2, Zenon DEF Tempdir
  <2> QED BY <2>1
<1>7. AtomicNew!TestInit
  BY <1>1, <1>2, <1>3, <1>5, <1>6
     DEF AtomicNew!TestInit, AtomicNew!Containers, Containers, Living, Tempdir, Taken, Routes, Drawn
<1> QED BY <1>3, <1>4, <1>7 DEF AtomicNew!Init, AtomicNew!Containers, Running, Containers

(* TestCase may be instantiated this way: its assumptions hold.            *)
LEMMA AtomicAssumptions == AtomicNew!RuntimeAssumption /\ AtomicNew!TestCaseAssumption
<1>1. AtomicNew!RuntimeAssumption
  BY OneTestAssumption DEF AtomicNew!RuntimeAssumption, AtomicNew!Containers, AtomicNew!URLs
<1>2. AtomicNew!TestCaseAssumption
  BY OneTestAssumption DEF AtomicNew!TestCaseAssumption, AtomicNew!NewCallbacks,
                           AtomicNew!AllFaults, AtomicNew!Options
<1> QED BY <1>1, <1>2

(* New and the assertions, step by step, do what TestCase says they do in  *)
(* one: a test finds its container by the same priority, fails in the same *)
(* states and registers its callbacks in the same order                    *)
(* (libtftest.go:69-132, 314-386).                                         *)
THEOREM NewImplementsTestCase == DetailSpec => NewIsAtomic
<1>1. DetailInit => NewInv /\ AtomInv /\ AtomicNew!Init
  BY NewInitially, AtomInitially, AtomInit
<1>2. NewInv /\ AtomInv /\ [DetailNext]_detailVars
      => NewInv' /\ AtomInv' /\ [AtomicNew!Next]_AtomicNew!vars
  <2> SUFFICES ASSUME NewInv, AtomInv, [DetailNext]_detailVars
               PROVE  NewInv' /\ AtomInv' /\ [AtomicNew!Next]_AtomicNew!vars
    OBVIOUS
  <2>1. NewInv'
    BY NewKeeps, BodyKeepsNew DEF DetailNext
  <2>2. AtomInv'
    BY AtomKeeps
  <2>3. AtomicNew!TestStep(Test) \/ UNCHANGED AtomicNew!vars
    BY BodyIsBody, NewIsNew DEF DetailNext, AtomicNew!TestStep
  <2> QED BY <2>1, <2>2, <2>3 DEF AtomicNew!Next
<1> QED BY <1>1, <1>2, PTL DEF DetailSpec, NewIsAtomic, AtomicNew!Spec
====
