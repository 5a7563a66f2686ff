----------------------------- MODULE LocalStack -----------------------------
(***************************************************************************)
(* localstack.Start: ping Docker, write the init hooks, run the container, *)
(* poll its health until no service of its answer is still coming up, ask  *)
(* for its endpoint.  What image runs, with which token, and which edition *)
(* it is taken for, is decided in three places that each read the          *)
(* environment.                                                            *)
(***************************************************************************)
CONSTANTS
  Services,     \* the AWS services of the module
  Hooks,        \* names of init hooks
  Nil,          \* Go's nil and the empty string
  StartFaults   \* what may go wrong around Start

Envs == [image : {Nil, "custom"}, token : BOOLEAN]
Configs == [edition : {"auto", "community", "pro"}, image : {Nil, "custom"},
            authToken : BOOLEAN, hooks : SUBSET Hooks]

(* An answer of /_localstack/health names the services LocalStack has come *)
(* to, all, some or none of them; "running" stands for every status that   *)
(* is neither of the others.                                               *)
Statuses == {"initializing", "running", "error"}
Healths  == UNION {[S -> Statuses] : S \in SUBSET Services}

AllStartFaults == {"docker", "hooks", "create", "endpoint"}

ASSUME LocalStackAssumption ==
  /\ Nil \notin Hooks \cup Services \cup {"custom"} \cup Healths
  /\ StartFaults \subseteq AllStartFaults

VARIABLES
  env,       \* LIBTFTEST_LOCALSTACK_IMAGE and LOCALSTACK_AUTH_TOKEN
  cfg,       \* the Config
  starting,  \* where Start is
  edition,   \* Container.Edition, Nil before DetectEdition
  hookDir,   \* the hooks in the directory WriteInitHooks made, Nil if none
  ctr,       \* the container, with its image and token; "stuck" is one that
             \* runs because Docker refused to remove it
  health,    \* Nil: /_localstack/health answers no JSON yet; else its services
  accepted,  \* the answer that the wait strategy accepted, Nil before
  startErr   \* the step whose error Start returned

localStackVars == <<env, cfg, starting, edition, hookDir, ctr, health, accepted,
                    startErr>>

Absent  == [state |-> "absent", image |-> Nil, token |-> FALSE]
Removed == [state |-> "removed", image |-> Nil, token |-> FALSE]

---------------------------------------------------------------------------
hasAuthTokenInConfig == cfg.authToken   \* mutant

hasAuthToken == cfg.authToken \/ env.token

ResolveImage ==
  IF cfg.image # Nil THEN cfg.image
  ELSE IF env.image # Nil THEN env.image
  ELSE IF hasAuthToken THEN "single" ELSE "community"

(* Env: whether the container gets LOCALSTACK_AUTH_TOKEN.                  *)
Env == cfg.authToken \/ env.token

DetectEditionUnresolved == cfg.edition   \* mutant

DetectEdition ==
  IF cfg.edition # "auto" THEN cfg.edition
  ELSE IF env.token THEN "pro" ELSE "community"

(* Mutant: a service that is still coming up counts as ready.              *)
NoServiceBroken(answer) == answer # Nil /\ \A s \in DOMAIN answer : answer[s] # "error"

(* The matcher of the wait strategy looks at the services the answer names. *)
AllServicesReady(answer) ==
  answer # Nil /\ \A s \in DOMAIN answer : answer[s] \notin {"initializing", "error"}

---------------------------------------------------------------------------
LocalStackInit ==
  /\ starting = "no"
  /\ edition = Nil
  /\ hookDir = Nil
  /\ ctr = Absent
  /\ health = Nil /\ accepted = Nil
  /\ startErr = Nil

Goes(from, to) == starting = from /\ starting' = to

Fails(from, step) ==
  /\ Goes(from, "failed")
  /\ startErr' = step
  /\ UNCHANGED <<env, cfg, edition, hookDir, accepted>>

(* dockerx.Ping: the socket takes a connection and /_ping answers 200.     *)
Ping ==
  /\ Goes("ping", IF cfg.hooks = {} THEN "run" ELSE "hooks")
  /\ edition' = DetectEdition
  /\ UNCHANGED <<env, cfg, hookDir, ctr, health, accepted, startErr>>

PingFails == "docker" \in StartFaults /\ Fails("ping", "docker") /\ UNCHANGED <<ctr, health>>

(* WriteInitHooks: a new directory, then one file after the other.         *)
WriteHook(h) ==
  /\ starting = "hooks"
  /\ LET written == IF hookDir = Nil THEN {} ELSE hookDir
     IN /\ h \in cfg.hooks \ written
        /\ hookDir' = written \cup {h}
        /\ starting' = IF hookDir' = cfg.hooks THEN "run" ELSE "hooks"
  /\ UNCHANGED <<env, cfg, edition, ctr, health, accepted, startErr>>

WriteHookFails == "hooks" \in StartFaults /\ Fails("hooks", "hooks") /\ UNCHANGED <<ctr, health>>

(* testcontainers.Run, first half: the container exists and boots.  The    *)
(* single image does not come up without a token.                          *)
CreateContainer ==
  /\ Goes("run", "polling")
  /\ ctr' = [state |-> "running", image |-> ResolveImage, token |-> Env]
  /\ UNCHANGED <<env, cfg, edition, hookDir, health, accepted, startErr>>

CreateFails == "create" \in StartFaults /\ Fails("run", "run") /\ UNCHANGED <<ctr, health>>

(* Run, second half: the wait strategy polls until the matcher accepts,    *)
(* the startup timeout passes or the context ends.  Run's error drops the  *)
(* container's handle.                                                     *)
PollAccepts ==
  /\ Goes("polling", "endpoint")
  /\ AllServicesReady(health)
  /\ accepted' = health
  /\ UNCHANGED <<env, cfg, edition, hookDir, ctr, health, startErr>>

PollTimesOut == Fails("polling", "run") /\ UNCHANGED <<ctr, health>>

PortEndpoint ==
  /\ Goes("endpoint", "started")
  /\ UNCHANGED <<env, cfg, edition, hookDir, ctr, health, accepted, startErr>>

(* Mutant: no clean-up of the container.                                   *)
EndpointDropsContainer ==
  /\ "endpoint" \in StartFaults
  /\ Fails("endpoint", "endpoint")
  /\ UNCHANGED <<ctr, health>>

(* No endpoint: Start takes the container down again, as best it can.      *)
PortEndpointFails ==
  /\ "endpoint" \in StartFaults
  /\ Fails("endpoint", "endpoint")
  /\ \/ ctr' = Removed /\ health' = Nil
     \/ ctr' = [ctr EXCEPT !.state = "stuck"] /\ UNCHANGED health

(* LocalStack boots: the health endpoint comes up, at first with any of    *)
(* the services, which are still initializing, or none; others follow.     *)
(* Each one goes on from there; one that runs may break.                   *)
Boots ==
  /\ ctr.state = "running"
  /\ health = Nil
  /\ \E S \in SUBSET Services : health' = [s \in S |-> "initializing"]
  /\ UNCHANGED <<env, cfg, starting, edition, hookDir, ctr, accepted, startErr>>

ServiceAppears(s) ==
  /\ health # Nil
  /\ s \notin DOMAIN health
  /\ health' = [x \in DOMAIN health \cup {s} |-> IF x = s THEN "initializing" ELSE health[x]]
  /\ UNCHANGED <<env, cfg, starting, edition, hookDir, ctr, accepted, startErr>>

ServiceMoves(s) ==
  /\ health # Nil
  /\ s \in DOMAIN health
  /\ \E to \in {"running", "error"} \ {health[s]} : health' = [health EXCEPT ![s] = to]
  /\ UNCHANGED <<env, cfg, starting, edition, hookDir, ctr, accepted, startErr>>

Start ==
  \/ Ping \/ PingFails
  \/ (\E h \in Hooks : WriteHook(h)) \/ WriteHookFails
  \/ CreateContainer \/ CreateFails
  \/ PollAccepts \/ PollTimesOut
  \/ PortEndpoint \/ PortEndpointFails

Booting == Boots \/ \E s \in Services : ServiceAppears(s) \/ ServiceMoves(s)

---------------------------------------------------------------------------
(* Properties.                                                             *)

(* Start's variables keep their shape.                                     *)
LocalStackTypeOK ==
  /\ env \in Envs /\ cfg \in Configs
  /\ starting \in {"no", "ping", "hooks", "run", "polling", "endpoint", "started", "failed"}
  /\ edition \in {Nil, "community", "pro"}
  /\ hookDir \in {Nil} \cup SUBSET Hooks
  /\ ctr \in [state : {"absent", "running", "stuck", "removed"},
              image : {Nil, "custom", "single", "community"}, token : BOOLEAN]
  /\ {health, accepted} \subseteq {Nil} \cup Healths
  /\ startErr \in {Nil, "docker", "hooks", "run", "endpoint"}

(* ResolveImage, Env and DetectEdition agree (container.go:53, 82 and      *)
(* edition.go:36), each from its own reading of the environment: the image *)
(* that needs a token runs with one, and a container of a default image    *)
(* whose edition was left open is reported as what it is.                  *)
EditionIsReal ==
  /\ ctr.state = "running" /\ ctr.image = "single" => ctr.token
  /\ starting = "started" /\ cfg.edition = "auto" /\ ctr.image # "custom"
     => (edition = "pro" <=> ctr.image = "single")

(* Start returns a container only on an answer of its health endpoint, and *)
(* from then on every service that answer named is past its initialization *)
(* (container.go:102, health.go:31); a service it did not name may still   *)
(* be coming up.  Every hook was there for the container to run when it    *)
(* booted (container.go:121).                                              *)
StartedIsReady ==
  /\ starting = "started" =>
       /\ accepted # Nil
       /\ \A s \in DOMAIN accepted : s \in DOMAIN health /\ health[s] # "initializing"
  /\ ctr.state = "running" /\ cfg.hooks # {} => hookDir = cfg.hooks

(* When Start fails after its Run succeeded it leaves no container unless  *)
(* Docker refuses to remove it (container.go:143-146).                     *)
FailedStartCleansUp ==
  starting = "failed" /\ startErr # "run" => ctr.state # "running"
=============================================================================
