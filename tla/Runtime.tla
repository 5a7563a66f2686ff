------------------------------ MODULE Runtime ------------------------------
(***************************************************************************)
(* What every part of libtftest shares while a test binary runs: the       *)
(* process itself, the LocalStack containers of the run, the AWS resources *)
(* that live in them, and the container harness.Run publishes.             *)
(*                                                                         *)
(* A container a test starts for itself is identified with that test, so a *)
(* container is a member of Tests \cup {SharedCtr, ReusedCtr}.  A URL is   *)
(* identified with what listens there: a container (its EdgeURL) or a      *)
(* sidecar, which forwards to SharedCtr.                                   *)
(***************************************************************************)
EXTENDS Naturals

CONSTANTS
  Tests,       \* the test functions of the binary
  Sidecars,    \* the proxies harness.Run may put in front of SharedCtr
  Detached,    \* those of them that do not run inside the process
  SharedCtr,   \* the container started by harness.Run
  ReusedCtr,   \* a container of the caller, passed as Options.Reuse
  None,        \* Go's nil and the empty string
  RyukEnabled  \* testcontainers' reaper runs beside the process

Containers == Tests \cup {SharedCtr, ReusedCtr}
URLs       == Containers \cup Sidecars

ASSUME RuntimeAssumption ==
  /\ SharedCtr \notin Tests
  /\ ReusedCtr \notin Tests \cup {SharedCtr}
  /\ Sidecars \cap Containers = {}
  /\ Detached \subseteq Sidecars
  /\ None \notin URLs
  /\ RyukEnabled \in BOOLEAN

VARIABLES
  process,     \* "running", "exited" (os.Exit, go test) or "crashed"
  containers,  \* [Containers -> {"absent", "running", "removed"}]
  live,        \* [Containers -> set of names]: what exists in each LocalStack
  shared,      \* harness.shared: SharedCtr or None
  servers      \* [Sidecars -> {"down", "starting", "up"}]

runtimeVars == <<process, containers, live, shared, servers>>

(* The container that ends up serving a request sent to url.               *)
Upstream(url) == IF url \in Sidecars THEN SharedCtr ELSE url

(* A request sent to url is answered by LocalStack.                        *)
Serves(url) ==
  /\ url \in URLs
  /\ url \in Sidecars => servers[url] = "up"
  /\ containers[Upstream(url)] = "running"

(* The containers testcontainers started in this process: the caller of    *)
(* Options.Reuse keeps its own.                                            *)
SessionContainers == Tests \cup {SharedCtr}

---------------------------------------------------------------------------
(* Fragments: each one constrains containers' and live' only.              *)

(* localstack.Start returned a container.                                  *)
LaunchContainer(c) ==
  /\ containers[c] = "absent"
  /\ containers' = [containers EXCEPT ![c] = "running"]
  /\ live' = live

(* localstack.Start returned an error.  testcontainers.Run may have        *)
(* created the container before it failed (a wait strategy that timed      *)
(* out); Start drops that handle, so the container stays as it is.         *)
LaunchFails(c) ==
  /\ containers[c] = "absent"
  /\ \E s \in {"absent", "running"} : containers' = [containers EXCEPT ![c] = s]
  /\ live' = live

(* Mutant: the container is stopped and kept.                              *)
StopContainerOnly(c) ==
  /\ containers' = [containers EXCEPT ![c] = "stopped"]
  /\ live' = [live EXCEPT ![c] = {}]

(* Container.Stop returned nil: the container is gone with all it held.    *)
TerminateContainer(c) ==
  /\ containers' = [containers EXCEPT ![c] = "removed"]
  /\ live' = [live EXCEPT ![c] = {}]

(* What the end of the process leaves of the sidecars.                     *)
ServersAfterExit == [s \in Sidecars |-> IF s \in Detached THEN servers[s] ELSE "down"]

---------------------------------------------------------------------------
(* The process dies without running any more of its code: the panic of     *)
(* "go test -timeout", a panicking test, SIGKILL, Ctrl-C.  What it served  *)
(* in-process is gone.                                                     *)
Crash ==
  /\ process = "running"
  /\ process' = "crashed"
  /\ servers' = ServersAfterExit
  /\ UNCHANGED <<containers, live, shared>>

(* The reaper removes a container of a process it lost its connection to.  *)
Reap(c) ==
  /\ RyukEnabled
  /\ process # "running"
  /\ c \in SessionContainers
  /\ containers[c] = "running"
  /\ TerminateContainer(c)
  /\ UNCHANGED <<process, shared, servers>>
============================================================================
