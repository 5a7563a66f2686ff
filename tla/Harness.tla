------------------------------ MODULE Harness ------------------------------
(***************************************************************************)
(* harness.Run: start the shared container, publish it, start the          *)
(* sidecars, run the tests (m.Run), stop everything, exit.  Run is one     *)
(* goroutine; a step is what it does between two calls that can block or   *)
(* fail.                                                                   *)
(***************************************************************************)
EXTENDS Runtime, Sequences

CONSTANTS
  SidecarList,    \* Config.Sidecars, in order
  AsyncSidecars,  \* those whose Start returns before they accept traffic
  HarnessFaults   \* what may go wrong: "start", "sidecar", "stop"

ASSUME HarnessAssumption ==
  /\ SidecarList \in Seq(Sidecars)
  /\ \A i, j \in 1 .. Len(SidecarList) : SidecarList[i] = SidecarList[j] => i = j
  /\ AsyncSidecars \subseteq Sidecars
  /\ HarnessFaults \subseteq {"start", "sidecar", "stop"}

VARIABLES
  run,       \* where Run is
  edgeURL,   \* harness.edgeURL
  active,    \* activeSidecars that stopAll has not been through yet
  code,      \* the argument of os.Exit
  unstopped  \* what stopAll logged an error for: sidecars, SharedCtr

harnessVars == <<run, edgeURL, active, code, unstopped>>

RunPoints == {"start", "sidecars", "tests", "failing", "stopping", "clearing", "exiting"}

HarnessInit ==
  /\ run = "start"
  /\ edgeURL = None
  /\ active = <<>>
  /\ code = 0
  /\ unstopped = {}

At(point) == process = "running" /\ run = point

---------------------------------------------------------------------------
(* Mutant of StartShared: the container is started but not published.      *)
StartUnpublished ==
  /\ At("start")
  /\ LaunchContainer(SharedCtr)
  /\ edgeURL' = SharedCtr
  /\ run' = "sidecars"
  /\ UNCHANGED <<process, servers, shared, active, code, unstopped>>

(* localstack.Start and the publication of its container.                  *)
StartShared ==
  /\ At("start")
  /\ LaunchContainer(SharedCtr)
  /\ shared' = SharedCtr
  /\ edgeURL' = SharedCtr
  /\ run' = "sidecars"
  /\ UNCHANGED <<process, servers, active, code, unstopped>>

StartSharedFails ==
  /\ At("start")
  /\ "start" \in HarnessFaults
  /\ LaunchFails(SharedCtr)
  /\ code' = 1
  /\ run' = "exiting"
  /\ UNCHANGED <<process, servers, shared, edgeURL, active, unstopped>>

(* The next sidecar of the list is started in front of the container and   *)
(* its URL becomes the effective one.                                      *)
StartSidecar ==
  /\ At("sidecars")
  /\ Len(active) < Len(SidecarList)
  /\ LET s == SidecarList[Len(active) + 1]
     IN  /\ servers' = [servers EXCEPT ![s] =
                          IF s \in AsyncSidecars THEN "starting" ELSE "up"]
         /\ active' = Append(active, s)
         /\ edgeURL' = s
  /\ UNCHANGED <<process, containers, live, shared, run, code, unstopped>>

(* Mutant: the exit code does not tell.                                    *)
SidecarFailureUntold ==
  /\ At("sidecars")
  /\ "sidecar" \in HarnessFaults
  /\ Len(active) < Len(SidecarList)
  /\ run' = "failing"
  /\ UNCHANGED <<runtimeVars, edgeURL, active, code, unstopped>>

(* A sidecar failed to start: those before it and the container are        *)
(* stopped, with a context of their own.                                   *)
StartSidecarFails ==
  /\ At("sidecars")
  /\ "sidecar" \in HarnessFaults
  /\ Len(active) < Len(SidecarList)
  /\ code' = 1
  /\ run' = "failing"
  /\ UNCHANGED <<runtimeVars, edgeURL, active, unstopped>>

(* A sidecar accepts traffic some time after its Start returned.           *)
SidecarReady(s) ==
  /\ servers[s] = "starting"
  /\ servers' = [servers EXCEPT ![s] = "up"]
  /\ UNCHANGED <<process, containers, live, shared, harnessVars>>

AllStarted == Len(active) = Len(SidecarList)

(* cancel(), then m.Run().                                                 *)
RunTests ==
  /\ At("sidecars")
  /\ AllStarted
  /\ run' = "tests"
  /\ UNCHANGED <<runtimeVars, edgeURL, active, code, unstopped>>

(* m.Run returned: 0 if every test passed.                                 *)
RunReturns(passed) ==
  /\ At("tests")
  /\ code' = IF passed THEN 0 ELSE 1
  /\ run' = "stopping"
  /\ UNCHANGED <<runtimeVars, edgeURL, active, unstopped>>

---------------------------------------------------------------------------
(* stopAll.  After the tests its context is the startup context, which is  *)
(* cancelled by then; after a sidecar that failed it is Background.        *)
Stopping    == At("stopping") \/ At("failing")
StopContext == run = "failing"

Last1(s)   == s[Len(s)]
Front1(s) == SubSeq(s, 1, Len(s) - 1)

(* A sidecar stops.  One inside the process (sneakystack) closes its       *)
(* listener at once whatever the context says; one that has to talk to     *)
(* something outside gives up when its context is cancelled.               *)
StopSidecar ==
  /\ Stopping
  /\ active # <<>>
  /\ Last1(active) \in Detached => StopContext
  /\ servers' = [servers EXCEPT ![Last1(active)] = "down"]
  /\ active' = Front1(active)
  /\ UNCHANGED <<process, containers, live, shared, run, edgeURL, code, unstopped>>

(* Mutant: a sidecar that does not stop is waited for.                     *)
WaitsForSidecar == FALSE

(* A Stop that fails is logged and nothing else.                           *)
StopSidecarFails ==
  /\ Stopping
  /\ active # <<>>
  /\ "stop" \in HarnessFaults \/ (Last1(active) \in Detached /\ ~StopContext)
  /\ active' = Front1(active)
  /\ unstopped' = unstopped \cup {Last1(active)}
  /\ UNCHANGED <<runtimeVars, run, edgeURL, code>>

AfterStop == IF run = "failing" THEN "exiting" ELSE "clearing"

(* Mutant: the container is stopped before the sidecars.                   *)
AnySidecars    == TRUE
SidecarsStopped == active = <<>>

(* Container.Stop ignores its context.                                     *)
StopShared ==
  /\ Stopping
  /\ SidecarsStopped
  /\ TerminateContainer(SharedCtr)
  /\ run' = AfterStop
  /\ UNCHANGED <<process, shared, servers, edgeURL, active, code, unstopped>>

StopSharedFails ==
  /\ Stopping
  /\ SidecarsStopped
  /\ "stop" \in HarnessFaults
  /\ unstopped' = unstopped \cup {SharedCtr}
  /\ run' = AfterStop
  /\ UNCHANGED <<runtimeVars, edgeURL, active, code>>

(* shared = nil, edgeURL = "".                                             *)
ClearShared ==
  /\ At("clearing")
  /\ shared' = None
  /\ edgeURL' = None
  /\ run' = "exiting"
  /\ UNCHANGED <<process, containers, live, servers, active, code, unstopped>>

(* os.Exit(code).                                                          *)
OSExit ==
  /\ At("exiting")
  /\ process' = "exited"
  /\ servers' = ServersAfterExit
  /\ UNCHANGED <<containers, live, shared, harnessVars>>

HarnessStep ==
  \/ StartShared \/ StartSharedFails
  \/ StartSidecar \/ StartSidecarFails
  \/ RunTests
  \/ StopSidecar \/ StopSidecarFails
  \/ StopShared \/ StopSharedFails
  \/ ClearShared
  \/ OSExit

HarnessTypeOK ==
  /\ run \in RunPoints
  /\ edgeURL \in URLs \cup {None}
  /\ active \in Seq(Sidecars)
  /\ code \in {0, 1}
  /\ unstopped \subseteq Sidecars \cup {SharedCtr}
============================================================================
