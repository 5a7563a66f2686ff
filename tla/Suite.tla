------------------------------- MODULE Suite -------------------------------
(***************************************************************************)
(* A test binary whose TestMain calls harness.Run: the harness around the  *)
(* parallel tests of TestCase.  Tests step only inside m.Run.              *)
(***************************************************************************)
EXTENDS TestCase, Harness

VARIABLES
  seenPrefixes,  \* harness.seenPrefixes
  checked        \* the tests whose body has called harness.PrefixWarning

prefixVars == <<seenPrefixes, checked>>
suiteVars  == <<vars, harnessVars, prefixVars>>

SuiteInit ==
  /\ process = "running"
  /\ shared = None
  /\ containers = [c \in Containers |-> IF c = ReusedCtr THEN "running" ELSE "absent"]
  /\ servers = [s \in Sidecars |-> "down"]
  /\ TestInit
  /\ HarnessInit
  /\ seenPrefixes = {} /\ checked = {}

(* Mutant: the prefix is looked up but not remembered.                     *)
LookUpOnly(t) ==
  /\ pc[t] = "body" /\ t \notin checked
  /\ checked' = checked \cup {t}
  /\ failed' = [failed EXCEPT ![t] = @ \/ prefix[t] \in seenPrefixes]
  /\ UNCHANGED seenPrefixes

(* harness.PrefixWarning(t, tc.Prefix()), once in the body of a test: check *)
(* and set under one lock, Errorf for a prefix seen before.                *)
PrefixWarning(t) ==
  /\ pc[t] = "body" /\ t \notin checked
  /\ checked' = checked \cup {t}
  /\ failed' = [failed EXCEPT ![t] = @ \/ prefix[t] \in seenPrefixes]
  /\ seenPrefixes' = seenPrefixes \cup {prefix[t]}

AllDone == \A t \in Tests : pc[t] = "done"

(* m.Run runs the tests, and returns when the last one has finished.       *)
MRun ==
  \/ /\ At("tests")
     /\ \E t \in Tests : TestStep(t)
     /\ UNCHANGED <<harnessVars, prefixVars>>
  \/ /\ At("tests")
     /\ \E t \in Tests : PrefixWarning(t)
     /\ UNCHANGED <<runtimeVars, harnessVars, pc, opts, prefix, stack, own, edge, work,
                    inited, tfState, cleanups, artifacts>>
  \/ /\ AllDone
     /\ RunReturns(\A t \in Tests : ~failed[t])
     /\ UNCHANGED <<testVars, prefixVars>>

SuiteOutside ==
  /\ \/ \E s \in Sidecars : process = "running" /\ SidecarReady(s)
     \/ Crash /\ UNCHANGED harnessVars
     \/ \E c \in SessionContainers : Reap(c) /\ UNCHANGED harnessVars
  /\ UNCHANGED <<testVars, prefixVars>>

SuiteEnded == process # "running" /\ UNCHANGED suiteVars

SuiteNext ==
  \/ HarnessStep /\ UNCHANGED <<testVars, prefixVars>>
  \/ MRun
  \/ SuiteOutside
  \/ SuiteEnded

(* Run's calls return, tests make progress as in TestCase, and the reaper  *)
(* acts.                                                                   *)
SuiteFairness ==
  /\ WF_suiteVars(HarnessStep /\ UNCHANGED <<testVars, prefixVars>>)
  /\ \A t \in Tests :
       WF_suiteVars(At("tests") /\ Progress(t) /\ UNCHANGED <<harnessVars, prefixVars>>)
  /\ WF_suiteVars(/\ AllDone /\ RunReturns(\A t \in Tests : ~failed[t])
                  /\ UNCHANGED <<testVars, prefixVars>>)
  /\ \A c \in SessionContainers :
       WF_suiteVars(Reap(c) /\ UNCHANGED <<testVars, harnessVars, prefixVars>>)

SuiteSpec     == SuiteInit /\ [][SuiteNext]_suiteVars
FairSuiteSpec == SuiteSpec /\ SuiteFairness

---------------------------------------------------------------------------
(* Properties.                                                             *)

(* Every variable of harness.Run and of the tests keeps its shape.         *)
SuiteTypeOK ==
  TypeOK /\ HarnessTypeOK /\ seenPrefixes \subseteq Prefixes /\ checked \subseteq Tests

(* A sidecar that accepts traffic has a LocalStack to forward it to: Run   *)
(* starts it after the container and stopAll stops it before, unless its   *)
(* Stop failed, which is logged (testmain.go:80-97 and 117-127).           *)
SidecarHasDownstream ==
  process = "running"
  => \A s \in Sidecars \ unstopped :
       servers[s] # "down" => containers[SharedCtr] = "running"

(* What harness.Current() returns while tests run is a running container   *)
(* that stays up until the last of them has finished, so no test of a      *)
(* harness binary starts one of its own (testmain.go:30, libtftest.go:325).*)
NoTestStartsItsOwn ==
  /\ \A t \in Tests : containers[t] = "absent"
  /\ process = "running" /\ (\E t \in Tests : pc[t] \notin {"idle", "done"})
     => shared = SharedCtr /\ containers[SharedCtr] = "running"

(* Exit code 0 means that everything started and every test passed; and    *)
(* what such a run leaves behind is in its log as an error: stopAll and    *)
(* Run go on after a Stop that failed, and the exit code does not tell     *)
(* (testmain.go:85, 103, 113, 117-127).                                    *)
ExitCodeHonest ==
  process = "exited" /\ code = 0
  => /\ \A t \in Tests : pc[t] = "done" /\ ~failed[t]
     /\ containers[SharedCtr] = "removed" \/ SharedCtr \in unstopped
     /\ \A s \in Sidecars \ unstopped : servers[s] = "down"

(* Two tests of a run that drew one prefix and both asked PrefixWarning do *)
(* not both pass, whatever their order, and neither does the run           *)
(* (testmain.go:130-150; naming/prefix.go:30 has 24 bits).                 *)
CollisionsAreReported ==
  \A t, u \in checked :
    t # u /\ prefix[t] = prefix[u] => (failed[t] \/ failed[u]) /\ (process = "exited" => code = 1)

(* Run ends, and nothing of it outlives it for ever: not a container it    *)
(* published, nor one whose start failed, nor that of a killed process.    *)
SuiteEnds ==
  <>(process # "running" /\ \A c \in SessionContainers : containers[c] # "running")

---------------------------------------------------------------------------
(* What the documents say and the code does not do.                        *)

(* docs/examples/06:53: with a sidecar, all SDK and Terraform traffic      *)
(* routes through it.                                                      *)
TrafficGoesThroughSidecar ==
  \A t \in Tests :
    pc[t] = "body" /\ stack[t] = SharedCtr /\ edgeURL \in Sidecars => edge[t] = edgeURL

============================================================================
