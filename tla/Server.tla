------------------------------- MODULE Server -------------------------------
(***************************************************************************)
(* sneakystack's HTTP server, as sneakystack.Sidecar and as the standalone *)
(* cmd/sneakystack: the listener, the goroutine that accepts from it, the  *)
(* requests in flight and http.Server.Shutdown.                            *)
(*                                                                         *)
(* The sidecar's Start opens the listener and leaves serving to a new      *)
(* goroutine; its Stop calls Shutdown.  Standalone, main itself serves and *)
(* ends when serving ends; a second goroutine calls Shutdown on a signal.  *)
(***************************************************************************)
CONSTANTS
  Requests,
  Standalone,   \* cmd/sneakystack rather than a Sidecar
  ContextLives, \* Stop's context is not cancelled (testmain.go:86, not :106)
  AcceptBreaks  \* accept may fail for good

ASSUME ServerAssumption ==
  /\ Standalone \in BOOLEAN
  /\ ContextLives \in BOOLEAN
  /\ AcceptBreaks \in BOOLEAN

VARIABLES
  url,       \* Start has returned its URL (standalone: the port is bound)
  listener,  \* "none", "open" or "closed"
  loop,      \* Serve: "no", "accepting" or "over"
  shutdown,  \* Shutdown: "no", "draining", "drained" or "gaveup"
  conn,      \* [Requests -> "none", "queued", "active" or "closed"]
  answer     \* [Requests -> "none", "answered", "refused", "timedout", "cut"]

serverVars == <<url, listener, loop, shutdown, conn, answer>>

ServerInit ==
  /\ url = FALSE
  /\ listener = "none"
  /\ loop = "no"
  /\ shutdown = "no"
  /\ conn = [r \in Requests |-> "none"]
  /\ answer = [r \in Requests |-> "none"]

(* main has returned.                                                      *)
Ended == Standalone /\ loop = "over"

(* Closing the listener resets the connections nobody has accepted.        *)
CloseListener ==
  /\ listener' = "closed"
  /\ conn' = [r \in Requests |-> IF conn[r] = "queued" THEN "closed" ELSE conn[r]]
  /\ answer' = [r \in Requests |-> IF conn[r] = "queued" THEN "refused" ELSE answer[r]]

(* The end of main takes every connection with it.                         *)
EndProcess ==
  /\ listener' = "closed"
  /\ conn' = [r \in Requests |-> "closed"]
  /\ answer' = [r \in Requests |->
                  CASE conn[r] = "queued" -> "refused"
                    [] conn[r] = "active" /\ answer[r] = "none" -> "cut"
                    [] OTHER -> answer[r]]

---------------------------------------------------------------------------
(* Mutant: the goroutine listens, so that Start returns without.           *)
StartUnbound ==
  /\ url = FALSE /\ shutdown = "no"
  /\ url' = TRUE
  /\ UNCHANGED <<listener, loop, shutdown, conn, answer>>

(* Sidecar.Start; in main the first half of ListenAndServe.                *)
Start ==
  /\ url = FALSE /\ shutdown = "no"
  /\ listener' = "open"
  /\ url' = TRUE
  /\ UNCHANGED <<loop, shutdown, conn, answer>>

(* Serve begins to accept, unless Shutdown has come first.                 *)
Serve ==
  /\ url /\ loop = "no"
  /\ shutdown = "no"
  /\ loop' = "accepting"
  /\ UNCHANGED <<url, listener, shutdown, conn, answer>>

(* Serve returns ErrServerClosed: at once after a Shutdown that was        *)
(* earlier, else as soon as Shutdown has closed the listener.              *)
ServeReturns ==
  /\ loop # "over"
  /\ shutdown # "no"
  /\ loop' = "over"
  /\ IF Standalone THEN EndProcess ELSE CloseListener
  /\ UNCHANGED <<url, shutdown>>

(* Accept fails for good: logged by the sidecar's goroutine, exit code 1   *)
(* of the standalone binary.                                               *)
ServeBreaks ==
  /\ AcceptBreaks
  /\ loop = "accepting" /\ shutdown = "no"
  /\ loop' = "over"
  /\ IF Standalone THEN EndProcess ELSE CloseListener
  /\ UNCHANGED <<url, shutdown>>

(* A client connects, or cannot.                                           *)
Connect(r) ==
  /\ url /\ conn[r] = "none"
  /\ listener = "open"
  /\ conn' = [conn EXCEPT ![r] = "queued"]
  /\ UNCHANGED <<url, listener, loop, shutdown, answer>>

ConnectRefused(r) ==
  /\ url /\ conn[r] = "none"
  /\ listener # "open"
  /\ conn' = [conn EXCEPT ![r] = "closed"]
  /\ answer' = [answer EXCEPT ![r] = "refused"]
  /\ UNCHANGED <<url, listener, loop, shutdown>>

(* The connection is accepted and ServeHTTP called.                        *)
Accept(r) ==
  /\ conn[r] = "queued"
  /\ loop = "accepting" /\ listener = "open"
  /\ conn' = [conn EXCEPT ![r] = "active"]
  /\ UNCHANGED <<url, listener, loop, shutdown, answer>>

(* ServeHTTP has returned.                                                 *)
Respond(r) ==
  /\ conn[r] = "active"
  /\ conn' = [conn EXCEPT ![r] = "closed"]
  /\ answer' = [answer EXCEPT ![r] = IF @ = "none" THEN "answered" ELSE @]
  /\ UNCHANGED <<url, listener, loop, shutdown>>

(* WriteTimeout: whatever ServeHTTP still writes is not sent; it goes on.  *)
WriteTimeout(r) ==
  /\ conn[r] = "active" /\ answer[r] = "none"
  /\ answer' = [answer EXCEPT ![r] = "timedout"]
  /\ UNCHANGED <<url, listener, loop, shutdown, conn>>

---------------------------------------------------------------------------
(* http.Server.Shutdown closes the listener that Serve has taken over,     *)
(* then waits until no request is in flight or its context is done.        *)
Shutdown ==
  /\ shutdown = "no"
  /\ ~Ended
  /\ Standalone \/ url
  /\ shutdown' = "draining"
  /\ IF loop = "accepting" THEN CloseListener ELSE UNCHANGED <<listener, conn, answer>>
  /\ UNCHANGED <<url, loop>>

(* Mutant: Close, which waits for nobody.                                  *)
Closed == TRUE
Quiet == \A r \in Requests : conn[r] # "active"

ShutdownDrained ==
  /\ shutdown = "draining" /\ ~Ended
  /\ Quiet
  /\ shutdown' = "drained"
  /\ UNCHANGED <<url, listener, loop, conn, answer>>

(* Mutant: an outcome nobody knows.                                        *)
ShutdownCancelled ==
  /\ shutdown = "draining" /\ ~Ended
  /\ ~ContextLives
  /\ ~Quiet
  /\ shutdown' = "cancelled"
  /\ UNCHANGED <<url, listener, loop, conn, answer>>

ShutdownGivesUp ==
  /\ shutdown = "draining" /\ ~Ended
  /\ ~ContextLives
  /\ ~Quiet
  /\ shutdown' = "gaveup"
  /\ UNCHANGED <<url, listener, loop, conn, answer>>

ServerStep ==
  \/ Start \/ Serve \/ ServeReturns \/ ServeBreaks
  \/ Shutdown \/ ShutdownDrained \/ ShutdownGivesUp

ServerTypeOK ==
  /\ url \in BOOLEAN
  /\ listener \in {"none", "open", "closed"}
  /\ loop \in {"no", "accepting", "over"}
  /\ shutdown \in {"no", "draining", "drained", "gaveup"}
  /\ conn \in [Requests -> {"none", "queued", "active", "closed"}]
  /\ answer \in [Requests -> {"none", "answered", "refused", "timedout", "cut"}]

(* Between Start's return and Stop nobody is turned away, also while the   *)
(* serving goroutine has yet to run: the listener is opened before it      *)
(* (sidecar.go:39-58).  Only an accept that fails for good ends that.      *)
ReachableOnceStarted ==
  \A r \in Requests :
    answer[r] = "refused" => shutdown # "no" \/ loop = "over"

(* A Stop that returned nil left no request behind that had been accepted: *)
(* it got its answer, or the WriteTimeout (sidecar.go:62-68).              *)
StopDrains ==
  shutdown = "drained" => \A r \in Requests : conn[r] # "active" /\ answer[r] # "cut"

(* main.go:62: "Graceful shutdown on signal."  A request that was being    *)
(* handled is not cut off while Shutdown's ten seconds last.               *)
GracefulShutdown ==
  shutdown = "draining" => \A r \in Requests : answer[r] # "cut"
=============================================================================
