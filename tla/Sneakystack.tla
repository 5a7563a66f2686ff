----------------------------- MODULE Sneakystack -----------------------------
(***************************************************************************)
(* The sneakystack proxy at work: Proxy.ServeHTTP sends a request whose    *)
(* X-Amz-Target starts with a registered prefix to that service's handler, *)
(* which calls the store, and every other one to LocalStack.  Requests are *)
(* handled in parallel, each in a goroutine of its own.                    *)
(***************************************************************************)
EXTENDS Server, Store

ASSUME SneakystackAssumption == Callers = Requests

proxyVars == <<serverVars, storeVars>>

SneakystackInit == ServerInit /\ StoreInit

(* matchHandler found a handler, which makes one call of the store; each   *)
(* service keeps its objects under a kind of its own.                      *)
Handle(r) == Accept(r) /\ \E o \in Operations : Invoke(r, o)

(* No target, or none that starts with a registered prefix.                *)
Forward(r) == Accept(r) /\ UNCHANGED storeVars

(* The handler answers with what the store returned; LocalStack answers,   *)
(* or ReverseProxy does with a 502.                                        *)
HandlerReturns(r) == ~Ended /\ Respond(r) /\ Return(r)
ForwardReturns(r) == ~Ended /\ Respond(r) /\ at[r] = "idle" /\ UNCHANGED storeVars

Request(r) ==
  \/ Handle(r) \/ Forward(r)
  \/ ~Ended /\ Work(r) /\ UNCHANGED serverVars
  \/ HandlerReturns(r) \/ ForwardReturns(r)

Clients(r) == Connect(r) \/ ConnectRefused(r) \/ WriteTimeout(r)

(* Nothing is left to do but for clients that come too late.               *)
Settled ==
  /\ loop = "over" /\ (Ended \/ (shutdown # "draining" /\ Quiet))
  /\ UNCHANGED proxyVars

SneakystackNext ==
  \/ ServerStep /\ UNCHANGED storeVars
  \/ \E r \in Requests : Clients(r) /\ UNCHANGED storeVars
  \/ \E r \in Requests : Request(r)
  \/ Settled

SneakystackSpec == SneakystackInit /\ [][SneakystackNext]_proxyVars

---------------------------------------------------------------------------
(* Properties.                                                             *)

(* The server's and the store's variables keep their shape.                *)
SneakystackTypeOK == ServerTypeOK /\ StoreTypeOK

(* A request that was answered by its handler is one the store is through  *)
(* with, and the lock is held only by requests being handled: a client     *)
(* that gave up, or a Stop, never leaves the store locked.                 *)
LockBelongsToRequests ==
  ~Ended => readers \cup writers \subseteq {r \in Requests : conn[r] = "active"}
==============================================================================
