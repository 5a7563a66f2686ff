----------------------------- MODULE AtomicStore -----------------------------
(***************************************************************************)
(* What sneakystack.Store promises to the handlers that call it at the     *)
(* same time: each call takes effect at one instant between its start and  *)
(* its return, and its result is what the store held at that instant.      *)
(***************************************************************************)
EXTENDS Naturals, FiniteSets

CONSTANTS Callers, Kinds, Ids, Objects, Absent, Operations

VARIABLES
  map,     \* [Kinds -> [Ids -> Objects \cup {Absent}]]
  phase,   \* [Callers -> {"idle", "pending", "done"}]
  asked,   \* [Callers -> Operations \cup {Absent}]
  result   \* [Callers -> what the call returned]

atomicVars == <<map, phase, asked, result>>

Held(kind) == {id \in Ids : map[kind][id] # Absent}

(* A slice of the objects in some order: Go's maps have none.              *)
Listings(kind) ==
  {[n \in 1 .. Cardinality(Held(kind)) |-> map[kind][order[n]]] :
     order \in {o \in [1 .. Cardinality(Held(kind)) -> Held(kind)] :
                  \A m, n \in DOMAIN o : o[m] = o[n] => m = n}}

AtomicInit ==
  /\ map = [k \in Kinds |-> [id \in Ids |-> Absent]]
  /\ phase = [c \in Callers |-> "idle"]
  /\ asked = [c \in Callers |-> Absent]
  /\ result = [c \in Callers |-> <<>>]

Ask(c, o) ==
  /\ phase[c] = "idle"
  /\ phase' = [phase EXCEPT ![c] = "pending"]
  /\ asked' = [asked EXCEPT ![c] = o]
  /\ result' = [result EXCEPT ![c] = <<>>]
  /\ map' = map

(* The set of results the call may have; the map after it.                 *)
Results(o) ==
  CASE o.op = "put"    -> {<<>>}
    [] o.op = "get"    -> {<<map[o.kind][o.id]>>}
    [] o.op = "list"   -> Listings(o.kind)
    [] o.op = "delete" -> {IF map[o.kind][o.id] = Absent THEN <<Absent>> ELSE <<>>}

After(o) ==
  CASE o.op = "put"    -> [map EXCEPT ![o.kind][o.id] = o.obj]
    [] o.op = "delete" -> [map EXCEPT ![o.kind][o.id] = Absent]
    [] OTHER           -> map

TakeEffect(c) ==
  /\ phase[c] = "pending"
  /\ phase' = [phase EXCEPT ![c] = "done"]
  /\ map' = After(asked[c])
  /\ \E r \in Results(asked[c]) : result' = [result EXCEPT ![c] = r]
  /\ asked' = asked

Answered(c) ==
  /\ phase[c] = "done"
  /\ phase' = [phase EXCEPT ![c] = "idle"]
  /\ asked' = [asked EXCEPT ![c] = Absent]
  /\ UNCHANGED <<map, result>>

AtomicNext ==
  \E c \in Callers : (\E o \in Operations : Ask(c, o)) \/ TakeEffect(c) \/ Answered(c)

AtomicSpec == AtomicInit /\ [][AtomicNext]_atomicVars
==============================================================================
