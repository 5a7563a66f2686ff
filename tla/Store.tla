-------------------------------- MODULE Store --------------------------------
(***************************************************************************)
(* sneakystack.MapStore: two levels of Go maps behind one sync.RWMutex.    *)
(* A call waits for the lock, works on the maps in the steps another       *)
(* goroutine could get between without the lock, and unlocks on return.    *)
(***************************************************************************)
EXTENDS Naturals, Sequences, FiniteSets

CONSTANTS
  Callers,  \* the goroutines that call the store: requests being handled
  Kinds, Ids, Objects,
  Absent    \* Go's nil; also ErrNotFound as a result

ASSUME StoreAssumption == Absent \notin Objects

Operations ==
  [op : {"put"}, kind : Kinds, id : Ids, obj : Objects] \cup
  [op : {"get", "delete"}, kind : Kinds, id : Ids] \cup
  [op : {"list"}, kind : Kinds]

VARIABLES
  buckets,  \* the kinds whose inner map has been made
  data,     \* [Kinds -> [Ids -> Objects \cup {Absent}]]
  readers, writers,  \* the holders of mu
  at,       \* [Callers -> "idle", "waiting", "inside" or "leaving"]
  call,     \* [Callers -> the operation, or Absent]
  seen,     \* [Callers -> the ids List has been through]
  out       \* [Callers -> what the call returns]

storeVars == <<buckets, data, readers, writers, at, call, seen, out>>

StoreInit ==
  /\ buckets = {}
  /\ data = [k \in Kinds |-> [id \in Ids |-> Absent]]
  /\ readers = {} /\ writers = {}
  /\ at = [c \in Callers |-> "idle"]
  /\ call = [c \in Callers |-> Absent]
  /\ seen = [c \in Callers |-> {}]
  /\ out = [c \in Callers |-> <<>>]

Is(c, ops) == call[c] # Absent /\ call[c].op \in ops
Go(c, from, to) == at[c] = from /\ at' = [at EXCEPT ![c] = to]

Invoke(c, o) ==
  /\ Go(c, "idle", "waiting")
  /\ call' = [call EXCEPT ![c] = o]
  /\ seen' = [seen EXCEPT ![c] = {}]
  /\ out' = [out EXCEPT ![c] = <<>>]
  /\ UNCHANGED <<buckets, data, readers, writers>>

(* Mutant: Delete under RLock.                                             *)
DeleteReads(c) == Is(c, {"get", "list", "delete"})

(* The calls that take RLock; the others take Lock.                        *)
Reads(c) == Is(c, {"get", "list"})

(* Mutant: List under no lock.                                             *)
RLockForGet(c) ==
  /\ Go(c, "waiting", "inside")
  /\ Reads(c)
  /\ Is(c, {"get"}) => writers = {}
  /\ readers' = IF Is(c, {"get"}) THEN readers \cup {c} ELSE readers
  /\ UNCHANGED <<buckets, data, writers, call, seen, out>>

RLock(c) ==
  /\ Go(c, "waiting", "inside")
  /\ Reads(c)
  /\ writers = {}
  /\ readers' = readers \cup {c}
  /\ UNCHANGED <<buckets, data, writers, call, seen, out>>

Lock(c) ==
  /\ Go(c, "waiting", "inside")
  /\ ~Reads(c)
  /\ writers = {} /\ readers = {}
  /\ writers' = {c}
  /\ UNCHANGED <<buckets, data, readers, call, seen, out>>

(* Put makes the inner map if there is none, then assigns.                 *)
MakeBucket(c) ==
  /\ at[c] = "inside" /\ Is(c, {"put"})
  /\ call[c].kind \notin buckets
  /\ buckets' = buckets \cup {call[c].kind}
  /\ UNCHANGED <<data, readers, writers, at, call, seen, out>>

Put(c) ==
  /\ Go(c, "inside", "leaving")
  /\ Is(c, {"put"})
  /\ call[c].kind \in buckets
  /\ data' = [data EXCEPT ![call[c].kind][call[c].id] = call[c].obj]
  /\ UNCHANGED <<buckets, readers, writers, call, seen, out>>

Get(c) ==
  /\ Go(c, "inside", "leaving")
  /\ Is(c, {"get"})
  /\ out' = [out EXCEPT ![c] = <<data[call[c].kind][call[c].id]>>]
  /\ UNCHANGED <<buckets, data, readers, writers, call, seen>>

(* List appends what it finds, in the order the map gives it, until it     *)
(* has been through all of it.  The filter is ignored.                     *)
Unseen(c) == {id \in Ids : data[call[c].kind][id] # Absent} \ seen[c]

ListOne(c) ==
  /\ at[c] = "inside" /\ Is(c, {"list"})
  /\ \E id \in Unseen(c) :
       /\ seen' = [seen EXCEPT ![c] = @ \cup {id}]
       /\ out' = [out EXCEPT ![c] = Append(@, data[call[c].kind][id])]
  /\ UNCHANGED <<buckets, data, readers, writers, at, call>>

ListEnds(c) ==
  /\ Go(c, "inside", "leaving")
  /\ Is(c, {"list"})
  /\ Unseen(c) = {}
  /\ UNCHANGED <<buckets, data, readers, writers, call, seen, out>>

(* ErrNotFound if there is no such object, whichever map lacks it.         *)
Delete(c) ==
  /\ Go(c, "inside", "leaving")
  /\ Is(c, {"delete"})
  /\ LET held == data[call[c].kind][call[c].id]
     IN  out' = [out EXCEPT ![c] = IF held = Absent THEN <<Absent>> ELSE <<>>]
  /\ data' = [data EXCEPT ![call[c].kind][call[c].id] = Absent]
  /\ UNCHANGED <<buckets, readers, writers, call, seen>>

(* Mutant: no unlock on the way out with ErrNotFound.                      *)
ReturnLocked(c) ==
  /\ Go(c, "leaving", "idle")
  /\ readers' = readers \ {c}
  /\ writers' = IF out[c] = <<Absent>> THEN writers ELSE writers \ {c}
  /\ call' = [call EXCEPT ![c] = Absent]
  /\ UNCHANGED <<buckets, data, seen, out>>

(* The deferred unlock and the return.                                     *)
Return(c) ==
  /\ Go(c, "leaving", "idle")
  /\ readers' = readers \ {c}
  /\ writers' = writers \ {c}
  /\ call' = [call EXCEPT ![c] = Absent]
  /\ UNCHANGED <<buckets, data, seen, out>>

Work(c) ==
  \/ RLock(c) \/ Lock(c)
  \/ MakeBucket(c) \/ Put(c) \/ Get(c) \/ ListOne(c) \/ ListEnds(c) \/ Delete(c)

StoreNext ==
  \E c \in Callers : (\E o \in Operations : Invoke(c, o)) \/ Work(c) \/ Return(c)

StoreSpec == StoreInit /\ [][StoreNext]_storeVars

---------------------------------------------------------------------------
(* Properties.                                                             *)

StoreTypeOK ==
  /\ buckets \subseteq Kinds
  /\ data \in [Kinds -> [Ids -> Objects \cup {Absent}]]
  /\ readers \subseteq Callers /\ writers \subseteq Callers
  /\ at \in [Callers -> {"idle", "waiting", "inside", "leaving"}]
  /\ call \in [Callers -> Operations \cup {Absent}]
  /\ seen \in [Callers -> SUBSET Ids]
  /\ out \in [Callers -> Seq(Objects \cup {Absent})]

(* Nobody reads or writes the maps while somebody writes them: Go ends the *)
(* whole process when it notices ("concurrent map writes", store.go:30-33).*)
MapAccess(c) == at[c] \in {"inside", "leaving"}
NoConcurrentMapWrite ==
  \A c, d \in Callers :
    c # d /\ MapAccess(c) /\ MapAccess(d) => Is(c, {"get", "list"}) /\ Is(d, {"get", "list"})

Atomic == INSTANCE AtomicStore
  WITH map <- data,
       phase <- [c \in Callers |-> CASE at[c] = "idle" -> "idle"
                                     [] at[c] \in {"waiting", "inside"} -> "pending"
                                     [] at[c] = "leaving" -> "done"],
       asked <- call,
       result <- [c \in Callers |->
                    IF at[c] \in {"waiting", "inside"} THEN <<>> ELSE out[c]]

(* Calls that overlap behave as if each happened at one instant: a List    *)
(* never mixes the store before and after another handler's Put or Delete, *)
(* and no result is stale (store.go:41-107).                               *)
StoreIsAtomic == Atomic!AtomicSpec
==============================================================================
