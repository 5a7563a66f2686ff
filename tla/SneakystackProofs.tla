-------------------------- MODULE SneakystackProofs --------------------------
(***************************************************************************)
(* Proofs about MapStore, and about the proxy at work, as a Sidecar and as *)
(* the standalone binary, for any callers or requests, kinds, ids and      *)
(* objects.                                                                *)
(***************************************************************************)
EXTENDS Sneakystack, FiniteSetTheorems, SequenceTheorems, TLAPS

---------------------------------------------------------------------------
(* MapStore.  NoConcurrentMapWrite is not inductive: it says nothing of    *)
(* who holds mu.  LockInv ties the two together: whoever works on the maps *)
(* holds mu in the mode of its call, one writer at most holds it, and then *)
(* no reader.                                                              *)

(* What mu guarantees while calls are under way.                           *)
LockInv ==
  /\ \A c \in Callers : at[c] # "idle" => call[c] \in Operations
  /\ \A c \in Callers : MapAccess(c) /\ Reads(c) => c \in readers
  /\ \A c \in Callers : MapAccess(c) /\ ~Reads(c) => c \in writers
  /\ \A c \in Callers : ~MapAccess(c) => c \notin readers \cup writers
  /\ writers # {} => readers = {}
  /\ \A c, d \in writers : c = d

IInv == StoreTypeOK /\ LockInv

(* An operation on an object is on a kind and an id the store knows.       *)
LEMMA OperationFields ==
  ASSUME NEW o \in Operations
  PROVE  /\ o.op \in {"put", "get", "delete", "list"}
         /\ o.kind \in Kinds
         /\ o.op # "list" => o.id \in Ids
         /\ o.op = "put" => o.obj \in Objects
BY DEF Operations

(* Type correctness of one step, given LockInv.                            *)
LEMMA TypeStep ==
  ASSUME IInv, [StoreNext]_storeVars
  PROVE  StoreTypeOK'
<1> USE DEF IInv, StoreTypeOK, Go, Is
<1>1. CASE UNCHANGED storeVars
  BY <1>1 DEF storeVars
<1>2. ASSUME NEW c \in Callers, NEW o \in Operations, Invoke(c, o)
      PROVE  StoreTypeOK'
  BY <1>2 DEF Invoke
<1>3. ASSUME NEW c \in Callers, RLock(c) \/ Lock(c)
      PROVE  StoreTypeOK'
  BY <1>3 DEF RLock, Lock
<1>4. ASSUME NEW c \in Callers, at[c] = "inside"
      PROVE  call[c] \in Operations
  BY <1>4 DEF LockInv
<1>5. ASSUME NEW c \in Callers, MakeBucket(c)
      PROVE  StoreTypeOK'
  BY <1>4, <1>5, OperationFields DEF MakeBucket
<1>6. ASSUME NEW c \in Callers, Put(c)
      PROVE  StoreTypeOK'
  <2>1. call[c].kind \in Kinds /\ call[c].id \in Ids /\ call[c].obj \in Objects
    BY <1>4, <1>6, OperationFields DEF Put
  <2>2. data' \in [Kinds -> [Ids -> Objects \cup {Absent}]]
    BY <1>6, <2>1 DEF Put
  <2> QED BY <1>6, <2>2 DEF Put
<1>7. ASSUME NEW c \in Callers, Get(c)
      PROVE  StoreTypeOK'
  <2>1. call[c].kind \in Kinds /\ call[c].id \in Ids
    BY <1>4, <1>7, OperationFields DEF Get
  <2>2. data[call[c].kind][call[c].id] \in Objects \cup {Absent}
    BY <2>1
  <2>3. <<data[call[c].kind][call[c].id]>> \in Seq(Objects \cup {Absent})
    BY <2>2
  <2> QED BY <1>7, <2>3 DEF Get
<1>8. ASSUME NEW c \in Callers, ListOne(c)
      PROVE  StoreTypeOK'
  <2>1. PICK id \in Unseen(c) :
          /\ seen' = [seen EXCEPT ![c] = @ \cup {id}]
          /\ out' = [out EXCEPT ![c] = Append(@, data[call[c].kind][id])]
    BY <1>8 DEF ListOne
  <2>2. id \in Ids /\ call[c].kind \in Kinds
    BY <1>4, <1>8, OperationFields DEF ListOne, Unseen
  <2>3. data[call[c].kind][id] \in Objects \cup {Absent}
    BY <2>2
  <2>4. Append(out[c], data[call[c].kind][id]) \in Seq(Objects \cup {Absent})
    BY <2>3, AppendProperties
  <2>5. seen' \in [Callers -> SUBSET Ids] /\ out' \in [Callers -> Seq(Objects \cup {Absent})]
    BY <2>1, <2>2, <2>4
  <2> QED BY <1>8, <2>5 DEF ListOne
<1>9. ASSUME NEW c \in Callers, ListEnds(c)
      PROVE  StoreTypeOK'
  BY <1>9 DEF ListEnds
<1>10. ASSUME NEW c \in Callers, Delete(c)
       PROVE  StoreTypeOK'
  <2>1. call[c].kind \in Kinds /\ call[c].id \in Ids
    BY <1>4, <1>10, OperationFields DEF Delete
  <2>2. data' \in [Kinds -> [Ids -> Objects \cup {Absent}]]
    BY <1>10, <2>1 DEF Delete
  <2>3. out' \in [Callers -> Seq(Objects \cup {Absent})]
    <3>1. <<Absent>> \in Seq(Objects \cup {Absent}) /\ <<>> \in Seq(Objects \cup {Absent})
      OBVIOUS
    <3> QED BY <1>10, <3>1 DEF Delete
  <2> QED BY <1>10, <2>2, <2>3 DEF Delete
<1>11. ASSUME NEW c \in Callers, Return(c)
       PROVE  StoreTypeOK'
  BY <1>11 DEF Return
<1> QED
  BY <1>1, <1>2, <1>3, <1>5, <1>6, <1>7, <1>8, <1>9, <1>10, <1>11
     DEF StoreNext, Work

(* A caller's own step is the only one that moves it or its holds on mu.   *)
LEMMA LockStep ==
  ASSUME IInv, [StoreNext]_storeVars
  PROVE  LockInv'
<1> USE DEF IInv, StoreTypeOK, LockInv, Go, Is, MapAccess, Reads
<1>1. CASE UNCHANGED storeVars
  BY <1>1 DEF storeVars
<1>2. ASSUME NEW c \in Callers, NEW o \in Operations, Invoke(c, o)
      PROVE  LockInv'
  BY <1>2 DEF Invoke
<1>3. ASSUME NEW c \in Callers, RLock(c)
      PROVE  LockInv'
  BY <1>3 DEF RLock
<1>4. ASSUME NEW c \in Callers, Lock(c)
      PROVE  LockInv'
  BY <1>4 DEF Lock
<1>5. ASSUME NEW c \in Callers,
             Put(c) \/ Get(c) \/ ListEnds(c) \/ Delete(c)
      PROVE  LockInv'
  <2>1. Go(c, "inside", "leaving") /\ UNCHANGED <<readers, writers, call>>
    BY <1>5 DEF Put, Get, ListEnds, Delete
  <2> QED BY <2>1
<1>6. ASSUME NEW c \in Callers, MakeBucket(c) \/ ListOne(c)
      PROVE  LockInv'
  BY <1>6 DEF MakeBucket, ListOne
<1>7. ASSUME NEW c \in Callers, Return(c)
      PROVE  LockInv'
  BY <1>7 DEF Return
<1> HIDE DEF IInv, StoreTypeOK, LockInv, Go, Is, MapAccess, Reads
<1> QED
  BY <1>1, <1>2, <1>3, <1>4, <1>5, <1>6, <1>7 DEF StoreNext, Work

(* The inductive invariant of MapStore.                                    *)
THEOREM StoreInvariance == StoreSpec => []IInv
<1>1. StoreInit => IInv
  BY DEF StoreInit, IInv, StoreTypeOK, LockInv, MapAccess
<1>2. IInv /\ [StoreNext]_storeVars => IInv'
  BY TypeStep, LockStep DEF IInv
<1> QED BY <1>1, <1>2, PTL DEF StoreSpec

(* The types of MapStore's maps and of the calls under way (store.go).     *)
THEOREM StoreTypeCorrect == StoreSpec => []StoreTypeOK
BY StoreInvariance, PTL DEF IInv

(* Who is at the maps holds mu, so two are there only as readers.          *)
LEMMA LockExcludes ==
  ASSUME LockInv
  PROVE  NoConcurrentMapWrite
<1> SUFFICES ASSUME NEW c \in Callers, NEW d \in Callers, c # d, MapAccess(c), MapAccess(d)
             PROVE  Reads(c) /\ Reads(d)
  BY DEF NoConcurrentMapWrite, Reads
<1>1. CASE ~Reads(c)
  BY <1>1 DEF LockInv
<1>2. CASE ~Reads(d)
  BY <1>2 DEF LockInv
<1> QED BY <1>1, <1>2

(* Put and Delete have the maps to themselves, and Get and List share them *)
(* with each other only: the RWMutex of store.go:30 is held the right way  *)
(* by each of the four.                                                    *)
THEOREM MutualExclusion == StoreSpec => []NoConcurrentMapWrite
BY StoreInvariance, LockExcludes, PTL DEF IInv
---------------------------------------------------------------------------
(* StoreIsAtomic.  Every call takes effect as it leaves the maps.  Of a    *)
(* List, which has been through them one object at a time, that holds only *)
(* because RLock has kept them as they were: ListedInv.                    *)

HeldIds(kind) == {id \in Ids : data[kind][id] # Absent}

(* An order of ids, and the objects that List returns when it meets them   *)
(* in that order.                                                          *)
InOrder(order, kind, ids, objects) ==
  /\ order \in [1 .. Len(objects) -> ids]
  /\ \A m, n \in 1 .. Len(objects) : order[m] = order[n] => m = n
  /\ objects = [n \in 1 .. Len(objects) |-> data[kind][order[n]]]

(* What a List has been through is still there, and it is what it returns. *)
Listed(c) ==
  /\ seen[c] \subseteq HeldIds(call[c].kind)
  /\ IsFiniteSet(seen[c]) /\ Cardinality(seen[c]) = Len(out[c])
  /\ \E order \in [1 .. Len(out[c]) -> seen[c]] :
       InOrder(order, call[c].kind, seen[c], out[c])

(* The other calls return nothing before they have had their effect.       *)
ListedInv ==
  \A c \in Callers :
    /\ at[c] = "waiting" => seen[c] = {} /\ out[c] = <<>>
    /\ at[c] = "inside" => IF call[c].op = "list" THEN Listed(c) ELSE out[c] = <<>>

AtomicInv == IInv /\ ListedInv

(* A List that has just got the lock has been through nothing.             *)
LEMMA ListedFromNothing ==
  ASSUME NEW c \in Callers, seen[c] = {}, out[c] = <<>>
  PROVE  Listed(c)
<1>1. IsFiniteSet({}) /\ Cardinality({}) = 0
  BY FS_EmptySet
<1>2. Len(<<>>) = 0 /\ 1 .. 0 = {}
  OBVIOUS
<1>3. PICK order \in [{} -> {}] : TRUE
  <2>1. [x \in {} |-> x] \in [{} -> {}]
    OBVIOUS
  <2> QED BY <2>1
<1>4. <<>> = [n \in {} |-> data[call[c].kind][order[n]]]
  OBVIOUS
<1>5. InOrder(order, call[c].kind, {}, <<>>)
  BY <1>2, <1>3, <1>4 DEF InOrder
<1> QED BY <1>1, <1>2, <1>3, <1>5 DEF Listed

(* One more object found by List.                                          *)
LEMMA ListedOneMore ==
  ASSUME AtomicInv, NEW c \in Callers, ListOne(c)
  PROVE  Listed(c)'
<1> DEFINE kind == call[c].kind
           L == Len(out[c])
<1>1. at[c] = "inside" /\ call[c] \in Operations /\ call[c].op = "list"
  BY DEF ListOne, Is, AtomicInv, IInv, LockInv
<1>2. Listed(c) /\ out[c] \in Seq(Objects \cup {Absent}) /\ L \in Nat
  BY <1>1 DEF AtomicInv, ListedInv, IInv, StoreTypeOK
<1>3. PICK id \in Unseen(c) :
        /\ seen' = [seen EXCEPT ![c] = @ \cup {id}]
        /\ out' = [out EXCEPT ![c] = Append(@, data[call[c].kind][id])]
  BY DEF ListOne
<1>4. PICK order \in [1 .. L -> seen[c]] : InOrder(order, kind, seen[c], out[c])
  BY <1>2 DEF Listed
<1>5. id \in HeldIds(kind) /\ id \notin seen[c]
  BY <1>3 DEF Unseen, HeldIds
<1>6. /\ seen'[c] = seen[c] \cup {id}
      /\ out'[c] = Append(out[c], data[kind][id])
      /\ data' = data /\ call' = call
  BY <1>3 DEF ListOne, AtomicInv, IInv, StoreTypeOK
<1>7. data[kind][id] \in Objects \cup {Absent}
  BY <1>1, <1>5, OperationFields DEF AtomicInv, IInv, StoreTypeOK, HeldIds
<1> DEFINE longer == [n \in 1 .. (L + 1) |-> IF n = L + 1 THEN id ELSE order[n]]
<1>8. Len(out'[c]) = L + 1
  BY <1>2, <1>6, <1>7, AppendProperties
<1>9. longer \in [1 .. (L + 1) -> seen'[c]]
  <2>1. \A n \in 1 .. (L + 1) : n # L + 1 => n \in 1 .. L
    BY <1>2
  <2> QED BY <1>6, <2>1
<1>10. \A m, n \in 1 .. (L + 1) : longer[m] = longer[n] => m = n
  <2> SUFFICES ASSUME NEW m \in 1 .. (L + 1), NEW n \in 1 .. (L + 1),
                      longer[m] = longer[n]
               PROVE  m = n
    OBVIOUS
  <2>1. \A k \in 1 .. (L + 1) : k # L + 1 => k \in 1 .. L
    BY <1>2
  <2>2. \A k \in 1 .. L : order[k] # id
    BY <1>5
  <2> QED BY <2>1, <2>2, <1>4 DEF InOrder
<1>11. out'[c] = [n \in 1 .. (L + 1) |-> data'[kind][longer[n]]]
  <2>1. out'[c] \in Seq(Objects \cup {Absent})
    BY <1>2, <1>6, <1>7, AppendProperties
  <2>2. out'[c] = [n \in 1 .. (L + 1) |-> out'[c][n]]
    BY <1>8, <2>1
  <2>3. ASSUME NEW n \in 1 .. (L + 1)
        PROVE  out'[c][n] = data[kind][longer[n]]
    <3>1. CASE n = L + 1
      BY <3>1, <1>2, <1>6, <1>7, AppendProperties
    <3>2. CASE n \in 1 .. L
      <4>1. out'[c][n] = out[c][n]
        BY <3>2, <1>2, <1>6, <1>7, AppendProperties
      <4>2. out[c][n] = data[kind][order[n]]
        BY <3>2, <1>4 DEF InOrder
      <4>3. n # L + 1
        BY <3>2, <1>2
      <4> QED BY <4>1, <4>2, <4>3
    <3> QED BY <3>1, <3>2, <1>2
  <2>4. [n \in 1 .. (L + 1) |-> out'[c][n]] = [n \in 1 .. (L + 1) |-> data[kind][longer[n]]]
    BY <2>3
  <2> QED BY <2>2, <2>4, <1>6
<1>12. \E o \in [1 .. (L + 1) -> seen'[c]] :
         /\ \A m, n \in 1 .. (L + 1) : o[m] = o[n] => m = n
         /\ out'[c] = [n \in 1 .. (L + 1) |-> data'[kind][o[n]]]
  <2> HIDE DEF longer
  <2> QED BY <1>9, <1>10, <1>11
<1>13. IsFiniteSet(seen'[c]) /\ Cardinality(seen'[c]) = Len(out'[c])
  <2>1. IsFiniteSet(seen[c]) /\ Cardinality(seen[c]) = L
    BY <1>2 DEF Listed
  <2>2. IsFiniteSet(seen[c] \cup {id}) /\ Cardinality(seen[c] \cup {id}) = L + 1
    BY <2>1, <1>5, FS_AddElement
  <2> QED BY <2>2, <1>6, <1>8
<1>14. seen'[c] \subseteq {i \in Ids : data'[kind][i] # Absent}
  BY <1>2, <1>5, <1>6 DEF Listed, HeldIds
<1>15. \E o \in [1 .. Len(out'[c]) -> seen'[c]] :
         /\ o \in [1 .. Len(out'[c]) -> seen'[c]]
         /\ \A m, n \in 1 .. Len(out'[c]) : o[m] = o[n] => m = n
         /\ out'[c] = [n \in 1 .. Len(out'[c]) |-> data'[kind][o[n]]]
  <2>1. 1 .. Len(out'[c]) = 1 .. (L + 1)
    BY <1>8
  <2>2. PICK o \in [1 .. (L + 1) -> seen'[c]] :
          /\ \A m, n \in 1 .. (L + 1) : o[m] = o[n] => m = n
          /\ out'[c] = [n \in 1 .. (L + 1) |-> data'[kind][o[n]]]
    BY <1>12
  <2> HIDE DEF L, longer
  <2>3. out'[c] = [n \in 1 .. Len(out'[c]) |-> data'[kind][o[n]]]
    BY ONLY <2>1, <2>2
  <2>4. o \in [1 .. Len(out'[c]) -> seen'[c]]
    BY ONLY <2>1, <2>2
  <2>5. \A m, n \in 1 .. Len(out'[c]) : o[m] = o[n] => m = n
    BY ONLY <2>1, <2>2
  <2> WITNESS o \in [1 .. Len(out'[c]) -> seen'[c]]
  <2> QED BY <2>3, <2>4, <2>5, Zenon
<1>16. call'[c].kind = kind
  BY <1>6
<1> QED BY <1>13, <1>14, <1>15, <1>16 DEF Listed, HeldIds, InOrder
(* A caller that is left where it is has as much as before, as long as the *)
(* maps are what they were.                                                *)
LEMMA ListedStays ==
  ASSUME NEW c \in Callers, Listed(c), data' = data,
         call'[c] = call[c], seen'[c] = seen[c], out'[c] = out[c]
  PROVE  Listed(c)'
<1>1. HeldIds(call[c].kind)' = HeldIds(call[c].kind)
  BY DEF HeldIds
<1>2. PICK order \in [1 .. Len(out[c]) -> seen[c]] :
        InOrder(order, call[c].kind, seen[c], out[c])
  BY DEF Listed
<1>3. InOrder(order, call[c].kind, seen[c], out[c])'
  BY <1>2 DEF InOrder
<1>4. order \in [1 .. Len(out[c]) -> seen[c]]'
  BY <1>2
<1> QED BY <1>1, <1>3, <1>4 DEF Listed

(* ListedInv of the other callers, over a step of c: while one is inside   *)
(* with a List, it holds mu as a reader and c cannot be writing.           *)
LEMMA ListedOthers ==
  ASSUME AtomicInv, NEW c \in Callers, Work(c) \/ Return(c) \/ (\E o \in Operations : Invoke(c, o)),
         NEW d \in Callers, d # c
  PROVE  /\ at'[d] = "waiting" => seen'[d] = {} /\ out'[d] = <<>>
         /\ at'[d] = "inside" => IF call'[d].op = "list" THEN Listed(d)' ELSE out'[d] = <<>>
<1> USE DEF AtomicInv, IInv, StoreTypeOK, Go
<1>1. at'[d] = at[d] /\ call'[d] = call[d] /\ seen'[d] = seen[d] /\ out'[d] = out[d]
  <2>1. CASE \E o \in Operations : Invoke(c, o)
    BY <2>1 DEF Invoke
  <2>2. CASE RLock(c) \/ Lock(c) \/ MakeBucket(c) \/ Put(c) \/ ListEnds(c) \/ Return(c)
    BY <2>2 DEF RLock, Lock, MakeBucket, Put, ListEnds, Return
  <2>3. CASE Get(c) \/ Delete(c)
    BY <2>3 DEF Get, Delete
  <2>4. CASE ListOne(c)
    BY <2>4 DEF ListOne
  <2> QED BY <2>1, <2>2, <2>3, <2>4 DEF Work
<1>2. ASSUME at[d] = "inside"
      PROVE  data' = data
  <2>1. CASE Put(c) \/ Delete(c)
    <3>1. at[c] = "inside" /\ ~Reads(c)
      BY <2>1 DEF Put, Delete, Reads, Is
    <3>2. c \in writers
      BY <3>1 DEF LockInv, MapAccess
    <3>3. d \in readers \cup writers
      BY <1>2 DEF LockInv, MapAccess
    <3> QED BY <3>2, <3>3 DEF LockInv
  <2>2. CASE ~(Put(c) \/ Delete(c))
    BY <2>2 DEF Work, Invoke, RLock, Lock, MakeBucket, Get, ListOne, ListEnds, Return
  <2> QED BY <2>1, <2>2
<1>3. ASSUME at[d] = "inside", call[d].op = "list"
      PROVE  Listed(d)'
  BY <1>1, <1>2, <1>3, ListedStays DEF ListedInv
<1> QED BY <1>1, <1>3 DEF ListedInv

(* ListedInv over one step.                                                *)
LEMMA ListedStep ==
  ASSUME AtomicInv, [StoreNext]_storeVars
  PROVE  ListedInv'
<1> USE DEF AtomicInv, IInv, StoreTypeOK, Go
<1> DEFINE Fine(c) ==
      /\ at[c] = "waiting" => seen[c] = {} /\ out[c] = <<>>
      /\ at[c] = "inside" => IF call[c].op = "list" THEN Listed(c) ELSE out[c] = <<>>
<1>1. CASE UNCHANGED storeVars
  <2>1. UNCHANGED <<data, at, call, seen, out>>
    BY <1>1 DEF storeVars
  <2> QED BY <2>1, ListedStays DEF ListedInv
<1>2. ASSUME NEW c \in Callers, NEW o \in Operations, Invoke(c, o)
      PROVE  Fine(c)'
  BY <1>2 DEF Invoke
<1>3. ASSUME NEW c \in Callers, RLock(c) \/ Lock(c)
      PROVE  Fine(c)'
  <2>1. /\ seen[c] = {} /\ out[c] = <<>>
        /\ UNCHANGED <<data, call, seen, out>>
    BY <1>3 DEF RLock, Lock, ListedInv
  <2>2. at'[c] = "inside"
    BY <1>3 DEF RLock, Lock
  <2>3. Listed(c)'
    BY <2>1, ListedFromNothing, ListedStays
  <2> QED BY <2>1, <2>2, <2>3
<1>4. ASSUME NEW c \in Callers, MakeBucket(c)
      PROVE  Fine(c)'
  BY <1>4, ListedStays DEF MakeBucket, ListedInv
<1>5. ASSUME NEW c \in Callers,
             Put(c) \/ Get(c) \/ ListEnds(c) \/ Delete(c) \/ Return(c)
      PROVE  Fine(c)'
  <2>1. at'[c] \in {"leaving", "idle"}
    BY <1>5 DEF Put, Get, ListEnds, Delete, Return
  <2> QED BY <2>1
<1>6. ASSUME NEW c \in Callers, ListOne(c)
      PROVE  Fine(c)'
  <2>1. at'[c] = "inside" /\ call'[c] = call[c] /\ call[c].op = "list"
    BY <1>6 DEF ListOne, Is
  <2>2. Listed(c)'
    BY <1>6, ListedOneMore
  <2> QED BY <2>1, <2>2
<1>7. ASSUME NEW c \in Callers,
             Work(c) \/ Return(c) \/ (\E o \in Operations : Invoke(c, o))
      PROVE  ListedInv'
  <2>1. Fine(c)'
    BY <1>2, <1>3, <1>4, <1>5, <1>6, <1>7 DEF Work
  <2>2. ASSUME NEW d \in Callers, d # c
        PROVE  Fine(d)'
    BY <1>7, <2>2, ListedOthers
  <2> QED BY <2>1, <2>2 DEF ListedInv
<1> HIDE DEF AtomicInv, IInv, StoreTypeOK, Go
<1> QED BY <1>1, <1>7 DEF StoreNext
(* How a caller of MapStore looks to the abstract store.                   *)
PhaseOf(stage) ==
  CASE stage = "idle" -> "idle"
    [] stage \in {"waiting", "inside"} -> "pending"
    [] stage = "leaving" -> "done"

ResultOf(stage, returned) == IF stage \in {"waiting", "inside"} THEN <<>> ELSE returned

Phases == [c \in Callers |-> PhaseOf(at[c])]
Returned == [c \in Callers |-> ResultOf(at[c], out[c])]

(* What a List of all the objects there are returns is one of the          *)
(* abstract listings: it met each of them once.                            *)
LEMMA ListedAll ==
  ASSUME NEW c \in Callers, Listed(c), Unseen(c) = {}
  PROVE  out[c] \in Atomic!Listings(call[c].kind)
<1> DEFINE kind == call[c].kind
           L == Len(out[c])
<1>1. Atomic!Held(kind) = HeldIds(kind)
  BY DEF Atomic!Held, HeldIds
<1>2. seen[c] = HeldIds(kind)
  BY DEF Listed, Unseen, HeldIds
<1>3. Cardinality(HeldIds(kind)) = L
  BY <1>2 DEF Listed
<1>4. PICK order \in [1 .. L -> seen[c]] : InOrder(order, kind, seen[c], out[c])
  BY DEF Listed
<1>5. order \in {o \in [1 .. L -> HeldIds(kind)] :
                   \A m, n \in DOMAIN o : o[m] = o[n] => m = n}
  <2>1. DOMAIN order = 1 .. L
    BY <1>4
  <2> QED BY <1>2, <1>4, <2>1 DEF InOrder
<1>6. out[c] = [n \in 1 .. L |-> data[kind][order[n]]]
  BY <1>4 DEF InOrder
<1> HIDE DEF L, kind
<1>7. out[c] \in {[n \in 1 .. L |-> data[kind][o[n]]] :
                    o \in {p \in [1 .. L -> HeldIds(kind)] :
                             \A m, n \in DOMAIN p : p[m] = p[n] => m = n}}
  BY <1>5, <1>6
<1>8. \A S : Atomic!Cardinality(S) = Cardinality(S)
  BY DEF Atomic!Cardinality, Cardinality
<1> QED BY <1>1, <1>3, <1>7, <1>8 DEF Atomic!Listings, kind

(* A step that moves one caller's stage, or none.                          *)
LEMMA PhaseMoves ==
  ASSUME StoreTypeOK, NEW c \in Callers, NEW stage,
         at' = [at EXCEPT ![c] = stage]
  PROVE  Phases' = [Phases EXCEPT ![c] = PhaseOf(stage)]
BY DEF StoreTypeOK, Phases

(* Every step of MapStore is one of the abstract store, or changes nothing *)
(* it knows of.                                                            *)
LEMMA AtomicStep ==
  ASSUME AtomicInv, [StoreNext]_storeVars
  PROVE  [Atomic!AtomicNext]_(Atomic!atomicVars)
<1> DEFINE Step == [Atomic!AtomicNext]_(Atomic!atomicVars)
<1>a. /\ Atomic!atomicVars = <<data, Phases, call, Returned>>
      /\ Atomic!atomicVars' = <<data, Phases, call, Returned>>'
  BY DEF Atomic!atomicVars, Phases, Returned, PhaseOf, ResultOf
<1>t. StoreTypeOK
  BY DEF AtomicInv, IInv
<1>1. ASSUME UNCHANGED <<data, call, Phases, Returned>>
      PROVE  Step
  BY <1>a, <1>1
<1>2. CASE UNCHANGED storeVars
  <2>1. UNCHANGED <<data, call, at, out>>
    BY <1>2 DEF storeVars
  <2> QED BY <1>1, <2>1 DEF Phases, Returned
<1>3. ASSUME NEW c \in Callers, NEW o \in Operations, Invoke(c, o)
      PROVE  Step
  <2>1. /\ at[c] = "idle" /\ at' = [at EXCEPT ![c] = "waiting"]
        /\ call' = [call EXCEPT ![c] = o]
        /\ out' = [out EXCEPT ![c] = <<>>] /\ data' = data
    BY <1>3 DEF Invoke, Go
  <2>2. Phases[c] = "idle" /\ Phases' = [Phases EXCEPT ![c] = "pending"]
    <3>1. PhaseOf("waiting") = "pending" /\ PhaseOf("idle") = "idle"
      BY DEF PhaseOf
    <3> QED BY <2>1, <3>1, <1>t, PhaseMoves DEF Phases
  <2>3. Returned' = [Returned EXCEPT ![c] = <<>>]
    BY <2>1, <1>t DEF Returned, ResultOf, StoreTypeOK
  <2>4. Atomic!Ask(c, o)
    BY <2>1, <2>2, <2>3 DEF Atomic!Ask, Phases, Returned, PhaseOf, ResultOf
  <2> QED BY <2>4 DEF Atomic!AtomicNext
<1>4. ASSUME NEW c \in Callers,
             RLock(c) \/ Lock(c) \/ MakeBucket(c) \/ ListOne(c)
      PROVE  Step
  <2>1. UNCHANGED <<data, call>>
    BY <1>4 DEF RLock, Lock, MakeBucket, ListOne
  <2>2. Phases' = Phases
    <3>1. CASE RLock(c) \/ Lock(c)
      <4>1. at[c] = "waiting" /\ at' = [at EXCEPT ![c] = "inside"]
        BY <3>1 DEF RLock, Lock, Go
      <4> QED BY <4>1, <1>t DEF Phases, PhaseOf, StoreTypeOK
    <3>2. CASE MakeBucket(c) \/ ListOne(c)
      BY <3>2 DEF MakeBucket, ListOne, Phases
    <3> QED BY <1>4, <3>1, <3>2
  <2>3. Returned' = Returned
    <3>1. CASE RLock(c) \/ Lock(c)
      <4>1. at[c] = "waiting" /\ at' = [at EXCEPT ![c] = "inside"] /\ out' = out
        BY <3>1 DEF RLock, Lock, Go
      <4> QED BY <4>1, <1>t DEF Returned, ResultOf, StoreTypeOK
    <3>2. CASE MakeBucket(c)
      BY <3>2 DEF MakeBucket, Returned
    <3>3. CASE ListOne(c)
      <4>1. at[c] = "inside" /\ at' = at /\ (\A d \in Callers : d # c => out'[d] = out[d])
        BY <3>3, <1>t DEF ListOne, StoreTypeOK
      <4> QED BY <4>1 DEF Returned, ResultOf
    <3> QED BY <1>4, <3>1, <3>2, <3>3
  <2> QED BY <1>1, <2>1, <2>2, <2>3
<1>5. ASSUME NEW c \in Callers, Return(c)
      PROVE  Step
  <2>1. /\ at[c] = "leaving" /\ at' = [at EXCEPT ![c] = "idle"]
        /\ call' = [call EXCEPT ![c] = Absent]
        /\ out' = out /\ data' = data
    BY <1>5 DEF Return, Go
  <2>2. Phases[c] = "done" /\ Phases' = [Phases EXCEPT ![c] = "idle"]
    <3>1. PhaseOf("leaving") = "done" /\ PhaseOf("idle") = "idle"
      BY DEF PhaseOf
    <3> QED BY <2>1, <3>1, <1>t, PhaseMoves DEF Phases
  <2>3. Returned' = Returned
    BY <2>1, <1>t DEF Returned, ResultOf, StoreTypeOK
  <2>4. Atomic!Answered(c)
    BY <2>1, <2>2, <2>3 DEF Atomic!Answered, Phases, Returned, PhaseOf, ResultOf
  <2> QED BY <2>4 DEF Atomic!AtomicNext
<1>6. ASSUME NEW c \in Callers, Go(c, "inside", "leaving"), call' = call,
             data' = Atomic!After(call[c]),
             out'[c] \in Atomic!Results(call[c]),
             \A d \in Callers : d # c => out'[d] = out[d]
      PROVE  Step
  <2>1. at[c] = "inside" /\ at' = [at EXCEPT ![c] = "leaving"]
    BY <1>6 DEF Go
  <2>2. Phases[c] = "pending" /\ Phases' = [Phases EXCEPT ![c] = "done"]
    <3>1. PhaseOf("leaving") = "done" /\ PhaseOf("inside") = "pending"
      BY DEF PhaseOf
    <3> QED BY <2>1, <3>1, <1>t, PhaseMoves DEF Phases
  <2>3. Returned' = [Returned EXCEPT ![c] = out'[c]]
    BY <2>1, <1>6, <1>t DEF Returned, ResultOf, StoreTypeOK
  <2>4. Atomic!TakeEffect(c)
    BY <1>6, <2>2, <2>3 DEF Atomic!TakeEffect, Phases, Returned, PhaseOf, ResultOf
  <2> QED BY <2>4 DEF Atomic!AtomicNext
<1>7. ASSUME NEW c \in Callers, Put(c) \/ Get(c) \/ ListEnds(c) \/ Delete(c)
      PROVE  Step
  <2>1. Go(c, "inside", "leaving") /\ call' = call /\ call[c] \in Operations
    BY <1>7 DEF Put, Get, ListEnds, Delete, Go, AtomicInv, IInv, LockInv
  <2>2. \A d \in Callers : d # c => out'[d] = out[d]
    BY <1>7, <1>t DEF Put, Get, ListEnds, Delete, StoreTypeOK
  <2>3. data' = Atomic!After(call[c]) /\ out'[c] \in Atomic!Results(call[c])
    <3>1. CASE Put(c)
      <4>1. call[c].op = "put" /\ out'[c] = <<>>
        BY <3>1, <2>1 DEF Put, Is, Go, AtomicInv, ListedInv
      <4> QED BY <3>1, <4>1 DEF Put, Atomic!After, Atomic!Results
    <3>2. CASE Get(c)
      <4>1. call[c].op = "get" /\ out'[c] = <<data[call[c].kind][call[c].id]>>
        BY <3>2, <1>t DEF Get, Is, StoreTypeOK
      <4> QED BY <3>2, <4>1 DEF Get, Atomic!After, Atomic!Results
    <3>3. CASE ListEnds(c)
      <4>1. call[c].op = "list" /\ out'[c] = out[c] /\ Listed(c)
        BY <3>3 DEF ListEnds, Is, Go, AtomicInv, ListedInv
      <4>2. out[c] \in Atomic!Listings(call[c].kind)
        BY <3>3, <4>1, ListedAll DEF ListEnds
      <4> QED BY <3>3, <4>1, <4>2 DEF ListEnds, Atomic!After, Atomic!Results
    <3>4. CASE Delete(c)
      <4>1. /\ call[c].op = "delete"
            /\ out'[c] = IF data[call[c].kind][call[c].id] = Absent THEN <<Absent>> ELSE <<>>
        BY <3>4, <1>t DEF Delete, Is, StoreTypeOK
      <4> QED BY <3>4, <4>1 DEF Delete, Atomic!After, Atomic!Results
    <3> QED BY <1>7, <3>1, <3>2, <3>3, <3>4
  <2> QED BY <1>6, <2>1, <2>2, <2>3
<1> QED
  <2>1. CASE StoreNext
    <3>1. PICK c \in Callers : (\E o \in Operations : Invoke(c, o)) \/ Work(c) \/ Return(c)
      BY <2>1 DEF StoreNext
    <3> HIDE DEF Step
    <3>2. Step
      BY <3>1, <1>3, <1>4, <1>5, <1>7 DEF Work
    <3> QED BY <3>2 DEF Step
  <2> QED BY <1>2, <2>1

(* The invariant with what a List has been through.                        *)
LEMMA AtomicInvStep ==
  ASSUME AtomicInv, [StoreNext]_storeVars
  PROVE  AtomicInv'
BY TypeStep, LockStep, ListedStep DEF AtomicInv, IInv

(* The store starts empty, with nobody calling.                            *)
LEMMA AtomicStart ==
  ASSUME StoreInit
  PROVE  AtomicInv /\ Atomic!AtomicInit
<1>1. IInv
  BY DEF StoreInit, IInv, StoreTypeOK, LockInv, MapAccess
<1>2. ListedInv
  BY DEF StoreInit, ListedInv
<1>3. Atomic!AtomicInit
  BY DEF StoreInit, Atomic!AtomicInit
<1> QED BY <1>1, <1>2, <1>3 DEF AtomicInv

(* MapStore behaves as the store that does each call at one instant: the   *)
(* proxy's handlers, which run in parallel, never see half of each other's *)
(* calls (store.go:41-107).                                                *)
THEOREM StoreRefinesAtomic == StoreSpec => StoreIsAtomic
<1>1. StoreInit => AtomicInv /\ Atomic!AtomicInit
  BY AtomicStart
<1>2. AtomicInv /\ [StoreNext]_storeVars => AtomicInv'
  BY AtomicInvStep
<1>3. AtomicInv /\ [StoreNext]_storeVars => [Atomic!AtomicNext]_(Atomic!atomicVars)
  BY AtomicStep
<1> QED BY <1>1, <1>2, <1>3, PTL DEF StoreSpec, StoreIsAtomic, Atomic!AtomicSpec

---------------------------------------------------------------------------
(* The proxy.  Every step of it is a step of the store or leaves it alone, *)
(* so what is shown of MapStore holds here too.  Of the server, neither    *)
(* ReachableOnceStarted nor StopDrains is inductive: what they say rests   *)
(* on where the listener is while Serve and Shutdown race (ListenerOK),    *)
(* and LockBelongsToRequests on which request is in which call (CallsOK).  *)

(* The listener is open from Start on, until Shutdown finds Serve at work  *)
(* or Serve ends: never in between.                                        *)
ListenerOK ==
  /\ url /\ shutdown = "no" /\ loop # "over" => listener = "open"
  /\ shutdown # "no" /\ loop = "accepting" => listener = "closed"

(* What the requests have seen of it.                                      *)
AnswersOK ==
  /\ shutdown = "drained" => Quiet
  /\ \A r \in Requests : answer[r] = "cut" => Ended /\ shutdown # "drained"
  /\ ReachableOnceStarted

(* A call of the store belongs to a request that is being handled.         *)
CallsOK == ~Ended => \A r \in Requests : at[r] # "idle" => conn[r] = "active"

ServerInv == ServerTypeOK /\ ListenerOK /\ AnswersOK
ProxyInv == AtomicInv /\ ServerInv /\ CallsOK

(* The proxy does nothing to the store but what the store's callers do.    *)
LEMMA ProxyIsACaller ==
  ASSUME [SneakystackNext]_proxyVars
  PROVE  [StoreNext]_storeVars
<1>1. CASE UNCHANGED proxyVars
  BY <1>1 DEF proxyVars
<1>2. ASSUME NEW r \in Requests, Request(r)
      PROVE  [StoreNext]_storeVars
  <2>1. r \in Callers
    BY SneakystackAssumption
  <2>2. CASE Handle(r)
    BY <2>1, <2>2 DEF Handle, StoreNext
  <2>3. CASE Forward(r) \/ ForwardReturns(r)
    BY <2>3 DEF Forward, ForwardReturns
  <2>4. CASE Work(r)
    BY <2>1, <2>4 DEF StoreNext
  <2>5. CASE HandlerReturns(r)
    BY <2>1, <2>5 DEF HandlerReturns, StoreNext
  <2> QED BY <1>2, <2>2, <2>3, <2>4, <2>5 DEF Request
<1> QED BY <1>1, <1>2 DEF SneakystackNext, Settled, proxyVars

(* One step of the server itself, or of a client.                          *)
LEMMA ServerKept ==
  ASSUME ServerInv, ServerStep \/ (\E r \in Requests : Clients(r))
  PROVE  ServerInv'
<1> USE DEF ServerInv, ServerTypeOK, ListenerOK, AnswersOK, ReachableOnceStarted, Quiet, Ended
<1>1. CASE Start
  BY <1>1 DEF Start
<1>2. CASE Serve
  BY <1>2 DEF Serve
<1>3. CASE ServeReturns
  BY <1>3 DEF ServeReturns, CloseListener, EndProcess
<1>4. CASE ServeBreaks
  BY <1>4 DEF ServeBreaks, CloseListener, EndProcess
<1>5. CASE Shutdown
  BY <1>5 DEF Shutdown, CloseListener
<1>6. CASE ShutdownDrained
  BY <1>6 DEF ShutdownDrained
<1>7. CASE ShutdownGivesUp
  BY <1>7 DEF ShutdownGivesUp
<1>8. ASSUME NEW r \in Requests, Clients(r)
      PROVE  ServerInv'
  <2>1. CASE Connect(r)
    BY <2>1 DEF Connect
  <2>2. CASE ConnectRefused(r)
    BY <2>2 DEF ConnectRefused
  <2>3. CASE WriteTimeout(r)
    BY <2>3 DEF WriteTimeout
  <2> QED BY <1>8, <2>1, <2>2, <2>3 DEF Clients
<1> QED BY <1>1, <1>2, <1>3, <1>4, <1>5, <1>6, <1>7, <1>8 DEF ServerStep

(* One step of a request that is being handled.                            *)
LEMMA ServerServes ==
  ASSUME ServerInv, NEW r \in Requests, Accept(r) \/ Respond(r) \/ UNCHANGED serverVars
  PROVE  ServerInv'
<1> USE DEF ServerInv, ServerTypeOK, ListenerOK, AnswersOK, ReachableOnceStarted, Quiet, Ended
<1>1. CASE Accept(r)
  BY <1>1 DEF Accept
<1>2. CASE Respond(r)
  BY <1>2 DEF Respond
<1>3. CASE UNCHANGED serverVars
  BY <1>3 DEF serverVars
<1> QED BY <1>1, <1>2, <1>3

(* The server's part over any step of the proxy.                           *)
LEMMA ServerNextInv ==
  ASSUME ServerInv, [SneakystackNext]_proxyVars
  PROVE  ServerInv'
<1>1. CASE UNCHANGED serverVars
  BY <1>1 DEF ServerInv, ServerTypeOK, ListenerOK, AnswersOK, ReachableOnceStarted,
              Quiet, Ended, serverVars
<1>2. ASSUME NEW r \in Requests, Request(r)
      PROVE  ServerInv'
  <2>1. Accept(r) \/ Respond(r) \/ UNCHANGED serverVars
    BY <1>2 DEF Request, Handle, Forward, HandlerReturns, ForwardReturns
  <2> QED BY <2>1, ServerServes
<1> QED BY <1>1, <1>2, ServerKept DEF SneakystackNext, Settled, proxyVars

(* The calls' part over any step of the proxy.                             *)
LEMMA CallsNext ==
  ASSUME ProxyInv, [SneakystackNext]_proxyVars
  PROVE  CallsOK'
<1> USE DEF ProxyInv, ServerInv, ServerTypeOK, CallsOK, Ended
<1>t. at \in [Requests -> {"idle", "waiting", "inside", "leaving"}]
  BY SneakystackAssumption DEF AtomicInv, IInv, StoreTypeOK
<1>1. CASE UNCHANGED proxyVars
  BY <1>1 DEF proxyVars, serverVars, storeVars
<1>2. CASE ServerStep /\ UNCHANGED storeVars
  <2>1. at' = at
    BY <1>2 DEF storeVars
  <2>2. CASE UNCHANGED <<loop, conn>>
    BY <2>1, <2>2
  <2>3. CASE Serve
    BY <2>1, <2>3 DEF Serve
  <2>4. CASE ServeReturns \/ ServeBreaks
    BY <2>1, <2>4 DEF ServeReturns, ServeBreaks, CloseListener, EndProcess
  <2>5. CASE Shutdown
    BY <2>1, <2>5 DEF Shutdown, CloseListener
  <2>6. CASE Start \/ ShutdownDrained \/ ShutdownGivesUp
    BY <2>2, <2>6 DEF Start, ShutdownDrained, ShutdownGivesUp
  <2> QED BY <1>2, <2>3, <2>4, <2>5, <2>6 DEF ServerStep
<1>3. ASSUME NEW r \in Requests, Clients(r) /\ UNCHANGED storeVars
      PROVE  CallsOK'
  <2>1. at' = at
    BY <1>3 DEF storeVars
  <2>2. loop' = loop
    BY <1>3 DEF Clients, Connect, ConnectRefused, WriteTimeout
  <2>3. \A s \in Requests : conn[s] = "active" => conn'[s] = "active"
    BY <1>3 DEF Clients, Connect, ConnectRefused, WriteTimeout
  <2> QED BY <2>1, <2>2, <2>3
<1>4. ASSUME NEW r \in Requests, Request(r)
      PROVE  CallsOK'
  <2>1. loop' = loop
    BY <1>4 DEF Request, Handle, Forward, HandlerReturns, ForwardReturns, Accept, Respond,
                serverVars
  <2>2. CASE Handle(r) \/ Forward(r)
    <3>1. \A s \in Requests : conn[s] = "active" => conn'[s] = "active"
      BY <2>2 DEF Handle, Forward, Accept
    <3>2. conn'[r] = "active"
      BY <2>2 DEF Handle, Forward, Accept
    <3>3. \A s \in Requests : s # r => at'[s] = at[s]
      BY <2>2, <1>t DEF Handle, Forward, Invoke, Go, storeVars
    <3> QED BY <2>1, <3>1, <3>2, <3>3
  <2>3. CASE ~Ended /\ Work(r) /\ UNCHANGED serverVars
    <3>1. at[r] # "idle" /\ (\A s \in Requests : s # r => at'[s] = at[s])
      BY <2>3, <1>t DEF Work, RLock, Lock, MakeBucket, Put, Get, ListOne, ListEnds, Delete, Go
    <3>2. conn' = conn
      BY <2>3 DEF serverVars
    <3> QED BY <2>1, <2>3, <3>1, <3>2
  <2>4. CASE HandlerReturns(r) \/ ForwardReturns(r)
    <3>1. at'[r] = "idle" /\ (\A s \in Requests : s # r => at'[s] = at[s])
      BY <2>4, <1>t DEF HandlerReturns, ForwardReturns, Return, Go, storeVars
    <3>2. \A s \in Requests : s # r => conn'[s] = conn[s]
      BY <2>4 DEF HandlerReturns, ForwardReturns, Respond
    <3> QED BY <2>1, <3>1, <3>2
  <2> QED BY <1>4, <2>2, <2>3, <2>4 DEF Request
<1> HIDE DEF ProxyInv, ServerInv, ServerTypeOK, CallsOK, Ended
<1> QED BY <1>1, <1>2, <1>3, <1>4 DEF SneakystackNext, Settled

(* The inductive invariant of the proxy.                                   *)
THEOREM ProxyInvariance == SneakystackSpec => []ProxyInv
<1>1. SneakystackInit => ProxyInv
  <2> SUFFICES ASSUME SneakystackInit
               PROVE  ProxyInv
    OBVIOUS
  <2>1. AtomicInv
    BY AtomicStart DEF SneakystackInit
  <2>2. ServerInv
    BY DEF SneakystackInit, ServerInit, ServerInv, ServerTypeOK, ListenerOK, AnswersOK,
           ReachableOnceStarted, Quiet
  <2>3. CallsOK
    BY SneakystackAssumption DEF SneakystackInit, StoreInit, CallsOK
  <2> QED BY <2>1, <2>2, <2>3 DEF ProxyInv
<1>2. ProxyInv /\ [SneakystackNext]_proxyVars => ProxyInv'
  BY ProxyIsACaller, AtomicInvStep, ServerNextInv, CallsNext DEF ProxyInv
<1> QED BY <1>1, <1>2, PTL DEF SneakystackSpec

(* The server's and the store's variables keep their shape (server.go,     *)
(* store.go).                                                              *)
THEOREM ProxyTypeCorrect == SneakystackSpec => []SneakystackTypeOK
<1>1. ProxyInv => SneakystackTypeOK
  BY DEF ProxyInv, ServerInv, AtomicInv, IInv, SneakystackTypeOK
<1> QED BY <1>1, ProxyInvariance, PTL

(* The handlers of requests that run in parallel never reach the maps      *)
(* together with one that writes them (store.go:30-33).                    *)
THEOREM ProxyMutualExclusion == SneakystackSpec => []NoConcurrentMapWrite
<1>1. ProxyInv => NoConcurrentMapWrite
  BY LockExcludes DEF ProxyInv, AtomicInv, IInv
<1> QED BY <1>1, ProxyInvariance, PTL

(* A request that gives up, and a Stop in the middle of one, leave the     *)
(* store unlocked: mu is held by requests being handled and by no other    *)
(* (store.go's deferred unlocks; sidecar.go:62-68).                        *)
THEOREM LockIsReleased == SneakystackSpec => []LockBelongsToRequests
<1>1. ProxyInv => LockBelongsToRequests
  BY SneakystackAssumption
     DEF ProxyInv, AtomicInv, IInv, LockInv, StoreTypeOK, MapAccess, CallsOK, LockBelongsToRequests
<1> QED BY <1>1, ProxyInvariance, PTL

(* From Start's return to Stop a client is not turned away, though the     *)
(* goroutine that serves may not have run yet (sidecar.go:39-58).          *)
THEOREM NobodyTurnedAway == SneakystackSpec => []ReachableOnceStarted
<1>1. ProxyInv => ReachableOnceStarted
  BY DEF ProxyInv, ServerInv, AnswersOK
<1> QED BY <1>1, ProxyInvariance, PTL

(* A Stop that returned nil has waited for every request it had accepted   *)
(* (sidecar.go:62-68).                                                     *)
THEOREM StopHasDrained == SneakystackSpec => []StopDrains
<1>1. ProxyInv => StopDrains
  BY DEF ProxyInv, ServerInv, AnswersOK, StopDrains, Quiet
<1> QED BY <1>1, ProxyInvariance, PTL

(* Requests handled in parallel see a store that does each call at one     *)
(* instant, whatever else the server does (proxy.go, store.go:41-107).     *)
THEOREM ProxyStoreIsAtomic == SneakystackSpec => StoreIsAtomic
<1>1. SneakystackInit => Atomic!AtomicInit
  BY AtomicStart DEF SneakystackInit
<1>2. ProxyInv /\ [SneakystackNext]_proxyVars => [Atomic!AtomicNext]_(Atomic!atomicVars)
  BY ProxyIsACaller, AtomicStep DEF ProxyInv
<1> QED BY <1>1, <1>2, ProxyInvariance, PTL DEF SneakystackSpec, StoreIsAtomic, Atomic!AtomicSpec
=============================================================================
