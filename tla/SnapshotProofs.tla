---------------------------- MODULE SnapshotProofs ----------------------------
(***************************************************************************)
(* Proofs about assert/snapshot, for any calls, texts and number of runs.  *)
(*                                                                         *)
(* GreenUpdateSticks speaks of the end of a run only.  While its calls     *)
(* truncate and write over each other it rests on UpdateInv: among calls   *)
(* that agree, an open file is torn or already right unless a write has    *)
(* failed, so that whoever writes last leaves it right, and a call that    *)
(* has passed sees it spoiled only while another one still has to write it *)
(* or has failed to.                                                       *)
(***************************************************************************)
EXTENDS Snapshot, TLAPS

(* The calls of a run agree on what the snapshot should be.                *)
AllAgree == \A c, d \in Calls : Agree(c, d)

(* Nobody writes what NormalizeJSON returned with an error.                *)
WritersKnow == \A c \in Calls : at[c] \in {"writing", "open"} => Actual(c) # Undefined

(* An update run of calls that agree, at any point of it.                  *)
SomeoneGaveUp == \E c \in Calls : at[c] \in {"ioerror", "killed"}
UpdateInv ==
  runs > 0 /\ update /\ AllAgree /\ ~SomeoneGaveUp =>
    /\ \A c \in Calls : at[c] = "open" => file \in {Torn, Actual(c)}
    /\ \A c \in Calls : at[c] = "passed" => Holds(c) \/ \E d \in Calls : at[d] = "open"

(* Before the first run nobody has called.                                 *)
RestingAtFirst == runs = 0 => \A c \in Calls : at[c] = "passed"

SnapshotInv ==
  /\ SnapshotTypeOK
  /\ RestingAtFirst
  /\ WritersKnow
  /\ CompareRunsAreSound
  /\ StrictUpdatePasses
  /\ UpdateInv

(* What NormalizeJSON does, and that it changes nothing the second time    *)
(* (snapshot.go:113).                                                      *)
LEMMA Normalized ==
  ASSUME NEW d \in Payloads
  PROVE  /\ NormalizeJSON(d) \in Documents \cup {Undefined}
         /\ NormalizeJSON(d) # Undefined => NormalizeJSON(NormalizeJSON(d)) = NormalizeJSON(d)
BY SnapshotAssumption DEF NormalizeJSON, Payloads, Documents

(* A call's own text is a payload, unless it could not be normalised: of   *)
(* JSONStrict it always is one.                                            *)
LEMMA ActualIsPayload ==
  ASSUME SnapshotTypeOK, NEW c \in Calls
  PROVE  /\ Actual(c) \in Payloads \cup {Undefined}
         /\ c \notin structural => Actual(c) # Undefined
<1>1. payload[c] \in Payloads
  BY DEF SnapshotTypeOK
<1> QED BY <1>1, Normalized, SnapshotAssumption DEF Actual, Payloads

(* A file that has just been written compares equal.                       *)
LEMMA WrittenHolds ==
  ASSUME SnapshotTypeOK, NEW c \in Calls, Actual(c) # Undefined
  PROVE  Want(c, Actual(c)) = Actual(c) /\ Actual(c) # Missing
<1>1. payload[c] \in Payloads /\ Actual(c) \in Payloads
  BY ActualIsPayload DEF SnapshotTypeOK
<1> QED BY <1>1, Normalized, SnapshotAssumption DEF Actual, Want

(* A new run of the binary.                                                *)
LEMMA NextRunKeeps ==
  ASSUME SnapshotInv, NextRun
  PROVE  SnapshotInv'
<1> USE DEF SnapshotInv
<1>1. /\ at' = [c \in Calls |-> "called"]
      /\ runs < MaxRuns /\ runs' = runs + 1 /\ update' \in BOOLEAN
      /\ payload' \in [Calls -> Payloads]
      /\ UNCHANGED <<file, structural>>
  BY DEF NextRun
<1>2. \A c \in Calls : at'[c] = "called"
  BY <1>1
<1>3. SnapshotTypeOK'
  BY <1>1, SnapshotAssumption DEF SnapshotTypeOK, CallPoints
<1>4. CompareRunsAreSound' /\ StrictUpdatePasses' /\ WritersKnow' /\ UpdateInv'
  BY <1>2 DEF CompareRunsAreSound, StrictUpdatePasses, WritersKnow, UpdateInv
<1>5. RestingAtFirst'
  BY <1>1 DEF RestingAtFirst, SnapshotTypeOK
<1> QED BY <1>3, <1>4, <1>5

(* A step of the run that leaves the file alone: a call moves on, or the   *)
(* process dies.  What is asked of the calls that move is what the code    *)
(* has just looked at.                                                     *)
LEMMA ReadingKeeps ==
  ASSUME SnapshotInv, ReadsOnly, at' \in [Calls -> CallPoints],
         \A c \in Calls : at'[c] # at[c] =>
           /\ at'[c] = "writing" => update /\ Actual(c) # Undefined
           /\ at'[c] # "open"
           /\ at'[c] = "passed" => Holds(c)
           /\ at'[c] = "failed" /\ update => c \in structural
           /\ at[c] \in {"writing", "open"} => at'[c] \in {"ioerror", "killed"}
           /\ at[c] \in {"called", "writing", "open"}
  PROVE  SnapshotInv'
<1> USE DEF SnapshotInv
<1>1. /\ UNCHANGED <<file, runs, update, structural, payload>>
      /\ \A c \in Calls : Actual(c)' = Actual(c) /\ Holds(c)' = Holds(c)
      /\ AllAgree' = AllAgree
  BY DEF ReadsOnly, Actual, Want, Holds, AllAgree, Agree
<1>2. SnapshotTypeOK'
  BY <1>1 DEF SnapshotTypeOK
<1>3. WritersKnow'
  BY <1>1 DEF WritersKnow
<1>4. CompareRunsAreSound'
  BY <1>1 DEF CompareRunsAreSound
<1>5. StrictUpdatePasses'
  BY <1>1 DEF StrictUpdatePasses
<1>6. UpdateInv'
  <2> SUFFICES ASSUME runs > 0, update, AllAgree, ~SomeoneGaveUp'
               PROVE  /\ \A c \in Calls : at'[c] = "open" => file \in {Torn, Actual(c)}
                      /\ \A c \in Calls : at'[c] = "passed" =>
                           Holds(c) \/ \E d \in Calls : at'[d] = "open"
    BY <1>1 DEF UpdateInv
  <2>1. ~SomeoneGaveUp /\ \A d \in Calls : at[d] = "open" <=> at'[d] = "open"
    BY DEF SomeoneGaveUp
  <2> QED BY <2>1 DEF UpdateInv
<1>7. RestingAtFirst'
  BY <1>1 DEF RestingAtFirst
<1> QED BY <1>2, <1>3, <1>4, <1>5, <1>6, <1>7

(* compareSnapshot up to its outcome, or an error of the file system.      *)
LEMMA ComparingKeeps ==
  ASSUME SnapshotInv, NEW c \in Calls,
         \/ NormalizeFails(c) \/ FindsMissing(c) \/ ReadFails(c) \/ WantFails(c)
         \/ FindsEqual(c) \/ FindsMismatch(c) \/ OpenFails(c)
  PROVE  SnapshotInv'
<1> USE DEF SnapshotInv
<1>1. PICK point \in {"writing", "passed", "failed", "ioerror"} :
        /\ at' = [at EXCEPT ![c] = point] /\ ReadsOnly
        /\ at[c] \in {"called", "writing", "open"}
        /\ at[c] # "called" => point = "ioerror"
        /\ point = "writing" => update /\ Actual(c) # Undefined
        /\ point = "passed" => Holds(c)
        /\ point = "failed" /\ update =>
             Actual(c) = Undefined \/ (file # Missing /\ Want(c, file) = Undefined)
  <2> USE DEF Becomes
  <2>1. CASE NormalizeFails(c)
    BY <2>1 DEF NormalizeFails
  <2>2. CASE FindsMissing(c)
    BY <2>2 DEF FindsMissing
  <2>3. CASE ReadFails(c)
    BY <2>3 DEF ReadFails
  <2>4. CASE WantFails(c)
    BY <2>4 DEF WantFails
  <2>5. CASE FindsEqual(c)
    BY <2>5 DEF FindsEqual, Holds
  <2>6. CASE FindsMismatch(c)
    BY <2>6 DEF FindsMismatch
  <2>7. CASE OpenFails(c)
    BY <2>7 DEF OpenFails
  <2> QED BY <2>1, <2>2, <2>3, <2>4, <2>5, <2>6, <2>7
<1>2. point = "failed" /\ update => c \in structural
  <2>1. c \notin structural => Actual(c) # Undefined
    BY ActualIsPayload
  <2>2. c \notin structural => Want(c, file) = file
    BY DEF Want
  <2>3. file # Undefined
    BY SnapshotAssumption DEF SnapshotTypeOK
  <2> QED BY <1>1, <2>1, <2>2, <2>3
<1>3. at' \in [Calls -> CallPoints]
  BY <1>1 DEF SnapshotTypeOK, CallPoints
<1>4. at \in [Calls -> CallPoints]
  BY DEF SnapshotTypeOK
<1>5. at'[c] = point /\ \A d \in Calls : d # c => at'[d] = at[d]
  BY <1>1, <1>4
<1> HIDE DEF SnapshotInv
<1> QED BY <1>1, <1>2, <1>3, <1>5, ReadingKeeps

(* A write that stops half-way, by an error of its own or with the         *)
(* process: somebody has given up, and no more is asked of an update run.  *)
LEMMA GivingUpKeeps ==
  ASSUME SnapshotInv, \/ Kill
                      \/ \E c \in Calls : WriteFails(c)
  PROVE  SnapshotInv'
<1> USE DEF SnapshotInv
<1>1. /\ UNCHANGED <<runs, update, structural, payload>>
      /\ file' \in {file, Mixed}
      /\ file' # file => \E c \in Calls : at[c] = "open"
      /\ at' \in [Calls -> CallPoints]
      /\ \E c \in Calls : at[c] \in {"called", "writing", "open"} /\ at'[c] \in {"ioerror", "killed"}
      /\ \A c \in Calls : at'[c] # at[c] => at'[c] \in {"ioerror", "killed"}
  <2>1. CASE Kill
    BY <2>1 DEF Kill, SnapshotTypeOK, CallPoints
  <2>2. CASE \E c \in Calls : WriteFails(c)
    BY <2>2 DEF WriteFails, SnapshotTypeOK, CallPoints
  <2> QED BY <2>1, <2>2
<1>2. \A c \in Calls : Actual(c)' = Actual(c)
  BY <1>1 DEF Actual
<1>3. SnapshotTypeOK'
  BY <1>1 DEF SnapshotTypeOK
<1>4. WritersKnow' /\ StrictUpdatePasses'
  BY <1>1, <1>2 DEF WritersKnow, StrictUpdatePasses
<1>5. CompareRunsAreSound'
  <2>1. ASSUME runs > 0, ~update
        PROVE  file' = file
    BY <1>1, <2>1 DEF CompareRunsAreSound
  <2>2. ASSUME runs > 0, ~update, NEW c \in Calls, at'[c] = "passed"
        PROVE  Holds(c)'
    <3>1. at[c] = "passed" /\ Holds(c)
      BY <1>1, <2>2 DEF CompareRunsAreSound
    <3> QED BY <1>1, <1>2, <2>1, <2>2, <3>1 DEF Holds, Want
  <2> QED BY <1>1, <2>2 DEF CompareRunsAreSound
<1>6. RestingAtFirst' /\ UpdateInv'
  BY <1>1 DEF RestingAtFirst, UpdateInv, SomeoneGaveUp
<1> QED BY <1>3, <1>4, <1>5, <1>6

(* os.WriteFile: the truncation.                                           *)
LEMMA TruncateKeeps ==
  ASSUME SnapshotInv, NEW c \in Calls, Truncate(c)
  PROVE  SnapshotInv'
<1> USE DEF SnapshotInv
<1>1. /\ at[c] = "writing" /\ at' = [at EXCEPT ![c] = "open"] /\ file' = Torn
      /\ UNCHANGED <<runs, update, structural, payload>>
  BY DEF Truncate
<1>2. at'[c] = "open" /\ \A d \in Calls : d # c => at'[d] = at[d]
  BY <1>1 DEF SnapshotTypeOK
<1>3. \A d \in Calls : Actual(d)' = Actual(d)
  BY <1>1 DEF Actual
<1>4. SnapshotTypeOK'
  BY <1>1 DEF SnapshotTypeOK, CallPoints
<1>5. WritersKnow'
  BY <1>1, <1>2, <1>3 DEF WritersKnow
<1>6. runs > 0 => update
  BY <1>1 DEF CompareRunsAreSound, SnapshotTypeOK
<1>7. CompareRunsAreSound'
  BY <1>1, <1>6 DEF CompareRunsAreSound
<1>8. StrictUpdatePasses'
  BY <1>1, <1>2 DEF StrictUpdatePasses
<1>9. UpdateInv'
  BY <1>1, <1>2 DEF UpdateInv
<1>10. RestingAtFirst'
  BY <1>1 DEF RestingAtFirst
<1> QED BY <1>4, <1>5, <1>7, <1>8, <1>9, <1>10

(* os.WriteFile: the write.                                                *)
LEMMA WriteKeeps ==
  ASSUME SnapshotInv, NEW c \in Calls, Write(c)
  PROVE  SnapshotInv'
<1> USE DEF SnapshotInv
<1>1. /\ at[c] = "open" /\ at' = [at EXCEPT ![c] = "passed"]
      /\ file' \in {Actual(c)} \cup (IF file \in {Torn, Actual(c)} THEN {} ELSE {Mixed})
      /\ UNCHANGED <<runs, update, structural, payload>>
  BY DEF Write
<1>2. at'[c] = "passed" /\ \A d \in Calls : d # c => at'[d] = at[d]
  BY <1>1 DEF SnapshotTypeOK
<1>3. \A d \in Calls : Actual(d)' = Actual(d)
  BY <1>1 DEF Actual
<1>4. Actual(c) # Undefined /\ Actual(c) \in Payloads
  BY <1>1, ActualIsPayload DEF WritersKnow
<1>5. SnapshotTypeOK'
  BY <1>1, <1>4 DEF SnapshotTypeOK, CallPoints
<1>6. WritersKnow'
  BY <1>1, <1>2, <1>3 DEF WritersKnow
<1>7. runs > 0 => update
  BY <1>1 DEF CompareRunsAreSound, SnapshotTypeOK
<1>8. CompareRunsAreSound'
  BY <1>1, <1>7 DEF CompareRunsAreSound
<1>9. StrictUpdatePasses'
  BY <1>1, <1>2 DEF StrictUpdatePasses
<1>10. UpdateInv'
  <2> SUFFICES ASSUME runs > 0, update, AllAgree, ~SomeoneGaveUp
               PROVE  /\ \A d \in Calls : at'[d] = "open" => file' \in {Torn, Actual(d)}
                      /\ \A d \in Calls : Holds(d)'
    <3>1. AllAgree' = AllAgree
      BY <1>1, <1>3 DEF AllAgree, Agree
    <3>2. SomeoneGaveUp => SomeoneGaveUp'
      BY <1>1, <1>2 DEF SomeoneGaveUp
    <3> QED BY <1>1, <1>3, <3>1, <3>2 DEF UpdateInv
  <2>1. file' = Actual(c)
    BY <1>1 DEF UpdateInv
  <2>2. \A d \in Calls : Actual(d) = Actual(c)
    BY DEF AllAgree, Agree
  <2>3. ASSUME NEW d \in Calls
        PROVE  Holds(d)'
    <3>1. Want(d, Actual(d)) = Actual(d) /\ Actual(d) # Missing
      BY <1>4, <2>2, WrittenHolds
    <3>2. Want(d, file)' = Want(d, Actual(d))
      BY <1>1, <2>1, <2>2 DEF Want
    <3> QED BY <1>3, <1>4, <2>1, <2>2, <3>1, <3>2 DEF Holds
  <2> QED BY <2>1, <2>2, <2>3
<1>11. RestingAtFirst'
  BY <1>1 DEF RestingAtFirst
<1> QED BY <1>5, <1>6, <1>8, <1>9, <1>10, <1>11

(* The inductive invariant of the snapshot assertions.                     *)
THEOREM SnapshotInvariance == SnapshotSpec => []SnapshotInv
<1>1. SnapshotInit => SnapshotInv
  <2> SUFFICES ASSUME SnapshotInit
               PROVE  SnapshotInv
    OBVIOUS
  <2>1. (CHOOSE d \in Documents : TRUE) \in Documents
    <3>1. PICK t \in Texts : TRUE
      BY SnapshotAssumption
    <3>2. [text |-> t, form |-> "raw"] \in Documents
      BY DEF Documents
    <3> QED BY <3>2
  <2>2. SnapshotTypeOK
    <3>1. payload \in [Calls -> Payloads]
      BY <2>1 DEF SnapshotInit, Payloads
    <3>2. runs \in 0 .. MaxRuns
      BY SnapshotAssumption DEF SnapshotInit
    <3>3. file \in Payloads \cup {Missing, Torn, Mixed} /\ update \in BOOLEAN /\ structural \subseteq Calls
      BY DEF SnapshotInit
    <3>4. at \in [Calls -> CallPoints]
      BY DEF SnapshotInit, CallPoints
    <3> QED BY <3>1, <3>2, <3>3, <3>4 DEF SnapshotTypeOK
  <2>3. runs = 0 /\ \A c \in Calls : at[c] = "passed"
    BY DEF SnapshotInit
  <2> QED BY <2>2, <2>3 DEF SnapshotInv, RestingAtFirst, WritersKnow, CompareRunsAreSound, StrictUpdatePasses,
                            UpdateInv
<1>2. SnapshotInv /\ [SnapshotNext]_snapshotVars => SnapshotInv'
  <2> SUFFICES ASSUME SnapshotInv, [SnapshotNext]_snapshotVars
               PROVE  SnapshotInv'
    OBVIOUS
  <2>1. CASE UNCHANGED snapshotVars
    <3>1. UNCHANGED <<file, runs, update, structural, payload, at>>
      BY <2>1 DEF snapshotVars
    <3>2. ReadsOnly /\ at' \in [Calls -> CallPoints]
      BY <3>1 DEF ReadsOnly, SnapshotInv, SnapshotTypeOK
    <3> QED BY <3>1, <3>2, ReadingKeeps
  <2>2. CASE SnapshotNext
    BY <2>2, NextRunKeeps, GivingUpKeeps, ComparingKeeps, TruncateKeeps, WriteKeeps
       DEF SnapshotNext, CompareSnapshot
  <2> QED BY <2>1, <2>2
<1> QED BY <1>1, <1>2, PTL DEF SnapshotSpec

(* The types of the file, of the calls and of the runs (snapshot.go).      *)
THEOREM SnapshotTypes == SnapshotSpec => []SnapshotTypeOK
BY SnapshotInvariance, PTL DEF SnapshotInv

(* A call of a run without the update flag passes only if the file holds   *)
(* its payload, and none gets to write (snapshot.go:58-94).                *)
THEOREM CompareIsSound == SnapshotSpec => []CompareRunsAreSound
BY SnapshotInvariance, PTL DEF SnapshotInv

(* Such a run changes nothing on disk, whatever its calls find there and   *)
(* whenever it is killed (snapshot.go:58-94).                              *)
THEOREM CompareLeavesFile == SnapshotSpec => [][~update => UNCHANGED file]_snapshotVars
<1>1. SnapshotInv /\ [SnapshotNext]_snapshotVars => [~update => UNCHANGED file]_snapshotVars
  <2> SUFFICES ASSUME SnapshotInv, SnapshotNext, ~update
               PROVE  file' = file
    BY DEF snapshotVars
  <2>1. ASSUME NEW c \in Calls
        PROVE  at[c] # "open" /\ ~Truncate(c) /\ ~Write(c) /\ ~WriteFails(c)
    <3>1. at[c] \notin {"writing", "open"}
      BY DEF SnapshotInv, RestingAtFirst, CompareRunsAreSound, SnapshotTypeOK
    <3> QED BY <3>1 DEF Truncate, Write, WriteFails
  <2> QED BY <2>1 DEF SnapshotNext, NextRun, Kill, CompareSnapshot, NormalizeFails,
                      FindsMissing, ReadFails, WantFails, FindsEqual, FindsMismatch, OpenFails,
                      ReadsOnly
<1> QED BY <1>1, SnapshotInvariance, PTL DEF SnapshotSpec

(* A green update run of calls that agree leaves the file they agreed on,  *)
(* however their writes overlapped and whatever they found: the compare    *)
(* run after it is green (snapshot.go:60-88).                              *)
THEOREM UpdateSticks == SnapshotSpec => []GreenUpdateSticks
<1>1. SnapshotInv => GreenUpdateSticks
  BY DEF SnapshotInv, UpdateInv, AllAgree, SomeoneGaveUp, GreenUpdateSticks
<1> QED BY <1>1, SnapshotInvariance, PTL

(* An update run gets JSONStrict out of anything that a killed run or a    *)
(* parallel call has left in the file (snapshot.go:20-24).                 *)
THEOREM StrictRecovers == SnapshotSpec => []StrictUpdatePasses
BY SnapshotInvariance, PTL DEF SnapshotInv
==============================================================================
