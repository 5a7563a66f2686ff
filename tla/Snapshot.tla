------------------------------ MODULE Snapshot ------------------------------
(***************************************************************************)
(* assert/snapshot: JSONStrict and JSONStructural compare a payload with   *)
(* a snapshot file, or rewrite the file when LIBTFTEST_UPDATE_SNAPSHOTS is *)
(* "1".  Parallel tests of a run may share the file; a run may be killed   *)
(* while it writes, and what it leaves is what the next run finds.         *)
(***************************************************************************)
EXTENDS Naturals

CONSTANTS
  Calls,     \* the calls a run makes on one snapshot file, in parallel
  Texts,     \* JSON values, whatever their layout
  Broken,    \* payloads that are not JSON
  Missing,   \* no file
  Torn,      \* a file that has been truncated and not written yet
  Mixed,     \* a file that holds part of a payload, or parts of two
  Undefined, \* what NormalizeJSON returns with an error
  MaxRuns    \* bound on the runs of the binary

Documents == [text : Texts, form : {"raw", "normal"}]
Payloads  == Documents \cup Broken

ASSUME SnapshotAssumption ==
  /\ Broken \cap Documents = {}
  /\ {Missing, Torn, Mixed, Undefined} \cap Payloads = {}
  /\ Missing \notin {Torn, Mixed} /\ Torn # Mixed
  /\ Undefined \notin {Missing, Torn, Mixed}
  /\ Texts # {}
  /\ MaxRuns \in Nat

VARIABLES
  file,        \* Payloads \cup {Missing, Torn, Mixed}
  runs,        \* the runs so far
  update,      \* LIBTFTEST_UPDATE_SNAPSHOTS of the current one
  structural,  \* the calls that are JSONStructural, the same in every run
  payload,     \* [Calls -> Payloads]
  at           \* [Calls -> CallPoints]

snapshotVars == <<file, runs, update, structural, payload, at>>

CallPoints ==
  {"called", "writing", "open", "passed", "failed", "ioerror", "killed"}

(* NormalizeJSON: keys sorted, white space gone, or an error.              *)
NormalizeJSON(d) ==
  IF d \in Documents THEN [text |-> d.text, form |-> "normal"] ELSE Undefined

(* What a call compares and writes: normalizedActual; and wantForCompare.  *)
Actual(c)      == IF c \in structural THEN NormalizeJSON(payload[c]) ELSE payload[c]
Want(c, found) == IF c \in structural THEN NormalizeJSON(found) ELSE found

Becomes(c, point) == at[c] = "called" /\ at' = [at EXCEPT ![c] = point]
ReadsOnly == UNCHANGED <<file, runs, update, structural, payload>>

SnapshotInit ==
  /\ file \in {Missing} \cup Payloads
  /\ runs = 0
  /\ update = FALSE
  /\ structural \in SUBSET Calls
  /\ payload \in [Calls -> {CHOOSE d \in Documents : TRUE}]
  /\ at = [c \in Calls |-> "passed"]

(* A run of the test binary: its tests may produce other payloads than     *)
(* those of the run before.                                                *)
NextRun ==
  /\ \A c \in Calls : at[c] \in {"passed", "failed", "ioerror", "killed"}
  /\ runs < MaxRuns
  /\ runs' = runs + 1
  /\ update' \in BOOLEAN
  /\ payload' \in [Calls -> Payloads]
  /\ at' = [c \in Calls |-> "called"]
  /\ UNCHANGED <<file, structural>>

---------------------------------------------------------------------------
(* compareSnapshot, up to the outcome of its comparison.                   *)

NormalizeFails(c) ==
  /\ Actual(c) = Undefined
  /\ Becomes(c, "failed")
  /\ ReadsOnly

(* Mutants: the update flag is not looked at; an error of NormalizeJSON is *)
(* not.                                                                    *)
CreateAlways(c) ==
  /\ Actual(c) # Undefined
  /\ file = Missing
  /\ Becomes(c, "writing")
  /\ ReadsOnly
CreateUnchecked(c) ==
  /\ file = Missing
  /\ Becomes(c, IF update THEN "writing" ELSE "failed")
  /\ ReadsOnly

FindsMissing(c) ==
  /\ Actual(c) # Undefined
  /\ file = Missing
  /\ Becomes(c, IF update THEN "writing" ELSE "failed")
  /\ ReadsOnly

(* The file cannot be read.                                                *)
ReadFails(c) ==
  /\ Actual(c) # Undefined
  /\ file # Missing
  /\ Becomes(c, "ioerror")
  /\ ReadsOnly

(* The stored snapshot is not JSON: an error, with or without update.      *)
WantFails(c) ==
  /\ Actual(c) # Undefined
  /\ file # Missing /\ Want(c, file) = Undefined
  /\ Becomes(c, "failed")
  /\ ReadsOnly

FindsEqual(c) ==
  /\ Actual(c) # Undefined
  /\ file # Missing /\ Want(c, file) = Actual(c)
  /\ Becomes(c, "passed")
  /\ ReadsOnly

(* Mutants: a mismatch passes without the rewrite; it fails all the same.  *)
MismatchPasses(c) ==
  /\ Actual(c) # Undefined
  /\ file # Missing /\ Want(c, file) \notin {Undefined, Actual(c)}
  /\ Becomes(c, IF update THEN "passed" ELSE "failed")
  /\ ReadsOnly
MismatchFails(c) ==
  /\ Actual(c) # Undefined
  /\ file # Missing /\ Want(c, file) \notin {Undefined, Actual(c)}
  /\ Becomes(c, "failed")
  /\ ReadsOnly

FindsMismatch(c) ==
  /\ Actual(c) # Undefined
  /\ file # Missing /\ Want(c, file) \notin {Undefined, Actual(c)}
  /\ Becomes(c, IF update THEN "writing" ELSE "failed")
  /\ ReadsOnly

---------------------------------------------------------------------------
(* writeSnapshot: os.WriteFile truncates the file, then writes from its    *)
(* start; over what a parallel call has written since it may leave a tail. *)
(* A mixture is taken not to be JSON.                                      *)
Truncate(c) ==
  /\ at[c] = "writing"
  /\ at' = [at EXCEPT ![c] = "open"]
  /\ file' = Torn
  /\ UNCHANGED <<runs, update, structural, payload>>

Write(c) ==
  /\ at[c] = "open"
  /\ at' = [at EXCEPT ![c] = "passed"]
  /\ file' \in {Actual(c)} \cup (IF file \in {Torn, Actual(c)} THEN {} ELSE {Mixed})
  /\ UNCHANGED <<runs, update, structural, payload>>

(* MkdirAll or the open fails; the write does, with part of it done.       *)
OpenFails(c) ==
  /\ at[c] = "writing"
  /\ at' = [at EXCEPT ![c] = "ioerror"]
  /\ ReadsOnly

WriteFails(c) ==
  /\ at[c] = "open"
  /\ at' = [at EXCEPT ![c] = "ioerror"]
  /\ file' \in {file, Mixed}
  /\ UNCHANGED <<runs, update, structural, payload>>

(* The process dies, perhaps in the middle of a write.                     *)
Kill ==
  /\ \E c \in Calls : at[c] \in {"called", "writing", "open"}
  /\ at' = [c \in Calls |->
              IF at[c] \in {"called", "writing", "open"} THEN "killed" ELSE at[c]]
  /\ file' \in IF \E c \in Calls : at[c] = "open" THEN {file, Mixed} ELSE {file}
  /\ UNCHANGED <<runs, update, structural, payload>>

CompareSnapshot(c) ==
  \/ NormalizeFails(c) \/ FindsMissing(c) \/ ReadFails(c) \/ WantFails(c)
  \/ FindsEqual(c) \/ FindsMismatch(c)
  \/ Truncate(c) \/ Write(c) \/ OpenFails(c) \/ WriteFails(c)

SnapshotNext == NextRun \/ Kill \/ \E c \in Calls : CompareSnapshot(c)

SnapshotSpec == SnapshotInit /\ [][SnapshotNext]_snapshotVars

---------------------------------------------------------------------------
(* Properties.                                                             *)

SnapshotTypeOK ==
  /\ file \in Payloads \cup {Missing, Torn, Mixed}
  /\ runs \in 0 .. MaxRuns
  /\ update \in BOOLEAN
  /\ structural \subseteq Calls
  /\ payload \in [Calls -> Payloads]
  /\ at \in [Calls -> CallPoints]

Holds(c) == file # Missing /\ Want(c, file) = Actual(c) /\ Actual(c) # Undefined

(* Without the update flag a run leaves the file as it found it, and a     *)
(* call passes only if the file holds its payload (snapshot.go:58-94).     *)
CompareRunsAreSound ==
  runs > 0 /\ ~update
  => \A c \in Calls : /\ at[c] \notin {"writing", "open"}
                      /\ at[c] = "passed" => Holds(c)

(* After a green update run whose calls agree on what to write, the file   *)
(* holds it: the compare run that follows is green.  Overlapping writes of *)
(* parallel tests do not spoil it, nor does what a killed run left before  *)
(* (snapshot.go:60-88).                                                    *)
Agree(c, d) == Actual(c) = Actual(d) /\ (c \in structural <=> d \in structural)
GreenUpdateSticks ==
  /\ runs > 0 /\ update
  /\ \A c, d \in Calls : at[c] = "passed" /\ Agree(c, d)
  => \A c \in Calls : Holds(c)

(* In update mode JSONStrict never fails but for the file system, whatever *)
(* an earlier run or a parallel call left in the file (snapshot.go:20-24). *)
StrictUpdatePasses ==
  runs > 0 /\ update => \A c \in Calls \ structural : at[c] # "failed"
=============================================================================
