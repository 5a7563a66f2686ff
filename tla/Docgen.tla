-------------------------------- MODULE Docgen --------------------------------
(***************************************************************************)
(* tools/docgen: check, the gate of `just ci`; scan and render, which make *)
(* docs/feature-matrix.md; over a source tree that is edited meanwhile.  A *)
(* command walks the tree and reads one file after the other, each as it   *)
(* is then; what it writes keeps the edits its walk began and ended at.    *)
(***************************************************************************)
EXTENDS Naturals, Sequences, FiniteSets

CONSTANTS
  Funcs,         \* the function declarations, each in a file of its own
  Declarations,  \* what one of them and its file can look like
  Absent, Torn,  \* nothing, no file; one whose write failed
  MaxEdits       \* bound on the edits

Places   == {"code", "_test", "skipped"}  \* the last under shouldSkipDir
Tags     == {"pro", "mockta"}

(* A line of a doc comment that begins as a marker does: a tag, which may  *)
(* come again, and between commas there may be none.                       *)
Markers  == [tags : {ts \in Seq(Tags \cup {""}) : ts # <<>> /\ ts[1] # ""}, reason : BOOLEAN]
AllDeclarations ==
  [place : Places, parses : BOOLEAN, call : {"none", "named", "aliased"}, doc : Seq(Markers)]
Sources  == [Funcs -> Declarations]

ASSUME DocgenAssumption ==
  /\ IsFiniteSet(Funcs) /\ Declarations \subseteq AllDeclarations
  /\ MaxEdits \in Nat

VARIABLES
  history,  \* the tree after each edit; the last one is what it is now
  walk,     \* of the command under way: what is to read, what is found
  ir,       \* the file scan -out writes
  matrix,   \* docs/feature-matrix.md
  passed    \* the edits the walk of the last check that passed began and ended at

docgenVars == <<history, walk, ir, matrix, passed>>

Now    == Len(history)
source == history[Now]

(* parseMarker: a marker without a reason is none.  A row of the matrix.   *)
ParseMarkers(f, fn) ==
  {[of |-> f, line |-> i, tags |-> fn.doc[i].tags] : i \in {j \in DOMAIN fn.doc : fn.doc[j].reason}}
HasMarker(fn) == \E i \in DOMAIN fn.doc : fn.doc[i].reason

(* Only a call under the name RequirePro or libtftest.RequirePro is seen.  *)
CallsRequirePro(fn) == fn.call = "named"

(* Mutant: a marker without a reason passes for one.                       *)
ChecksAnyDoc(f, fn) == IF CallsRequirePro(fn) /\ fn.doc = <<>> THEN {f} ELSE {}

CheckFile(f, fn) == IF CallsRequirePro(fn) /\ ~HasMarker(fn) THEN {f} ELSE {}

(* What the walk of a command reads.                                       *)
Reads(cmd, fn) == fn.place = "code" \/ (cmd # "check" /\ fn.place = "_test")

(* The IR of a walk that has ended.                                        *)
IR == [markers |-> walk.found, since |-> walk.since, upto |-> Now]

(* Mutant: no input is an IR without markers.                              *)
ParseAnything(data) ==
  IF data = Absent THEN [markers |-> {}, since |-> Now, upto |-> Now]
  ELSE IF data = Torn THEN Absent ELSE data

(* parseIR: what is not the whole of an IR is an error.                    *)
ParseIR(data) == IF data = Torn THEN Absent ELSE data

(* The tags as the markers name them: one of several in a marker, or the   *)
(* same again.                                                             *)
Uses(table) == UNION {{<<row, i>> : i \in DOMAIN row.tags} : row \in table}

(* A table with a row per marker, and per tag how often it is named.       *)
Render(x) ==
  [table |-> x.markers, since |-> x.since, upto |-> x.upto,
   summary |-> [t \in {u[1].tags[u[2]] : u \in Uses(x.markers)} |->
                  Cardinality({u \in Uses(x.markers) : u[1].tags[u[2]] = t})]]

---------------------------------------------------------------------------
DocgenInit ==
  /\ \E tree \in Sources : history = <<tree>>
  /\ walk = Absent /\ ir = Absent /\ matrix = Absent /\ passed = Absent

(* No file goes to another directory.                                      *)
Edit ==
  /\ Now <= MaxEdits
  /\ \E f \in Funcs, d \in Declarations :
       /\ d.place = source[f].place
       /\ history' = Append(history, [source EXCEPT ![f] = d])
  /\ UNCHANGED <<walk, ir, matrix, passed>>

(* check; scan -out; scan with its output piped to render; render on a     *)
(* terminal, which scans for itself.                                       *)
Commands == {"check", "scan", "pipe", "render"}

Begins(cmd) ==
  /\ walk = Absent
  /\ walk' = [cmd |-> cmd, todo |-> {f \in Funcs : Reads(cmd, source[f])}, found |-> {},
              since |-> Now]
  /\ UNCHANGED <<history, ir, matrix, passed>>

ReadsFile(f) ==
  /\ walk # Absent
  /\ f \in walk.todo
  /\ source[f].parses
  /\ walk' = [walk EXCEPT
                !.todo = @ \ {f},
                !.found = @ \cup IF walk.cmd = "check" THEN CheckFile(f, source[f])
                                 ELSE ParseMarkers(f, source[f])]
  /\ UNCHANGED <<history, ir, matrix, passed>>

(* renderCmd, given its input; writeOut truncates the file before it       *)
(* writes.                                                                 *)
Renders(data) ==
  IF ParseIR(data) = Absent THEN UNCHANGED matrix
  ELSE matrix' \in {Render(ParseIR(data)), Torn}

(* A file that does not parse stops the walk: exit code 1 and no more,     *)
(* except that render has nothing on its stdin.                            *)
WalkFails ==
  /\ walk # Absent
  /\ \E f \in walk.todo : ~source[f].parses
  /\ walk' = Absent
  /\ IF walk.cmd = "pipe" THEN Renders(Absent) ELSE UNCHANGED matrix
  /\ UNCHANGED <<history, ir, passed>>

WalkEnds(cmds) ==
  /\ walk # Absent
  /\ walk.cmd \in cmds /\ walk.todo = {}
  /\ walk' = Absent

CheckCmd ==
  /\ WalkEnds({"check"})
  /\ passed' = IF walk.found = {} THEN [since |-> walk.since, upto |-> Now] ELSE passed
  /\ UNCHANGED <<history, ir, matrix>>

ScanCmd ==
  /\ WalkEnds({"scan"})
  /\ ir' \in {IR, Torn}
  /\ UNCHANGED <<history, matrix, passed>>

RenderCmd ==
  /\ WalkEnds({"pipe", "render"})
  /\ Renders(IR)
  /\ UNCHANGED <<history, ir, passed>>

(* render -in, with the IR a scan wrote at any time before.                *)
RenderFile ==
  /\ walk = Absent
  /\ Renders(ir)
  /\ UNCHANGED <<history, walk, ir, passed>>

DocgenNext ==
  \/ Edit
  \/ (\E cmd \in Commands : Begins(cmd)) \/ (\E f \in Funcs : ReadsFile(f)) \/ WalkFails
  \/ CheckCmd \/ ScanCmd \/ RenderCmd \/ RenderFile

DocgenSpec == DocgenInit /\ [][DocgenNext]_docgenVars

---------------------------------------------------------------------------
(* Properties.                                                             *)

Rendered == matrix \notin {Absent, Torn}

(* Both the walk the matrix is of and that of the last check that passed   *)
(* began at edit k or later, or ended at it or before.                     *)
Spans(k) ==
  /\ matrix.since <= k \/ passed.since <= k
  /\ k <= matrix.upto \/ k <= passed.upto

(* A function that calls RequirePro by its name outside tests and skipped  *)
(* directories, and that nobody edits from when the first of the two walks *)
(* begins until the other has ended, has a row in the matrix if check      *)
(* passed: before or after it, of whatever age the IR, whichever way it    *)
(* came to render and whatever else was edited during the walks            *)
(* (tools/docgen/doc.go:4; check and scan read the markers apart from each *)
(* other).                                                                 *)
GatesAreListed ==
  Rendered /\ passed # Absent =>
    \A f \in Funcs :
      LET fn == history[matrix.since][f]
      IN  /\ fn.place = "code" /\ fn.call = "named"
          /\ \A k \in DOMAIN history : Spans(k) => history[k][f] = fn
          => \E row \in matrix.table : row.of = f

(* The rows of a function are all of the markers it had at some time       *)
(* during the walk that they are of, in a file that parsed, never what a   *)
(* scan that failed found or did not find: an error leaves the matrix      *)
(* alone, also when it is the other end of a pipe that had it              *)
(* (main.go:88-92, 121-138).  The count of a tag that no marker repeats is *)
(* that of the rows with it (render.go:60-78).                             *)
RowsWereThere ==
  Rendered =>
    /\ \A f \in Funcs :
         \E k \in matrix.since .. matrix.upto :
           LET fn == history[k][f]
           IN  /\ fn.place # "skipped" => fn.parses
               /\ {row \in matrix.table : row.of = f} =
                    {[of |-> f, line |-> i, tags |-> fn.doc[i].tags] :
                       i \in {j \in DOMAIN fn.doc : fn.place # "skipped" /\ fn.doc[j].reason}}
    /\ \A t \in Tags :
         LET rows == {row \in matrix.table : \E i \in DOMAIN row.tags : row.tags[i] = t}
         IN  /\ t \in DOMAIN matrix.summary <=> rows # {}
             /\ (\A row \in rows : \A i, j \in DOMAIN row.tags :
                   row.tags[i] = t /\ row.tags[j] = t => i = j)
                /\ rows # {}
                => matrix.summary[t] = Cardinality(rows)
=============================================================================
