----------------------------- MODULE DocgenProofs -----------------------------
(***************************************************************************)
(* Theorems about Docgen, for any functions, declarations and number of    *)
(* edits, whenever in a walk they come.                                    *)
(***************************************************************************)
EXTENDS Docgen, FiniteSetTheorems, FunctionTheorems, TLAPS

Trees     == 1 .. Len(history)
HistoryOK ==
  /\ history \in Seq(Sources) /\ Len(history) > 0
  /\ \A j, k \in Trees : \A f \in Funcs : history[j][f].place = history[k][f].place

(* The rows that a scan finds in a function of the k-th tree.              *)
RowsOf(f, k) ==
  IF history[k][f].place = "skipped" THEN {} ELSE ParseMarkers(f, history[k][f])

(* They have stood in the tree at an edit from a to b.                     *)
HadRows(rows, f, a, b) ==
  \E k \in a .. b : /\ history[k][f].place # "skipped" => history[k][f].parses
                    /\ {row \in rows : row.of = f} = RowsOf(f, k)

(* A check that looked at the function at an edit from a to b let it pass. *)
HadPassed(f, a, b) ==
  \E k \in a .. b : history[k][f].place = "code" => CheckFile(f, history[k][f]) = {}

(* An interval of edits.                                                   *)
During(x) == x.since \in Trees /\ x.upto \in Trees /\ x.since <= x.upto

IROK(x) ==
  /\ x = [markers |-> x.markers, since |-> x.since, upto |-> x.upto]
  /\ During(x) /\ IsFiniteSet(x.markers)
  /\ \A f \in Funcs : HadRows(x.markers, f, x.since, x.upto)

ScanOK ==
  /\ IsFiniteSet(walk.found)
  /\ \A f \in Funcs :
       IF f \in walk.todo
       THEN history[walk.since][f].place # "skipped" /\ {row \in walk.found : row.of = f} = {}
       ELSE HadRows(walk.found, f, walk.since, Len(history))

CheckOK == \A f \in Funcs \ walk.todo : f \in walk.found \/ HadPassed(f, walk.since, Len(history))

WalkOK ==
  /\ walk.cmd \in Commands /\ walk.since \in Trees
  /\ walk = [cmd |-> walk.cmd, todo |-> walk.todo, found |-> walk.found, since |-> walk.since]
  /\ IF walk.cmd = "check" THEN CheckOK ELSE ScanOK

WalkInv   == walk # Absent => WalkOK
IRInv     == ir \notin {Absent, Torn} => IROK(ir)
MatrixInv == Rendered => \E x : IROK(x) /\ matrix = Render(x)
PassedInv ==
  passed # Absent =>
    During(passed) /\ \A f \in Funcs : HadPassed(f, passed.since, passed.upto)

DocgenInv == HistoryOK /\ WalkInv /\ IRInv /\ MatrixInv /\ PassedInv

---------------------------------------------------------------------------
(* Trees are only added: what was true of an earlier one stays true.       *)
LEMMA HistoryGrows ==
  ASSUME HistoryOK, Edit
  PROVE  /\ HistoryOK'
         /\ Len(history) \in Nat /\ Len(history') = Len(history) + 1
         /\ \A k \in Trees : k \in Trees' /\ history'[k] = history[k]
<1>1. PICK f \in Funcs, d \in Declarations :
        d.place = source[f].place /\ history' = Append(history, [source EXCEPT ![f] = d])
  BY DEF Edit
<1>2. Len(history) \in Trees /\ source = history[Len(history)] /\ source \in Sources
  BY DEF HistoryOK, Trees, source, Now
<1> DEFINE s == [source EXCEPT ![f] = d]
<1>3. s \in Sources
  BY <1>1, <1>2 DEF Sources
<1>4. \A g \in Funcs : s[g].place = source[g].place
  BY <1>1, <1>2 DEF Sources
<1> HIDE DEF s
<1>5. /\ history' \in Seq(Sources) /\ Len(history') = Len(history) + 1
      /\ Len(history) \in Nat /\ history'[Len(history) + 1] = s
      /\ \A k \in Trees : history'[k] = history[k]
  BY <1>1, <1>3 DEF HistoryOK, Trees, s
<1>6. Trees' = Trees \cup {Len(history) + 1}
  BY <1>5 DEF Trees
<1>7. \A k \in Trees' : \A g \in Funcs : history'[k][g].place = source[g].place
  BY <1>2, <1>4, <1>5, <1>6 DEF HistoryOK
<1> QED BY <1>5, <1>6, <1>7 DEF HistoryOK

(* Of what was seen in an interval of edits.                               *)
LEMMA SeenStays ==
  ASSUME NEW a \in Trees, NEW b \in Trees, NEW c \in Trees', b <= c,
         Len(history) \in Nat, Len(history') \in Nat,
         \A k \in Trees : history'[k] = history[k]
  PROVE  /\ \A rows : \A f \in Funcs : HadRows(rows, f, a, b) => HadRows(rows, f, a, c)'
         /\ \A f \in Funcs : HadPassed(f, a, b) => HadPassed(f, a, c)'
<1>1. \A k \in a .. b : k \in a .. c /\ history'[k] = history[k]
  BY DEF Trees
<1>2. ASSUME NEW rows, NEW f \in Funcs, HadRows(rows, f, a, b)
      PROVE  HadRows(rows, f, a, c)'
  <2>1. PICK k \in a .. b : /\ history[k][f].place # "skipped" => history[k][f].parses
                            /\ {row \in rows : row.of = f} = RowsOf(f, k)
    BY <1>2 DEF HadRows
  <2>2. RowsOf(f, k)' = RowsOf(f, k)
    BY <1>1 DEF RowsOf, ParseMarkers
  <2> QED BY <1>1, <2>1, <2>2 DEF HadRows
<1>3. ASSUME NEW f \in Funcs, HadPassed(f, a, b)
      PROVE  HadPassed(f, a, c)'
  BY <1>1, <1>3 DEF HadPassed, CheckFile, HasMarker, CallsRequirePro
<1> QED BY <1>2, <1>3

(* A row per marker of a doc comment makes finitely many.                  *)
LEMMA RowsAreFinite ==
  ASSUME NEW f, NEW fn \in AllDeclarations
  PROVE  IsFiniteSet(ParseMarkers(f, fn))
<1> DEFINE I == {j \in DOMAIN fn.doc : fn.doc[j].reason}
           Row(i) == [of |-> f, line |-> i, tags |-> fn.doc[i].tags]
           rowOf == [i \in I |-> Row(i)]
<1>1. IsFiniteSet(I)
  <2>1. DOMAIN fn.doc = 1 .. Len(fn.doc) /\ 1 \in Int /\ Len(fn.doc) \in Int
    BY DEF AllDeclarations
  <2>2. IsFiniteSet(1 .. Len(fn.doc))
    BY <2>1, FS_Interval
  <2>3. IsFiniteSet(DOMAIN fn.doc)
    BY <2>1, <2>2
  <2> QED BY <2>3, FS_Subset
<1>2. rowOf \in Surjection(I, ParseMarkers(f, fn))
  BY DEF Surjection, ParseMarkers
<1> QED BY <1>1, <1>2, FS_Surjection

---------------------------------------------------------------------------
(* There are no files yet.                                                 *)
LEMMA InvHolds == DocgenInit => DocgenInv
<1> SUFFICES ASSUME DocgenInit PROVE DocgenInv
  OBVIOUS
<1>1. PICK tree \in Sources : history = <<tree>>
  BY DEF DocgenInit
<1>2. history \in Seq(Sources) /\ Len(history) = 1 /\ history[1] = tree
  BY <1>1
<1>3. HistoryOK
  BY <1>2 DEF HistoryOK, Trees
<1> QED
  BY <1>3 DEF DocgenInit, DocgenInv, WalkInv, IRInv, MatrixInv, PassedInv, Rendered

(* A walk begins.                                                          *)
LEMMA BeginKeeps ==
  ASSUME HistoryOK, NEW cmd \in Commands, Begins(cmd)
  PROVE  WalkOK'
<1>1. /\ history' = history
      /\ walk' = [cmd |-> cmd, todo |-> {f \in Funcs : Reads(cmd, source[f])}, found |-> {},
                  since |-> Len(history)]
  BY DEF Begins, Now
<1>2. Len(history) \in Trees /\ source = history[Len(history)] /\ source \in Sources
  BY DEF HistoryOK, Trees, source, Now
<1>3. CASE cmd = "check"
  <2>1. \A f \in Funcs \ walk'.todo : source[f].place # "code"
    BY <1>1 DEF Reads
  <2>2. \A f \in Funcs \ walk'.todo : HadPassed(f, Len(history), Len(history))
    BY <1>2, <2>1 DEF HadPassed, Trees
  <2>3. CheckOK'
    BY <1>1, <2>2 DEF CheckOK, HadPassed
  <2> QED BY <1>1, <1>2, <1>3, <2>3 DEF WalkOK, Trees
<1>4. CASE cmd # "check"
  <2>1. \A f \in Funcs : f \in walk'.todo <=> source[f].place # "skipped"
    <3>1. \A f \in Funcs : source[f].place \in Places
      BY <1>2, DocgenAssumption DEF Sources, AllDeclarations
    <3> QED BY <1>1, <1>4, <3>1 DEF Reads, Places
  <2>2. ASSUME NEW f \in Funcs, f \notin walk'.todo
        PROVE  HadRows({}, f, Len(history), Len(history))
    BY <1>2, <2>1, <2>2 DEF HadRows, RowsOf, Trees
  <2>3. IsFiniteSet({})
    BY FS_EmptySet
  <2>4. ScanOK'
    BY <1>1, <1>2, <2>1, <2>2, <2>3 DEF ScanOK, HadRows, RowsOf
  <2> QED BY <1>1, <1>2, <1>4, <2>4 DEF WalkOK, Trees
<1> QED BY <1>3, <1>4

(* It reads a file.                                                        *)
LEMMA ReadKeeps ==
  ASSUME HistoryOK, WalkOK, NEW f \in Funcs, ReadsFile(f)
  PROVE  WalkOK'
<1> DEFINE L   == Len(history)
           new == IF walk.cmd = "check" THEN CheckFile(f, source[f])
                  ELSE ParseMarkers(f, source[f])
<1>1. /\ f \in walk.todo /\ source[f].parses /\ history' = history
      /\ walk' = [walk EXCEPT !.todo = @ \ {f}, !.found = @ \cup new]
  BY DEF ReadsFile
<1>2. L \in Trees /\ source = history[L] /\ source \in Sources
  BY DEF HistoryOK, Trees, source, Now
<1> HIDE DEF new
<1>3. /\ walk'.cmd = walk.cmd /\ walk'.since = walk.since
      /\ walk'.todo = walk.todo \ {f} /\ walk'.found = walk.found \cup new
      /\ walk' = [cmd |-> walk'.cmd, todo |-> walk'.todo, found |-> walk'.found,
                  since |-> walk'.since]
  <2>1. walk = [cmd |-> walk.cmd, todo |-> walk.todo, found |-> walk.found, since |-> walk.since]
    BY DEF WalkOK
  <2>2. walk' = [cmd |-> walk.cmd, todo |-> walk.todo \ {f}, found |-> walk.found \cup new,
                 since |-> walk.since]
    BY <1>1, <2>1
  <2> QED BY <2>2
<1>4. walk.since \in Trees /\ L \in walk.since .. L
  BY <1>2 DEF WalkOK, Trees
<1>5. CASE walk.cmd = "check"
  <2>1. CheckOK /\ new = CheckFile(f, source[f])
    BY <1>5 DEF WalkOK, new
  <2>2. f \in new \/ HadPassed(f, walk.since, L)
    BY <1>2, <1>4, <2>1 DEF HadPassed, CheckFile
  <2>3. \A g \in Funcs \ walk'.todo : g \in walk'.found \/ HadPassed(g, walk.since, L)
    BY <1>3, <2>1, <2>2 DEF CheckOK
  <2>4. CheckOK'
    BY <1>1, <1>3, <2>3 DEF CheckOK, HadPassed
  <2> QED BY <1>1, <1>3, <1>4, <1>5, <2>4 DEF WalkOK, Trees
<1>6. CASE walk.cmd # "check"
  <2>1. ScanOK /\ new = ParseMarkers(f, source[f])
    BY <1>6 DEF WalkOK, new
  <2>2. IsFiniteSet(walk'.found)
    <3>1. source[f] \in AllDeclarations
      BY <1>2, DocgenAssumption DEF Sources
    <3>2. IsFiniteSet(new)
      BY <2>1, <3>1, RowsAreFinite
    <3>3. IsFiniteSet(walk.found)
      BY <2>1 DEF ScanOK
    <3>4. IsFiniteSet(walk.found \cup new)
      BY <3>2, <3>3, FS_Union
    <3> QED BY <1>3, <3>4
  <2>3. new = RowsOf(f, L) /\ \A row \in new : row.of = f
    <3>1. history[walk.since][f].place # "skipped"
      BY <1>1, <2>1 DEF ScanOK
    <3>2. history[L][f].place # "skipped"
      BY <1>2, <1>4, <3>1 DEF HistoryOK
    <3> QED BY <1>2, <2>1, <3>2 DEF RowsOf, ParseMarkers
  <2>4. HadRows(walk'.found, f, walk.since, L)
    <3>1. {row \in walk.found : row.of = f} = {}
      BY <1>1, <2>1 DEF ScanOK
    <3>2. {row \in walk'.found : row.of = f} = RowsOf(f, L)
      BY <1>3, <2>3, <3>1
    <3> QED BY <1>1, <1>2, <1>4, <3>2 DEF HadRows
  <2>5. ASSUME NEW g \in Funcs, g # f
        PROVE  {row \in walk'.found : row.of = g} = {row \in walk.found : row.of = g}
    BY <1>3, <2>3, <2>5
  <2>6. \A g \in Funcs : IF g \in walk'.todo
                         THEN /\ history[walk.since][g].place # "skipped"
                              /\ {row \in walk'.found : row.of = g} = {}
                         ELSE HadRows(walk'.found, g, walk.since, L)
    <3> SUFFICES ASSUME NEW g \in Funcs, g # f
                 PROVE  IF g \in walk'.todo
                        THEN /\ history[walk.since][g].place # "skipped"
                             /\ {row \in walk'.found : row.of = g} = {}
                        ELSE HadRows(walk'.found, g, walk.since, L)
      BY <1>3, <2>4
    <3>1. g \in walk'.todo <=> g \in walk.todo
      BY <1>3
    <3>2. CASE g \in walk.todo
      BY <2>1, <2>5, <3>1, <3>2 DEF ScanOK
    <3>3. CASE g \notin walk.todo
      <4>1. HadRows(walk.found, g, walk.since, L)
        BY <2>1, <3>3 DEF ScanOK
      <4>2. HadRows(walk'.found, g, walk.since, L)
        BY <4>1, <2>5 DEF HadRows
      <4> QED BY <3>1, <3>3, <4>2
    <3> QED BY <3>2, <3>3
  <2>7. ScanOK'
    BY <1>1, <1>3, <2>2, <2>6 DEF ScanOK, HadRows, RowsOf
  <2> QED BY <1>1, <1>3, <1>4, <1>6, <2>7 DEF WalkOK, Trees
<1> QED BY <1>5, <1>6

(* The IR of a scan that has read every file.                              *)
LEMMA IRIsOK ==
  ASSUME HistoryOK, WalkOK, walk.todo = {}, walk.cmd # "check"
  PROVE  IROK(IR)
<1>1. walk.since \in Trees /\ Len(history) \in Trees /\ walk.since <= Len(history)
  BY DEF WalkOK, HistoryOK, Trees
<1>2. ScanOK
  BY DEF WalkOK
<1>3. IR = [markers |-> walk.found, since |-> walk.since, upto |-> Len(history)]
  BY DEF IR, Now
<1> QED BY <1>1, <1>2, <1>3 DEF IROK, During, ScanOK

(* What render makes of an input that is an IR if it is anything.          *)
LEMMA RendersKeep ==
  ASSUME MatrixInv, history' = history, NEW data,
         data \notin {Absent, Torn} => IROK(data),
         Renders(data)
  PROVE  MatrixInv'
<1>1. \A x : IROK(x)' <=> IROK(x)
  BY DEF IROK, During, Trees, HadRows, RowsOf, ParseMarkers
<1>2. CASE matrix' = matrix
  BY <1>1, <1>2 DEF MatrixInv, Rendered
<1>3. CASE matrix' # matrix /\ matrix' # Torn
  <2>1. data \notin {Absent, Torn} /\ matrix' = Render(data)
    BY <1>3 DEF Renders, ParseIR
  <2> QED BY <1>1, <2>1 DEF MatrixInv
<1>4. CASE matrix' = Torn
  BY <1>4 DEF MatrixInv, Rendered
<1> QED BY <1>2, <1>3, <1>4

(* A command or an edit.                                                   *)
LEMMA InvIsKept == DocgenInv /\ [DocgenNext]_docgenVars => DocgenInv'
<1> SUFFICES ASSUME DocgenInv, [DocgenNext]_docgenVars PROVE DocgenInv'
  OBVIOUS
<1> USE DEF DocgenInv
<1>1. CASE Edit
  <2>1. /\ HistoryOK'
        /\ Len(history) \in Nat /\ Len(history') = Len(history) + 1
        /\ \A k \in Trees : k \in Trees' /\ history'[k] = history[k]
    BY <1>1, HistoryGrows
  <2>2. UNCHANGED <<walk, ir, matrix, passed>>
    BY <1>1 DEF Edit
  <2>3. /\ \A x : During(x) => During(x)'
        /\ Len(history) \in Trees /\ Len(history') \in Trees'
    BY <2>1 DEF During, Trees, HistoryOK
  <2>4. ASSUME NEW x, IROK(x)
        PROVE  IROK(x)'
    <3>1. /\ x.since \in Trees /\ x.upto \in Trees /\ x.upto \in Trees' /\ x.upto <= x.upto
      BY <2>1, <2>4 DEF IROK, During, Trees
    <3>2. \A f \in Funcs : HadRows(x.markers, f, x.since, x.upto)'
      BY <2>1, <2>4, <3>1, SeenStays DEF IROK
    <3> QED BY <2>3, <2>4, <3>2 DEF IROK
  <2>5. IRInv' /\ MatrixInv'
    BY <2>2, <2>4 DEF IRInv, MatrixInv, Rendered
  <2>6. PassedInv'
    <3> SUFFICES ASSUME passed # Absent
                 PROVE  During(passed)' /\ \A f \in Funcs : HadPassed(f, passed.since, passed.upto)'
      BY <2>2 DEF PassedInv
    <3>1. During(passed) /\ \A f \in Funcs : HadPassed(f, passed.since, passed.upto)
      BY DEF PassedInv
    <3>2. passed.since \in Trees /\ passed.upto \in Trees /\ passed.upto \in Trees'
          /\ passed.upto <= passed.upto
      BY <2>1, <3>1 DEF During, Trees
    <3>3. \A f \in Funcs : HadPassed(f, passed.since, passed.upto)'
      BY <2>1, <2>2, <3>1, <3>2, SeenStays
    <3> QED BY <2>2, <2>3, <3>1, <3>3 DEF During
  <2>7. WalkInv'
    <3> SUFFICES ASSUME walk # Absent PROVE WalkOK'
      BY <2>2 DEF WalkInv
    <3>1. WalkOK /\ walk.since \in Trees /\ walk.since \in Trees'
      BY <2>1 DEF WalkInv, WalkOK
    <3>2. Len(history) <= Len(history')
      BY <2>1
    <3>3. /\ \A rows : \A f \in Funcs : HadRows(rows, f, walk.since, Len(history))
                                        => HadRows(rows, f, walk.since, Len(history))'
          /\ \A f \in Funcs : HadPassed(f, walk.since, Len(history))
                              => HadPassed(f, walk.since, Len(history))'
      BY <2>1, <2>2, <2>3, <3>1, <3>2, SeenStays
    <3>4. history'[walk.since] = history[walk.since]
      BY <2>1, <3>1
    <3>5. CheckOK => CheckOK'
      BY <2>2, <3>3 DEF CheckOK
    <3>6. ScanOK => ScanOK'
      BY <2>2, <3>3, <3>4 DEF ScanOK
    <3> QED BY <2>2, <3>1, <3>5, <3>6 DEF WalkOK
  <2> QED BY <2>1, <2>5, <2>6, <2>7
<1>s. ASSUME history' = history
      PROVE  /\ HistoryOK' /\ \A x : (IROK(x)' <=> IROK(x)) /\ (During(x)' <=> During(x))
             /\ \A f, a, b : HadPassed(f, a, b)' <=> HadPassed(f, a, b)
  BY <1>s DEF HistoryOK, Trees, IROK, During, HadRows, RowsOf, ParseMarkers, HadPassed,
              CheckFile, HasMarker, CallsRequirePro
<1>i. ASSUME history' = history, ir' = ir
      PROVE  IRInv'
  BY <1>i, <1>s DEF IRInv
<1>m. ASSUME history' = history, matrix' = matrix
      PROVE  MatrixInv'
  BY <1>m, <1>s DEF MatrixInv, Rendered
<1>p. ASSUME history' = history, passed' = passed
      PROVE  PassedInv'
  BY <1>p, <1>s DEF PassedInv
<1>2. ASSUME NEW cmd \in Commands, Begins(cmd)
      PROVE  DocgenInv'
  <2>1. UNCHANGED <<history, ir, matrix, passed>> /\ WalkOK'
    BY <1>2, BeginKeeps DEF Begins
  <2> QED BY <2>1, <1>s, <1>i, <1>m, <1>p DEF WalkInv
<1>3. ASSUME NEW f \in Funcs, ReadsFile(f)
      PROVE  DocgenInv'
  <2>1. walk # Absent /\ UNCHANGED <<history, ir, matrix, passed>>
    BY <1>3 DEF ReadsFile
  <2>2. WalkOK'
    BY <1>3, <2>1, ReadKeeps DEF WalkInv
  <2> QED BY <2>1, <2>2, <1>s, <1>i, <1>m, <1>p DEF WalkInv
<1>4. CASE WalkFails
  <2>1. walk' = Absent /\ UNCHANGED <<history, ir, passed>>
        /\ (Renders(Absent) \/ matrix' = matrix)
    BY <1>4 DEF WalkFails
  <2>2. MatrixInv'
    BY <2>1, <1>m, RendersKeep
  <2> QED BY <2>1, <2>2, <1>s, <1>i, <1>p DEF WalkInv
<1>5. CASE CheckCmd
  <2>1. /\ walk # Absent /\ walk.cmd = "check" /\ walk.todo = {} /\ walk' = Absent
        /\ passed' = IF walk.found = {} THEN [since |-> walk.since, upto |-> Len(history)]
                     ELSE passed
        /\ UNCHANGED <<history, ir, matrix>>
    BY <1>5 DEF CheckCmd, WalkEnds, Now
  <2>2. WalkOK /\ CheckOK
    BY <2>1 DEF WalkInv, WalkOK
  <2>3. PassedInv'
    <3>1. CASE walk.found # {}
      BY <2>1, <3>1, <1>p
    <3>2. CASE walk.found = {}
      <4>1. passed' = [since |-> walk.since, upto |-> Len(history)]
        BY <2>1, <3>2
      <4>2. During(passed')
        BY <2>2, <4>1 DEF WalkOK, During, Trees, HistoryOK
      <4>3. \A f \in Funcs : HadPassed(f, passed'.since, passed'.upto)
        BY <2>1, <2>2, <3>2, <4>1 DEF CheckOK
      <4>4. During(passed)' /\ \A f \in Funcs : HadPassed(f, passed.since, passed.upto)'
        BY <2>1, <4>2, <4>3 DEF During, Trees, HadPassed
      <4> QED BY <4>4 DEF PassedInv
    <3> QED BY <3>1, <3>2
  <2> QED BY <2>1, <2>3, <1>s, <1>i, <1>m DEF WalkInv
<1>6. CASE ScanCmd
  <2>1. /\ walk # Absent /\ walk.cmd = "scan" /\ walk.todo = {} /\ walk' = Absent
        /\ ir' \in {IR, Torn} /\ UNCHANGED <<history, matrix, passed>>
    BY <1>6 DEF ScanCmd, WalkEnds
  <2>2. IROK(IR)
    BY <2>1, IRIsOK DEF WalkInv
  <2>3. IRInv'
    BY <2>1, <2>2, <1>s DEF IRInv
  <2> QED BY <2>1, <2>3, <1>s, <1>m, <1>p DEF WalkInv
<1>7. CASE RenderCmd
  <2>1. /\ walk # Absent /\ walk.cmd # "check" /\ walk.todo = {} /\ walk' = Absent
        /\ Renders(IR) /\ UNCHANGED <<history, ir, passed>>
    BY <1>7 DEF RenderCmd, WalkEnds
  <2>2. IROK(IR)
    BY <2>1, IRIsOK DEF WalkInv
  <2>3. MatrixInv'
    BY <2>1, <2>2, RendersKeep
  <2> QED BY <2>1, <2>3, <1>s, <1>i, <1>p DEF WalkInv
<1>8. CASE RenderFile
  <2>1. Renders(ir) /\ UNCHANGED <<history, walk, ir, passed>>
    BY <1>8 DEF RenderFile
  <2>2. MatrixInv'
    BY <2>1, RendersKeep DEF IRInv
  <2>3. WalkInv'
    BY <2>1 DEF WalkInv, WalkOK, Trees, CheckOK, ScanOK, HadRows, RowsOf, ParseMarkers,
                HadPassed, CheckFile, HasMarker, CallsRequirePro
  <2> QED BY <2>1, <2>2, <2>3, <1>s, <1>i, <1>p
<1>9. CASE UNCHANGED docgenVars
  <2>1. WalkInv'
    BY <1>9 DEF docgenVars, WalkInv, WalkOK, Trees, CheckOK, ScanOK, HadRows, RowsOf,
                ParseMarkers, HadPassed, CheckFile, HasMarker, CallsRequirePro
  <2> QED BY <1>9, <2>1, <1>s, <1>i, <1>m, <1>p DEF docgenVars
<1> QED
  BY <1>1, <1>2, <1>3, <1>4, <1>5, <1>6, <1>7, <1>8, <1>9 DEF DocgenNext

(* What docgen has on disk, and what a check that is done has said, is of  *)
(* trees there have been while it walked.                                  *)
THEOREM DocgenInvariance == DocgenSpec => []DocgenInv
  BY InvHolds, InvIsKept, PTL DEF DocgenSpec

---------------------------------------------------------------------------
(* docgen.cfg checks it for two functions and one edit: a function that    *)
(* nobody edits between the walk of a matrix and that of a check that      *)
(* passed is listed if it gates (doc.go:4-5).                              *)
THEOREM GatesListed == DocgenSpec => []GatesAreListed
<1>1. DocgenInv => GatesAreListed
  <2> DEFINE fn(f) == history[matrix.since][f]
  <2> SUFFICES ASSUME DocgenInv, Rendered, passed # Absent, NEW f \in Funcs,
                      fn(f).place = "code", fn(f).call = "named",
                      \A k \in DOMAIN history : Spans(k) => history[k][f] = fn(f)
               PROVE  \E row \in matrix.table : row.of = f
    BY DEF GatesAreListed
  <2>1. PICK x : IROK(x) /\ matrix = Render(x)
    BY DEF DocgenInv, MatrixInv
  <2>2. During(x) /\ matrix.since = x.since /\ matrix.upto = x.upto /\ matrix.table = x.markers
    BY <2>1 DEF IROK, Render
  <2>3. During(passed) /\ HadPassed(f, passed.since, passed.upto)
    BY DEF DocgenInv, PassedInv
  <2>4. DOMAIN history = Trees
    BY DEF DocgenInv, HistoryOK, Trees
  <2>5. PICK k \in x.since .. x.upto : {row \in x.markers : row.of = f} = RowsOf(f, k)
    BY <2>1 DEF IROK, HadRows
  <2>6. history[k][f] = fn(f)
    <3>1. k \in Trees /\ Spans(k)
      BY <2>2, <2>5 DEF During, Trees, Spans
    <3> QED BY <2>4, <3>1
  <2>7. PICK m \in passed.since .. passed.upto :
          history[m][f].place = "code" => CheckFile(f, history[m][f]) = {}
    BY <2>3 DEF HadPassed
  <2>8. history[m][f] = fn(f)
    <3>1. m \in Trees /\ Spans(m)
      BY <2>3, <2>7 DEF During, Trees, Spans
    <3> QED BY <2>4, <3>1
  <2>9. HasMarker(fn(f))
    BY <2>7, <2>8 DEF CheckFile, CallsRequirePro
  <2>10. ParseMarkers(f, fn(f)) # {}
    BY <2>9 DEF HasMarker, ParseMarkers
  <2>11. RowsOf(f, k) = ParseMarkers(f, fn(f))
    BY <2>6 DEF RowsOf
  <2> QED BY <2>2, <2>5, <2>10, <2>11
<1> QED
  BY <1>1, DocgenInvariance, PTL

UsesOf(table, t)   == {u \in Uses(table) : u[1].tags[u[2]] = t}
RowsWith(table, t) == {row \in table : \E i \in DOMAIN row.tags : row.tags[i] = t}
OnceARow(table, t) ==
  \A row \in table : \A i, j \in DOMAIN row.tags : row.tags[i] = t /\ row.tags[j] = t => i = j

(* Rows with a tag that each names once are as many as the uses of it.     *)
LEMMA UsesAreRows ==
  ASSUME NEW table, IsFiniteSet(table), NEW t, OnceARow(table, t)
  PROVE  Cardinality(UsesOf(table, t)) = Cardinality(RowsWith(table, t))
<1> USE DEF UsesOf, RowsWith, OnceARow
<1> DEFINE rows == RowsWith(table, t)
           uses == UsesOf(table, t)
           At(row) == CHOOSE i \in DOMAIN row.tags : row.tags[i] = t
           use == [row \in rows |-> <<row, At(row)>>]
<1>1. IsFiniteSet(rows)
  BY FS_Subset
<1>2. ASSUME NEW row \in rows
      PROVE  At(row) \in DOMAIN row.tags /\ row.tags[At(row)] = t
  OBVIOUS
<1>3. ASSUME NEW row \in rows
      PROVE  <<row, At(row)>> \in uses
  BY <1>2, <1>3 DEF Uses
<1>4. ASSUME NEW u \in uses
      PROVE  \E row \in rows : u = <<row, At(row)>>
  <2>0. PICK row \in table : \E i \in DOMAIN row.tags : u = <<row, i>> /\ row.tags[i] = t
    BY <1>4 DEF Uses
  <2>1. PICK i \in DOMAIN row.tags : u = <<row, i>> /\ row.tags[i] = t
    BY <2>0
  <2>2. row \in rows
    BY <2>1
  <2>3. i = At(row)
    BY <1>2, <2>1, <2>2
  <2> QED BY <2>1, <2>2, <2>3
<1> HIDE DEF rows, uses, At
<1>5. use \in [rows -> uses] /\ \A a, b \in rows : use[a] = use[b] => a = b
  BY <1>3
<1>6. \A u \in uses : \E row \in rows : use[row] = u
  BY <1>4
<1>7. use \in Bijection(rows, uses)
  <2> HIDE DEF use
  <2> QED BY <1>5, <1>6, Fun_IsBij
<1>8. ExistsBijection(rows, uses)
  BY <1>7, Fun_ExistsBij
<1> QED BY <1>1, <1>8, FS_Bijection DEF rows, uses

(* docgen.cfg checks it for one edit: whichever way render was given its   *)
(* IR, the rows of each function are those it had at some time during one  *)
(* walk, and a tag no marker repeats is counted once a row                 *)
(* (main.go:121-138, render.go:60-78).                                     *)
THEOREM RowsThere == DocgenSpec => []RowsWereThere
<1>1. DocgenInv => RowsWereThere
  <2> SUFFICES ASSUME DocgenInv, Rendered PROVE RowsWereThere
    BY DEF RowsWereThere
  <2>1. PICK x : IROK(x) /\ matrix = Render(x)
    BY DEF DocgenInv, MatrixInv
  <2> DEFINE table == matrix.table
  <2>2. /\ matrix.since = x.since /\ matrix.upto = x.upto /\ table = x.markers
        /\ matrix.summary = [t \in {u[1].tags[u[2]] : u \in Uses(table)} |->
                               Cardinality({u \in Uses(table) : u[1].tags[u[2]] = t})]
    BY <2>1 DEF Render
  <2>3. ASSUME NEW f \in Funcs
        PROVE  \E k \in matrix.since .. matrix.upto :
                 LET fn == history[k][f]
                 IN  /\ fn.place # "skipped" => fn.parses
                     /\ {row \in table : row.of = f} =
                          {[of |-> f, line |-> i, tags |-> fn.doc[i].tags] :
                             i \in {j \in DOMAIN fn.doc : fn.place # "skipped" /\ fn.doc[j].reason}}
    <3>1. PICK k \in x.since .. x.upto :
            /\ history[k][f].place # "skipped" => history[k][f].parses
            /\ {row \in x.markers : row.of = f} = RowsOf(f, k)
      BY <2>1 DEF IROK, HadRows
    <3>2. RowsOf(f, k) =
            {[of |-> f, line |-> i, tags |-> history[k][f].doc[i].tags] :
               i \in {j \in DOMAIN history[k][f].doc :
                        history[k][f].place # "skipped" /\ history[k][f].doc[j].reason}}
      BY DEF RowsOf, ParseMarkers
    <3> QED BY <2>2, <3>1, <3>2
  <2> HIDE DEF table
  <2>4. ASSUME NEW t \in Tags
        PROVE  LET rows == {row \in table : \E i \in DOMAIN row.tags : row.tags[i] = t}
               IN  /\ t \in DOMAIN matrix.summary <=> rows # {}
                   /\ (\A row \in rows : \A i, j \in DOMAIN row.tags :
                         row.tags[i] = t /\ row.tags[j] = t => i = j)
                      /\ rows # {}
                      => matrix.summary[t] = Cardinality(rows)
    <3> DEFINE rows == {row \in table : \E i \in DOMAIN row.tags : row.tags[i] = t}
    <3>1. t \in DOMAIN matrix.summary <=> rows # {}
      <4>1. t \in DOMAIN matrix.summary <=> \E u \in Uses(table) : u[1].tags[u[2]] = t
        BY <2>2
      <4>2. (\E u \in Uses(table) : u[1].tags[u[2]] = t)
            <=> \E row \in table : \E i \in DOMAIN row.tags : row.tags[i] = t
        <5>1. ASSUME NEW row \in table, NEW i \in DOMAIN row.tags, row.tags[i] = t
              PROVE  \E u \in Uses(table) : u[1].tags[u[2]] = t
          <6>1. <<row, i>> \in Uses(table)
            BY DEF Uses
          <6> QED BY <5>1, <6>1
        <5> QED BY <5>1 DEF Uses
      <4> QED BY <4>1, <4>2
    <3>2. ASSUME \A row \in rows : \A i, j \in DOMAIN row.tags :
                   row.tags[i] = t /\ row.tags[j] = t => i = j,
                 rows # {}
          PROVE  matrix.summary[t] = Cardinality(rows)
      <4>1. \A row \in table : \A i, j \in DOMAIN row.tags :
              row.tags[i] = t /\ row.tags[j] = t => i = j
        BY <3>2
      <4>2. IsFiniteSet(table)
        BY <2>1, <2>2 DEF IROK
      <4>3. Cardinality(UsesOf(table, t)) = Cardinality(RowsWith(table, t))
        <5>1. OnceARow(table, t)
          BY <4>1 DEF OnceARow
        <5> QED BY <4>2, <5>1, UsesAreRows
      <4>4. t \in {u[1].tags[u[2]] : u \in Uses(table)}
        BY <2>2, <3>1, <3>2
      <4> QED BY <2>2, <4>3, <4>4 DEF UsesOf, RowsWith
    <3> QED BY <3>1, <3>2
  <2> QED BY <2>3, <2>4 DEF RowsWereThere, table
<1> QED
  BY <1>1, DocgenInvariance, PTL
===============================================================================
