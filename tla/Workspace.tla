------------------------------ MODULE Workspace ------------------------------
(***************************************************************************)
(* tf.NewWorkspace and tf.WriteOverrides: the scratch copy of a module.    *)
(* copyTree walks the source in lexical order and follows symbolic links;  *)
(* each linked directory is walked by a copyTree of its own, with a seen   *)
(* map of its own.                                                         *)
(*                                                                         *)
(* A file, directory or link of the source is a node; its name is the node *)
(* itself and a path is the sequence of names below the root of the copy.  *)
(***************************************************************************)
EXTENDS Naturals, Sequences, FiniteSets

CONSTANTS
  Dirs, Files, Links,  \* the nodes of the source
  Module,              \* Options.ModuleDir
  TopDirs,             \* the directories no directory of Dirs holds
  Order,               \* the other nodes in lexical order of their names
  Nowhere,             \* what a dangling link points to
  MaxPath,             \* bound: the longest path the file system takes
  CopyFaults,          \* "io": reading or writing a file may fail
  Catalog              \* services, those the provider override has endpoints for

Nodes  == Dirs \cup Files \cup Links
Nested == Nodes \ TopDirs

(* Where every node is and what every link points to.  Directories nest    *)
(* without cycles; links need not.                                         *)
Trees ==
  {tree \in [parent : [Nested -> Dirs], target : [Links -> Nodes \cup {Nowhere}]] :
     \E depth \in [Dirs -> 0..Cardinality(Dirs)] :
        \A d \in Dirs \ TopDirs : depth[tree.parent[d]] < depth[d]}

ASSUME WorkspaceAssumption ==
  /\ Dirs \cap Files = {} /\ Links \cap (Dirs \cup Files) = {}
  /\ TopDirs \subseteq Dirs /\ Module \in TopDirs
  /\ Order \in Seq(Nested) /\ {Order[i] : i \in DOMAIN Order} = Nested
  /\ \A i, j \in DOMAIN Order : Order[i] = Order[j] => i = j
  /\ Nowhere \notin Nodes
  /\ MaxPath \in Nat
  /\ CopyFaults \subseteq {"io"}

VARIABLES
  tree,       \* the source
  walks,      \* the copyTree calls on the stack: what is to visit, what is seen
  copy,       \* the scratch copy: pairs of a path and the node copied there
  copying,    \* "no", "walking", "done" or "failed"
  overrides   \* the override files written, and the endpoints in them

workspaceVars == <<tree, walks, copy, copying, overrides>>

---------------------------------------------------------------------------
(* The entries of a directory in lexical order; among is what SelectSeq is *)
(* defined as, written out for the provers.                                *)
Children(d) ==
  LET among[i \in 0..Len(Order)] ==
        IF i = 0 THEN <<>>
        ELSE IF tree.parent[Order[i]] = d THEN Append(among[i - 1], Order[i])
        ELSE among[i - 1]
  IN among[Len(Order)]

(* filepath.EvalSymlinks: links to links are followed; a ring of links is  *)
(* an error, as a dangling one is.                                         *)
EvalSymlinks(link) ==
  LET follow[k \in 0..Cardinality(Links)] ==
        IF k = 0 THEN tree.target[link]
        ELSE IF follow[k - 1] \in Links THEN tree.target[follow[k - 1]] ELSE follow[k - 1]
      end == follow[Cardinality(Links)]
  IN IF end \in Links THEN Nowhere ELSE end

(* Visits of the nodes ns below path p.                                    *)
Below(p, ns) == [i \in DOMAIN ns |-> [node |-> ns[i], path |-> Append(p, ns[i])]]

(* The visits of a copyTree call that starts at directory d.               *)
CopyTree(d, p) == [todo |-> <<[node |-> d, path |-> p]>>, seen |-> {}]

Top   == walks[Len(walks)]
Visit == Head(Top.todo)

(* The stack with the walk on top replaced by the walks ws.                *)
TopBecomes(ws) == walks' = SubSeq(walks, 1, Len(walks) - 1) \o ws

Visited == [Top EXCEPT !.todo = Tail(@)]

---------------------------------------------------------------------------
WorkspaceInit ==
  /\ walks = <<>>
  /\ copy = {}
  /\ copying = "no"
  /\ overrides = [files |-> {}, endpoints |-> <<>>]

(* NewWorkspace: tb.TempDir(), then copyTree(moduleDir, dst).              *)
NewWorkspace ==
  /\ copying = "no"
  /\ copying' = "walking"
  /\ walks' = <<CopyTree(Module, <<>>)>>
  /\ UNCHANGED <<tree, copy, overrides>>

Visits(nodes) ==
  /\ copying = "walking"
  /\ Top.todo # <<>>
  /\ Visit.node \in nodes
  /\ UNCHANGED <<tree, overrides>>

Copies(node) ==
  /\ Len(Visit.path) <= MaxPath
  /\ copy' = copy \cup {<<Visit.path, node>>}
  /\ UNCHANGED copying

VisitDir ==
  /\ Visits(Dirs)
  /\ Copies(Visit.node)
  /\ TopBecomes(<<[Top EXCEPT !.todo =
                     Below(Visit.path, Children(Visit.node)) \o Tail(@)]>>)

VisitFile == Visits(Files) /\ Copies(Visit.node) /\ TopBecomes(<<Visited>>)

Target == EvalSymlinks(Visit.node)
Marked == [Visited EXCEPT !.seen = @ \cup {Target}]

(* copySymlink: a target this walk has seen is skipped without a word.     *)
SkipSeen ==
  /\ Visits(Links)
  /\ Target \in Top.seen
  /\ TopBecomes(<<Visited>>)
  /\ UNCHANGED <<copy, copying>>

FollowToFile ==
  /\ Visits(Links)
  /\ Target \in Files \ Top.seen
  /\ Copies(Target)
  /\ TopBecomes(<<Marked>>)

(* Mutant of FollowToDir: the target is copied beside the link, not in its *)
(* place.                                                                  *)
FollowToParent ==
  /\ Visits(Links)
  /\ Target \in Dirs \ Top.seen
  /\ TopBecomes(<<Marked, CopyTree(Target, SubSeq(Visit.path, 1, Len(Visit.path) - 1))>>)
  /\ UNCHANGED <<copy, copying>>

(* Mutant of FollowToDir: a linked directory is marked and not walked.     *)
FollowForgotten ==
  /\ Visits(Links)
  /\ Target \in Dirs \ Top.seen
  /\ TopBecomes(<<Marked>>)
  /\ UNCHANGED <<copy, copying>>

(* copyTree(resolved, target), whose seen map starts empty.                *)
FollowToDir ==
  /\ Visits(Links)
  /\ Target \in Dirs \ Top.seen
  /\ TopBecomes(<<Marked, CopyTree(Target, Visit.path)>>)
  /\ UNCHANGED <<copy, copying>>

(* A copyTree call returns nil.                                            *)
WalkEnds ==
  /\ copying = "walking"
  /\ Top.todo = <<>>
  /\ TopBecomes(<<>>)
  /\ copying' = IF Len(walks) = 1 THEN "done" ELSE "walking"
  /\ UNCHANGED <<tree, copy, overrides>>

(* An error ends every walk: a link that leads nowhere, a path that is too *)
(* long, a file that cannot be read or written.                            *)
CopyFails ==
  /\ Visits(Nodes)
  /\ \/ Visit.node \in Links /\ Target = Nowhere
     \/ Len(Visit.path) > MaxPath /\ ~(Visit.node \in Links /\ Target \in Top.seen)
     \/ "io" \in CopyFaults
  /\ copying' = "failed"
  /\ walks' = <<>>
  /\ UNCHANGED copy

CopyStep ==
  \/ VisitDir \/ VisitFile \/ SkipSeen \/ FollowToFile \/ FollowToDir
  \/ WalkEnds \/ CopyFails

(* WriteOverrides: the provider's file, then the backend's.  The first     *)
(* gives the default aws provider one endpoint for each service of the     *)
(* catalog.                                                                *)
WriteProvider(url) ==
  /\ copying = "done"
  /\ overrides.files = {}
  /\ overrides' = [files |-> {"provider"}, endpoints |-> [s \in Catalog |-> url]]
  /\ UNCHANGED <<tree, walks, copy, copying>>

WriteBackend ==
  /\ overrides.files = {"provider"}
  /\ overrides' = [overrides EXCEPT !.files = @ \cup {"backend"}]
  /\ UNCHANGED <<tree, walks, copy, copying>>

---------------------------------------------------------------------------
(* Properties.                                                             *)

(* The walk's variables keep their shape.                                  *)
WorkspaceTypeOK ==
  /\ tree \in [parent : [Nested -> Dirs], target : [Links -> Nodes \cup {Nowhere}]]
  /\ \A i \in DOMAIN walks :
       /\ \A j \in DOMAIN walks[i].todo : walks[i].todo[j].node \in Nodes
       /\ walks[i].seen \subseteq Dirs \cup Files
  /\ \A x \in copy : Len(x[1]) <= MaxPath /\ x[2] \in Dirs \cup Files
  /\ copying \in {"no", "walking", "done", "failed"}
  /\ overrides.files \subseteq {"provider", "backend"}

(* What the operating system finds in the source under a path.             *)
Deref(n) == IF n \in Links THEN EvalSymlinks(n) ELSE n

Lookup(p) ==
  LET at[i \in 0..Len(p)] ==
        IF i = 0 THEN Module
        ELSE IF p[i] \in Nested /\ tree.parent[p[i]] = at[i - 1] THEN Deref(p[i])
        ELSE Nowhere
  IN at[Len(p)]

(* The paths of the source, links followed, up to a length of MaxPath.     *)
SourcePaths ==
  LET upTo[k \in 0..MaxPath] ==
        IF k = 0 THEN {<<>>}
        ELSE upTo[k - 1] \cup
             {Append(p, n) : p \in {q \in upTo[k - 1] : Lookup(q) \in Dirs}, n \in Nested}
  IN {p \in upTo[MaxPath] : Lookup(p) # Nowhere}

(* Whatever links there are, nothing stands in the copy that the module    *)
(* does not have at that path (workspace.go:32-35), also in a copy that    *)
(* was given up.                                                           *)
CopyIsSound == \A x \in copy : Lookup(x[1]) = x[2]

(* A copy that succeeded is the module with its links replaced by what     *)
(* they lead to, if no two links lead to the same place (of those, only    *)
(* the first is copied).                                                   *)
CopyIsComplete ==
  /\ copying = "done"
  /\ \A l, m \in Links : EvalSymlinks(l) = EvalSymlinks(m) => l = m
  => {x[1] : x \in copy} = SourcePaths

(* workspace.go:33-34: links are followed once and then rejected to avoid  *)
(* cycles; so a module whose links all lead somewhere can be copied.       *)
CyclesAreRejected ==
  copying = "failed" /\ CopyFaults = {} => \E l \in Links : EvalSymlinks(l) = Nowhere
=============================================================================
