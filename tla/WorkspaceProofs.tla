--------------------------- MODULE WorkspaceProofs ---------------------------
(***************************************************************************)
(* Proofs about the scratch copy, for any tree of directories, files and   *)
(* links: what copyTree leaves is the module, and all of it.               *)
(***************************************************************************)
EXTENDS Workspace, SequenceTheorems, WellFoundedInduction, TLAPS

---------------------------------------------------------------------------
(* Induction over the natural numbers, for a set of them.                  *)

(* A set of natural numbers has a least one.                               *)
LEMMA NatLeast ==
  ASSUME NEW S, S \subseteq Nat, S # {}
  PROVE  \E x \in S : \A y \in S : x <= y
<1> DEFINE R == OpToRel(<, Nat)
<1>1. IsWellFoundedOn(R, Nat)
  BY NatLessThanWellFounded
<1>2. \A x, y \in Nat : <<x, y>> \in R <=> x < y
  BY DEF OpToRel
<1> HIDE DEF R
<1>3. PICK x \in S : \A y \in S : ~ (<<y, x>> \in R)
  BY <1>1, WFMin
<1>4. ASSUME NEW y \in S PROVE x <= y
  <2>1. x \in Nat /\ y \in Nat /\ ~ (y < x)
    BY <1>2, <1>3
  <2> QED BY <2>1
<1> QED BY <1>4

(* A set with 0 in it and the successor of each of its numbers has them    *)
(* all.                                                                    *)
LEMMA NatSetInduction ==
  ASSUME NEW G, 0 \in G, \A n \in Nat : n \in G => n + 1 \in G
  PROVE  Nat \subseteq G
<1> SUFFICES ASSUME Nat \ G # {} PROVE FALSE
  OBVIOUS
<1>1. PICK x \in Nat \ G : \A y \in Nat \ G : x <= y
  BY NatLeast
<1>2. x # 0 /\ x - 1 \in Nat /\ x - 1 \notin Nat \ G
  BY <1>1
<1>3. x \in G
  BY <1>1, <1>2
<1> QED BY <1>1, <1>3

---------------------------------------------------------------------------
(* Lookup.                                                                 *)

(* What Lookup goes through on its way down p, as far as m.                *)
Descends(p, m, at) ==
  at = [i \in 0..m |->
          IF i = 0 THEN Module
          ELSE IF p[i] \in Nested /\ tree.parent[p[i]] = at[i - 1] THEN Deref(p[i])
          ELSE Nowhere]

(* There is such a function, for every path and as far as one likes.       *)
LEMMA DescentExists ==
  ASSUME NEW p, NEW n \in Nat
  PROVE  \E at : Descends(p, n, at)
<1> DEFINE G == {m \in Nat : \E at : Descends(p, m, at)}
<1>1. 0 \in G
  <2>1. Descends(p, 0, [i \in 0..0 |-> Module])
    BY DEF Descends
  <2> QED BY <2>1
<1>2. ASSUME NEW m \in Nat, m \in G
      PROVE  m + 1 \in G
  <2>1. PICK f : Descends(p, m, f)
    BY <1>2
  <2> DEFINE g == [i \in 0..(m + 1) |->
                     IF i \in 0..m THEN f[i]
                     ELSE IF p[i] \in Nested /\ tree.parent[p[i]] = f[m] THEN Deref(p[i])
                     ELSE Nowhere]
  <2>2. \A i \in 1..m : f[i] = IF p[i] \in Nested /\ tree.parent[p[i]] = f[i - 1]
                               THEN Deref(p[i]) ELSE Nowhere
    BY <2>1 DEF Descends
  <2>3. f[0] = Module
    BY <2>1 DEF Descends
  <2>4. \A i \in 0..(m + 1) :
          g[i] = IF i = 0 THEN Module
                 ELSE IF p[i] \in Nested /\ tree.parent[p[i]] = g[i - 1] THEN Deref(p[i])
                 ELSE Nowhere
    <3> SUFFICES ASSUME NEW i \in 0..(m + 1)
                 PROVE  g[i] = IF i = 0 THEN Module
                               ELSE IF p[i] \in Nested /\ tree.parent[p[i]] = g[i - 1]
                               THEN Deref(p[i]) ELSE Nowhere
      OBVIOUS
    <3>1. CASE i = 0
      BY <3>1, <2>3
    <3>2. CASE i \in 1..m
      <4>1. i \in 0..m /\ i - 1 \in 0..m /\ i - 1 \in 0..(m + 1)
        BY <3>2
      <4>2. g[i] = f[i] /\ g[i - 1] = f[i - 1]
        BY <4>1
      <4> QED BY <3>2, <4>2, <2>2
    <3>3. CASE i = m + 1
      <4>1. i \notin 0..m /\ i - 1 = m /\ m \in 0..m /\ m \in 0..(m + 1) /\ i # 0
        BY <3>3
      <4>2. g[i - 1] = f[m]
        BY <4>1
      <4> QED BY <4>1, <4>2
    <3> QED BY <3>1, <3>2, <3>3
  <2>5. Descends(p, m + 1, g)
    <3>1. g = [i \in 0..(m + 1) |-> g[i]]
      OBVIOUS
    <3> HIDE DEF g
    <3> QED BY <2>4, <3>1 DEF Descends
  <2> QED BY <2>5
<1> HIDE DEF G
<1>3. n \in G
  BY <1>1, <1>2, NatSetInduction
<1> QED BY <1>3 DEF G

(* The way down depends on what has been passed only.                      *)
LEMMA SameDescent ==
  ASSUME NEW p, NEW q, NEW m \in Nat, NEW n \in Nat, NEW f, NEW g,
         Descends(p, m, f), Descends(q, n, g),
         NEW k \in Nat, k <= m, k <= n, \A i \in 1..k : p[i] = q[i]
  PROVE  f[k] = g[k]
<1> DEFINE G == {i \in Nat : i <= k => f[i] = g[i]}
<1>1. 0 \in G
  BY DEF Descends
<1>2. ASSUME NEW i \in Nat, i \in G
      PROVE  i + 1 \in G
  <2> SUFFICES ASSUME i + 1 <= k
               PROVE  f[i + 1] = g[i + 1]
    OBVIOUS
  <2>1. i + 1 \in 0..m /\ i + 1 \in 0..n /\ i + 1 # 0 /\ (i + 1) - 1 = i /\ p[i + 1] = q[i + 1]
    OBVIOUS
  <2>2. f[i] = g[i]
    BY <1>2
  <2> QED BY <2>1, <2>2 DEF Descends
<1> HIDE DEF G
<1>3. k \in G
  BY <1>1, <1>2, NatSetInduction
<1> QED BY <1>3 DEF G

(* The function that Lookup is defined by.                                 *)
LEMMA LookupDescends ==
  ASSUME NEW p \in Seq(Nested)
  PROVE  \E at : Descends(p, Len(p), at) /\ Lookup(p) = at[Len(p)]
<1> DEFINE at == CHOOSE at : at = [i \in 0..Len(p) |->
                     IF i = 0 THEN Module
                     ELSE IF p[i] \in Nested /\ tree.parent[p[i]] = at[i - 1] THEN Deref(p[i])
                     ELSE Nowhere]
<1>1. Len(p) \in Nat
  OBVIOUS
<1>2. \E f : Descends(p, Len(p), f)
  BY <1>1, DescentExists
<1>3. Descends(p, Len(p), at)
  BY <1>2 DEF Descends
<1>4. Lookup(p) = at[Len(p)]
  BY DEF Lookup
<1> QED BY <1>3, <1>4

(* The root of the copy is the module.                                     *)
LEMMA LookupRoot == Lookup(<<>>) = Module
<1>1. <<>> \in Seq(Nested) /\ Len(<<>>) = 0
  OBVIOUS
<1>2. PICK at : Descends(<<>>, 0, at) /\ Lookup(<<>>) = at[0]
  BY <1>1, LookupDescends
<1> QED BY <1>2 DEF Descends

(* One name further down.                                                  *)
LEMMA LookupStep ==
  ASSUME NEW p \in Seq(Nested), NEW n \in Nested
  PROVE  Lookup(Append(p, n)) = IF tree.parent[n] = Lookup(p) THEN Deref(n) ELSE Nowhere
<1> DEFINE q == Append(p, n)
           m == Len(p)
<1>1. m \in Nat /\ q \in Seq(Nested) /\ Len(q) = m + 1 /\ q[m + 1] = n /\ \A i \in 1..m : q[i] = p[i]
  OBVIOUS
<1>2. PICK f : Descends(p, m, f) /\ Lookup(p) = f[m]
  BY LookupDescends
<1>3. PICK g : Descends(q, m + 1, g) /\ Lookup(q) = g[m + 1]
  BY <1>1, LookupDescends
<1> HIDE DEF q, m
<1>4. f[m] = g[m]
  BY <1>1, <1>2, <1>3, SameDescent
<1>5. m + 1 \in 0..(m + 1) /\ m + 1 # 0 /\ (m + 1) - 1 = m
  BY <1>1
<1>6. g[m + 1] = IF q[m + 1] \in Nested /\ tree.parent[q[m + 1]] = g[(m + 1) - 1]
                 THEN Deref(q[m + 1]) ELSE Nowhere
  BY <1>3, <1>5 DEF Descends
<1> QED BY <1>1, <1>2, <1>3, <1>4, <1>5, <1>6 DEF q

---------------------------------------------------------------------------
(* Children.                                                               *)

(* What Children goes through over the first n nodes of Order.             *)
With(d, s, i) == IF tree.parent[Order[i]] = d THEN Append(s, Order[i]) ELSE s

Gathers(d, n, among) ==
  among = [i \in 0..n |-> IF i = 0 THEN <<>> ELSE With(d, among[i - 1], i)]

(* The entries of d among the first n nodes of Order, each of them once.   *)
Entries(d, n, s) ==
  /\ s \in Seq(Nested)
  /\ \A i \in DOMAIN s : \E j \in 1..n : tree.parent[Order[j]] = d /\ s[i] = Order[j]
  /\ \A j \in 1..n : tree.parent[Order[j]] = d => \E i \in DOMAIN s : s[i] = Order[j]
  /\ \A i, j \in DOMAIN s : s[i] = s[j] => i = j

(* A node that has not been there yet, after others.                       *)
LEMMA EntriesGrow ==
  ASSUME NEW d, NEW n \in Nat, n + 1 \in DOMAIN Order, NEW s, Entries(d, n, s)
  PROVE  Entries(d, n + 1, With(d, s, n + 1))
<1>1. /\ Order \in Seq(Nested) /\ \A i, j \in DOMAIN Order : Order[i] = Order[j] => i = j
  BY WorkspaceAssumption
<1>2. /\ s \in Seq(Nested)
      /\ \A i \in DOMAIN s : \E j \in 1..n : tree.parent[Order[j]] = d /\ s[i] = Order[j]
      /\ \A j \in 1..n : tree.parent[Order[j]] = d => \E i \in DOMAIN s : s[i] = Order[j]
      /\ \A i, j \in DOMAIN s : s[i] = s[j] => i = j
  BY DEF Entries
<1>a. \A j \in 1..(n + 1) : j \in 1..n \/ j = n + 1
  OBVIOUS
<1>b. 1..n \subseteq 1..(n + 1) /\ n + 1 \in 1..(n + 1)
  OBVIOUS
<1>3. CASE tree.parent[Order[n + 1]] # d
  <2>1. With(d, s, n + 1) = s
    BY <1>3 DEF With
  <2> QED BY <1>2, <1>3, <1>a, <1>b, <2>1 DEF Entries
<1>4. CASE tree.parent[Order[n + 1]] = d
  <2> DEFINE x == Order[n + 1]
             t == Append(s, x)
  <2>1. x \in Nested /\ With(d, s, n + 1) = t /\ tree.parent[x] = d
    BY <1>1, <1>4 DEF With
  <2>2. /\ t \in Seq(Nested) /\ Len(t) = Len(s) + 1 /\ DOMAIN t = 1..(Len(s) + 1)
        /\ t[Len(s) + 1] = x /\ \A i \in DOMAIN s : t[i] = s[i]
    BY <1>2, <2>1
  <2>3. \A i \in DOMAIN s : s[i] # x
    <3> SUFFICES ASSUME NEW i \in DOMAIN s, s[i] = x
                 PROVE  FALSE
      OBVIOUS
    <3>1. PICK j \in 1..n : s[i] = Order[j]
      BY <1>2
    <3>2. j \in DOMAIN Order /\ j # n + 1
      BY <1>1
    <3> QED BY <1>1, <3>1, <3>2
  <2>4. DOMAIN s = 1..Len(s) /\ Len(s) \in Nat
    BY <1>2
  <2>x. x = Order[n + 1]
    OBVIOUS
  <2> HIDE DEF t, x
  <2>a. \A i \in DOMAIN t : i \in DOMAIN s \/ i = Len(s) + 1
    BY <2>2, <2>4
  <2>b. DOMAIN s \subseteq DOMAIN t /\ Len(s) + 1 \in DOMAIN t
    BY <2>2, <2>4
  <2>5. \A i, j \in DOMAIN t : t[i] = t[j] => i = j
    BY <1>2, <2>2, <2>3, <2>a
  <2>6. \A i \in DOMAIN t : \E j \in 1..(n + 1) : tree.parent[Order[j]] = d /\ t[i] = Order[j]
    BY <1>2, <1>b, <2>1, <2>2, <2>a, <2>x
  <2>7. \A j \in 1..(n + 1) : tree.parent[Order[j]] = d => \E i \in DOMAIN t : t[i] = Order[j]
    BY <1>2, <1>a, <2>2, <2>b, <2>x
  <2>8. t \in Seq(Nested) /\ With(d, s, n + 1) = t
    BY <2>1, <2>2
  <2>9. Entries(d, n + 1, t)
    BY <2>5, <2>6, <2>7, <2>8 DEF Entries
  <2> QED BY <2>8, <2>9
<1> QED BY <1>3, <1>4

(* Over any number of nodes.                                               *)
LEMMA GatheringExists ==
  ASSUME NEW d, NEW n \in Nat, n <= Len(Order)
  PROVE  \E among : Gathers(d, n, among) /\ Entries(d, n, among[n])
<1>0. Order \in Seq(Nested) /\ Len(Order) \in Nat /\ DOMAIN Order = 1..Len(Order)
  BY WorkspaceAssumption
<1> DEFINE G == {m \in Nat : m <= Len(Order) =>
                   \E among : Gathers(d, m, among) /\ Entries(d, m, among[m])}
<1>1. 0 \in G
  <2>1. Gathers(d, 0, [i \in 0..0 |-> <<>>])
    BY DEF Gathers
  <2>2. Entries(d, 0, <<>>)
    BY DEF Entries
  <2>3. [i \in 0..0 |-> <<>>][0] = <<>>
    OBVIOUS
  <2> QED BY <2>1, <2>2, <2>3
<1>2. ASSUME NEW m \in Nat, m \in G
      PROVE  m + 1 \in G
  <2> SUFFICES ASSUME m + 1 <= Len(Order)
               PROVE  \E among : Gathers(d, m + 1, among) /\ Entries(d, m + 1, among[m + 1])
    OBVIOUS
  <2>1. PICK f : Gathers(d, m, f) /\ Entries(d, m, f[m])
    BY <1>0, <1>2
  <2> DEFINE new == With(d, f[m], m + 1)
             g == [i \in 0..(m + 1) |-> IF i \in 0..m THEN f[i] ELSE new]
  <2>2. \A i \in 1..m : f[i] = With(d, f[i - 1], i)
    BY <2>1 DEF Gathers
  <2>3. f[0] = <<>>
    BY <2>1 DEF Gathers
  <2>4. \A i \in 0..(m + 1) :
          g[i] = IF i = 0 THEN <<>>
                 ELSE With(d, g[i - 1], i)
    <3> SUFFICES ASSUME NEW i \in 0..(m + 1)
                 PROVE  g[i] = IF i = 0 THEN <<>>
                               ELSE With(d, g[i - 1], i)
      OBVIOUS
    <3>1. CASE i = 0
      BY <3>1, <2>3
    <3>2. CASE i \in 1..m
      <4>1. i \in 0..m /\ i - 1 \in 0..m /\ i - 1 \in 0..(m + 1)
        BY <3>2
      <4>2. g[i] = f[i] /\ g[i - 1] = f[i - 1]
        BY <4>1
      <4> QED BY <3>2, <4>2, <2>2
    <3>3. CASE i = m + 1
      <4>1. i \notin 0..m /\ i - 1 = m /\ m \in 0..m /\ m \in 0..(m + 1) /\ i # 0
        BY <3>3
      <4>2. g[i - 1] = f[m] /\ g[i] = new
        BY <4>1
      <4> QED BY <3>3, <4>1, <4>2
    <3> QED BY <3>1, <3>2, <3>3
  <2>5. g[m + 1] = new
    <3>1. m + 1 \in 0..(m + 1) /\ m + 1 \notin 0..m
      OBVIOUS
    <3> QED BY <3>1
  <2>6. Entries(d, m + 1, new)
    BY <1>0, <2>1, EntriesGrow
  <2>7. Gathers(d, m + 1, g)
    <3>1. g = [i \in 0..(m + 1) |-> g[i]]
      OBVIOUS
    <3> HIDE DEF g
    <3> QED BY <2>4, <3>1 DEF Gathers
  <2> HIDE DEF g, new
  <2> QED BY <2>5, <2>6, <2>7
<1> HIDE DEF G
<1>3. n \in G
  BY <1>1, <1>2, NatSetInduction
<1> QED BY <1>3 DEF G

(* The entries of a directory, each of them once.                          *)
LEMMA ChildrenOf ==
  ASSUME NEW d
  PROVE  /\ Children(d) \in Seq(Nested)
         /\ {Children(d)[i] : i \in DOMAIN Children(d)} = {n \in Nested : tree.parent[n] = d}
         /\ \A i, j \in DOMAIN Children(d) : Children(d)[i] = Children(d)[j] => i = j
<1>0. /\ Order \in Seq(Nested) /\ Len(Order) \in Nat /\ DOMAIN Order = 1..Len(Order)
      /\ {Order[i] : i \in DOMAIN Order} = Nested
  BY WorkspaceAssumption
<1> DEFINE N == Len(Order)
           among == CHOOSE among : among = [i \in 0..N |->
                      IF i = 0 THEN <<>>
                      ELSE IF tree.parent[Order[i]] = d THEN Append(among[i - 1], Order[i])
                      ELSE among[i - 1]]
<1>1. PICK f : Gathers(d, N, f) /\ Entries(d, N, f[N])
  BY <1>0, GatheringExists
<1>2. Gathers(d, N, among)
  BY <1>1 DEF Gathers, With
<1>3. Children(d) = among[N]
  BY DEF Children
<1> HIDE DEF among
<1>4. \A i \in 0..N : f[i] = among[i]
  <2> DEFINE G == {i \in Nat : i <= N => f[i] = among[i]}
  <2>1. 0 \in G
    BY <1>0, <1>1, <1>2 DEF Gathers
  <2>2. ASSUME NEW i \in Nat, i \in G
        PROVE  i + 1 \in G
    <3> SUFFICES ASSUME i + 1 <= N
                 PROVE  f[i + 1] = among[i + 1]
      OBVIOUS
    <3>1. i + 1 \in 0..N /\ i + 1 # 0 /\ (i + 1) - 1 = i
      BY <1>0
    <3>2. f[i] = among[i]
      BY <1>0, <2>2
    <3> QED BY <1>1, <1>2, <3>1, <3>2 DEF Gathers
  <2> HIDE DEF G
  <2>3. Nat \subseteq G
    BY <2>1, <2>2, NatSetInduction
  <2> QED BY <1>0, <2>3 DEF G
<1>5. Entries(d, N, Children(d))
  BY <1>0, <1>1, <1>3, <1>4
<1> QED BY <1>0, <1>5 DEF Entries

---------------------------------------------------------------------------
(* What is under a node of the source, links not followed: the least set   *)
(* with the node in it and with the entries of each of its directories.    *)
Closed(S) == \A m \in Nested : tree.parent[m] \in S => m \in S
Under(d)  == {n \in Nodes : \A S \in SUBSET Nodes : d \in S /\ Closed(S) => n \in S}

(* The directory itself, what it holds, and nothing else.                  *)
LEMMA UnderIsLeast ==
  ASSUME NEW d \in Nodes
  PROVE  /\ d \in Under(d) /\ Under(d) \subseteq Nodes /\ Closed(Under(d))
         /\ \A S \in SUBSET Nodes : d \in S /\ Closed(S) => Under(d) \subseteq S
<1>1. d \in Under(d) /\ Under(d) \subseteq Nodes
  BY DEF Under
<1>2. ASSUME NEW m \in Nested, tree.parent[m] \in Under(d), NEW S \in SUBSET Nodes,
             d \in S, Closed(S)
      PROVE  m \in S
  BY <1>2 DEF Under, Closed
<1>3. Closed(Under(d))
  <2>1. Nested \subseteq Nodes
    BY DEF Nested
  <2> QED BY <1>2, <2>1 DEF Closed, Under
<1>4. \A S \in SUBSET Nodes : d \in S /\ Closed(S) => Under(d) \subseteq S
  BY DEF Under
<1> QED BY <1>1, <1>3, <1>4

(* What is under a directory's entry is under the directory.               *)
LEMMA UnderEntry ==
  ASSUME NEW d \in Nodes, NEW c \in Nested, tree.parent[c] = d
  PROVE  Under(c) \subseteq Under(d)
<1>1. c \in Nodes
  BY DEF Nested
<1>2. /\ d \in Under(d) /\ Under(d) \subseteq Nodes /\ Closed(Under(d))
  BY UnderIsLeast
<1>3. c \in Under(d)
  BY <1>2 DEF Closed
<1> QED BY <1>1, <1>2, <1>3, UnderIsLeast

(* Every node under d is d or in something under d.                        *)
LEMMA UnderParent ==
  ASSUME NEW d \in Nodes, NEW n \in Under(d), n # d
  PROVE  n \in Nested /\ tree.parent[n] \in Under(d)
<1> DEFINE S == {d} \cup {m \in Nested : tree.parent[m] \in Under(d)}
<1>1. /\ d \in Under(d) /\ Under(d) \subseteq Nodes /\ Closed(Under(d))
  BY UnderIsLeast
<1>2. Nested \subseteq Nodes
  BY DEF Nested
<1>3. S \in SUBSET Nodes /\ d \in S /\ S \subseteq Under(d)
  BY <1>1, <1>2 DEF Closed
<1>4. Closed(S)
  BY <1>3 DEF Closed
<1>5. Under(d) \subseteq S
  BY <1>3, <1>4, UnderIsLeast
<1> QED BY <1>5

(* Directories nest without cycles.                                        *)
LEMMA EntryIsBelow ==
  ASSUME tree \in Trees, NEW d \in Nodes, NEW c \in Nested, tree.parent[c] = d
  PROVE  d \notin Under(c)
<1>0. /\ Nested \subseteq Nodes /\ TopDirs \subseteq Dirs /\ Dirs \subseteq Nodes
      /\ Nested = Nodes \ TopDirs
  BY WorkspaceAssumption DEF Nested, Nodes
<1>1. \A m \in Nested : tree.parent[m] \in Dirs
  BY DEF Trees
<1>2. CASE c \in Dirs
  <2>1. PICK depth \in [Dirs -> 0..Cardinality(Dirs)] :
          \A x \in Dirs \ TopDirs : depth[tree.parent[x]] < depth[x]
    BY DEF Trees
  <2> DEFINE S == {n \in Nodes : n \in Dirs => depth[n] >= depth[c]}
  <2>2. \A x \in Dirs : depth[x] \in Int
    BY <2>1
  <2>3. S \in SUBSET Nodes /\ c \in S
    BY <1>0, <1>2, <2>2
  <2>4. Closed(S)
    <3> SUFFICES ASSUME NEW m \in Nested, tree.parent[m] \in S, m \in Dirs
                 PROVE  depth[m] >= depth[c]
      BY <1>0 DEF Closed
    <3>1. tree.parent[m] \in Dirs /\ m \in Dirs \ TopDirs
      BY <1>0, <1>1
    <3>2. depth[tree.parent[m]] >= depth[c] /\ depth[tree.parent[m]] < depth[m]
      BY <2>1, <3>1
    <3> QED BY <1>2, <2>2, <3>1, <3>2
  <2>5. Under(c) \subseteq S
    BY <1>0, <2>3, <2>4, UnderIsLeast
  <2>6. d \in Dirs /\ c \in Dirs \ TopDirs /\ depth[d] < depth[c]
    BY <1>0, <1>1, <1>2, <2>1
  <2> QED BY <2>2, <2>5, <2>6
<1>3. CASE c \notin Dirs
  <2>1. {c} \in SUBSET Nodes /\ Closed({c})
    BY <1>0, <1>1, <1>3 DEF Closed
  <2>2. Under(c) \subseteq {c}
    BY <1>0, <2>1, UnderIsLeast
  <2> QED BY <1>1, <1>3, <2>2
<1> QED BY <1>2, <1>3

(* Two entries of a directory have nothing in common.                      *)
LEMMA EntriesApart ==
  ASSUME tree \in Trees, NEW d \in Nodes, NEW b \in Nested, NEW c \in Nested,
         tree.parent[b] = d, tree.parent[c] = d, b # c
  PROVE  Under(b) \cap Under(c) = {}
<1>0. b \in Nodes /\ c \in Nodes
  BY DEF Nested
<1>1. d \notin Under(b) /\ d \notin Under(c)
  BY EntryIsBelow
<1>2. b \notin Under(c)
  BY <1>0, <1>1, UnderParent
<1> DEFINE S == Under(b) \ Under(c)
<1>3. /\ b \in Under(b) /\ Under(b) \subseteq Nodes /\ Closed(Under(b))
  BY <1>0, UnderIsLeast
<1>4. S \in SUBSET Nodes /\ b \in S
  BY <1>2, <1>3
<1>5. Closed(S)
  <2> SUFFICES ASSUME NEW m \in Nested, tree.parent[m] \in S
               PROVE  m \in S
    BY DEF Closed
  <2>1. m \in Under(b)
    BY <1>3 DEF Closed
  <2>2. m # c
    BY <1>1
  <2>3. m \notin Under(c)
    BY <1>0, <2>2, UnderParent
  <2> QED BY <2>1, <2>3
<1>6. Under(b) \subseteq S
  BY <1>0, <1>4, <1>5, UnderIsLeast
<1> QED BY <1>6

---------------------------------------------------------------------------
(* SourcePaths.                                                            *)

(* The beginning of a path, and one name more of it.                       *)
LEMMA Prefixed ==
  ASSUME NEW q \in Seq(Nested), NEW k \in 0..Len(q)
  PROVE  /\ SubSeq(q, 1, k) \in Seq(Nested) /\ Len(SubSeq(q, 1, k)) = k
         /\ SubSeq(q, 1, Len(q)) = q
         /\ k < Len(q) => /\ q[k + 1] \in Nested
                          /\ SubSeq(q, 1, k + 1) = Append(SubSeq(q, 1, k), q[k + 1])
<1>1. Len(q) \in Nat /\ k \in Nat
  OBVIOUS
<1>2. \A i \in 1..k : q[i] \in Nested
  BY <1>1
<1>3. SubSeq(q, 1, k) \in Seq(Nested) /\ Len(SubSeq(q, 1, k)) = k
  BY <1>1, <1>2
<1>4. SubSeq(q, 1, Len(q)) = q
  BY <1>1
<1>5. ASSUME k < Len(q)
      PROVE  q[k + 1] \in Nested /\ SubSeq(q, 1, k + 1) = Append(SubSeq(q, 1, k), q[k + 1])
  <2>1. k + 1 \in 1..Len(q)
    BY <1>1, <1>5
  <2> QED BY <1>1, <1>3, <2>1
<1> QED BY <1>3, <1>4, <1>5

(* Every directory on the way down a path of the source is there.          *)
LEMMA OnTheWay ==
  ASSUME tree \in Trees, NEW q \in Seq(Nested), Lookup(q) # Nowhere, NEW k \in 0..Len(q)
  PROVE  /\ Lookup(SubSeq(q, 1, k)) # Nowhere
         /\ k < Len(q) => /\ tree.parent[q[k + 1]] = Lookup(SubSeq(q, 1, k))
                          /\ Lookup(SubSeq(q, 1, k)) \in Dirs
<1>0. Len(q) \in Nat /\ Dirs \subseteq Nodes /\ Nowhere \notin Nodes
  BY WorkspaceAssumption DEF Nodes
<1> DEFINE at(i) == Lookup(SubSeq(q, 1, i))
<1>1. ASSUME NEW i \in Nat, i < Len(q), at(i + 1) # Nowhere
      PROVE  tree.parent[q[i + 1]] = at(i) /\ at(i) \in Dirs /\ at(i) # Nowhere
  <2>1. /\ SubSeq(q, 1, i) \in Seq(Nested) /\ q[i + 1] \in Nested
        /\ SubSeq(q, 1, i + 1) = Append(SubSeq(q, 1, i), q[i + 1])
    BY <1>0, <1>1, Prefixed
  <2>2. tree.parent[q[i + 1]] = at(i)
    BY <1>1, <2>1, LookupStep
  <2>3. tree.parent[q[i + 1]] \in Dirs
    BY <2>1 DEF Trees
  <2> QED BY <1>0, <2>2, <2>3
<1>2. at(Len(q)) # Nowhere
  <2>1. SubSeq(q, 1, Len(q)) = q
    BY <1>0, Prefixed
  <2> QED BY <2>1
<1> HIDE DEF at
<1> DEFINE G == {n \in Nat : n <= Len(q) => at(Len(q) - n) # Nowhere}
<1>3. 0 \in G
  BY <1>0, <1>2
<1>4. ASSUME NEW n \in Nat, n \in G
      PROVE  n + 1 \in G
  <2> SUFFICES ASSUME n + 1 <= Len(q)
               PROVE  at(Len(q) - (n + 1)) # Nowhere
    OBVIOUS
  <2> DEFINE i == Len(q) - (n + 1)
  <2>1. i \in Nat /\ i < Len(q) /\ i + 1 = Len(q) - n
    BY <1>0
  <2>2. at(i + 1) # Nowhere
    BY <1>0, <1>4, <2>1
  <2> HIDE DEF i
  <2>3. at(i) # Nowhere
    BY <1>1, <2>1, <2>2
  <2> QED BY <2>3 DEF i
<1> HIDE DEF G
<1>5. Nat \subseteq G
  BY <1>3, <1>4, NatSetInduction
<1>6. \A i \in 0..Len(q) : at(i) # Nowhere
  <2> SUFFICES ASSUME NEW i \in 0..Len(q)
               PROVE  at(i) # Nowhere
    OBVIOUS
  <2>1. Len(q) - i \in Nat /\ Len(q) - i <= Len(q) /\ Len(q) - (Len(q) - i) = i
    BY <1>0
  <2> QED BY <1>5, <2>1 DEF G
<1>7. k < Len(q) => k \in Nat /\ k + 1 \in 0..Len(q)
  BY <1>0
<1> QED BY <1>1, <1>6, <1>7 DEF at

---------------------------------------------------------------------------
(* The paths of the source.  SourcePaths is a recursive function: one that *)
(* meets its equation exists (ExtensionExists) and has the paths that      *)
(* Lookup finds (SourcePathsAre).                                          *)

(* What SourcePaths goes through, up to a length of n.                     *)
Longer(paths) ==
  paths \cup {Append(p, n) : p \in {q \in paths : Lookup(q) \in Dirs}, n \in Nested}

EmptyPath == {<<>>}

Extends(n, upTo) ==
  upTo = [k \in 0..n |-> IF k = 0 THEN EmptyPath ELSE Longer(upTo[k - 1])]

(* The paths of at most that length have all their source paths.           *)
Reaches(k, paths) ==
  /\ \A p \in paths : p \in Seq(Nested) /\ Len(p) <= k
  /\ \A p \in Seq(Nested) : Len(p) <= k /\ Lookup(p) # Nowhere => p \in paths

(* One entry more.                                                         *)
LEMMA ReachesFurther ==
  ASSUME tree \in Trees, NEW k \in Nat, NEW paths, Reaches(k, paths)
  PROVE  Reaches(k + 1, Longer(paths))
<1> DEFINE more == {Append(p, n) : p \in {q \in paths : Lookup(q) \in Dirs}, n \in Nested}
<1>0. Longer(paths) = paths \cup more
  BY DEF Longer
<1>1. ASSUME NEW p \in more
      PROVE  p \in Seq(Nested) /\ Len(p) <= k + 1
  <2>1. PICK q \in paths, m \in Nested : p = Append(q, m)
    OBVIOUS
  <2>2. q \in Seq(Nested) /\ Len(q) <= k /\ Len(q) \in Nat
    BY DEF Reaches
  <2>3. Append(q, m) \in Seq(Nested) /\ Len(Append(q, m)) = Len(q) + 1
    BY <2>2
  <2> QED BY <2>1, <2>2, <2>3
<1>2. ASSUME NEW p \in paths
      PROVE  p \in Seq(Nested) /\ Len(p) <= k + 1
  <2>1. p \in Seq(Nested) /\ Len(p) <= k /\ Len(p) \in Nat
    BY DEF Reaches
  <2> QED BY <2>1
<1>3. ASSUME NEW p \in Seq(Nested), Len(p) <= k + 1, Lookup(p) # Nowhere
      PROVE  p \in paths \cup more
  <2>0. Len(p) \in Nat
    OBVIOUS
  <2>1. CASE Len(p) <= k
    BY <1>3, <2>1 DEF Reaches
  <2>2. CASE Len(p) = k + 1
    <3> DEFINE q == SubSeq(p, 1, k)
    <3>1. k \in 0..Len(p) /\ k < Len(p)
      BY <2>2
    <3>2. /\ q \in Seq(Nested) /\ Len(q) = k /\ p[k + 1] \in Nested
          /\ p = Append(q, p[k + 1])
      BY <2>2, <3>1, Prefixed
    <3>3. Lookup(q) # Nowhere /\ Lookup(q) \in Dirs
      BY <1>3, <3>1, OnTheWay
    <3> HIDE DEF q
    <3>4. q \in paths
      BY <3>2, <3>3 DEF Reaches
    <3>5. Append(q, p[k + 1]) \in more
      BY <3>2, <3>3, <3>4
    <3> QED BY <3>2, <3>5
  <2> QED BY <1>3, <2>0, <2>1, <2>2
<1> HIDE DEF more
<1>4. Reaches(k + 1, paths \cup more)
  BY <1>1, <1>2, <1>3 DEF Reaches
<1> QED BY <1>0, <1>4

(* There is such a function, and at every length it has all paths.         *)
LEMMA ExtensionExists ==
  ASSUME tree \in Trees, NEW n \in Nat
  PROVE  \E upTo : Extends(n, upTo) /\ Reaches(n, upTo[n])
<1> DEFINE G == {m \in Nat : \E upTo : Extends(m, upTo) /\ Reaches(m, upTo[m])}
<1>1. 0 \in G
  <2>1. Extends(0, [i \in 0..0 |-> EmptyPath])
    BY DEF Extends
  <2>2. Reaches(0, EmptyPath)
    <3>1. \A p \in Seq(Nested) : Len(p) <= 0 => p = <<>>
      OBVIOUS
    <3>2. <<>> \in Seq(Nested) /\ Len(<<>>) <= 0
      OBVIOUS
    <3> QED BY <3>1, <3>2 DEF Reaches, EmptyPath
  <2>3. [i \in 0..0 |-> EmptyPath][0] = EmptyPath
    OBVIOUS
  <2> QED BY <2>1, <2>2, <2>3
<1>2. ASSUME NEW m \in Nat, m \in G
      PROVE  m + 1 \in G
  <2>1. PICK f : Extends(m, f) /\ Reaches(m, f[m])
    BY <1>2
  <2> DEFINE new == Longer(f[m])
             g == [i \in 0..(m + 1) |-> IF i \in 0..m THEN f[i] ELSE new]
  <2>2. \A i \in 1..m : f[i] = Longer(f[i - 1])
    BY <2>1 DEF Extends
  <2>3. f[0] = EmptyPath
    BY <2>1 DEF Extends
  <2>4. \A i \in 0..(m + 1) : g[i] = IF i = 0 THEN EmptyPath ELSE Longer(g[i - 1])
    <3> SUFFICES ASSUME NEW i \in 0..(m + 1)
                 PROVE  g[i] = IF i = 0 THEN EmptyPath ELSE Longer(g[i - 1])
      OBVIOUS
    <3>1. CASE i = 0
      BY <3>1, <2>3
    <3>2. CASE i \in 1..m
      <4>1. i \in 0..m /\ i - 1 \in 0..m /\ i - 1 \in 0..(m + 1)
        BY <3>2
      <4>2. g[i] = f[i] /\ g[i - 1] = f[i - 1]
        BY <4>1
      <4> QED BY <3>2, <4>2, <2>2
    <3>3. CASE i = m + 1
      <4>1. i \notin 0..m /\ i - 1 = m /\ m \in 0..m /\ m \in 0..(m + 1) /\ i # 0
        BY <3>3
      <4>2. g[i - 1] = f[m] /\ g[i] = new
        BY <4>1
      <4> QED BY <3>3, <4>1, <4>2
    <3> QED BY <3>1, <3>2, <3>3
  <2>5. g[m + 1] = new
    <3>1. m + 1 \in 0..(m + 1) /\ m + 1 \notin 0..m
      OBVIOUS
    <3> QED BY <3>1
  <2>6. Reaches(m + 1, new)
    BY <2>1, ReachesFurther
  <2>7. Extends(m + 1, g)
    <3>1. g = [i \in 0..(m + 1) |-> g[i]]
      OBVIOUS
    <3> HIDE DEF g
    <3> QED BY <2>4, <3>1 DEF Extends
  <2> HIDE DEF g, new
  <2> QED BY <2>5, <2>6, <2>7
<1> HIDE DEF G
<1>3. n \in G
  BY <1>1, <1>2, NatSetInduction
<1> QED BY <1>3 DEF G

(* SourcePaths has the paths that lead somewhere, up to MaxPath.           *)
LEMMA SourcePathsAre ==
  ASSUME tree \in Trees
  PROVE  SourcePaths = {p \in Seq(Nested) : Len(p) <= MaxPath /\ Lookup(p) # Nowhere}
<1>0. MaxPath \in Nat
  BY WorkspaceAssumption
<1> DEFINE Is(g) == g = [k \in 0..MaxPath |->
                          IF k = 0 THEN {<<>>}
                          ELSE g[k - 1] \cup
                               {Append(p, n) : p \in {q \in g[k - 1] : Lookup(q) \in Dirs},
                                               n \in Nested}]
           upTo == CHOOSE g : Is(g)
<1>1. PICK f : Extends(MaxPath, f) /\ Reaches(MaxPath, f[MaxPath])
  BY <1>0, ExtensionExists
<1>2. SourcePaths = {p \in upTo[MaxPath] : Lookup(p) # Nowhere}
  BY DEF SourcePaths
<1>3. ASSUME NEW g
      PROVE  Extends(MaxPath, g) <=> Is(g)
  <2>2. CASE Extends(MaxPath, g)
    BY <2>2 DEF Extends, Longer, EmptyPath
  <2>3. CASE Is(g)
    BY <2>3 DEF Extends, Longer, EmptyPath
  <2> QED BY <2>2, <2>3
<1> HIDE DEF Is
<1>4. Extends(MaxPath, upTo)
  BY <1>1, <1>3, Zenon
<1> HIDE DEF upTo
<1>5. f[MaxPath] = upTo[MaxPath]
  <2> DEFINE G == {i \in Nat : i <= MaxPath => f[i] = upTo[i]}
  <2>1. 0 \in G
    BY <1>0, <1>1, <1>4 DEF Extends
  <2>2. ASSUME NEW i \in Nat, i \in G
        PROVE  i + 1 \in G
    <3> SUFFICES ASSUME i + 1 <= MaxPath
                 PROVE  f[i + 1] = upTo[i + 1]
      OBVIOUS
    <3>1. i + 1 \in 0..MaxPath /\ i + 1 # 0 /\ (i + 1) - 1 = i
      BY <1>0
    <3>2. f[i] = upTo[i]
      BY <1>0, <2>2
    <3>3. f[i + 1] = Longer(f[i])
      BY <1>1, <3>1 DEF Extends
    <3>4. upTo[i + 1] = Longer(upTo[i])
      BY <1>4, <3>1 DEF Extends
    <3> QED BY <3>2, <3>3, <3>4
  <2> HIDE DEF G
  <2>3. MaxPath \in G
    BY <1>0, <2>1, <2>2, NatSetInduction
  <2> QED BY <2>3 DEF G
<1> QED BY <1>1, <1>2, <1>5 DEF Reaches

---------------------------------------------------------------------------
(* A copyTree call: each visit that is left is to a node that is at its    *)
(* path; no two of them meet; and, if no two links lead to the same place, *)
(* no link whose target has been seen is still ahead.                      *)
VisitTo == [node : Nodes, path : Seq(Nested)]
Walks   == [todo : Seq(VisitTo), seen : SUBSET (Dirs \cup Files)]

OneLinkEach == \A l, m \in Links : EvalSymlinks(l) = EvalSymlinks(m) => l = m

InPlace(todo) == \A j \in DOMAIN todo : Lookup(todo[j].path) = Deref(todo[j].node)

Apart(todo) ==
  \A i, j \in DOMAIN todo : i # j => Under(todo[i].node) \cap Under(todo[j].node) = {}

Unseen(todo, seen) ==
  OneLinkEach => \A l \in Links : EvalSymlinks(l) \in seen =>
                   \A j \in DOMAIN todo : l \notin Under(todo[j].node)

WalkOK(w) == InPlace(w.todo) /\ Apart(w.todo) /\ Unseen(w.todo, w.seen)

(* The first of a list of visits, and the others.                          *)
LEMMA FirstVisit ==
  ASSUME NEW todo \in Seq(VisitTo), todo # <<>>
  PROVE  /\ 1 \in DOMAIN todo /\ Head(todo) = todo[1]
         /\ Head(todo).node \in Nodes /\ Head(todo).path \in Seq(Nested)
         /\ Tail(todo) \in Seq(VisitTo)
         /\ \A j \in DOMAIN Tail(todo) :
              j + 1 \in DOMAIN todo /\ j + 1 # 1 /\ Tail(todo)[j] = todo[j + 1]
         /\ \A j \in DOMAIN todo : j = 1 \/ (j - 1 \in DOMAIN Tail(todo) /\ (j - 1) + 1 = j)
<1>1. /\ 1 \in DOMAIN todo /\ Head(todo) = todo[1] /\ Tail(todo) \in Seq(VisitTo)
      /\ Len(Tail(todo)) = Len(todo) - 1 /\ Len(todo) \in Nat
      /\ \A j \in 1..(Len(todo) - 1) : Tail(todo)[j] = todo[j + 1]
  OBVIOUS
<1>2. DOMAIN Tail(todo) = 1..(Len(todo) - 1) /\ DOMAIN todo = 1..Len(todo)
  BY <1>1
<1>3. todo[1] \in VisitTo
  BY <1>1
<1>4. Head(todo).node \in Nodes /\ Head(todo).path \in Seq(Nested)
  BY <1>1, <1>3 DEF VisitTo
<1> QED BY <1>1, <1>2, <1>4

(* The visit is over.                                                      *)
LEMMA WalkGoesOn ==
  ASSUME NEW todo \in Seq(VisitTo), todo # <<>>, NEW seen,
         InPlace(todo), Apart(todo), Unseen(todo, seen)
  PROVE  InPlace(Tail(todo)) /\ Apart(Tail(todo)) /\ Unseen(Tail(todo), seen)
<1>1. \A j \in DOMAIN Tail(todo) :
        j + 1 \in DOMAIN todo /\ j + 1 # 1 /\ Tail(todo)[j] = todo[j + 1]
  BY FirstVisit
<1>2. \A i, j \in DOMAIN Tail(todo) : i # j => i + 1 # j + 1
  OBVIOUS
<1>3. Apart(Tail(todo))
  BY <1>1, <1>2 DEF Apart
<1> QED BY <1>1, <1>3 DEF InPlace, Unseen

(* The visit was to a link, whose target is marked.                        *)
LEMMA WalkMarks ==
  ASSUME NEW todo \in Seq(VisitTo), todo # <<>>, NEW seen,
         InPlace(todo), Apart(todo), Unseen(todo, seen), Head(todo).node \in Links
  PROVE  Unseen(Tail(todo), seen \cup {EvalSymlinks(Head(todo).node)})
<1>1. /\ 1 \in DOMAIN todo /\ Head(todo) = todo[1] /\ Head(todo).node \in Nodes
      /\ \A j \in DOMAIN Tail(todo) :
           j + 1 \in DOMAIN todo /\ j + 1 # 1 /\ Tail(todo)[j] = todo[j + 1]
  BY FirstVisit
<1> DEFINE l == Head(todo).node
<1>2. l \in Under(l)
  BY <1>1, UnderIsLeast
<1>3. \A j \in DOMAIN Tail(todo) : l \notin Under(Tail(todo)[j].node)
  BY <1>1, <1>2 DEF Apart
<1>4. Unseen(Tail(todo), seen)
  BY WalkGoesOn
<1> HIDE DEF l
<1>5. l \in Links /\ (OneLinkEach => \A m \in Links : EvalSymlinks(m) = EvalSymlinks(l) => m = l)
  BY DEF l, OneLinkEach
<1>6. Unseen(Tail(todo), seen \cup {EvalSymlinks(l)})
  BY <1>3, <1>4, <1>5 DEF Unseen
<1> QED BY <1>6 DEF l

(* The visits of a directory's entries.                                    *)
LEMMA BelowDir ==
  ASSUME NEW d, NEW p \in Seq(Nested)
  PROVE  LET b == Below(p, Children(d))
         IN  /\ b \in Seq(VisitTo) /\ Len(b) = Len(Children(d))
             /\ \A i \in DOMAIN b :
                  /\ i \in DOMAIN Children(d)
                  /\ b[i].node = Children(d)[i] /\ b[i].path = Append(p, Children(d)[i])
                  /\ b[i].node \in Nested /\ tree.parent[b[i].node] = d
             /\ \A n \in Nested : tree.parent[n] = d =>
                  \E i \in DOMAIN b : b[i].node = n /\ b[i].path = Append(p, n)
             /\ \A i, j \in DOMAIN b : i # j => b[i].node # b[j].node
<1> DEFINE c == Children(d)
           b == Below(p, c)
<1>1. /\ c \in Seq(Nested)
      /\ {c[i] : i \in DOMAIN c} = {n \in Nested : tree.parent[n] = d}
      /\ \A i, j \in DOMAIN c : c[i] = c[j] => i = j
  BY ChildrenOf
<1> HIDE DEF c
<1>2. \A i \in DOMAIN c : c[i] \in Nested /\ tree.parent[c[i]] = d
  BY <1>1
<1>3. b = [i \in DOMAIN c |-> [node |-> c[i], path |-> Append(p, c[i])]]
  BY DEF Below
<1> HIDE DEF b
<1>4. DOMAIN b = DOMAIN c /\ \A i \in DOMAIN c : b[i] = [node |-> c[i], path |-> Append(p, c[i])]
  BY <1>3
<1>5. \A i \in DOMAIN c : b[i] \in VisitTo
  <2>1. Nested \subseteq Nodes
    BY DEF Nested
  <2>2. \A i \in DOMAIN c : Append(p, c[i]) \in Seq(Nested)
    BY <1>2
  <2> QED BY <1>2, <1>4, <2>1, <2>2 DEF VisitTo
<1>6. b \in Seq(VisitTo) /\ Len(b) = Len(c)
  <2>1. DOMAIN c = 1..Len(c) /\ Len(c) \in Nat
    BY <1>1
  <2> QED BY <1>3, <1>4, <1>5, <2>1
<1>7. \A n \in Nested : tree.parent[n] = d =>
        \E i \in DOMAIN b : b[i].node = n /\ b[i].path = Append(p, n)
  <2> SUFFICES ASSUME NEW n \in Nested, tree.parent[n] = d
               PROVE  \E i \in DOMAIN b : b[i].node = n /\ b[i].path = Append(p, n)
    OBVIOUS
  <2>1. PICK i \in DOMAIN c : c[i] = n
    BY <1>1
  <2> QED BY <1>4, <2>1
<1>8. \A i \in DOMAIN b : b[i].node = c[i] /\ b[i].path = Append(p, c[i])
  BY <1>4
<1>9. \A i, j \in DOMAIN b : i # j => b[i].node # b[j].node
  BY <1>1, <1>4, <1>8
<1>10. \A i \in DOMAIN b : /\ i \in DOMAIN c
                           /\ b[i].node = c[i] /\ b[i].path = Append(p, c[i])
                           /\ b[i].node \in Nested /\ tree.parent[b[i].node] = d
  BY <1>2, <1>4, <1>8
<1> QED BY <1>6, <1>7, <1>9, <1>10 DEF b, c

(* A list with another one after it.                                       *)
LEMMA Joint ==
  ASSUME NEW S, NEW X \in Seq(S), NEW Y \in Seq(S)
  PROVE  /\ X \o Y \in Seq(S) /\ Len(X \o Y) = Len(X) + Len(Y)
         /\ \A i \in DOMAIN X : i \in DOMAIN (X \o Y) /\ (X \o Y)[i] = X[i]
         /\ \A i \in DOMAIN Y : Len(X) + i \in DOMAIN (X \o Y) /\ (X \o Y)[Len(X) + i] = Y[i]
         /\ \A i \in DOMAIN (X \o Y) :
              \/ i \in DOMAIN X
              \/ i \notin DOMAIN X /\ i - Len(X) \in DOMAIN Y /\ Len(X) + (i - Len(X)) = i
<1>1. /\ X \o Y \in Seq(S) /\ Len(X \o Y) = Len(X) + Len(Y)
      /\ \A i \in 1 .. Len(X) + Len(Y) :
           (X \o Y)[i] = IF i <= Len(X) THEN X[i] ELSE Y[i - Len(X)]
  BY ConcatProperties
<1>2. Len(X) \in Nat /\ Len(Y) \in Nat /\ DOMAIN X = 1..Len(X) /\ DOMAIN Y = 1..Len(Y)
  OBVIOUS
<1>3. DOMAIN (X \o Y) = 1..(Len(X) + Len(Y))
  BY <1>1, <1>2
<1> DEFINE Z == X \o Y
<1> HIDE DEF Z
<1>4. /\ \A i \in 1 .. Len(X) + Len(Y) : Z[i] = IF i <= Len(X) THEN X[i] ELSE Y[i - Len(X)]
      /\ DOMAIN Z = 1..(Len(X) + Len(Y))
  BY <1>1, <1>3 DEF Z
<1>5. \A i \in DOMAIN X : i \in DOMAIN Z /\ Z[i] = X[i]
  BY <1>2, <1>4
<1>6. ASSUME NEW i \in DOMAIN Y
      PROVE  Len(X) + i \in DOMAIN Z /\ Z[Len(X) + i] = Y[i]
  <2>1. Len(X) + i \in 1..(Len(X) + Len(Y)) /\ ~(Len(X) + i <= Len(X)) /\ (Len(X) + i) - Len(X) = i
    BY <1>2
  <2> QED BY <1>4, <2>1
<1>7. \A i \in DOMAIN Z :
        \/ i \in DOMAIN X
        \/ i \notin DOMAIN X /\ i - Len(X) \in DOMAIN Y /\ Len(X) + (i - Len(X)) = i
  BY <1>2, <1>4
<1> QED BY <1>1, <1>5, <1>6, <1>7 DEF Z

(* The visit was to a directory, whose entries come next.                  *)
LEMMA WalkEnters ==
  ASSUME tree \in Trees, NEW todo \in Seq(VisitTo), todo # <<>>, NEW seen,
         InPlace(todo), Apart(todo), Unseen(todo, seen), Head(todo).node \in Dirs
  PROVE  LET new == Below(Head(todo).path, Children(Head(todo).node)) \o Tail(todo)
         IN  /\ new \in Seq(VisitTo)
             /\ InPlace(new) /\ Apart(new) /\ Unseen(new, seen)
<1> DEFINE d == Head(todo).node
           p == Head(todo).path
           b == Below(p, Children(d))
           rest == Tail(todo)
           new == b \o rest
<1>1. /\ 1 \in DOMAIN todo /\ Head(todo) = todo[1] /\ d \in Nodes /\ p \in Seq(Nested)
      /\ rest \in Seq(VisitTo)
      /\ \A j \in DOMAIN rest : j + 1 \in DOMAIN todo /\ j + 1 # 1 /\ rest[j] = todo[j + 1]
  BY FirstVisit
<1>2. /\ b \in Seq(VisitTo)
      /\ \A i \in DOMAIN b : /\ b[i].path = Append(p, b[i].node)
                             /\ b[i].node \in Nested /\ tree.parent[b[i].node] = d
      /\ \A i, j \in DOMAIN b : i # j => b[i].node # b[j].node
  BY <1>1, BelowDir
<1>3. Lookup(p) = d
  <2>1. d \notin Links
    BY WorkspaceAssumption
  <2> QED BY <1>1, <2>1 DEF InPlace, Deref
<1>4. InPlace(rest) /\ Apart(rest) /\ Unseen(rest, seen)
  BY WalkGoesOn
<1>5. \A j \in DOMAIN rest : Under(rest[j].node) \cap Under(d) = {}
  BY <1>1 DEF Apart
<1>6. Unseen(todo, seen) /\ d = todo[1].node /\ 1 \in DOMAIN todo /\ d \in Nodes /\ p \in Seq(Nested)
  BY <1>1
<1> HIDE DEF d, p, b, rest
<1>7. \A i \in DOMAIN b : Lookup(b[i].path) = Deref(b[i].node)
  BY <1>2, <1>3, <1>6, LookupStep
<1>8. \A i \in DOMAIN b : Under(b[i].node) \subseteq Under(d)
  BY <1>2, <1>6, UnderEntry
<1>9. \A i, j \in DOMAIN b : i # j => Under(b[i].node) \cap Under(b[j].node) = {}
  BY <1>2, <1>6, EntriesApart
<1>s. b \in Seq(VisitTo) /\ rest \in Seq(VisitTo)
  BY <1>1, <1>2
<1>10. /\ b \o rest \in Seq(VisitTo)
       /\ \A i \in DOMAIN b : (b \o rest)[i] = b[i]
       /\ \A i \in DOMAIN rest : (b \o rest)[Len(b) + i] = rest[i]
       /\ \A i \in DOMAIN (b \o rest) :
            \/ i \in DOMAIN b
            \/ i \notin DOMAIN b /\ i - Len(b) \in DOMAIN rest /\ Len(b) + (i - Len(b)) = i
  BY <1>s, Joint, SMTT(30)
<1> HIDE DEF new
<1>11. /\ \A i \in DOMAIN b : new[i] = b[i]
       /\ \A i \in DOMAIN rest : new[Len(b) + i] = rest[i]
       /\ \A i \in DOMAIN new :
            \/ i \in DOMAIN b
            \/ i \notin DOMAIN b /\ i - Len(b) \in DOMAIN rest /\ Len(b) + (i - Len(b)) = i
  BY <1>10 DEF new
<1>12. \A i \in DOMAIN new :
         \/ i \in DOMAIN b /\ new[i] = b[i]
         \/ i \notin DOMAIN b /\ \E k \in DOMAIN rest : new[i] = rest[k] /\ i = Len(b) + k
  BY <1>11
<1>13. InPlace(new)
  BY <1>4, <1>7, <1>12 DEF InPlace
<1>14. Apart(new)
  <2> SUFFICES ASSUME NEW i \in DOMAIN new, NEW j \in DOMAIN new, i # j
               PROVE  Under(new[i].node) \cap Under(new[j].node) = {}
    BY DEF Apart
  <2>1. CASE i \in DOMAIN b /\ j \in DOMAIN b
    BY <1>9, <1>11, <2>1
  <2>2. CASE i \in DOMAIN b /\ j \notin DOMAIN b
    BY <1>5, <1>8, <1>12, <2>2
  <2>3. CASE i \notin DOMAIN b /\ j \in DOMAIN b
    BY <1>5, <1>8, <1>12, <2>3
  <2>4. CASE i \notin DOMAIN b /\ j \notin DOMAIN b
    <3>1. PICK k \in DOMAIN rest : new[i] = rest[k] /\ i = Len(b) + k
      BY <1>12, <2>4
    <3>2. PICK m \in DOMAIN rest : new[j] = rest[m] /\ j = Len(b) + m
      BY <1>12, <2>4
    <3>3. k # m
      BY <3>1, <3>2
    <3> QED BY <1>4, <3>1, <3>2, <3>3 DEF Apart
  <2> QED BY <2>1, <2>2, <2>3, <2>4
<1>15. Unseen(new, seen)
  <2>1. ASSUME OneLinkEach, NEW l \in Links, EvalSymlinks(l) \in seen, NEW j \in DOMAIN new
        PROVE  l \notin Under(new[j].node)
    <3>1. l \notin Under(d) /\ \A k \in DOMAIN rest : l \notin Under(rest[k].node)
      BY <1>4, <1>6, <2>1 DEF Unseen
    <3> QED BY <1>8, <1>12, <3>1
  <2> QED BY <2>1 DEF Unseen
<1> QED BY <1>10, <1>13, <1>14, <1>15 DEF new, d, p, b, rest

(* A copyTree call begins.                                                 *)
LEMMA WalkBegins ==
  ASSUME NEW d \in Dirs, NEW p \in Seq(Nested), Lookup(p) = d
  PROVE  CopyTree(d, p) \in Walks /\ WalkOK(CopyTree(d, p))
<1> DEFINE v == [node |-> d, path |-> p]
<1>1. d \notin Links /\ d \in Nodes
  BY WorkspaceAssumption DEF Nodes
<1>2. v \in VisitTo /\ v.node = d /\ v.path = p
  BY <1>1 DEF VisitTo
<1> HIDE DEF v
<1>3. /\ <<v>> \in Seq(VisitTo) /\ DOMAIN <<v>> = {1} /\ <<v>>[1] = v
  BY <1>2
<1>4. CopyTree(d, p) = [todo |-> <<v>>, seen |-> {}]
  BY DEF CopyTree, v
<1>5. InPlace(<<v>>) /\ Apart(<<v>>) /\ Unseen(<<v>>, {})
  BY <1>1, <1>2, <1>3 DEF InPlace, Apart, Unseen, Deref
<1> QED BY <1>3, <1>4, <1>5 DEF Walks, WalkOK

---------------------------------------------------------------------------
(* The invariants.  CopyIsSound and CopyIsComplete are not inductive: they *)
(* say nothing of the walks that are under way.  CopyInv says where each   *)
(* of them stands, CoverInv that together they have in view what is not    *)
(* copied yet.                                                             *)

(* What is said of a tree stays true while the tree is what it is.         *)
LEMMA SameTree ==
  ASSUME tree' = tree
  PROVE  /\ \A n : EvalSymlinks(n)' = EvalSymlinks(n)
         /\ \A n : Deref(n)' = Deref(n)
         /\ \A p : Lookup(p)' = Lookup(p)
         /\ OneLinkEach' <=> OneLinkEach
         /\ \A w : WalkOK(w)' <=> WalkOK(w)
<1>1. ASSUME NEW n PROVE EvalSymlinks(n)' = EvalSymlinks(n)
  BY DEF EvalSymlinks
<1>2. ASSUME NEW n PROVE Deref(n)' = Deref(n)
  BY <1>1 DEF Deref
<1>3. ASSUME NEW p PROVE Lookup(p)' = Lookup(p)
  BY <1>2 DEF Lookup
<1>4. ASSUME NEW n PROVE Under(n)' = Under(n)
  BY DEF Under, Closed
<1>6. OneLinkEach' <=> OneLinkEach
  BY <1>1 DEF OneLinkEach
<1>7. ASSUME NEW w PROVE WalkOK(w)' <=> WalkOK(w)
  BY <1>1, <1>2, <1>3, <1>4, <1>6 DEF WalkOK, InPlace, Apart, Unseen
<1> QED BY <1>1, <1>2, <1>3, <1>6, <1>7

(* Of a copied pair: the source has the node under the path.               *)
Stands(x) ==
  /\ x[1] \in Seq(Nested) /\ Len(x[1]) <= MaxPath
  /\ x[2] \in Dirs \cup Files /\ Lookup(x[1]) = x[2]

Overriding(o) ==
  /\ o.files \subseteq {"provider", "backend"}
  /\ o = [files |-> o.files, endpoints |-> o.endpoints]

(* The copy stands where the source has it, and every walk of the stack is *)
(* where it should be.                                                     *)
CopyInv ==
  /\ tree \in Trees
  /\ copying \in {"no", "walking", "done", "failed"}
  /\ walks \in Seq(Walks)
  /\ copying = "walking" <=> walks # <<>>
  /\ Overriding(overrides)
  /\ \A x \in copy : Stands(x)
  /\ \A i \in DOMAIN walks : WalkOK(walks[i])

(* A walk still comes to a path: one of its visits is on the way there.    *)
Waits(w, q) ==
  \E j \in DOMAIN w.todo, k \in 0..Len(q) : w.todo[j].path = SubSeq(q, 1, k)

IsSource(q) == q \in Seq(Nested) /\ Len(q) <= MaxPath /\ Lookup(q) # Nowhere

(* Every path of the source is copied or waited for, if no two links lead  *)
(* to the same place.                                                      *)
CoverInv ==
  OneLinkEach /\ copying \in {"walking", "done"} =>
    \A q : IsSource(q) => \/ \E x \in copy : x[1] = q
                          \/ \E i \in DOMAIN walks : Waits(walks[i], q)

(* The stack after the walk on top made way for others.                    *)
LEMMA StackBecomes ==
  ASSUME walks \in Seq(Walks), walks # <<>>, NEW ws \in Seq(Walks), TopBecomes(ws)
  PROVE  /\ walks' \in Seq(Walks) /\ Len(walks') = Len(walks) - 1 + Len(ws)
         /\ Len(walks) \in DOMAIN walks /\ Top \in Walks
         /\ \A i \in DOMAIN walks' :
              \/ \E j \in DOMAIN walks : j # Len(walks) /\ walks'[i] = walks[j]
              \/ \E k \in DOMAIN ws : walks'[i] = ws[k]
         /\ \A j \in DOMAIN walks :
              j # Len(walks) => \E i \in DOMAIN walks' : walks'[i] = walks[j]
         /\ \A k \in DOMAIN ws : \E i \in DOMAIN walks' : walks'[i] = ws[k]
<1> DEFINE rest == SubSeq(walks, 1, Len(walks) - 1)
<1>1. Len(walks) \in Nat \ {0} /\ DOMAIN walks = 1..Len(walks)
  OBVIOUS
<1>2. /\ rest \in Seq(Walks) /\ Len(rest) = Len(walks) - 1
      /\ \A i \in 1..(Len(walks) - 1) : rest[i] = walks[i]
  BY <1>1
<1>3. DOMAIN rest = 1..(Len(walks) - 1)
  BY <1>2
<1>4. walks' = rest \o ws
  BY DEF TopBecomes
<1> HIDE DEF rest
<1>5. /\ rest \o ws \in Seq(Walks) /\ Len(rest \o ws) = Len(rest) + Len(ws)
      /\ \A i \in DOMAIN rest : i \in DOMAIN (rest \o ws) /\ (rest \o ws)[i] = rest[i]
      /\ \A i \in DOMAIN ws : Len(rest) + i \in DOMAIN (rest \o ws)
                              /\ (rest \o ws)[Len(rest) + i] = ws[i]
      /\ \A i \in DOMAIN (rest \o ws) :
           \/ i \in DOMAIN rest
           \/ i \notin DOMAIN rest /\ i - Len(rest) \in DOMAIN ws
              /\ Len(rest) + (i - Len(rest)) = i
  BY <1>2, Joint
<1>6. /\ walks' \in Seq(Walks) /\ Len(walks') = Len(rest) + Len(ws)
      /\ \A i \in DOMAIN rest : i \in DOMAIN walks' /\ walks'[i] = rest[i]
      /\ \A i \in DOMAIN ws : Len(rest) + i \in DOMAIN walks' /\ walks'[Len(rest) + i] = ws[i]
      /\ \A i \in DOMAIN walks' :
           \/ i \in DOMAIN rest
           \/ i - Len(rest) \in DOMAIN ws /\ Len(rest) + (i - Len(rest)) = i
  BY <1>4, <1>5
<1>7. \A i \in DOMAIN rest : i \in DOMAIN walks /\ i # Len(walks) /\ rest[i] = walks[i]
  BY <1>1, <1>2, <1>3
<1>8. \A j \in DOMAIN walks : j # Len(walks) => j \in DOMAIN rest
  BY <1>1, <1>3
<1>9. ASSUME NEW i \in DOMAIN walks'
      PROVE  \/ \E j \in DOMAIN walks : j # Len(walks) /\ walks'[i] = walks[j]
             \/ \E k \in DOMAIN ws : walks'[i] = ws[k]
  BY <1>6, <1>7
<1>10. Len(walks) \in DOMAIN walks /\ Top \in Walks
  BY <1>1 DEF Top
<1> QED BY <1>2, <1>6, <1>7, <1>8, <1>9, <1>10

(* A step of the walk on top keeps the other walks as they are.            *)
LEMMA WalksStay ==
  ASSUME CopyInv, copying = "walking", NEW ws \in Seq(Walks), TopBecomes(ws),
         UNCHANGED <<tree, overrides>>,
         copying' \in {"walking", "done"}, copying' = "walking" <=> walks' # <<>>,
         \A x \in copy' : x \in copy \/ Stands(x),
         \A k \in DOMAIN ws : WalkOK(ws[k])
  PROVE  CopyInv'
<1>1. /\ tree \in Trees /\ walks \in Seq(Walks) /\ walks # <<>>
      /\ Overriding(overrides)
      /\ \A x \in copy : Stands(x)
      /\ \A i \in DOMAIN walks : WalkOK(walks[i])
  BY DEF CopyInv
<1>2. /\ walks' \in Seq(Walks)
      /\ \A i \in DOMAIN walks' :
           \/ \E j \in DOMAIN walks : j # Len(walks) /\ walks'[i] = walks[j]
           \/ \E k \in DOMAIN ws : walks'[i] = ws[k]
  BY <1>1, StackBecomes
<1>3. \A w : WalkOK(w)' <=> WalkOK(w)
  BY SameTree
<1>4. \A i \in DOMAIN walks' : WalkOK(walks'[i])
  BY <1>1, <1>2
<1>5. (\A i \in DOMAIN walks : WalkOK(walks[i]))'
  BY <1>3, <1>4
<1>6. \A x \in copy' : Stands(x)
  BY <1>1
<1>7. (\A x \in copy : Stands(x))'
  BY <1>6, SameTree DEF Stands
<1>8. tree' \in Trees /\ Overriding(overrides')
  BY <1>1
<1> QED BY <1>2, <1>5, <1>7, <1>8 DEF CopyInv

(* And leaves no path of the source out that it does not copy.             *)
LEMMA CoverStays ==
  ASSUME CopyInv, CoverInv, copying = "walking", NEW ws \in Seq(Walks), TopBecomes(ws),
         tree' = tree, copy \subseteq copy',
         OneLinkEach => \A q : IsSource(q) /\ Waits(Top, q) =>
           (\E x \in copy' : x[1] = q) \/ \E k \in DOMAIN ws : Waits(ws[k], q)
  PROVE  CoverInv'
<1>1. walks \in Seq(Walks) /\ walks # <<>>
  BY DEF CopyInv
<1>2. /\ Len(walks) \in DOMAIN walks
      /\ \A j \in DOMAIN walks :
           j # Len(walks) => \E i \in DOMAIN walks' : walks'[i] = walks[j]
      /\ \A k \in DOMAIN ws : \E i \in DOMAIN walks' : walks'[i] = ws[k]
  BY <1>1, StackBecomes
<1>3. ASSUME OneLinkEach, NEW q, IsSource(q)
      PROVE  (\E x \in copy' : x[1] = q) \/ \E i \in DOMAIN walks' : Waits(walks'[i], q)
  <2>1. CASE \E x \in copy : x[1] = q
    BY <2>1
  <2>2. CASE \E i \in DOMAIN walks : Waits(walks[i], q)
    <3>1. PICK i \in DOMAIN walks : Waits(walks[i], q)
      BY <2>2
    <3>2. CASE i = Len(walks)
      <4>1. Waits(Top, q)
        BY <3>1, <3>2 DEF Top
      <4>2. (\E x \in copy' : x[1] = q) \/ \E k \in DOMAIN ws : Waits(ws[k], q)
        BY <1>3, <4>1
      <4> QED BY <1>2, <4>2
    <3>3. CASE i # Len(walks)
      BY <1>2, <3>1, <3>3
    <3> QED BY <3>2, <3>3
  <2>3. (\E x \in copy : x[1] = q) \/ \E i \in DOMAIN walks : Waits(walks[i], q)
    BY <1>3 DEF CoverInv
  <2> QED BY <2>1, <2>2, <2>3
<1>4. (OneLinkEach' <=> OneLinkEach) /\ \A q : IsSource(q)' <=> IsSource(q)
  BY SameTree DEF IsSource
<1> QED BY <1>3, <1>4 DEF CoverInv

---------------------------------------------------------------------------
(* The steps.                                                              *)

(* The walk on top of the stack and the visit it is about to make.         *)
LEMMA TopVisit ==
  ASSUME CopyInv, copying = "walking", Top.todo # <<>>
  PROVE  /\ walks \in Seq(Walks) /\ walks # <<>> /\ tree \in Trees
         /\ Top \in Walks /\ WalkOK(Top)
         /\ Top.todo \in Seq(VisitTo) /\ Top.seen \subseteq Dirs \cup Files
         /\ Visit = Head(Top.todo) /\ Visit.node \in Nodes /\ Visit.path \in Seq(Nested)
         /\ 1 \in DOMAIN Top.todo /\ Visit = Top.todo[1]
         /\ Lookup(Visit.path) = Deref(Visit.node)
         /\ Top = [todo |-> Top.todo, seen |-> Top.seen]
<1>1. walks \in Seq(Walks) /\ walks # <<>> /\ tree \in Trees
  BY DEF CopyInv
<1>2. Len(walks) \in DOMAIN walks
  BY <1>1
<1>3. Top \in Walks /\ WalkOK(Top)
  BY <1>1, <1>2 DEF CopyInv, Top
<1>4. /\ Top.todo \in Seq(VisitTo) /\ Top.seen \subseteq Dirs \cup Files
      /\ Top = [todo |-> Top.todo, seen |-> Top.seen]
  BY <1>3 DEF Walks
<1>5. /\ 1 \in DOMAIN Top.todo /\ Head(Top.todo) = Top.todo[1]
      /\ Head(Top.todo).node \in Nodes /\ Head(Top.todo).path \in Seq(Nested)
  BY <1>4, FirstVisit
<1>6. Lookup(Top.todo[1].path) = Deref(Top.todo[1].node)
  BY <1>3, <1>5 DEF WalkOK, InPlace
<1> QED BY <1>1, <1>3, <1>4, <1>5, <1>6 DEF Visit

(* The walk on top with the first visit made.                              *)
LEMMA TopVisited ==
  ASSUME CopyInv, copying = "walking", Top.todo # <<>>
  PROVE  /\ Visited = [todo |-> Tail(Top.todo), seen |-> Top.seen]
         /\ Visited \in Walks /\ WalkOK(Visited)
         /\ \A q : Waits(Top, q) => \/ Waits(Visited, q)
                                    \/ \E k \in 0..Len(q) : Visit.path = SubSeq(q, 1, k)
<1>1. /\ Top.todo \in Seq(VisitTo) /\ Top.seen \subseteq Dirs \cup Files
      /\ Top = [todo |-> Top.todo, seen |-> Top.seen]
      /\ WalkOK(Top) /\ Visit = Top.todo[1]
  BY TopVisit
<1>2. /\ Tail(Top.todo) \in Seq(VisitTo)
      /\ \A j \in DOMAIN Tail(Top.todo) : j + 1 \in DOMAIN Top.todo
                                          /\ Tail(Top.todo)[j] = Top.todo[j + 1]
      /\ \A j \in DOMAIN Top.todo :
           j = 1 \/ (j - 1 \in DOMAIN Tail(Top.todo) /\ (j - 1) + 1 = j)
  BY <1>1, FirstVisit
<1>3. Visited = [todo |-> Tail(Top.todo), seen |-> Top.seen]
  BY <1>1 DEF Visited
<1>4. Visited.todo = Tail(Top.todo) /\ Visited.seen = Top.seen
  BY <1>3
<1>5. Visited \in Walks
  BY <1>1, <1>2, <1>3 DEF Walks
<1>6. WalkOK(Visited)
  BY <1>1, <1>4, WalkGoesOn DEF WalkOK
<1>7. ASSUME NEW q, Waits(Top, q)
      PROVE  Waits(Visited, q) \/ \E k \in 0..Len(q) : Visit.path = SubSeq(q, 1, k)
  <2>1. PICK j \in DOMAIN Top.todo, k \in 0..Len(q) : Top.todo[j].path = SubSeq(q, 1, k)
    BY <1>7 DEF Waits
  <2>2. CASE j = 1
    BY <1>1, <2>1, <2>2
  <2>3. CASE j # 1
    <3>1. j - 1 \in DOMAIN Tail(Top.todo) /\ Tail(Top.todo)[j - 1] = Top.todo[j]
      BY <1>2, <2>3
    <3> QED BY <1>4, <2>1, <3>1 DEF Waits
  <2> QED BY <2>2, <2>3
<1> QED BY <1>3, <1>5, <1>6, <1>7

(* A path on the way to which there is a file ends there.                  *)
LEMMA FilesEndPaths ==
  ASSUME tree \in Trees, NEW q, IsSource(q), NEW k \in 0..Len(q),
         Lookup(SubSeq(q, 1, k)) \in Files
  PROVE  SubSeq(q, 1, k) = q
<1>1. q \in Seq(Nested) /\ Lookup(q) # Nowhere
  BY DEF IsSource
<1>2. Lookup(SubSeq(q, 1, k)) \notin Dirs
  BY WorkspaceAssumption
<1>3. ~(k < Len(q))
  BY <1>1, <1>2, OnTheWay
<1>4. k = Len(q)
  BY <1>1, <1>3
<1> QED BY <1>1, <1>4, Prefixed

(* A list of one walk, and of two.                                         *)
LEMMA OneOrTwo ==
  /\ \A v \in Walks : <<v>> \in Seq(Walks) /\ DOMAIN <<v>> = {1} /\ <<v>>[1] = v
  /\ \A v, w \in Walks : /\ <<v, w>> \in Seq(Walks) /\ DOMAIN <<v, w>> = {1, 2}
                         /\ <<v, w>>[1] = v /\ <<v, w>>[2] = w
OBVIOUS

(* A step that puts other walks where one was leaves the stack busy.       *)
LEMMA StackBusy ==
  ASSUME CopyInv, copying = "walking", NEW ws \in Seq(Walks), ws # <<>>, TopBecomes(ws)
  PROVE  walks' # <<>>
<1>1. walks \in Seq(Walks) /\ walks # <<>>
  BY DEF CopyInv
<1>2. walks' \in Seq(Walks) /\ Len(walks') = Len(walks) - 1 + Len(ws)
  BY <1>1, StackBecomes
<1>3. Len(walks) \in Nat \ {0} /\ Len(ws) \in Nat \ {0}
  BY <1>1
<1>4. Len(walks') # 0
  BY <1>2, <1>3
<1> QED BY <1>4

(* The node of a visit is copied to its path.                              *)
LEMMA CopiesStand ==
  ASSUME CopyInv, copying = "walking", Top.todo # <<>>,
         NEW node \in Dirs \cup Files, Copies(node), Deref(Visit.node) = node
  PROVE  /\ copying' = copying /\ copy \subseteq copy'
         /\ \A x \in copy' : x \in copy \/ Stands(x)
         /\ \E x \in copy' : x[1] = Visit.path
<1>1. Visit.path \in Seq(Nested) /\ Lookup(Visit.path) = node
  BY TopVisit
<1>2. /\ copying' = copying /\ copy' = copy \cup {<<Visit.path, node>>}
      /\ Len(Visit.path) <= MaxPath
  BY DEF Copies
<1>3. Stands(<<Visit.path, node>>)
  BY <1>1, <1>2 DEF Stands
<1> QED BY <1>2, <1>3

(* The entries of a directory wait for what the directory waited for,      *)
(* itself apart, which is copied.                                          *)
LEMMA VisitDirKeeps ==
  ASSUME CopyInv, VisitDir
  PROVE  CopyInv' /\ (CoverInv => CoverInv')
<1> DEFINE d == Visit.node
           p == Visit.path
           b == Below(p, Children(d))
           new == b \o Tail(Top.todo)
           w == [todo |-> new, seen |-> Top.seen]
<1>1. /\ copying = "walking" /\ Top.todo # <<>> /\ d \in Dirs /\ UNCHANGED <<tree, overrides>>
      /\ Copies(d)
      /\ TopBecomes(<<[Top EXCEPT !.todo = new]>>)
  BY DEF VisitDir, Visits
<1>2. /\ tree \in Trees /\ Top.todo \in Seq(VisitTo) /\ Top.seen \subseteq Dirs \cup Files
      /\ Top = [todo |-> Top.todo, seen |-> Top.seen] /\ WalkOK(Top)
      /\ d = Head(Top.todo).node /\ p = Head(Top.todo).path /\ p \in Seq(Nested)
      /\ Lookup(p) = Deref(d)
  BY <1>1, TopVisit
<1>3. Deref(d) = d
  BY <1>1, WorkspaceAssumption DEF Deref
<1>4. new \in Seq(VisitTo) /\ InPlace(new) /\ Apart(new) /\ Unseen(new, Top.seen)
  <2>1. LET N == Below(Head(Top.todo).path, Children(Head(Top.todo).node)) \o Tail(Top.todo)
        IN  N \in Seq(VisitTo) /\ InPlace(N) /\ Apart(N) /\ Unseen(N, Top.seen)
    BY <1>1, <1>2, WalkEnters DEF WalkOK
  <2> QED BY <1>2, <2>1
<1>5. [Top EXCEPT !.todo = new] = w
  <2> HIDE DEF new
  <2> QED BY <1>2
<1>6. w \in Walks /\ WalkOK(w) /\ w.todo = new
  <2> HIDE DEF new
  <2>1. w.todo = new /\ w.seen = Top.seen
    OBVIOUS
  <2> QED BY <1>2, <1>4, <2>1 DEF Walks, WalkOK
<1>7. /\ copying' = copying /\ copy \subseteq copy'
      /\ \A x \in copy' : x \in copy \/ Stands(x)
      /\ \E x \in copy' : x[1] = p
  BY <1>1, <1>3, CopiesStand
<1>8. ASSUME NEW q, IsSource(q), Waits(Top, q)
      PROVE  (\E x \in copy' : x[1] = q) \/ Waits(w, q)
  <2>t. Tail(Top.todo) \in Seq(VisitTo)
    BY <1>1, <1>2, FirstVisit
  <2>b. /\ b \in Seq(VisitTo)
        /\ \A n \in Nested : tree.parent[n] = d =>
             \E i \in DOMAIN b : b[i].path = Append(p, n)
    <3>1. p \in Seq(Nested)
      BY <1>2
    <3> HIDE DEF d, p
    <3>2. LET a == Below(p, Children(d))
          IN  /\ a \in Seq(VisitTo)
              /\ \A n \in Nested : tree.parent[n] = d =>
                   \E i \in DOMAIN a : a[i].node = n /\ a[i].path = Append(p, n)
      BY <3>1, BelowDir
    <3> QED BY <3>2
  <2>n. /\ \A i \in DOMAIN b : i \in DOMAIN new /\ new[i] = b[i]
        /\ \A i \in DOMAIN Tail(Top.todo) :
             Len(b) + i \in DOMAIN new /\ new[Len(b) + i] = Tail(Top.todo)[i]
    <3> HIDE DEF b
    <3> QED BY <2>b, <2>t, Joint
  <2> HIDE DEF b, new, w
  <2>1. CASE Waits(Visited, q)
    <3>1. PICK j \in DOMAIN Visited.todo, k \in 0..Len(q) :
            Visited.todo[j].path = SubSeq(q, 1, k)
      BY <2>1 DEF Waits
    <3>2. Visited.todo = Tail(Top.todo)
      BY <1>1, TopVisited
    <3>3. Len(b) + j \in DOMAIN w.todo /\ w.todo[Len(b) + j].path = SubSeq(q, 1, k)
      BY <1>6, <2>n, <3>1, <3>2
    <3> QED BY <3>3 DEF Waits
  <2>2. ASSUME NEW k \in 0..Len(q), p = SubSeq(q, 1, k)
        PROVE  (\E x \in copy' : x[1] = q) \/ Waits(w, q)
    <3>q. q \in Seq(Nested) /\ Lookup(q) # Nowhere
      BY <1>8 DEF IsSource
    <3>1. CASE k = Len(q)
      BY <1>7, <2>2, <3>1, <3>q, Prefixed
    <3>2. CASE k < Len(q)
      <4>1. q[k + 1] \in Nested /\ SubSeq(q, 1, k + 1) = Append(p, q[k + 1])
        BY <2>2, <3>2, <3>q, Prefixed
      <4>2. tree.parent[q[k + 1]] = d
        BY <1>2, <1>3, <2>2, <3>2, <3>q, OnTheWay
      <4>3. PICK i \in DOMAIN b : b[i].path = Append(p, q[k + 1])
        BY <2>b, <4>1, <4>2
      <4>4. i \in DOMAIN w.todo /\ w.todo[i].path = SubSeq(q, 1, k + 1)
        BY <1>6, <2>n, <4>1, <4>3
      <4>5. k + 1 \in 0..Len(q)
        BY <3>2, <3>q
      <4> QED BY <4>4, <4>5 DEF Waits
    <3>3. Len(q) \in Nat
      BY <3>q
    <3> QED BY <3>1, <3>2, <3>3
  <2>3. Waits(Visited, q) \/ \E k \in 0..Len(q) : p = SubSeq(q, 1, k)
    BY <1>1, <1>8, TopVisited
  <2> QED BY <2>1, <2>2, <2>3
<1> HIDE DEF w
<1>9. <<w>> \in Seq(Walks) /\ DOMAIN <<w>> = {1} /\ <<w>>[1] = w /\ <<w>> # <<>>
  BY <1>6, OneOrTwo
<1>10. TopBecomes(<<w>>)
  BY <1>1, <1>5
<1>11. walks' # <<>>
  BY <1>1, <1>9, <1>10, StackBusy
<1> HIDE DEF d, p, b, new
<1>12. CopyInv'
  BY <1>1, <1>6, <1>7, <1>9, <1>10, <1>11, WalksStay
<1>13. CoverInv => CoverInv'
  BY <1>1, <1>7, <1>8, <1>9, <1>10, CoverStays
<1> QED BY <1>12, <1>13

(* A file, or what a link to one leads to, is copied.                      *)
LEMMA FileKeeps ==
  ASSUME CopyInv, copying = "walking", Top.todo # <<>>, UNCHANGED <<tree, overrides>>,
         NEW node \in Files, Copies(node), Deref(Visit.node) = node,
         NEW w \in Walks, WalkOK(w), w.todo = Tail(Top.todo), TopBecomes(<<w>>)
  PROVE  CopyInv' /\ (CoverInv => CoverInv')
<1>1. /\ <<w>> \in Seq(Walks) /\ DOMAIN <<w>> = {1} /\ <<w>>[1] = w /\ <<w>> # <<>>
  BY OneOrTwo
<1>2. /\ copying' = copying /\ copy \subseteq copy'
      /\ \A x \in copy' : x \in copy \/ Stands(x)
      /\ \E x \in copy' : x[1] = Visit.path
  BY CopiesStand
<1>3. walks' # <<>>
  BY <1>1, StackBusy
<1>4. CopyInv'
  BY <1>1, <1>2, <1>3, WalksStay
<1>5. tree \in Trees /\ Lookup(Visit.path) = node
  BY TopVisit
<1>6. ASSUME NEW q, IsSource(q), Waits(Top, q)
      PROVE  (\E x \in copy' : x[1] = q) \/ Waits(w, q)
  <2>1. CASE Waits(Visited, q)
    <3>1. Visited.todo = w.todo
      BY TopVisited
    <3> QED BY <2>1, <3>1 DEF Waits
  <2>2. ASSUME NEW k \in 0..Len(q), Visit.path = SubSeq(q, 1, k)
        PROVE  \E x \in copy' : x[1] = q
    <3>1. SubSeq(q, 1, k) = q
      BY <1>5, <1>6, <2>2, FilesEndPaths
    <3> QED BY <1>2, <2>2, <3>1
  <2> QED BY <1>6, <2>1, <2>2, TopVisited
<1>7. CoverInv => CoverInv'
  BY <1>1, <1>2, <1>6, CoverStays
<1> QED BY <1>4, <1>7

(* The walk comes to a file.                                               *)
LEMMA VisitFileKeeps ==
  ASSUME CopyInv, VisitFile
  PROVE  CopyInv' /\ (CoverInv => CoverInv')
<1>1. /\ copying = "walking" /\ Top.todo # <<>> /\ UNCHANGED <<tree, overrides>>
      /\ Visit.node \in Files /\ Copies(Visit.node) /\ TopBecomes(<<Visited>>)
  BY DEF VisitFile, Visits
<1>2. Deref(Visit.node) = Visit.node
  BY <1>1, WorkspaceAssumption DEF Deref
<1>3. Visited \in Walks /\ WalkOK(Visited) /\ Visited.todo = Tail(Top.todo)
  BY <1>1, TopVisited
<1> QED BY <1>1, <1>2, <1>3, FileKeeps

(* The walk that has marked the target of a link.                          *)
LEMMA WalkMarked ==
  ASSUME CopyInv, copying = "walking", Top.todo # <<>>, Visit.node \in Links,
         Target \in Dirs \cup Files
  PROVE  /\ Marked \in Walks /\ WalkOK(Marked) /\ Marked.todo = Tail(Top.todo)
         /\ Deref(Visit.node) = Target /\ Lookup(Visit.path) = Target
<1>1. /\ Visited = [todo |-> Tail(Top.todo), seen |-> Top.seen]
      /\ Visited \in Walks /\ WalkOK(Visited)
  BY TopVisited
<1>2. Marked = [todo |-> Tail(Top.todo), seen |-> Top.seen \cup {Target}]
  <2>1. Visited.seen = Top.seen
    BY <1>1
  <2>2. Marked = [Visited EXCEPT !.seen = Top.seen \cup {Target}]
    BY <2>1 DEF Marked
  <2> QED BY <1>1, <2>2
<1>3. /\ WalkOK(Top) /\ Top.todo \in Seq(VisitTo) /\ Visit = Head(Top.todo)
      /\ Top.seen \subseteq Dirs \cup Files
  BY TopVisit
<1>4. Unseen(Tail(Top.todo), Top.seen \cup {Target})
  BY <1>3, WalkMarks DEF WalkOK, Target
<1>5. Marked \in Walks
  <2>1. Tail(Top.todo) \in Seq(VisitTo)
    BY <1>3, FirstVisit
  <2> QED BY <1>2, <1>3, <2>1 DEF Walks
<1>6. WalkOK(Marked)
  <2>1. InPlace(Tail(Top.todo)) /\ Apart(Tail(Top.todo))
    BY <1>1 DEF WalkOK
  <2>2. Marked.todo = Tail(Top.todo) /\ Marked.seen = Top.seen \cup {Target}
    BY <1>2
  <2> QED BY <1>4, <2>1, <2>2 DEF WalkOK
<1>7. Deref(Visit.node) = Target
  BY DEF Deref, Target
<1> QED BY <1>2, <1>5, <1>6, <1>7, TopVisit

(* The walk comes to a link that leads to a file.                          *)
LEMMA FollowToFileKeeps ==
  ASSUME CopyInv, FollowToFile
  PROVE  CopyInv' /\ (CoverInv => CoverInv')
<1>1. /\ copying = "walking" /\ Top.todo # <<>> /\ UNCHANGED <<tree, overrides>>
      /\ Visit.node \in Links /\ Target \in Files /\ Copies(Target) /\ TopBecomes(<<Marked>>)
  BY DEF FollowToFile, Visits
<1>2. Marked \in Walks /\ WalkOK(Marked) /\ Marked.todo = Tail(Top.todo)
      /\ Deref(Visit.node) = Target
  BY <1>1, WalkMarked
<1> QED BY <1>1, <1>2, FileKeeps

(* The copyTree call of a linked directory waits for all that its link     *)
(* waited for.                                                             *)
LEMMA FollowToDirKeeps ==
  ASSUME CopyInv, FollowToDir
  PROVE  CopyInv' /\ (CoverInv => CoverInv')
<1> DEFINE c == CopyTree(Target, Visit.path)
           ws == <<Marked, c>>
<1>1. /\ copying = "walking" /\ Top.todo # <<>> /\ UNCHANGED <<tree, overrides>>
      /\ Visit.node \in Links /\ Target \in Dirs /\ TopBecomes(ws)
      /\ copy' = copy /\ copying' = copying
  BY DEF FollowToDir, Visits
<1>2. /\ Marked \in Walks /\ WalkOK(Marked) /\ Marked.todo = Tail(Top.todo)
      /\ Lookup(Visit.path) = Target
  BY <1>1, WalkMarked
<1>3. Visit.path \in Seq(Nested)
  BY <1>1, TopVisit
<1>4. c \in Walks /\ WalkOK(c)
  BY <1>1, <1>2, <1>3, WalkBegins
<1>5. \A q : (\E k \in 0..Len(q) : Visit.path = SubSeq(q, 1, k)) => Waits(c, q)
  <2>1. c.todo = <<[node |-> Target, path |-> Visit.path]>>
    BY DEF CopyTree
  <2>2. 1 \in DOMAIN c.todo /\ c.todo[1].path = Visit.path
    BY <2>1
  <2> QED BY <2>2 DEF Waits
<1> HIDE DEF c
<1>6. /\ ws \in Seq(Walks) /\ DOMAIN ws = {1, 2} /\ ws[1] = Marked /\ ws[2] = c
      /\ ws # <<>>
  BY <1>2, <1>4, OneOrTwo
<1> HIDE DEF ws
<1>7. walks' # <<>>
  BY <1>1, <1>6, StackBusy
<1>8. \A k \in DOMAIN ws : WalkOK(ws[k])
  BY <1>2, <1>4, <1>6
<1>9. CopyInv'
  BY <1>1, <1>6, <1>7, <1>8, WalksStay
<1>10. ASSUME NEW q, Waits(Top, q)
       PROVE  \E k \in DOMAIN ws : Waits(ws[k], q)
  <2>1. Waits(Visited, q) => Waits(Marked, q)
    <3>1. Visited.todo = Marked.todo
      BY <1>1, <1>2, TopVisited
    <3> QED BY <3>1 DEF Waits
  <2>2. Waits(Marked, q) \/ Waits(c, q)
    BY <1>1, <1>5, <1>10, <2>1, TopVisited
  <2> QED BY <1>6, <2>2
<1>11. CoverInv => CoverInv'
  BY <1>1, <1>6, <1>10, CoverStays
<1> QED BY <1>9, <1>11

(* A walk skips a link only if another one led it to the same target.      *)
LEMMA SkipSeenKeeps ==
  ASSUME CopyInv, SkipSeen
  PROVE  CopyInv' /\ (CoverInv => CoverInv')
<1>1. /\ copying = "walking" /\ Top.todo # <<>> /\ UNCHANGED <<tree, overrides>>
      /\ Visit.node \in Links /\ Target \in Top.seen /\ TopBecomes(<<Visited>>)
      /\ copy' = copy /\ copying' = copying
  BY DEF SkipSeen, Visits
<1>2. Visited \in Walks /\ WalkOK(Visited)
  BY <1>1, TopVisited
<1>3. /\ <<Visited>> \in Seq(Walks) /\ DOMAIN <<Visited>> = {1} /\ <<Visited>>[1] = Visited
      /\ <<Visited>> # <<>>
  BY <1>2, OneOrTwo
<1>4. walks' # <<>>
  BY <1>1, <1>3, StackBusy
<1>5. CopyInv'
  BY <1>1, <1>2, <1>3, <1>4, WalksStay
<1>6. ~OneLinkEach
  <2>1. /\ Unseen(Top.todo, Top.seen) /\ 1 \in DOMAIN Top.todo
        /\ Visit.node = Top.todo[1].node /\ Visit.node \in Nodes
    BY <1>1, TopVisit DEF WalkOK
  <2>2. Visit.node \in Under(Top.todo[1].node)
    BY <2>1, UnderIsLeast
  <2> QED BY <1>1, <2>1, <2>2 DEF Unseen, Target
<1>7. ~OneLinkEach'
  BY <1>1, <1>6, SameTree
<1>8. CoverInv'
  BY <1>7 DEF CoverInv
<1> QED BY <1>5, <1>8

(* A walk that returns waits for nothing.                                  *)
LEMMA WalkEndsKeeps ==
  ASSUME CopyInv, WalkEnds
  PROVE  CopyInv' /\ (CoverInv => CoverInv')
<1>1. /\ copying = "walking" /\ Top.todo = <<>> /\ TopBecomes(<<>>)
      /\ UNCHANGED <<tree, copy, overrides>>
      /\ copying' = IF Len(walks) = 1 THEN "done" ELSE "walking"
  BY DEF WalkEnds
<1>2. walks \in Seq(Walks) /\ walks # <<>>
  BY <1>1 DEF CopyInv
<1>3. <<>> \in Seq(Walks) /\ DOMAIN <<>> = {} /\ Len(<<>>) = 0
  OBVIOUS
<1>4. walks' \in Seq(Walks) /\ Len(walks') = Len(walks) - 1
  <2>1. walks' \in Seq(Walks) /\ Len(walks') = Len(walks) - 1 + 0
    BY <1>1, <1>2, <1>3, StackBecomes
  <2>2. Len(walks) \in Nat
    BY <1>2
  <2> QED BY <2>1, <2>2
<1>5. copying' = "walking" <=> walks' # <<>>
  <2>1. Len(walks) \in Nat \ {0}
    BY <1>2
  <2>2. walks' # <<>> <=> Len(walks') # 0
    BY <1>4
  <2> QED BY <1>1, <1>4, <2>1, <2>2
<1>6. copying' \in {"walking", "done"}
  BY <1>1
<1>7. CopyInv'
  BY <1>1, <1>3, <1>5, <1>6, WalksStay
<1>8. \A q : ~Waits(Top, q)
  BY <1>1, <1>3 DEF Waits
<1>9. CoverInv => CoverInv'
  BY <1>1, <1>3, <1>8, CoverStays
<1> QED BY <1>7, <1>9

(* A copy that fails keeps what it has copied.                             *)
LEMMA CopyFailsKeeps ==
  ASSUME CopyInv, CopyFails
  PROVE  CopyInv' /\ (CoverInv => CoverInv')
<1>1. /\ UNCHANGED <<tree, overrides, copy>> /\ copying' = "failed" /\ walks' = <<>>
  BY DEF CopyFails, Visits
<1>2. <<>> \in Seq(Walks) /\ DOMAIN <<>> = {}
  OBVIOUS
<1>3. (\A x \in copy : Stands(x))'
  BY <1>1, SameTree DEF CopyInv, Stands
<1>4. CopyInv'
  BY <1>1, <1>2, <1>3 DEF CopyInv
<1>5. CoverInv'
  BY <1>1 DEF CoverInv
<1> QED BY <1>4, <1>5

(* Every step of the walk.                                                 *)
LEMMA CopyStepKeeps ==
  ASSUME CopyInv, CopyStep
  PROVE  CopyInv' /\ (CoverInv => CoverInv')
BY VisitDirKeeps, VisitFileKeeps, SkipSeenKeeps, FollowToFileKeeps, FollowToDirKeeps,
   WalkEndsKeeps, CopyFailsKeeps DEF CopyStep

(* The walk begins at the module, on the way to every path.                *)
LEMMA NewWorkspaceKeeps ==
  ASSUME CopyInv, NewWorkspace
  PROVE  CopyInv' /\ CoverInv'
<1> DEFINE c == CopyTree(Module, <<>>)
<1>1. /\ copying' = "walking" /\ walks' = <<c>> /\ UNCHANGED <<tree, copy, overrides>>
  BY DEF NewWorkspace
<1>2. Module \in Dirs
  BY WorkspaceAssumption
<1>3. <<>> \in Seq(Nested) /\ Lookup(<<>>) = Module
  BY LookupRoot
<1>4. c \in Walks /\ WalkOK(c)
  BY <1>2, <1>3, WalkBegins
<1>5. ASSUME NEW q, q \in Seq(Nested)
      PROVE  Waits(c, q)
  <2>1. 0 \in 0..Len(q) /\ SubSeq(q, 1, 0) = <<>>
    BY <1>5
  <2>2. 1 \in DOMAIN c.todo /\ c.todo[1].path = <<>>
    BY DEF CopyTree
  <2> QED BY <2>1, <2>2 DEF Waits
<1> HIDE DEF c
<1>6. walks' \in Seq(Walks) /\ DOMAIN walks' = {1} /\ walks'[1] = c /\ walks' # <<>>
  BY <1>1, <1>4, OneOrTwo
<1>7. (\A x \in copy : Stands(x))'
  BY <1>1, SameTree DEF CopyInv, Stands
<1>8. (\A i \in DOMAIN walks : WalkOK(walks[i]))'
  BY <1>1, <1>4, <1>6, SameTree
<1>9. CopyInv'
  BY <1>1, <1>6, <1>7, <1>8 DEF CopyInv
<1>10. \A q : IsSource(q)' => Waits(walks'[1], q)
  BY <1>5, <1>6 DEF IsSource
<1>11. CoverInv'
  BY <1>6, <1>10 DEF CoverInv
<1> QED BY <1>9, <1>11

(* A step that leaves the source and the copy alone.                       *)
LEMMA CopyRests ==
  ASSUME UNCHANGED <<tree, walks, copy, copying>>
  PROVE  /\ CopyInv /\ Overriding(overrides') => CopyInv'
         /\ CoverInv => CoverInv'
<1>1. CopyInv /\ Overriding(overrides') => CopyInv'
  BY SameTree DEF CopyInv, Stands
<1>2. CoverInv => CoverInv'
  BY SameTree DEF CoverInv, IsSource
<1> QED BY <1>1, <1>2

(* The override files.                                                     *)
LEMMA OverridesKeep ==
  ASSUME CopyInv, (\E url : WriteProvider(url)) \/ WriteBackend
  PROVE  CopyInv' /\ (CoverInv => CoverInv')
<1>1. /\ UNCHANGED <<tree, walks, copy, copying>>
      /\ Overriding(overrides')
  <2>1. CASE \E url : WriteProvider(url)
    BY <2>1 DEF WriteProvider, Overriding
  <2>2. CASE WriteBackend
    <3>1. Overriding(overrides)
      BY DEF CopyInv
    <3> QED BY <2>2, <3>1 DEF WriteBackend, Overriding
  <2> QED BY <2>1, <2>2
<1> QED BY <1>1, CopyRests

(* Before NewWorkspace.                                                    *)
LEMMA CopyInitially ==
  ASSUME WorkspaceInit, tree \in Trees
  PROVE  CopyInv /\ CoverInv
<1>1. <<>> \in Seq(Walks) /\ DOMAIN <<>> = {}
  OBVIOUS
<1> QED BY <1>1 DEF WorkspaceInit, CopyInv, CoverInv, Overriding

(* Types.                                                                  *)
LEMMA CopyTypes == CopyInv => WorkspaceTypeOK
<1> SUFFICES ASSUME CopyInv PROVE WorkspaceTypeOK
  OBVIOUS
<1>1. ASSUME NEW i \in DOMAIN walks
      PROVE  /\ \A j \in DOMAIN walks[i].todo : walks[i].todo[j].node \in Nodes
             /\ walks[i].seen \subseteq Dirs \cup Files
  <2>1. walks[i] \in Walks
    BY DEF CopyInv
  <2>2. walks[i].todo \in Seq(VisitTo) /\ walks[i].seen \subseteq Dirs \cup Files
    BY <2>1 DEF Walks
  <2>3. \A j \in DOMAIN walks[i].todo : walks[i].todo[j] \in VisitTo
    BY <2>2
  <2> QED BY <2>2, <2>3 DEF VisitTo
<1> QED BY <1>1 DEF CopyInv, Stands, WorkspaceTypeOK, Trees, Overriding

(* Nothing stands in the copy that the source does not have.               *)
LEMMA CopySound == CopyInv => CopyIsSound
BY DEF CopyInv, Stands, CopyIsSound

(* With every walk over, nothing is waited for: all of it is copied.       *)
LEMMA CopyComplete == CopyInv /\ CoverInv => CopyIsComplete
<1> SUFFICES ASSUME CopyInv, CoverInv, copying = "done", OneLinkEach
             PROVE  {x[1] : x \in copy} = SourcePaths
  BY DEF CopyIsComplete, OneLinkEach
<1>1. walks = <<>> /\ tree \in Trees /\ \A x \in copy : Stands(x)
  BY DEF CopyInv
<1>2. \A q : IsSource(q) => \E x \in copy : x[1] = q
  BY <1>1 DEF CoverInv
<1>3. ASSUME NEW x \in copy PROVE IsSource(x[1])
  <2>1. x[2] # Nowhere
    BY <1>1, WorkspaceAssumption DEF Stands, Nodes
  <2> QED BY <1>1, <2>1 DEF Stands, IsSource
<1>4. {x[1] : x \in copy} = {p \in Seq(Nested) : Len(p) <= MaxPath /\ Lookup(p) # Nowhere}
  BY <1>2, <1>3 DEF IsSource
<1> QED BY <1>1, <1>4, SourcePathsAre
=============================================================================
