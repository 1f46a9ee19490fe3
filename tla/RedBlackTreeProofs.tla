------------------------- MODULE RedBlackTreeProofs -------------------------
(***************************************************************************)
(* Proofs about RedBlackTree, for any set of elements and any keys.        *)
(*                                                                         *)
(* Inv is inductive.  A function D gives for every node those at and below *)
(* it (Shape), and a function h the black ones on each path down           *)
(* (Balanced), so that nothing has to be said by a recursion; each of      *)
(* link, removal, replacement and rotation has a lemma on what becomes of  *)
(* D, and one on h.  RedInv names the nodes that may break the colour rule *)
(* while a loop is under way, CursorInv where the cursors of the loops     *)
(* stand.                                                                  *)
(*                                                                         *)
(* AnswerInv, for the refinement of OrderedSet, says of each loop that     *)
(* looks for an element that what it looks for is at or below the cursor,  *)
(* or, where a walk goes up, above it.                                     *)
(*                                                                         *)
(* AugInv, for the augmented data, says where it may be stale during a     *)
(* call: only in nodes that the walk up that is still to come, from the    *)
(* node where the call will start it, computes anew (Covers).              *)
(***************************************************************************)
EXTENDS RedBlackTree, FiniteSetTheorems, SequenceTheorems, WellFoundedInduction, TLAPS

\* x is on the side s of n in the order of the keys.
Beyond(s, x, n) == IF s = Left THEN Key[x] < Key[n] ELSE Key[n] < Key[x]

\* The pointers of a tree agree, and a node outside it has no children.
LinkedTree(t) ==
    /\ t.root # Nil => t.root \in InTree(t) /\ t.parent[t.root] = Nil
    /\ \A n \in InTree(t) :
         /\ t.parent[n] = Nil => t.root = n
         /\ t.parent[n] # Nil => t.parent[n] \in InTree(t)
                                 /\ \E s \in Sides : t.child[s][t.parent[n]] = n
         /\ \A s \in Sides : LET c == t.child[s][n] IN
              c # Nil => c \in InTree(t) /\ t.parent[c] = n /\ c # t.child[Opposite(s)][n]
    /\ \A n \in Nodes \ InTree(t) : \A s \in Sides : t.child[s][n] = Nil

\* D[n] are the nodes at and below n: all of them at and below the root, and
\* those below n on the one side and on the other by their keys.
Ordered(t, D) ==
    /\ D \in [NodeOrNil -> SUBSET InTree(t)]
    /\ D[Nil] = {}
    /\ D[t.root] = InTree(t)
    /\ \A n \in InTree(t) : D[n] = {n} \cup D[t.child[Left][n]] \cup D[t.child[Right][n]]
    /\ \A n \in InTree(t) : \A s \in Sides : \A x \in D[t.child[s][n]] : Beyond(s, x, n)

\* A binary search tree.
Shape(t, D) == t \in Trees /\ IsFiniteSet(InTree(t)) /\ LinkedTree(t) /\ Ordered(t, D)

-----------------------------------------------------------------------------
(* Sides and nodes.                                                        *)

LEMMA SideFacts ==
    ASSUME NEW s \in Sides
    PROVE  /\ Opposite(s) \in Sides /\ Opposite(s) # s /\ Opposite(Opposite(s)) = s
           /\ \A z \in Sides : z = s \/ z = Opposite(s)
           /\ Left \in Sides /\ Right \in Sides /\ Left # Right
           /\ Opposite(Left) = Right /\ Opposite(Right) = Left
BY DEF Sides, Opposite, Left, Right

\* The order of the keys.
LEMMA BeyondFacts ==
    ASSUME NEW a \in Nodes, NEW b \in Nodes, NEW c \in Nodes, NEW s \in Sides
    PROVE  /\ ~ Beyond(s, a, a)
           /\ Beyond(s, a, b) /\ Beyond(s, b, c) => Beyond(s, a, c)
           /\ Beyond(s, a, b) => ~ Beyond(Opposite(s), a, b)
           /\ Beyond(s, a, b) <=> Beyond(Opposite(s), b, a)
<1>1. Key[a] \in Int /\ Key[b] \in Int /\ Key[c] \in Int
  BY KeyAssumption
<1> QED BY <1>1, SideFacts DEF Beyond, Sides, Opposite, Left, Right

\* The fields of a tree.
LEMMA TreeTypes ==
    ASSUME NEW t \in Trees
    PROVE  /\ t.root \in NodeOrNil
           /\ t.child \in [Sides -> [Nodes -> NodeOrNil]]
           /\ t.parent \in [Nodes -> NodeOrNil]
           /\ t.color \in [Nodes -> {Red, Black}]
           /\ t = [root |-> t.root, child |-> t.child, parent |-> t.parent, color |-> t.color]
           /\ \A n \in Nodes : t.parent[n] \in NodeOrNil /\ t.color[n] \in {Red, Black}
           /\ \A s \in Sides : \A n \in Nodes : t.child[s][n] \in NodeOrNil
           /\ InTree(t) \subseteq Nodes /\ Nil \notin InTree(t)
BY NilAssumption DEF Trees, InTree

\* What a node of a tree has to do with its children.
LEMMA NodeFacts ==
    ASSUME NEW t, NEW D, Shape(t, D), NEW n \in InTree(t), NEW s \in Sides
    PROVE  /\ n \in Nodes /\ n # Nil
           /\ D[n] = {n} \cup D[t.child[s][n]] \cup D[t.child[Opposite(s)][n]]
           /\ n \notin D[t.child[s][n]]
           /\ D[t.child[s][n]] \cap D[t.child[Opposite(s)][n]] = {}
           /\ \A x \in D[t.child[s][n]] : Beyond(s, x, n)
           /\ t.child[s][n] # Nil =>
                /\ t.child[s][n] \in InTree(t)
                /\ t.parent[t.child[s][n]] = n
                /\ t.child[s][n] # n
                /\ t.child[s][n] # t.child[Opposite(s)][n]
                /\ t.child[s][n] \in D[t.child[s][n]]
           /\ D[Nil] = {}
           /\ D[t.child[s][n]] \subseteq InTree(t)
<1>1. t \in Trees
  BY DEF Shape
<1>2. n \in Nodes /\ n # Nil
  BY <1>1, TreeTypes
<1>3. D[n] = {n} \cup D[t.child[s][n]] \cup D[t.child[Opposite(s)][n]]
  <2>1. D[n] = {n} \cup D[t.child[Left][n]] \cup D[t.child[Right][n]]
    BY DEF Shape, Ordered
  <2>2. s = Left \/ s = Right
    BY DEF Sides
  <2> QED BY <2>1, <2>2, SideFacts
<1>4. \A z \in Sides : \A x \in D[t.child[z][n]] : Beyond(z, x, n) /\ x \in Nodes
  <2>1. \A z \in Sides : t.child[z][n] \in NodeOrNil
    BY <1>1, <1>2, TreeTypes
  <2>2. \A z \in Sides : D[t.child[z][n]] \subseteq InTree(t)
    BY <2>1 DEF Shape, Ordered
  <2> QED BY <2>2, <1>1, TreeTypes DEF Shape, Ordered
<1>5. n \notin D[t.child[s][n]]
  BY <1>2, <1>4, BeyondFacts
<1>6. D[t.child[s][n]] \cap D[t.child[Opposite(s)][n]] = {}
  BY <1>2, <1>4, BeyondFacts, SideFacts
<1>7. D[Nil] = {}
  BY DEF Shape, Ordered
<1>8. t.child[s][n] \in NodeOrNil
  BY <1>1, <1>2, TreeTypes
<1>9. D[t.child[s][n]] \subseteq InTree(t)
  BY <1>8 DEF Shape, Ordered
<1>10. ASSUME t.child[s][n] # Nil
       PROVE  /\ t.child[s][n] \in InTree(t)
              /\ t.parent[t.child[s][n]] = n
              /\ t.child[s][n] # t.child[Opposite(s)][n]
  BY <1>10 DEF Shape, LinkedTree
<1>11. ASSUME t.child[s][n] # Nil
       PROVE  /\ t.child[s][n] # n
              /\ t.child[s][n] \in D[t.child[s][n]]
  <2>1. t.parent[n] # n
    BY DEF InTree
  <2>2. t.child[s][n] \in D[t.child[s][n]]
    BY <1>10, <1>11 DEF Shape, Ordered
  <2> QED BY <2>1, <2>2, <1>10, <1>11
<1> HIDE DEF Shape
<1> QED BY <1>2, <1>3, <1>4, <1>5, <1>6, <1>7, <1>9, <1>10, <1>11

\* ... and with its parent.
LEMMA ParentFacts ==
    ASSUME NEW t, NEW D, Shape(t, D), NEW n \in InTree(t)
    PROVE  /\ t.parent[n] # n
           /\ t.parent[n] = Nil <=> t.root = n
           /\ t.parent[n] # Nil =>
                /\ t.parent[n] \in InTree(t)
                /\ SideOf(t, t.parent[n], n) \in Sides
                /\ t.child[SideOf(t, t.parent[n], n)][t.parent[n]] = n
                /\ \A s \in Sides : t.child[s][t.parent[n]] = n => SideOf(t, t.parent[n], n) = s
                /\ t.parent[t.parent[n]] # n
           /\ \A p \in Nodes : \A s \in Sides : t.child[s][p] = n => p = t.parent[n]
           /\ t.root \in InTree(t)
<1>1. t \in Trees /\ n \in Nodes /\ n # Nil
  BY TreeTypes DEF Shape
<1>2. t.parent[n] # n
  BY DEF InTree
<1>3. t.root \in InTree(t)
  <2>1. t.root # Nil
    BY DEF Shape, Ordered
  <2> QED BY <2>1 DEF Shape, LinkedTree
<1>4. t.parent[n] = Nil <=> t.root = n
  BY <1>1 DEF Shape, LinkedTree
<1>5. \A p \in Nodes : \A s \in Sides : t.child[s][p] = n => p = t.parent[n]
  <2> SUFFICES ASSUME NEW p \in Nodes, NEW s \in Sides, t.child[s][p] = n PROVE p = t.parent[n]
    OBVIOUS
  <2>1. p \in InTree(t)
    BY <1>1 DEF Shape, LinkedTree
  <2> QED BY <2>1, <1>1 DEF Shape, LinkedTree
<1>6. ASSUME t.parent[n] # Nil
      PROVE  /\ t.parent[n] \in InTree(t)
             /\ SideOf(t, t.parent[n], n) \in Sides
             /\ t.child[SideOf(t, t.parent[n], n)][t.parent[n]] = n
             /\ \A s \in Sides : t.child[s][t.parent[n]] = n => SideOf(t, t.parent[n], n) = s
             /\ t.parent[t.parent[n]] # n
  <2> DEFINE p == t.parent[n]
  <2>1. p \in InTree(t)
    BY <1>6 DEF Shape, LinkedTree
  <2>2. PICK s \in Sides : t.child[s][p] = n
    BY <1>6 DEF Shape, LinkedTree
  <2>3. t.child[Opposite(s)][p] # n
    BY <2>1, <2>2, <1>1, NodeFacts
  <2>4. SideOf(t, p, n) = s
    BY <2>2, <2>3, SideFacts DEF SideOf, Sides
  <2>5. \A z \in Sides : t.child[z][p] = n => z = s
    BY <2>2, <2>3, SideFacts
  <2>6. t.parent[p] # n
    <3> SUFFICES ASSUME t.parent[p] = n PROVE FALSE
      OBVIOUS
    <3>1. PICK z \in Sides : t.child[z][n] = p
      BY <2>1, <1>1 DEF Shape, LinkedTree
    <3>2. p \in D[t.child[z][n]] /\ p # Nil
      BY <3>1, <2>1, <1>1, NodeFacts, TreeTypes
    <3>3. Beyond(z, p, n) /\ Beyond(s, n, p)
      <4>1. n \in D[t.child[s][p]]
        BY <2>1, <2>2, <1>1, NodeFacts
      <4> QED BY <2>1, <3>2, <4>1, NodeFacts
    <3>4. D[n] = {n} \cup D[p] \cup D[t.child[Opposite(z)][n]]
      BY <3>1, NodeFacts
    <3>5. n \in D[p]
      <4>1. n \in D[n]
        BY NodeFacts
      <4> QED BY <4>1, <2>2, <2>1, NodeFacts
    <3> QED BY <3>1, <3>5, NodeFacts
  <2> QED BY <2>1, <2>2, <2>4, <2>5, <2>6
<1> QED BY <1>2, <1>3, <1>4, <1>5, <1>6

\* A set of nodes of a tree has one whose children are not in it: what holds
\* of a node when it holds of its children holds of all of them.
LEMMA TreeInduction ==
    ASSUME NEW t, NEW D, Shape(t, D), NEW S \in SUBSET InTree(t), S # {}
    PROVE  \E n \in S : \A s \in Sides : t.child[s][n] \notin S
<1> DEFINE I == InTree(t)
           T == {D[n] : n \in S}
<1>1. IsFiniteSet(I) /\ \A n \in S : D[n] \subseteq I
  <2>1. S \subseteq NodeOrNil
    BY TreeTypes DEF Shape, NodeOrNil
  <2> QED BY <2>1 DEF Shape, Ordered
<1>2. T \in SUBSET FiniteSubsetsOf(I) /\ T # {}
  BY <1>1, FS_Subset DEF FiniteSubsetsOf
<1>3. PICK U \in T : \A V \in T : <<V, U>> \notin StrictSubsetOrdering(I)
  <2> HIDE DEF T, I
  <2> QED BY <1>1, <1>2, FS_StrictSubsetOrderingWellFounded, WFMin
<1>4. PICK n \in S : U = D[n]
  OBVIOUS
<1>5. ASSUME NEW s \in Sides, t.child[s][n] \in S PROVE FALSE
  <2>1. t.child[s][n] # Nil
    BY <1>5, TreeTypes DEF Shape
  <2>2. n \in D[n] /\ n \notin D[t.child[s][n]] /\ D[t.child[s][n]] \subseteq D[n]
    BY <2>1, NodeFacts
  <2>3. D[t.child[s][n]] \in T
    BY <1>5
  <2> QED BY <1>1, <1>3, <1>4, <1>5, <2>2, <2>3 DEF StrictSubsetOrdering
<1> QED BY <1>4, <1>5

\* What is below x is below what x is below, and so is its parent.
LEMMA Below ==
    ASSUME NEW t, NEW D, Shape(t, D), NEW n \in InTree(t), NEW x \in D[n]
    PROVE  /\ x \in InTree(t) /\ n \in D[n] /\ x \in D[x]
           /\ D[x] \subseteq D[n]
           /\ x # n => t.parent[x] \in D[n] /\ t.parent[x] # Nil /\ n \notin D[x]
<1>1. \A m \in InTree(t) : m \in D[m] /\ D[m] \subseteq InTree(t)
  <2>1. \A m \in InTree(t) : m \in NodeOrNil
    BY TreeTypes DEF Shape, NodeOrNil
  <2> QED BY <2>1, SideFacts, NodeFacts DEF Shape, Ordered
<1> DEFINE Bad == {m \in InTree(t) : \E y \in D[m] :
                     ~ (D[y] \subseteq D[m] /\ (y # m => t.parent[y] \in D[m] /\ m \notin D[y]))}
<1>2. Bad = {}
  <2> SUFFICES ASSUME Bad # {} PROVE FALSE
    OBVIOUS
  <2>1. PICK m \in Bad : \A s \in Sides : t.child[s][m] \notin Bad
    <3> HIDE DEF Bad
    <3>1. Bad \in SUBSET InTree(t)
      BY DEF Bad
    <3> QED BY <3>1, TreeInduction
  <2>2. PICK y \in D[m] : ~ (D[y] \subseteq D[m] /\ (y # m => t.parent[y] \in D[m] /\ m \notin D[y]))
    OBVIOUS
  <2>3. y # m
    BY <2>2
  <2>4. PICK s \in Sides : y \in D[t.child[s][m]]
    <3>1. D[m] = {m} \cup D[t.child[Left][m]] \cup D[t.child[Right][m]]
      BY DEF Shape, Ordered
    <3> QED BY <2>3, <3>1 DEF Sides
  <2> DEFINE c == t.child[s][m]
  <2>5. c \in InTree(t) /\ c \notin Bad /\ t.parent[c] = m /\ m \notin D[c] /\ D[c] \subseteq D[m]
    <3>1. c # Nil
      BY <2>4, NodeFacts
    <3> QED BY <2>1, <3>1, NodeFacts
  <2>6. D[y] \subseteq D[c] /\ (y # c => t.parent[y] \in D[c])
    BY <2>4, <2>5
  <2> QED BY <1>1, <2>2, <2>5, <2>6
<1>3. x \in InTree(t) /\ D[x] \subseteq D[n]
  BY <1>1, <1>2
<1>4. ASSUME x # n PROVE t.parent[x] \in D[n] /\ t.parent[x] # Nil /\ n \notin D[x]
  <2>1. t.parent[x] \in D[n] /\ n \notin D[x]
    BY <1>2, <1>4
  <2> QED BY <1>1, <2>1, TreeTypes DEF Shape
<1> QED BY <1>1, <1>3, <1>4

-----------------------------------------------------------------------------
(* What the functions of TreeNodes do to a tree, point by point.           *)

Paints(t, u, n, c) ==
    /\ u \in Trees /\ u.root = t.root /\ u.child = t.child /\ u.parent = t.parent
    /\ \A x \in Nodes : u.color[x] = IF x = n THEN c ELSE t.color[x]

LEMMA PaintPoints ==
    ASSUME NEW t \in Trees, NEW n \in Nodes, NEW c \in {Red, Black}
    PROVE  Paints(t, Paint(t, n, c), n, c)
<1>1. Paint(t, n, c) = [root |-> t.root, child |-> t.child, parent |-> t.parent,
                        color |-> [t.color EXCEPT ![n] = c]]
  BY DEF Paint, Trees
<1>2. [t.color EXCEPT ![n] = c] \in [Nodes -> {Red, Black}]
  BY TreeTypes
<1> QED BY <1>1, <1>2, TreeTypes DEF Trees, Paints

SetsParent(t, u, n, p) ==
    /\ u \in Trees /\ u.root = t.root /\ u.child = t.child /\ u.color = t.color
    /\ \A x \in Nodes : u.parent[x] = IF x = n THEN p ELSE t.parent[x]

LEMMA SetParentPoints ==
    ASSUME NEW t \in Trees, NEW n \in NodeOrNil, NEW p \in NodeOrNil
    PROVE  SetsParent(t, SetParent(t, n, p), n, p)
<1>1. CASE n = Nil
  BY <1>1, NilAssumption DEF SetParent, SetsParent
<1>2. CASE n # Nil
  <2>1. SetParent(t, n, p) = [root |-> t.root, child |-> t.child, color |-> t.color,
                              parent |-> [t.parent EXCEPT ![n] = p]]
    BY <1>2 DEF SetParent, Trees
  <2>2. [t.parent EXCEPT ![n] = p] \in [Nodes -> NodeOrNil] /\ n \in Nodes
    BY <1>2, TreeTypes DEF NodeOrNil
  <2> QED BY <2>1, <2>2, TreeTypes DEF Trees, SetsParent
<1> QED BY <1>1, <1>2

LEMMA ChildField ==
    ASSUME NEW t \in Trees, NEW f
    PROVE  [t EXCEPT !.child = f] = [root |-> t.root, child |-> f, parent |-> t.parent, color |-> t.color]
BY DEF Trees

\* A child pointer that is set.
SetChild(t, s, n, c) == [t EXCEPT !.child[s][n] = c]

SetsChild(t, u, s, n, c) ==
    /\ u \in Trees /\ u.root = t.root /\ u.parent = t.parent /\ u.color = t.color
    /\ \A z \in Sides : \A x \in Nodes : u.child[z][x] = IF z = s /\ x = n THEN c ELSE t.child[z][x]

LEMMA ChildPoints ==
    ASSUME NEW t \in Trees, NEW s \in Sides, NEW n \in Nodes, NEW c \in NodeOrNil
    PROVE  SetsChild(t, SetChild(t, s, n, c), s, n, c)
<1> DEFINE f == [t.child EXCEPT ![s] = [t.child[s] EXCEPT ![n] = c]]
<1>1. SetChild(t, s, n, c) = [root |-> t.root, child |-> f, parent |-> t.parent, color |-> t.color]
  <2>1. [t EXCEPT !.child[s][n] = c] = [t EXCEPT !.child = f]
    OBVIOUS
  <2> QED BY <2>1, ChildField, Zenon DEF SetChild
<1>2. [t.child[s] EXCEPT ![n] = c] \in [Nodes -> NodeOrNil]
  BY TreeTypes
<1>3. f \in [Sides -> [Nodes -> NodeOrNil]]
  BY <1>2, TreeTypes
<1>4. \A z \in Sides : f[z] = IF z = s THEN [t.child[s] EXCEPT ![n] = c] ELSE t.child[z]
  BY TreeTypes
<1>5. \A z \in Sides : \A x \in Nodes : f[z][x] = IF z = s /\ x = n THEN c ELSE t.child[z][x]
  BY <1>4, TreeTypes
<1> HIDE DEF f
<1> QED BY <1>1, <1>3, <1>5, TreeTypes DEF Trees, SetsChild

Redirects(t, u, p, old, new) ==
    /\ u \in Trees /\ u.parent = t.parent /\ u.color = t.color
    /\ u.root = IF p = Nil THEN new ELSE t.root
    /\ \A z \in Sides : \A x \in Nodes :
         u.child[z][x] = IF x = p /\ z = SideOf(t, p, old) THEN new ELSE t.child[z][x]

LEMMA RedirectPoints ==
    ASSUME NEW t \in Trees, NEW p \in NodeOrNil, NEW old \in Nodes, NEW new \in NodeOrNil
    PROVE  Redirects(t, Redirect(t, p, old, new), p, old, new)
<1>1. CASE p = Nil
  <2>1. Redirect(t, p, old, new) = [root |-> new, child |-> t.child, parent |-> t.parent, color |-> t.color]
    BY <1>1 DEF Redirect, Trees
  <2> QED BY <1>1, <2>1, NilAssumption, TreeTypes DEF Trees, Redirects
<1>2. CASE p # Nil
  <2>1. SideOf(t, p, old) \in Sides /\ p \in Nodes
    BY <1>2 DEF SideOf, Sides, NodeOrNil
  <2>2. Redirect(t, p, old, new) = SetChild(t, SideOf(t, p, old), p, new)
    BY <1>2, Zenon DEF SetChild, Redirect
  <2> HIDE DEF SideOf
  <2>3. SetsChild(t, Redirect(t, p, old, new), SideOf(t, p, old), p, new)
    BY <2>1, <2>2, ChildPoints
  <2> QED BY <1>2, <2>3 DEF SetsChild, Redirects
<1> QED BY <1>1, <1>2

\* All the fields of a node.
Place(t, n, p, k, l, r) ==
    [t EXCEPT !.parent[n] = p, !.color[n] = k, !.child[Left][n] = l, !.child[Right][n] = r]

Places(t, u, n, p, k, l, r) ==
    /\ u \in Trees /\ u.root = t.root
    /\ \A x \in Nodes : u.parent[x] = IF x = n THEN p ELSE t.parent[x]
    /\ \A x \in Nodes : u.color[x] = IF x = n THEN k ELSE t.color[x]
    /\ \A z \in Sides : \A x \in Nodes :
         u.child[z][x] = IF x = n THEN IF z = Left THEN l ELSE r ELSE t.child[z][x]

LEMMA PlacePoints ==
    ASSUME NEW t \in Trees, NEW n \in Nodes, NEW p \in NodeOrNil, NEW k \in {Red, Black},
           NEW l \in NodeOrNil, NEW r \in NodeOrNil
    PROVE  Places(t, Place(t, n, p, k, l, r), n, p, k, l, r)
<1>1. n # Nil /\ n \in NodeOrNil
  BY NilAssumption DEF NodeOrNil
<1>2. Left \in Sides /\ Right \in Sides /\ Left # Right /\ \A z \in Sides : z = Left \/ z = Right
  BY SideFacts DEF Sides
<1>3. PICK a : a = SetParent(t, n, p)
  OBVIOUS
<1>4. PICK b : b = Paint(a, n, k)
  OBVIOUS
<1>5. PICK c : c = SetChild(b, Left, n, l)
  OBVIOUS
<1>6. PICK u : u = SetChild(c, Right, n, r)
  OBVIOUS
<1>7. Place(t, n, p, k, l, r) = u
  <2>1. Place(t, n, p, k, l, r) =
          [[[[t EXCEPT !.parent[n] = p] EXCEPT !.color[n] = k] EXCEPT !.child[Left][n] = l]
              EXCEPT !.child[Right][n] = r]
    BY Zenon DEF Place
  <2>2. a = [t EXCEPT !.parent[n] = p]
    BY <1>1, <1>3, Zenon DEF SetParent
  <2>3. b = [a EXCEPT !.color[n] = k]
    BY <1>4, Zenon DEF Paint
  <2>4. c = [b EXCEPT !.child[Left][n] = l]
    BY <1>5, Zenon DEF SetChild
  <2>5. u = [c EXCEPT !.child[Right][n] = r]
    BY <1>6, Zenon DEF SetChild
  <2> QED BY <2>1, <2>2, <2>3, <2>4, <2>5, Zenon
<1>8. SetsParent(t, a, n, p)
  BY <1>1, <1>3, SetParentPoints
<1>9. Paints(a, b, n, k)
  <2>1. a \in Trees
    BY <1>8 DEF SetsParent
  <2> QED BY <1>4, <2>1, PaintPoints
<1>10. SetsChild(b, c, Left, n, l)
  <2>1. b \in Trees
    BY <1>9 DEF Paints
  <2> QED BY <1>2, <1>5, <2>1, ChildPoints
<1>11. SetsChild(c, u, Right, n, r)
  <2>1. c \in Trees
    BY <1>10 DEF SetsChild
  <2> QED BY <1>2, <1>6, <2>1, ChildPoints
<1>12. \A z \in Sides : \A x \in Nodes :
         u.child[z][x] = IF x = n THEN IF z = Left THEN l ELSE r ELSE t.child[z][x]
  <2>1. b.child = t.child
    BY <1>8, <1>9 DEF SetsParent, Paints
  <2>2. \A z \in Sides : \A x \in Nodes : c.child[z][x] = IF z = Left /\ x = n THEN l ELSE b.child[z][x]
    BY <1>10 DEF SetsChild
  <2>3. \A z \in Sides : \A x \in Nodes : u.child[z][x] = IF z = Right /\ x = n THEN r ELSE c.child[z][x]
    BY <1>11 DEF SetsChild
  <2> QED BY <1>2, <2>1, <2>2, <2>3
<1>13. \A x \in Nodes : u.parent[x] = IF x = n THEN p ELSE t.parent[x]
  <2>1. u.parent = a.parent
    BY <1>9, <1>10, <1>11 DEF Paints, SetsChild
  <2> QED BY <1>8, <2>1, Zenon DEF SetsParent
<1>14. \A x \in Nodes : u.color[x] = IF x = n THEN k ELSE t.color[x]
  <2>1. u.color = b.color
    BY <1>10, <1>11 DEF SetsChild
  <2>2. a.color = t.color
    BY <1>8 DEF SetsParent
  <2> QED BY <1>9, <2>1, <2>2, Zenon DEF Paints
<1>15. u \in Trees /\ u.root = t.root
  BY <1>8, <1>9, <1>10, <1>11 DEF SetsParent, Paints, SetsChild
<1> QED BY <1>7, <1>12, <1>13, <1>14, <1>15 DEF Places

Inits(t, u, n) ==
    /\ u \in Trees /\ u.root = t.root
    /\ \A x \in Nodes : u.parent[x] = IF x = n THEN n ELSE t.parent[x]
    /\ \A x \in Nodes : u.color[x] = IF x = n THEN Red ELSE t.color[x]
    /\ \A z \in Sides : \A x \in Nodes : u.child[z][x] = IF x = n THEN Nil ELSE t.child[z][x]

LEMMA InitPoints ==
    ASSUME NEW t \in Trees, NEW n \in Nodes
    PROVE  Inits(t, rb_init_node(t, n), n)
<1>1. rb_init_node(t, n) = Place(t, n, n, Red, Nil, Nil)
  BY Zenon DEF rb_init_node, Place
<1>2. n \in NodeOrNil /\ Nil \in NodeOrNil /\ Red \in {Red, Black}
  BY DEF NodeOrNil
<1>3. Places(t, rb_init_node(t, n), n, n, Red, Nil, Nil)
  BY <1>1, <1>2, PlacePoints
<1> QED BY <1>3 DEF Places, Inits

-----------------------------------------------------------------------------
(* Rotations.                                                              *)

\* What a rotation at n to the side s makes of the pointers of t.
RotatedRoot(t, u, n, s) ==
    u.root = IF t.root = n THEN t.child[Opposite(s)][n] ELSE t.root

RotatedChildren(t, u, n, s) ==
    LET up == t.child[Opposite(s)][n] IN
    \A z \in Sides : \A x \in Nodes :
        u.child[z][x] = IF x = n THEN IF z = s THEN t.child[s][n] ELSE t.child[s][up]
                        ELSE IF x = up THEN IF z = s THEN n ELSE t.child[z][up]
                        ELSE IF t.child[z][x] = n THEN up
                        ELSE t.child[z][x]

RotatedParents(t, u, n, s) ==
    LET up == t.child[Opposite(s)][n] IN
    \A x \in Nodes :
        u.parent[x] = IF x = n THEN up
                      ELSE IF x = up THEN t.parent[n]
                      ELSE IF x = t.child[s][up] THEN n
                      ELSE t.parent[x]

Rotates(t, u, n, s) ==
    /\ u \in Trees /\ u.color = t.color
    /\ RotatedRoot(t, u, n, s) /\ RotatedChildren(t, u, n, s) /\ RotatedParents(t, u, n, s)

\* The nodes that a rotation is about.
LEMMA RotatedNodes ==
    ASSUME NEW t, NEW D, Shape(t, D), NEW n \in InTree(t), NEW s \in Sides,
           t.child[Opposite(s)][n] # Nil
    PROVE  LET up == t.child[Opposite(s)][n]
               inner == t.child[s][up]
           IN /\ n \in Nodes /\ up \in Nodes /\ up \in InTree(t) /\ up # n /\ t.parent[up] = n
              /\ inner \in NodeOrNil /\ inner # n /\ inner # up
              /\ inner # Nil => inner \in InTree(t) /\ t.parent[inner] = up
              /\ t.parent[n] \in NodeOrNil /\ t.parent[n] # n /\ t.parent[n] # up
              /\ t.parent[n] # Nil => t.parent[n] \in InTree(t)
              /\ t.root # up
<1> DEFINE o == Opposite(s)
           up == t.child[o][n]
           inner == t.child[s][up]
<1>1. o \in Sides
  BY SideFacts
<1>2. up \in InTree(t) /\ t.parent[up] = n /\ up # n
  BY <1>1, NodeFacts
<1>3. n \in Nodes /\ up \in Nodes /\ inner \in NodeOrNil /\ t.parent[n] \in NodeOrNil
  BY <1>2, TreeTypes DEF Shape
<1>4. t.parent[n] # n /\ t.parent[n] # up /\ (t.parent[n] # Nil => t.parent[n] \in InTree(t))
  <2>1. t.parent[up] # Nil
    BY <1>2, NodeFacts
  <2>2. t.parent[t.parent[up]] # up
    BY <1>2, <2>1, ParentFacts
  <2> QED BY <1>2, <2>2, ParentFacts
<1>5. inner # Nil => inner \in InTree(t) /\ t.parent[inner] = up
  BY <1>2, NodeFacts
<1>6. inner # n /\ inner # up
  BY <1>2, <1>3, <1>4, <1>5, NilAssumption, NodeFacts DEF InTree
<1>7. t.root # up
  BY <1>2, <1>3, NilAssumption, ParentFacts
<1> QED BY <1>2, <1>3, <1>4, <1>5, <1>6, <1>7

LEMMA RotatePoints ==
    ASSUME NEW t, NEW D, Shape(t, D), NEW n \in InTree(t), NEW s \in Sides,
           t.child[Opposite(s)][n] # Nil
    PROVE  Rotates(t, rb_rotate(t, n, s), n, s)
<1> DEFINE o == Opposite(s)
<1>1. PICK up : up = t.child[o][n]
  OBVIOUS
<1>2. PICK inner : inner = t.child[s][up]
  OBVIOUS
<1>3. PICK p : p = t.parent[n]
  OBVIOUS
<1>4. t \in Trees /\ o \in Sides /\ o # s
  BY SideFacts DEF Shape
<1>5. /\ n \in Nodes /\ up \in Nodes /\ up # n /\ inner \in NodeOrNil /\ inner # n /\ inner # up
      /\ p \in NodeOrNil /\ p # n /\ p # up
      /\ n \in NodeOrNil /\ up \in NodeOrNil /\ n # Nil /\ up # Nil
  BY <1>1, <1>2, <1>3, RotatedNodes, NilAssumption DEF NodeOrNil
<1>6. PICK a : a = SetChild(t, o, n, inner)
  OBVIOUS
<1>7. PICK b : b = SetChild(a, s, up, n)
  OBVIOUS
<1>8. PICK c : c = SetParent(b, up, p)
  OBVIOUS
<1>9. PICK d : d = SetParent(c, inner, n)
  OBVIOUS
<1>10. PICK e : e = Redirect(d, p, n, up)
  OBVIOUS
<1>11. PICK u : u = SetParent(e, n, up)
  OBVIOUS
<1>12. rb_rotate(t, n, s) = u
  <2>1. [t EXCEPT !.child[o][n] = inner, !.child[s][up] = n, !.parent[up] = p]
          = [[[t EXCEPT !.child[o][n] = inner] EXCEPT !.child[s][up] = n] EXCEPT !.parent[up] = p]
    BY Zenon
  <2>2. [t EXCEPT !.child[o][n] = inner, !.child[s][up] = n, !.parent[up] = p] = c
    <3>1. c = [b EXCEPT !.parent[up] = p]
      BY <1>5, <1>8, Zenon DEF SetParent
    <3>2. b = [a EXCEPT !.child[s][up] = n]
      BY <1>7, Zenon DEF SetChild
    <3>3. a = [t EXCEPT !.child[o][n] = inner]
      BY <1>6, Zenon DEF SetChild
    <3> QED BY <2>1, <3>1, <3>2, <3>3, Zenon
  <2>3. SetParent([t EXCEPT !.child[o][n] = inner, !.child[s][up] = n, !.parent[up] = p], inner, n) = d
    BY <1>9, <2>2, Zenon
  <2>4. rb_rotate(t, n, s)
          = SetParent(Redirect(SetParent([t EXCEPT !.child[o][n] = inner, !.child[s][up] = n,
                                                   !.parent[up] = p], inner, n), p, n, up), n, up)
    BY <1>1, <1>2, <1>3, Zenon DEF rb_rotate
  <2> QED BY <1>10, <1>11, <2>3, <2>4, Zenon
<1>13. SetsChild(t, a, o, n, inner)
  BY <1>4, <1>5, <1>6, ChildPoints
<1>14. SetsChild(a, b, s, up, n)
  <2>1. a \in Trees
    BY <1>13 DEF SetsChild
  <2> QED BY <1>5, <1>7, <2>1, ChildPoints
<1>15. SetsParent(b, c, up, p)
  <2>1. b \in Trees
    BY <1>14 DEF SetsChild
  <2> QED BY <1>5, <1>8, <2>1, SetParentPoints
<1>16. SetsParent(c, d, inner, n)
  <2>1. c \in Trees
    BY <1>15 DEF SetsParent
  <2> QED BY <1>5, <1>9, <2>1, SetParentPoints
<1>17. Redirects(d, e, p, n, up)
  <2>1. d \in Trees
    BY <1>16 DEF SetsParent
  <2> QED BY <1>5, <1>10, <2>1, RedirectPoints
<1>18. SetsParent(e, u, n, up)
  <2>1. e \in Trees
    BY <1>17 DEF Redirects
  <2> QED BY <1>5, <1>11, <2>1, SetParentPoints
<1>19. u \in Trees /\ u.color = t.color
  BY <1>13, <1>14, <1>15, <1>16, <1>17, <1>18 DEF SetsChild, SetsParent, Redirects
<1>20. RotatedRoot(t, u, n, s)
  <2>1. u.root = IF p = Nil THEN up ELSE t.root
    BY <1>13, <1>14, <1>15, <1>16, <1>17, <1>18 DEF SetsChild, SetsParent, Redirects
  <2>2. p = Nil <=> t.root = n
    BY <1>3, ParentFacts
  <2> QED BY <1>1, <2>1, <2>2 DEF RotatedRoot
<1>21. \A z \in Sides : \A x \in Nodes :
         d.child[z][x] = IF x = n THEN IF z = s THEN t.child[s][n] ELSE inner
                         ELSE IF x = up THEN IF z = s THEN n ELSE t.child[z][up]
                         ELSE t.child[z][x]
  <2>1. d.child = b.child
    BY <1>15, <1>16 DEF SetsParent
  <2>2. \A z \in Sides : \A x \in Nodes : a.child[z][x] = IF z = o /\ x = n THEN inner ELSE t.child[z][x]
    BY <1>13 DEF SetsChild
  <2>3. \A z \in Sides : \A x \in Nodes : b.child[z][x] = IF z = s /\ x = up THEN n ELSE a.child[z][x]
    BY <1>14 DEF SetsChild
  <2>4. \A z \in Sides : z = s \/ z = o
    BY SideFacts
  <2>5. up # n /\ o # s
    BY <1>4, <1>5
  <2> QED BY <2>1, <2>2, <2>3, <2>4, <2>5
<1>22. \A z \in Sides : \A x \in Nodes :
         x # n /\ x # up => (x = p /\ z = SideOf(d, p, n) <=> t.child[z][x] = n)
  <2>1. ASSUME p # Nil PROVE SideOf(d, p, n) = SideOf(t, p, n)
    <3>1. d.child[Left][p] = t.child[Left][p]
      <4>1. p \in Nodes /\ p # n /\ p # up
        BY <1>5, <2>1 DEF NodeOrNil
      <4>2. Left \in Sides
        BY DEF Sides
      <4> QED BY <1>21, <4>1, <4>2
    <3> QED BY <3>1 DEF SideOf
  <2>2. \A z \in Sides : \A x \in Nodes : t.child[z][x] = n => x = p /\ z = SideOf(t, p, n) /\ p # Nil
    BY <1>3, ParentFacts, NilAssumption
  <2>3. p # Nil => t.child[SideOf(t, p, n)][p] = n
    BY <1>3, ParentFacts
  <2> QED BY <2>1, <2>2, <2>3, NilAssumption
<1>23. RotatedChildren(t, u, n, s)
  <2>1. \A z \in Sides : \A x \in Nodes :
            u.child[z][x] = IF x = p /\ z = SideOf(d, p, n) THEN up ELSE d.child[z][x]
    BY <1>17, <1>18, Zenon DEF Redirects, SetsParent
  <2>2. p # n /\ p # up
    BY <1>5
  <2> QED BY <1>1, <1>2, <1>21, <1>22, <2>1, <2>2 DEF RotatedChildren
<1>24. RotatedParents(t, u, n, s)
  <2>1. b.parent = t.parent /\ e.parent = d.parent
    BY <1>13, <1>14, <1>17 DEF SetsChild, Redirects
  <2>2. \A x \in Nodes : c.parent[x] = IF x = up THEN p ELSE b.parent[x]
    BY <1>15, Zenon DEF SetsParent
  <2>3. \A x \in Nodes : d.parent[x] = IF x = inner THEN n ELSE c.parent[x]
    BY <1>16, Zenon DEF SetsParent
  <2>4. \A x \in Nodes : u.parent[x] = IF x = n THEN up ELSE e.parent[x]
    BY <1>18, Zenon DEF SetsParent
  <2>5. inner # n /\ inner # up /\ up # n
    BY <1>5
  <2>6. \A x \in Nodes : d.parent[x] = IF x = inner THEN n ELSE IF x = up THEN p ELSE t.parent[x]
    BY <2>1, <2>2, <2>3, Zenon
  <2>7. \A x \in Nodes : u.parent[x] = IF x = n THEN up ELSE IF x = up THEN p
                                      ELSE IF x = inner THEN n ELSE t.parent[x]
    BY <2>1, <2>4, <2>5, <2>6, Zenon
  <2> QED BY <1>1, <1>2, <1>3, <2>7, Zenon DEF RotatedParents
<1> QED BY <1>12, <1>19, <1>20, <1>23, <1>24 DEF Rotates

\* What is below a node after a rotation.
RotatedBelow(t, D, n, s) ==
    LET up == t.child[Opposite(s)][n] IN
    [x \in NodeOrNil |-> IF x = up THEN D[n]
                         ELSE IF x = n THEN {n} \cup D[t.child[s][n]] \cup D[t.child[s][up]]
                         ELSE D[x]]

\* The pointers still agree after a rotation.
LEMMA RotateLinked ==
    ASSUME NEW t, NEW D, Shape(t, D), NEW n \in InTree(t), NEW s \in Sides,
           t.child[Opposite(s)][n] # Nil, NEW u, Rotates(t, u, n, s)
    PROVE  InTree(u) = InTree(t) /\ LinkedTree(u)
<1> DEFINE o == Opposite(s)
<1>1. PICK up : up = t.child[o][n]
  OBVIOUS
<1>2. PICK inner : inner = t.child[s][up]
  OBVIOUS
<1>3. PICK p : p = t.parent[n]
  OBVIOUS
<1>4. t \in Trees /\ u \in Trees /\ s \in Sides /\ o \in Sides /\ o # s /\ \A z \in Sides : z = s \/ z = o
  BY SideFacts DEF Shape, Rotates
<1>5. /\ n \in Nodes /\ up \in Nodes /\ up \in InTree(t) /\ up # n /\ t.parent[up] = n
      /\ inner \in NodeOrNil /\ inner # n /\ inner # up
      /\ inner # Nil => inner \in InTree(t) /\ t.parent[inner] = up
      /\ p \in NodeOrNil /\ p # n /\ p # up /\ (p # Nil => p \in InTree(t))
      /\ n # Nil /\ up # Nil /\ t.root # up
  BY <1>1, <1>2, <1>3, RotatedNodes, NilAssumption
<1>6. u.root = IF t.root = n THEN up ELSE t.root
  BY <1>1 DEF Rotates, RotatedRoot
<1>7. \A z \in Sides : \A x \in Nodes :
        u.child[z][x] = IF x = n THEN IF z = s THEN t.child[s][n] ELSE inner
                        ELSE IF x = up THEN IF z = s THEN n ELSE t.child[z][up]
                        ELSE IF t.child[z][x] = n THEN up
                        ELSE t.child[z][x]
  BY <1>1, <1>2 DEF Rotates, RotatedChildren
<1>8. \A x \in Nodes : u.parent[x] = IF x = n THEN up ELSE IF x = up THEN p
                                     ELSE IF x = inner THEN n ELSE t.parent[x]
  BY <1>1, <1>2, <1>3, Zenon DEF Rotates, RotatedParents
<1>9. InTree(t) \subseteq Nodes /\ \A x \in Nodes : x \in InTree(t) <=> t.parent[x] # x
  BY <1>4, TreeTypes DEF InTree
<1>10. \A x \in InTree(t) : \A z \in Sides :
         t.child[z][x] # Nil => /\ t.child[z][x] \in InTree(t) /\ t.parent[t.child[z][x]] = x
                                /\ t.child[z][x] # x /\ t.child[z][x] # t.child[Opposite(z)][x]
  BY NodeFacts
<1>11. \A x \in InTree(t) : /\ t.parent[x] # x /\ (t.parent[x] = Nil <=> t.root = x)
                            /\ t.parent[x] # Nil => /\ t.parent[x] \in InTree(t)
                                                    /\ \E z \in Sides : t.child[z][t.parent[x]] = x
                            /\ t.root \in InTree(t)
  BY ParentFacts
<1>12. InTree(u) = InTree(t)
  <2>1. ASSUME NEW x \in Nodes PROVE u.parent[x] # x <=> t.parent[x] # x
    <3>1. x = n \/ x = up \/ x = inner => x \in InTree(t)
      BY <1>5, NilAssumption
    <3>2. x = n \/ x = up \/ x = inner => u.parent[x] # x
      BY <1>5, <1>8
    <3>3. ~ (x = n \/ x = up \/ x = inner) => u.parent[x] = t.parent[x]
      BY <1>8
    <3> QED BY <1>9, <3>1, <3>2, <3>3
  <2>2. InTree(u) \subseteq Nodes
    BY <1>4, TreeTypes
  <2> QED BY <1>9, <2>1, <2>2 DEF InTree
<1>13. u.root \in InTree(u) /\ u.parent[u.root] = Nil
  <2>1. CASE t.root = n
    <3>1. p = Nil
      BY <1>3, <1>11, <2>1
    <3> QED BY <1>5, <1>6, <1>8, <1>12, <2>1, <3>1
  <2>2. CASE t.root # n
    <3>1. t.root \in InTree(t) /\ t.parent[t.root] = Nil /\ t.root # Nil /\ t.root \in Nodes
      BY <1>4, <1>9, <1>11, TreeTypes
    <3>2. t.root # inner
      BY <1>5, <3>1
    <3> QED BY <1>5, <1>6, <1>8, <1>12, <2>2, <3>1, <3>2
  <2> QED BY <2>1, <2>2
<1>14. ASSUME NEW x \in InTree(t), u.parent[x] = Nil PROVE u.root = x
  BY <1>3, <1>5, <1>6, <1>8, <1>9, <1>11, <1>14
<1>15. ASSUME NEW x \in InTree(t), u.parent[x] # Nil
       PROVE  u.parent[x] \in InTree(t) /\ \E z \in Sides : u.child[z][u.parent[x]] = x
  <2>1. CASE x = n
    BY <1>4, <1>5, <1>7, <1>8, <2>1
  <2>2. CASE x = up
    <3>1. PICK w \in Sides : t.child[w][p] = n
      BY <1>3, <1>5, <1>8, <1>11, <1>15, <2>2
    <3>2. u.parent[x] = p /\ p \in InTree(t) /\ p \in Nodes
      BY <1>5, <1>8, <1>9, <1>15, <2>2
    <3>3. u.child[w][p] = up
      BY <1>5, <1>7, <3>1, <3>2
    <3> QED BY <2>2, <3>2, <3>3
  <2>3. CASE x = inner
    <3>1. u.parent[x] = n
      BY <1>5, <1>8, <1>9, <2>3
    <3>2. u.child[o][n] = inner
      BY <1>4, <1>5, <1>7
    <3> QED BY <1>4, <2>3, <3>1, <3>2
  <2>4. CASE x # n /\ x # up /\ x # inner
    <3>1. u.parent[x] = t.parent[x] /\ x \in Nodes
      BY <1>8, <1>9, <2>4
    <3>2. PICK w \in Sides : t.child[w][t.parent[x]] = x
      BY <1>11, <1>15, <3>1
    <3>3. t.parent[x] \in InTree(t) /\ t.parent[x] \in Nodes
      BY <1>9, <1>11, <1>15, <3>1
    <3>4. u.child[w][t.parent[x]] = x
      <4>1. CASE t.parent[x] = n
        <5>1. w = s
          BY <1>1, <1>4, <2>4, <3>2, <4>1
        <5> QED BY <1>7, <3>2, <3>3, <4>1, <5>1
      <4>2. CASE t.parent[x] = up
        <5>1. w # s
          BY <1>2, <2>4, <3>2, <4>2
        <5> QED BY <1>5, <1>7, <3>2, <3>3, <4>2, <5>1
      <4>3. CASE t.parent[x] # n /\ t.parent[x] # up
        BY <1>7, <2>4, <3>2, <3>3, <4>3
      <4> QED BY <4>1, <4>2, <4>3
    <3> QED BY <3>1, <3>3, <3>4
  <2> QED BY <2>1, <2>2, <2>3, <2>4
<1>16. ASSUME NEW x \in InTree(t), NEW z \in Sides, u.child[z][x] # Nil
       PROVE  /\ u.child[z][x] \in InTree(t) /\ u.parent[u.child[z][x]] = x
              /\ u.child[z][x] # u.child[Opposite(z)][x]
  <2> DEFINE c == u.child[z][x]
  <2>0. x \in Nodes /\ Opposite(z) \in Sides
    BY <1>9, SideFacts
  <2>1. CASE x = n
    <3>1. t.child[s][n] # inner
      <4>1. inner # Nil => t.child[s][n] # inner
        BY <1>4, <1>5, <1>10, NodeFacts
      <4>2. inner = Nil => (z = s \/ c = Nil)
        BY <1>4, <1>7, <2>0, <2>1
      <4>3. z = s => c = t.child[s][n]
        BY <1>7, <2>0, <2>1
      <4> QED BY <1>16, <4>1, <4>2, <4>3
    <3>2. CASE z = s
      <4>1. c = t.child[s][n] /\ u.child[o][x] = inner
        BY <1>4, <1>7, <2>0, <2>1, <3>2
      <4>2. c \in InTree(t) /\ t.parent[c] = n /\ c # n /\ c # up /\ c # inner /\ c \in Nodes
        BY <1>1, <1>9, <1>10, <1>16, <3>1, <4>1
      <4>3. u.parent[c] = n
        BY <1>8, <4>2
      <4> QED BY <2>1, <3>2, <4>1, <4>2, <4>3
    <3>3. CASE z = o
      <4>1. c = inner /\ u.child[s][x] = t.child[s][n]
        BY <1>4, <1>7, <2>0, <2>1, <3>3
      <4>2. u.parent[inner] = n /\ inner \in InTree(t)
        BY <1>5, <1>8, <1>9, <1>16, <4>1
      <4>3. Opposite(z) = s
        BY <3>3, SideFacts
      <4> QED BY <2>1, <3>1, <4>1, <4>2, <4>3
    <3> QED BY <1>4, <3>2, <3>3
  <2>2. CASE x = up
    <3>0. t.child[o][up] # n
      BY <1>3, <1>4, <1>5, <1>10
    <3>1. CASE z = s
      <4>1. c = n /\ u.child[o][x] = t.child[o][up]
        BY <1>4, <1>5, <1>7, <2>0, <2>2, <3>1
      <4>2. u.parent[n] = up
        BY <1>5, <1>8
      <4> QED BY <2>2, <3>0, <3>1, <4>1, <4>2
    <3>2. CASE z = o
      <4>1. c = t.child[o][up] /\ u.child[s][x] = n
        BY <1>4, <1>5, <1>7, <2>0, <2>2, <3>2
      <4>2. c \in InTree(t) /\ t.parent[c] = up /\ c # up /\ c # n /\ c \in Nodes
        BY <1>4, <1>5, <1>9, <1>10, <1>16, <3>0, <4>1
      <4>3. c # inner
        <5>1. Opposite(o) = s
          BY SideFacts
        <5> QED BY <1>2, <1>4, <1>5, <1>10, <1>16, <4>1, <5>1
      <4>4. u.parent[c] = up
        BY <1>8, <4>2, <4>3
      <4>5. Opposite(z) = s
        BY <3>2, SideFacts
      <4> QED BY <2>2, <3>0, <4>1, <4>2, <4>4, <4>5
    <3> QED BY <1>4, <3>1, <3>2
  <2>3. CASE x # n /\ x # up
    <3>1. \A y \in Sides : u.child[y][x] = IF t.child[y][x] = n THEN up ELSE t.child[y][x]
      BY <1>7, <2>0, <2>3
    <3>2. \A y \in Sides : t.child[y][x] # up
      BY <1>5, <1>10, <2>3
    <3>3. CASE t.child[z][x] = n
      <4>1. c = up /\ p = x
        BY <1>3, <1>5, <1>10, <3>1, <3>3
      <4>2. t.child[Opposite(z)][x] # n
        BY <1>5, <1>10, <3>3
      <4>3. u.child[Opposite(z)][x] # up
        BY <2>0, <3>1, <3>2, <4>2
      <4>4. u.parent[up] = p
        BY <1>5, <1>8
      <4> QED BY <1>5, <4>1, <4>3, <4>4
    <3>4. CASE t.child[z][x] # n
      <4>1. c = t.child[z][x]
        BY <3>1, <3>4
      <4>2. c \in InTree(t) /\ t.parent[c] = x /\ c # t.child[Opposite(z)][x] /\ c \in Nodes
        BY <1>9, <1>10, <1>16, <4>1
      <4>3. c # n /\ c # up /\ c # inner
        BY <1>5, <1>16, <2>3, <3>2, <3>4, <4>1, <4>2
      <4>4. u.parent[c] = x
        BY <1>8, <4>2, <4>3
      <4>5. c # u.child[Opposite(z)][x]
        BY <2>0, <3>1, <4>2, <4>3
      <4> QED BY <4>2, <4>4, <4>5
    <3> QED BY <3>3, <3>4
  <2> QED BY <2>1, <2>2, <2>3
<1>17. \A x \in Nodes \ InTree(u) : \A z \in Sides : u.child[z][x] = Nil
  <2>1. \A x \in Nodes \ InTree(t) : \A z \in Sides : t.child[z][x] = Nil
    BY DEF Shape, LinkedTree
  <2> QED BY <1>5, <1>7, <1>12, <2>1
<1> QED BY <1>12, <1>13, <1>14, <1>15, <1>16, <1>17 DEF LinkedTree

\* A rotation leaves a search tree with the same elements.
LEMMA RotateShape ==
    ASSUME NEW t, NEW D, Shape(t, D), NEW n \in InTree(t), NEW s \in Sides,
           t.child[Opposite(s)][n] # Nil, NEW u, Rotates(t, u, n, s)
    PROVE  InTree(u) = InTree(t) /\ Shape(u, RotatedBelow(t, D, n, s))
<1> DEFINE o == Opposite(s)
<1>1. PICK up : up = t.child[o][n]
  OBVIOUS
<1>2. PICK inner : inner = t.child[s][up]
  OBVIOUS
<1>3. PICK near : near = t.child[s][n]
  OBVIOUS
<1>4. PICK outer : outer = t.child[o][up]
  OBVIOUS
<1>5. PICK E : E = RotatedBelow(t, D, n, s)
  OBVIOUS
<1>6. t \in Trees /\ u \in Trees /\ s \in Sides /\ o \in Sides /\ o # s /\ \A z \in Sides : z = s \/ z = o
  BY SideFacts DEF Shape, Rotates
<1>7. /\ n \in Nodes /\ up \in Nodes /\ up \in InTree(t) /\ up # n /\ t.parent[up] = n
      /\ inner \in NodeOrNil /\ inner # n /\ inner # up
      /\ n # Nil /\ up # Nil /\ t.root # up
  BY <1>1, <1>2, RotatedNodes, NilAssumption
<1>8. u.root = IF t.root = n THEN up ELSE t.root
  BY <1>1 DEF Rotates, RotatedRoot
<1>9. \A z \in Sides : \A x \in Nodes :
        u.child[z][x] = IF x = n THEN IF z = s THEN near ELSE inner
                        ELSE IF x = up THEN IF z = s THEN n ELSE t.child[z][up]
                        ELSE IF t.child[z][x] = n THEN up
                        ELSE t.child[z][x]
  BY <1>1, <1>2, <1>3 DEF Rotates, RotatedChildren
<1>10. InTree(u) = InTree(t) /\ LinkedTree(u) /\ InTree(t) \subseteq Nodes
  BY <1>6, RotateLinked, TreeTypes
<1>11. D \in [NodeOrNil -> SUBSET InTree(t)] /\ D[Nil] = {} /\ D[t.root] = InTree(t)
  BY DEF Shape, Ordered
<1>12. \A x \in NodeOrNil : E[x] = IF x = up THEN D[n]
                                   ELSE IF x = n THEN {n} \cup D[near] \cup D[inner] ELSE D[x]
  BY <1>1, <1>2, <1>3, <1>5 DEF RotatedBelow
<1>13. near \in NodeOrNil /\ outer \in NodeOrNil /\ near # n /\ near # up /\ outer # n /\ outer # up
  <2>1. near \in NodeOrNil /\ outer \in NodeOrNil
    BY <1>3, <1>4, <1>6, <1>7, TreeTypes
  <2>2. near # n /\ near # up
    BY <1>1, <1>3, <1>7, NodeFacts
  <2>3. outer # n /\ outer # up
    <3>1. t.parent[n] # up
      BY <1>1, RotatedNodes
    <3> QED BY <1>4, <1>6, <1>7, <3>1, NodeFacts
  <2> QED BY <2>1, <2>2, <2>3
<1>14. /\ D[n] = {n} \cup D[near] \cup D[up]
       /\ D[up] = {up} \cup D[inner] \cup D[outer]
  <2>1. D[n] = {n} \cup D[near] \cup D[up]
    BY <1>1, <1>3, NodeFacts
  <2>2. D[up] = {up} \cup D[inner] \cup D[outer]
    BY <1>2, <1>4, <1>7, NodeFacts
  <2> QED BY <2>1, <2>2
<1>15. E \in [NodeOrNil -> SUBSET InTree(u)]
  <2>1. E = [x \in NodeOrNil |-> IF x = up THEN D[n]
                                 ELSE IF x = n THEN {n} \cup D[near] \cup D[inner] ELSE D[x]]
    BY <1>1, <1>2, <1>3, <1>5 DEF RotatedBelow
  <2>2. n \in NodeOrNil
    BY <1>7 DEF NodeOrNil
  <2>3. D[n] \in SUBSET InTree(t) /\ {n} \cup D[near] \cup D[inner] \in SUBSET InTree(t)
    BY <1>7, <1>11, <1>13, <2>2
  <2>4. \A x \in NodeOrNil : D[x] \in SUBSET InTree(t)
    BY <1>11
  <2> QED BY <1>10, <2>1, <2>3, <2>4
<1>16. E[Nil] = {}
  BY <1>7, <1>11, <1>12 DEF NodeOrNil
<1>17. E[u.root] = InTree(u)
  <2>1. u.root \in NodeOrNil
    BY <1>6, TreeTypes
  <2> QED BY <1>7, <1>8, <1>10, <1>11, <1>12, <2>1
<1>18. /\ E[n] = {n} \cup D[near] \cup D[inner] /\ E[up] = D[n]
       /\ E[near] = D[near] /\ E[inner] = D[inner] /\ E[outer] = D[outer]
  <2>1. n \in NodeOrNil /\ up \in NodeOrNil
    BY <1>7 DEF NodeOrNil
  <2> QED BY <1>7, <1>12, <1>13, <2>1
\* Away from the rotation nothing changes.
<1>19. ASSUME NEW x \in InTree(t), x # n, x # up, NEW z \in Sides
       PROVE  E[x] = D[x] /\ E[u.child[z][x]] = D[t.child[z][x]]
  <2>1. x \in Nodes /\ x \in NodeOrNil
    BY <1>10 DEF NodeOrNil
  <2>2. E[x] = D[x]
    BY <1>12, <1>19, <2>1
  <2>3. t.child[z][x] \in NodeOrNil /\ t.child[z][x] # up
    BY <1>6, <1>7, <1>19, <2>1, TreeTypes, NodeFacts
  <2>4. CASE t.child[z][x] = n
    BY <1>9, <1>18, <1>19, <2>1, <2>2, <2>4
  <2>5. CASE t.child[z][x] # n
    <3>1. u.child[z][x] = t.child[z][x]
      BY <1>9, <1>19, <2>1, <2>5
    <3> QED BY <1>12, <2>2, <2>3, <2>5, <3>1
  <2> QED BY <2>4, <2>5
<1>20. /\ u.child[s][n] = near /\ u.child[o][n] = inner
       /\ u.child[s][up] = n /\ u.child[o][up] = outer
  BY <1>4, <1>6, <1>7, <1>9
<1>21. ASSUME NEW x \in InTree(t)
       PROVE  E[x] = {x} \cup E[u.child[s][x]] \cup E[u.child[o][x]]
  <2>1. CASE x = n
    BY <1>18, <1>20, <2>1
  <2>2. CASE x = up
    BY <1>14, <1>18, <1>20, <2>2
  <2>3. CASE x # n /\ x # up
    <3>1. D[x] = {x} \cup D[t.child[s][x]] \cup D[t.child[o][x]]
      BY NodeFacts
    <3> QED BY <1>6, <1>19, <2>3, <3>1
  <2> QED BY <2>1, <2>2, <2>3
<1>22. ASSUME NEW x \in InTree(t)
       PROVE  E[x] = {x} \cup E[u.child[Left][x]] \cup E[u.child[Right][x]]
  <2>1. (s = Left /\ o = Right) \/ (s = Right /\ o = Left)
    BY DEF Sides, Opposite, Left, Right
  <2> QED BY <1>21, <2>1
<1>23. ASSUME NEW x \in InTree(t), NEW z \in Sides, NEW y \in E[u.child[z][x]]
       PROVE  Beyond(z, y, x)
  <2>1. /\ \A v \in D[near] : Beyond(s, v, n) /\ v \in Nodes
        /\ \A v \in D[up] : Beyond(o, v, n) /\ v \in Nodes
    BY <1>1, <1>3, <1>6, <1>10, NodeFacts
  <2>2. /\ \A v \in D[inner] : Beyond(s, v, up)
        /\ \A v \in D[outer] : Beyond(o, v, up)
    BY <1>2, <1>4, <1>6, <1>7, NodeFacts
  <2>3. Beyond(s, n, up)
    <3>1. Beyond(o, up, n)
      BY <1>14, <2>1
    <3> QED BY <1>6, <1>7, <3>1, BeyondFacts, SideFacts
  <2>4. CASE x = n /\ z = s
    BY <1>18, <1>20, <1>23, <2>1, <2>4
  <2>5. CASE x = n /\ z = o
    BY <1>14, <1>18, <1>20, <1>23, <2>1, <2>5
  <2>6. CASE x = up /\ z = s
    <3>1. y \in {n} \cup D[near] \cup D[inner]
      BY <1>18, <1>20, <1>23, <2>6
    <3>2. ASSUME y \in D[near] PROVE Beyond(s, y, up)
      BY <1>6, <1>7, <2>1, <2>3, <3>2, BeyondFacts
    <3> QED BY <2>2, <2>3, <2>6, <3>1, <3>2
  <2>7. CASE x = up /\ z = o
    BY <1>18, <1>20, <1>23, <2>2, <2>7
  <2>8. CASE x # n /\ x # up
    BY <1>19, <1>23, <2>8, NodeFacts
  <2> QED BY <1>6, <2>4, <2>5, <2>6, <2>7, <2>8
<1>24. Ordered(u, E)
  BY <1>10, <1>15, <1>16, <1>17, <1>22, <1>23 DEF Ordered
<1>25. IsFiniteSet(InTree(u))
  BY <1>10 DEF Shape
<1> QED BY <1>5, <1>6, <1>10, <1>24, <1>25 DEF Shape

-----------------------------------------------------------------------------
(* Linking and removing.                                                   *)

\* The shape is in the pointers, not in the colours.
LEMMA SameShape ==
    ASSUME NEW t, NEW D, Shape(t, D), NEW u \in Trees,
           u.root = t.root, u.child = t.child, u.parent = t.parent
    PROVE  InTree(u) = InTree(t) /\ Shape(u, D)
<1>1. InTree(u) = InTree(t)
  BY DEF InTree
<1>2. LinkedTree(t) /\ Ordered(t, D) /\ IsFiniteSet(InTree(t))
  BY DEF Shape
<1>3. LinkedTree(u)
  BY <1>1, <1>2 DEF LinkedTree
<1>4. Ordered(u, D)
  BY <1>1, <1>2 DEF Ordered
<1> QED BY <1>1, <1>2, <1>3, <1>4 DEF Shape

\* What rb_link_node makes of t.
Links(t, u, n, p, s) ==
    /\ u \in Trees
    /\ u.root = IF p = Nil THEN n ELSE t.root
    /\ \A x \in Nodes : u.parent[x] = IF x = n THEN p ELSE t.parent[x]
    /\ \A x \in Nodes : u.color[x] = IF x = n THEN Red ELSE t.color[x]
    /\ \A z \in Sides : \A x \in Nodes :
         u.child[z][x] = IF x = n THEN Nil ELSE IF x = p /\ z = s THEN n ELSE t.child[z][x]

LEMMA LinkPoints ==
    ASSUME NEW t \in Trees, NEW n \in Nodes, NEW p \in NodeOrNil, p # n, NEW s \in Sides
    PROVE  Links(t, rb_link_node(t, n, p, s), n, p, s)
<1>1. PICK a : a = Place(t, n, p, Red, Nil, Nil)
  OBVIOUS
<1>2. n \in NodeOrNil /\ Nil \in NodeOrNil /\ Red \in {Red, Black}
  BY DEF NodeOrNil
<1>3. Places(t, a, n, p, Red, Nil, Nil)
  BY <1>1, <1>2, PlacePoints
<1>4. a \in Trees
  BY <1>3 DEF Places
<1>5. CASE p = Nil
  <2>1. rb_link_node(t, n, p, s) = [a EXCEPT !.root = n]
    BY <1>1, <1>5, Zenon DEF rb_link_node, Place
  <2>2. [a EXCEPT !.root = n] = [root |-> n, child |-> a.child, parent |-> a.parent, color |-> a.color]
    BY <1>4 DEF Trees
  <2>3. PICK u : u = [root |-> n, child |-> a.child, parent |-> a.parent, color |-> a.color]
    OBVIOUS
  <2>4. u \in Trees /\ u.root = n /\ u.child = a.child /\ u.parent = a.parent /\ u.color = a.color
    BY <1>2, <1>4, <2>3, TreeTypes DEF Trees
  <2>5. rb_link_node(t, n, p, s) = u
    BY <2>1, <2>2, <2>3, Zenon
  <2>6. Links(t, u, n, p, s)
    <3>1. \A x \in Nodes : x # p
      BY <1>5, NilAssumption
    <3> QED BY <1>3, <1>5, <2>4, <3>1 DEF Links, Places
  <2> QED BY <2>5, <2>6
<1>6. CASE p # Nil
  <2>1. rb_link_node(t, n, p, s) = SetChild(a, s, p, n)
    BY <1>1, <1>6, Zenon DEF rb_link_node, Place, SetChild
  <2>2. PICK u : u = SetChild(a, s, p, n)
    OBVIOUS
  <2>3. SetsChild(a, u, s, p, n)
    <3>1. p \in Nodes
      BY <1>6 DEF NodeOrNil
    <3> QED BY <1>2, <1>4, <2>2, <3>1, ChildPoints
  <2>4. \A z \in Sides : \A x \in Nodes :
          u.child[z][x] = IF x = n THEN Nil ELSE IF x = p /\ z = s THEN n ELSE t.child[z][x]
    <3>1. \A z \in Sides : \A x \in Nodes : u.child[z][x] = IF z = s /\ x = p THEN n ELSE a.child[z][x]
      BY <2>3 DEF SetsChild
    <3>2. \A z \in Sides : \A x \in Nodes : a.child[z][x] = IF x = n THEN Nil ELSE t.child[z][x]
      BY <1>3, Zenon DEF Places
    <3> QED BY <3>1, <3>2
  <2>5. u \in Trees /\ u.root = a.root /\ u.parent = a.parent /\ u.color = a.color
    BY <2>3 DEF SetsChild
  <2> QED BY <1>3, <1>6, <2>1, <2>2, <2>4, <2>5 DEF Links, Places
<1> QED BY <1>5, <1>6

\* What rb_erase makes of t when e has the child c at most.
Removes(t, u, e, c) ==
    /\ u \in Trees
    /\ u.root = IF t.root = e THEN c ELSE t.root
    /\ \A x \in Nodes : u.parent[x] = IF x = e THEN e ELSE IF x = c THEN t.parent[e] ELSE t.parent[x]
    /\ \A x \in Nodes : u.color[x] = IF x = e THEN Red ELSE t.color[x]
    /\ \A z \in Sides : \A x \in Nodes :
         u.child[z][x] = IF x = e THEN Nil ELSE IF t.child[z][x] = e THEN c ELSE t.child[z][x]

LEMMA RemovePoints ==
    ASSUME NEW t, NEW D, Shape(t, D), NEW e \in InTree(t), NEW s \in Sides
    PROVE  LET c == t.child[s][e] IN Removes(t, rb_init_node(SpliceOut(t, e, c), e), e, c)
<1>1. PICK c : c = t.child[s][e]
  OBVIOUS
<1>2. PICK p : p = t.parent[e]
  OBVIOUS
<1>3. t \in Trees /\ e \in Nodes /\ c \in NodeOrNil /\ p \in NodeOrNil /\ p # e /\ c # e /\ e # Nil
  BY <1>1, <1>2, TreeTypes, NodeFacts, ParentFacts DEF Shape
<1>4. PICK a : a = SetParent(t, c, p)
  OBVIOUS
<1>5. PICK b : b = Redirect(a, p, e, c)
  OBVIOUS
<1>6. PICK u : u = rb_init_node(b, e)
  OBVIOUS
<1>7. rb_init_node(SpliceOut(t, e, c), e) = u
  BY <1>2, <1>4, <1>5, <1>6, Zenon DEF SpliceOut
<1>8. SetsParent(t, a, c, p)
  BY <1>3, <1>4, SetParentPoints
<1>9. Redirects(a, b, p, e, c)
  <2>1. a \in Trees
    BY <1>8 DEF SetsParent
  <2> QED BY <1>3, <1>5, <2>1, RedirectPoints
<1>10. Inits(b, u, e)
  <2>1. b \in Trees
    BY <1>9 DEF Redirects
  <2> QED BY <1>3, <1>6, <2>1, InitPoints
<1>11. u.root = IF t.root = e THEN c ELSE t.root
  <2>1. u.root = IF p = Nil THEN c ELSE t.root
    BY <1>8, <1>9, <1>10 DEF SetsParent, Redirects, Inits
  <2> QED BY <1>2, <2>1, ParentFacts
<1>12. \A x \in Nodes : u.parent[x] = IF x = e THEN e ELSE IF x = c THEN t.parent[e] ELSE t.parent[x]
  <2>1. \A x \in Nodes : a.parent[x] = IF x = c THEN p ELSE t.parent[x]
    BY <1>8, Zenon DEF SetsParent
  <2>2. b.parent = a.parent
    BY <1>9 DEF Redirects
  <2>3. \A x \in Nodes : u.parent[x] = IF x = e THEN e ELSE b.parent[x]
    BY <1>10, Zenon DEF Inits
  <2> QED BY <1>2, <2>1, <2>2, <2>3, Zenon
<1>13. \A x \in Nodes : u.color[x] = IF x = e THEN Red ELSE t.color[x]
  <2>1. b.color = t.color
    BY <1>8, <1>9 DEF SetsParent, Redirects
  <2> QED BY <1>10, <2>1, Zenon DEF Inits
<1>14. \A z \in Sides : \A x \in Nodes :
         u.child[z][x] = IF x = e THEN Nil ELSE IF t.child[z][x] = e THEN c ELSE t.child[z][x]
  <2>1. a.child = t.child
    BY <1>8 DEF SetsParent
  <2>2. \A z \in Sides : \A x \in Nodes : x = p /\ z = SideOf(a, p, e) <=> t.child[z][x] = e
    <3>1. SideOf(a, p, e) = SideOf(t, p, e)
      BY <2>1 DEF SideOf
    <3>2. \A z \in Sides : \A x \in Nodes : t.child[z][x] = e => x = p /\ z = SideOf(t, p, e) /\ p # Nil
      BY <1>2, ParentFacts, NilAssumption
    <3>3. p # Nil => t.child[SideOf(t, p, e)][p] = e
      BY <1>2, ParentFacts
    <3> QED BY <3>1, <3>2, <3>3, NilAssumption
  <2>3. \A z \in Sides : \A x \in Nodes : u.child[z][x] = IF x = e THEN Nil ELSE b.child[z][x]
    BY <1>10, Zenon DEF Inits
  <2>4. \A z \in Sides : \A x \in Nodes :
           b.child[z][x] = IF x = p /\ z = SideOf(a, p, e) THEN c ELSE a.child[z][x]
    BY <1>9 DEF Redirects
  <2> QED BY <2>1, <2>2, <2>3, <2>4
<1>15. u \in Trees
  BY <1>10 DEF Inits
<1>16. Removes(t, u, e, c)
  BY <1>11, <1>12, <1>13, <1>14, <1>15 DEF Removes
<1> QED BY <1>1, <1>7, <1>16


\* What is below a node once n is linked below p.
LinkedBelow(D, n, p) ==
    [x \in NodeOrNil |-> IF x = n THEN {n} ELSE IF p \in D[x] THEN D[x] \cup {n} ELSE D[x]]

\* Linking a node where the order of the keys wants it adds it to the tree.
LEMMA LinkShape ==
    ASSUME NEW t, NEW D, Shape(t, D), NEW n \in Nodes, n \notin InTree(t),
           NEW p \in NodeOrNil, NEW s \in Sides,
           p = Nil => t.root = Nil,
           p # Nil => p \in InTree(t) /\ t.child[s][p] = Nil /\ Beyond(s, n, p),
           \A a \in InTree(t) : \A z \in Sides : p \in D[t.child[z][a]] => Beyond(z, n, a),
           NEW u, Links(t, u, n, p, s)
    PROVE  InTree(u) = InTree(t) \cup {n} /\ Shape(u, LinkedBelow(D, n, p))
<1>1. PICK E : E = LinkedBelow(D, n, p)
  OBVIOUS
<1>2. /\ t \in Trees /\ IsFiniteSet(InTree(t)) /\ InTree(t) \subseteq Nodes
      /\ D \in [NodeOrNil -> SUBSET InTree(t)] /\ D[Nil] = {} /\ D[t.root] = InTree(t)
  BY TreeTypes DEF Shape, Ordered
<1>3. n # Nil /\ p # n /\ n \in NodeOrNil
  BY <1>2, NilAssumption DEF NodeOrNil
<1>4. /\ u \in Trees /\ u.root = IF p = Nil THEN n ELSE t.root
      /\ \A x \in Nodes : u.parent[x] = IF x = n THEN p ELSE t.parent[x]
  BY DEF Links
<1>5. \A z \in Sides : \A x \in Nodes :
         u.child[z][x] = IF x = n THEN Nil ELSE IF x = p /\ z = s THEN n ELSE t.child[z][x]
  BY Zenon DEF Links
<1>6. InTree(u) = InTree(t) \cup {n}
  BY <1>3, <1>4 DEF InTree
<1>7. \A x \in InTree(t) : \A z \in Sides :
        /\ t.child[z][x] # Nil => /\ t.child[z][x] \in InTree(t) /\ t.parent[t.child[z][x]] = x
                                  /\ t.child[z][x] # t.child[Opposite(z)][x]
        /\ t.child[z][x] # n /\ t.child[z][x] \in NodeOrNil
  BY <1>2, <1>3, NodeFacts, TreeTypes
<1>8. \A x \in InTree(t) : /\ t.parent[x] = Nil <=> t.root = x
                           /\ t.parent[x] # Nil => /\ t.parent[x] \in InTree(t)
                                                   /\ \E z \in Sides : t.child[z][t.parent[x]] = x
                           /\ t.root \in InTree(t) /\ t.root # Nil
  BY <1>2, NilAssumption, ParentFacts
<1>9. p = Nil => InTree(t) = {}
  BY <1>2
<1>10. u.root \in InTree(u) /\ u.parent[u.root] = Nil
  <2>1. CASE p = Nil
    BY <1>4, <1>6, <2>1
  <2>2. CASE p # Nil
    <3>1. t.root \in InTree(t) /\ t.parent[t.root] = Nil /\ t.root \in Nodes /\ t.root # n
      BY <1>2, <1>8, <2>2
    <3> QED BY <1>4, <1>6, <2>2, <3>1
  <2> QED BY <2>1, <2>2
<1>11. ASSUME NEW x \in InTree(u), u.parent[x] = Nil PROVE u.root = x
  <2>1. CASE x = n
    BY <1>4, <1>11, <2>1
  <2>2. CASE x # n
    <3>1. x \in InTree(t) /\ u.parent[x] = t.parent[x]
      BY <1>2, <1>4, <1>6, <2>2
    <3> QED BY <1>4, <1>8, <1>9, <1>11, <3>1
  <2> QED BY <2>1, <2>2
<1>12. ASSUME NEW x \in InTree(u), u.parent[x] # Nil
       PROVE  u.parent[x] \in InTree(u) /\ \E z \in Sides : u.child[z][u.parent[x]] = x
  <2>1. CASE x = n
    <3>1. u.parent[x] = p /\ p # Nil /\ p \in InTree(t) /\ p \in Nodes
      BY <1>2, <1>4, <1>12, <2>1
    <3>2. u.child[s][p] = n
      BY <1>3, <1>5, <3>1
    <3> QED BY <1>6, <2>1, <3>1, <3>2
  <2>2. CASE x # n
    <3>1. x \in InTree(t) /\ u.parent[x] = t.parent[x] /\ x # Nil
      BY <1>2, <1>4, <1>6, <2>2, NilAssumption
    <3>2. PICK z \in Sides : t.child[z][t.parent[x]] = x
      BY <1>8, <1>12, <3>1
    <3>3. t.parent[x] \in InTree(t) /\ t.parent[x] \in Nodes /\ t.parent[x] # n
      BY <1>2, <1>8, <1>12, <3>1
    <3>4. ~ (t.parent[x] = p /\ z = s)
      BY <1>3, <3>1, <3>2, <3>3, NilAssumption
    <3>5. u.child[z][t.parent[x]] = x
      BY <1>5, <3>2, <3>3, <3>4
    <3> QED BY <1>6, <3>1, <3>3, <3>5
  <2> QED BY <2>1, <2>2
<1>13. ASSUME NEW x \in InTree(u), NEW z \in Sides, u.child[z][x] # Nil
       PROVE  /\ u.child[z][x] \in InTree(u) /\ u.parent[u.child[z][x]] = x
              /\ u.child[z][x] # u.child[Opposite(z)][x]
  <2>1. x # n /\ x \in InTree(t) /\ x \in Nodes
    BY <1>2, <1>5, <1>6, <1>13
  <2>2. Opposite(z) \in Sides /\ Opposite(z) # z
    BY SideFacts
  <2>3. CASE x = p /\ z = s
    <3>1. u.child[z][x] = n
      BY <1>5, <2>1, <2>3
    <3>2. u.child[Opposite(z)][x] = t.child[Opposite(z)][x]
      BY <1>5, <2>1, <2>2, <2>3
    <3>3. u.parent[n] = x
      BY <1>4, <2>3
    <3> QED BY <1>6, <1>7, <2>1, <2>2, <3>1, <3>2, <3>3
  <2>4. CASE ~ (x = p /\ z = s)
    <3>1. u.child[z][x] = t.child[z][x]
      BY <1>5, <2>1, <2>4
    <3>2. t.child[z][x] \in InTree(t) /\ t.parent[t.child[z][x]] = x /\ t.child[z][x] # n
          /\ t.child[z][x] # t.child[Opposite(z)][x] /\ t.child[z][x] \in Nodes
      BY <1>2, <1>7, <1>13, <2>1, <3>1
    <3>3. u.parent[t.child[z][x]] = x
      BY <1>4, <3>2
    <3>4. u.child[Opposite(z)][x] = n \/ u.child[Opposite(z)][x] = t.child[Opposite(z)][x]
      BY <1>5, <2>1, <2>2
    <3> QED BY <1>6, <3>1, <3>2, <3>3, <3>4
  <2> QED BY <2>3, <2>4
<1>14. \A x \in Nodes \ InTree(u) : \A z \in Sides : u.child[z][x] = Nil
  <2>1. \A x \in Nodes \ InTree(t) : \A z \in Sides : t.child[z][x] = Nil
    BY DEF Shape, LinkedTree
  <2>2. p # Nil => p \in InTree(u)
    BY <1>6
  <2>3. \A x \in Nodes \ InTree(u) : x # n /\ x # p /\ x \notin InTree(t)
    BY <1>6, <2>2, NilAssumption
  <2> QED BY <1>5, <2>1, <2>3
<1>15. LinkedTree(u)
  BY <1>10, <1>11, <1>12, <1>13, <1>14 DEF LinkedTree
<1>16. E = [x \in NodeOrNil |-> IF x = n THEN {n} ELSE IF p \in D[x] THEN D[x] \cup {n} ELSE D[x]]
  BY <1>1 DEF LinkedBelow
<1>17. \A x \in NodeOrNil : E[x] = IF x = n THEN {n} ELSE IF p \in D[x] THEN D[x] \cup {n} ELSE D[x]
  BY <1>16
<1>18. E \in [NodeOrNil -> SUBSET InTree(u)]
  BY <1>2, <1>6, <1>16
<1>19. E[Nil] = {} /\ E[u.root] = InTree(u)
  <2>1. E[Nil] = {}
    <3>1. Nil \in NodeOrNil /\ Nil # n /\ D[Nil] = {}
      BY <1>2, <1>3 DEF NodeOrNil
    <3>2. p \notin D[Nil]
      BY <3>1
    <3>3. E[Nil] = D[Nil]
      BY <1>17, <3>1, <3>2
    <3> QED BY <3>1, <3>3
  <2>2. CASE p = Nil
    <3>1. u.root = n /\ InTree(u) = {n}
      BY <1>4, <1>6, <1>9, <2>2
    <3>2. E[n] = {n}
      BY <1>3, <1>17
    <3> QED BY <2>1, <3>1, <3>2
  <2>3. CASE p # Nil
    <3>1. t.root \in NodeOrNil /\ t.root # n /\ p \in D[t.root]
      BY <1>2, <1>8, <2>3 DEF NodeOrNil
    <3> QED BY <1>2, <1>4, <1>6, <1>17, <2>1, <2>3, <3>1
  <2> QED BY <2>1, <2>2, <2>3
<1>20. ASSUME NEW x \in InTree(t), NEW z \in Sides, ~ (x = p /\ z = s)
       PROVE  /\ u.child[z][x] = t.child[z][x]
              /\ E[u.child[z][x]] = IF p \in D[t.child[z][x]] THEN D[t.child[z][x]] \cup {n} ELSE D[t.child[z][x]]
  <2>1. x \in Nodes /\ x # n /\ t.child[z][x] \in NodeOrNil /\ t.child[z][x] # n
    BY <1>2, <1>7
  <2>2. u.child[z][x] = t.child[z][x]
    BY <1>5, <1>20, <2>1
  <2> QED BY <1>17, <2>1, <2>2
<1>21. ASSUME NEW x \in InTree(u)
       PROVE  E[x] = {x} \cup E[u.child[s][x]] \cup E[u.child[Opposite(s)][x]]
  <2>0. Opposite(s) \in Sides /\ Opposite(s) # s
    BY SideFacts
  <2>1. CASE x = n
    <3>1. u.child[s][n] = Nil /\ u.child[Opposite(s)][n] = Nil
      BY <1>5, <2>0
    <3> QED BY <1>3, <1>17, <1>19, <2>1, <3>1
  <2>2. CASE x = p
    <3>1. x \in InTree(t) /\ x \in NodeOrNil /\ x # n
      BY <1>2, <1>3, <1>6, <2>2
    <3>2. u.child[s][x] = n /\ t.child[s][x] = Nil
      BY <1>2, <1>3, <1>5, <2>2, <3>1, NilAssumption
    <3>3. /\ D[x] = {x} \cup D[t.child[s][x]] \cup D[t.child[Opposite(s)][x]]
          /\ x \notin D[t.child[Opposite(s)][x]] /\ D[Nil] = {}
      <4>1. D[x] = {x} \cup D[t.child[s][x]] \cup D[t.child[Opposite(s)][x]] /\ D[Nil] = {}
        BY <3>1, NodeFacts
      <4>2. x \notin D[t.child[Opposite(s)][x]]
        BY <2>0, <3>1, NodeFacts
      <4> QED BY <4>1, <4>2
    <3>4. E[u.child[Opposite(s)][x]] = D[t.child[Opposite(s)][x]]
      <4>1. p \notin D[t.child[Opposite(s)][x]]
        BY <2>2, <3>3
      <4>2. Opposite(s) \in Sides /\ ~ (x = p /\ Opposite(s) = s)
        BY <2>0
      <4> QED BY <1>20, <3>1, <4>1, <4>2
    <3>5. E[x] = D[x] \cup {n} /\ E[n] = {n}
      BY <1>3, <1>17, <2>2, <3>1, <3>3
    <3> QED BY <3>2, <3>3, <3>4, <3>5
  <2>3. CASE x # n /\ x # p
    <3>1. x \in InTree(t) /\ x \in NodeOrNil
      BY <1>2, <1>6, <2>3 DEF NodeOrNil
    <3>2. D[x] = {x} \cup D[t.child[s][x]] \cup D[t.child[Opposite(s)][x]]
      BY <3>1, NodeFacts
    <3>3. p \in D[x] <=> p \in D[t.child[s][x]] \/ p \in D[t.child[Opposite(s)][x]]
      BY <2>3, <3>2
    <3>4. E[x] = IF p \in D[x] THEN D[x] \cup {n} ELSE D[x]
      BY <1>17, <2>3, <3>1
    <3> QED BY <1>20, <2>0, <2>3, <3>1, <3>2, <3>3, <3>4
  <2> QED BY <2>1, <2>2, <2>3
<1>22. ASSUME NEW x \in InTree(u)
       PROVE  E[x] = {x} \cup E[u.child[Left][x]] \cup E[u.child[Right][x]]
  <2>1. (s = Left /\ Opposite(s) = Right) \/ (s = Right /\ Opposite(s) = Left)
    BY DEF Sides, Opposite, Left, Right
  <2> QED BY <1>21, <2>1
<1>23. ASSUME NEW x \in InTree(u), NEW z \in Sides, NEW y \in E[u.child[z][x]]
       PROVE  Beyond(z, y, x)
  <2>1. x # n /\ x \in InTree(t)
    <3>1. u.child[z][n] = Nil
      BY <1>5
    <3> QED BY <1>6, <1>19, <1>23, <3>1
  <2>2. CASE x = p /\ z = s
    <3>1. u.child[z][x] = n
      BY <1>2, <1>5, <2>1, <2>2
    <3>2. x # Nil
      BY <1>2, <2>1, NilAssumption
    <3>3. E[n] = {n}
      BY <1>3, <1>17
    <3>4. y = n
      BY <1>23, <3>1, <3>3
    <3> QED BY <2>2, <3>2, <3>4
  <2>3. CASE ~ (x = p /\ z = s)
    <3>1. y \in D[t.child[z][x]] \/ (y = n /\ p \in D[t.child[z][x]])
      <4>1. E[u.child[z][x]] = IF p \in D[t.child[z][x]] THEN D[t.child[z][x]] \cup {n} ELSE D[t.child[z][x]]
        BY <1>20, <2>1, <2>3
      <4> QED BY <1>23, <4>1
    <3> QED BY <2>1, <3>1, NodeFacts
  <2> QED BY <2>2, <2>3
<1>24. Ordered(u, E)
  BY <1>18, <1>19, <1>22, <1>23 DEF Ordered
<1>25. IsFiniteSet(InTree(u))
  BY <1>2, <1>6, FS_AddElement
<1> QED BY <1>1, <1>4, <1>6, <1>15, <1>24, <1>25 DEF Shape


\* A node that has one child at most leaves the tree, and what is below the
\* others loses it.
LEMMA RemoveShape ==
    ASSUME NEW t, NEW D, Shape(t, D), NEW e \in InTree(t), NEW s \in Sides,
           t.child[Opposite(s)][e] = Nil, NEW u, Removes(t, u, e, t.child[s][e])
    PROVE  InTree(u) = InTree(t) \ {e} /\ Shape(u, [x \in NodeOrNil |-> D[x] \ {e}])
<1>1. PICK c : c = t.child[s][e]
  OBVIOUS
<1>2. PICK E : E = [x \in NodeOrNil |-> D[x] \ {e}]
  OBVIOUS
<1>3. /\ t \in Trees /\ IsFiniteSet(InTree(t)) /\ InTree(t) \subseteq Nodes /\ e \in Nodes
      /\ D \in [NodeOrNil -> SUBSET InTree(t)] /\ D[Nil] = {} /\ D[t.root] = InTree(t)
  BY TreeTypes DEF Shape, Ordered
<1>4. /\ u \in Trees /\ u.root = IF t.root = e THEN c ELSE t.root
      /\ \A x \in Nodes : u.parent[x] = IF x = e THEN e ELSE IF x = c THEN t.parent[e] ELSE t.parent[x]
  BY <1>1 DEF Removes
<1>5. \A z \in Sides : \A x \in Nodes :
        u.child[z][x] = IF x = e THEN Nil ELSE IF t.child[z][x] = e THEN c ELSE t.child[z][x]
  BY <1>1, Zenon DEF Removes
<1>6. /\ e # Nil /\ c \in NodeOrNil /\ c # e /\ t.parent[e] # e
      /\ c # Nil => c \in InTree(t) /\ t.parent[c] = e /\ c \in Nodes /\ t.parent[e] # c
      /\ D[e] \ {e} = D[c] \ {e}
  <2>1. e # Nil /\ c \in NodeOrNil /\ c # e /\ (c # Nil => c \in InTree(t) /\ t.parent[c] = e)
    BY <1>1, <1>3, NodeFacts, TreeTypes, NilAssumption
  <2>2. t.parent[e] # e /\ (t.parent[e] # Nil => t.parent[t.parent[e]] # e)
    BY ParentFacts
  <2>3. D[e] = {e} \cup D[c] \cup D[Nil]
    BY <1>1, NodeFacts
  <2>4. D[e] \ {e} = D[c] \ {e}
    BY <1>3, <2>3
  <2> QED BY <1>3, <2>1, <2>2, <2>4
<1>7. \A x \in InTree(t) : \A z \in Sides :
        /\ t.child[z][x] # Nil => /\ t.child[z][x] \in InTree(t) /\ t.parent[t.child[z][x]] = x
                                  /\ t.child[z][x] # t.child[Opposite(z)][x]
        /\ t.child[z][x] \in NodeOrNil
  BY <1>3, NodeFacts, TreeTypes
<1>8. \A x \in InTree(t) : /\ t.parent[x] = Nil <=> t.root = x
                           /\ t.parent[x] # Nil => /\ t.parent[x] \in InTree(t)
                                                   /\ \E z \in Sides : t.child[z][t.parent[x]] = x
                           /\ t.root \in InTree(t) /\ t.root # Nil
  BY <1>3, NilAssumption, ParentFacts
<1>9. InTree(u) = InTree(t) \ {e}
  <2>1. ASSUME NEW x \in Nodes PROVE u.parent[x] # x <=> t.parent[x] # x /\ x # e
    <3>1. CASE x = c
      <4>1. x # e /\ t.parent[x] # x /\ t.parent[e] # x
        BY <1>3, <1>6, <3>1, NilAssumption
      <4> QED BY <1>4, <3>1, <4>1
    <3>2. CASE x # c
      BY <1>4, <3>2
    <3> QED BY <3>1, <3>2
  <2>2. InTree(u) = {x \in Nodes : u.parent[x] # x} /\ InTree(t) = {x \in Nodes : t.parent[x] # x}
    BY DEF InTree
  <2> QED BY <1>3, <2>1, <2>2
<1>10. u.root # Nil => u.root \in InTree(u) /\ u.parent[u.root] = Nil
  <2>1. CASE t.root = e
    <3>1. t.parent[e] = Nil
      BY <1>8, <2>1
    <3> QED BY <1>4, <1>6, <1>9, <2>1, <3>1
  <2>2. CASE t.root # e
    <3>1. t.root \in InTree(t) /\ t.parent[t.root] = Nil /\ t.root \in Nodes
      BY <1>3, <1>8
    <3>2. t.root # c
      BY <1>3, <1>6, <3>1, NilAssumption
    <3> QED BY <1>4, <1>9, <2>2, <3>1, <3>2
  <2> QED BY <2>1, <2>2
<1>11. ASSUME NEW x \in InTree(u), u.parent[x] = Nil PROVE u.root = x
  <2>1. x \in InTree(t) /\ x # e /\ x \in Nodes
    BY <1>3, <1>9
  <2>2. CASE x = c
    BY <1>4, <1>8, <1>11, <2>1, <2>2
  <2>3. CASE x # c
    BY <1>4, <1>8, <1>11, <2>1, <2>3
  <2> QED BY <2>2, <2>3
<1>12. ASSUME NEW x \in InTree(u), u.parent[x] # Nil
       PROVE  u.parent[x] \in InTree(u) /\ \E z \in Sides : u.child[z][u.parent[x]] = x
  <2>1. x \in InTree(t) /\ x # e /\ x \in Nodes /\ x # Nil
    BY <1>3, <1>9, NilAssumption
  <2>2. CASE x = c
    <3>1. u.parent[x] = t.parent[e]
      BY <1>4, <2>1, <2>2
    <3>2. PICK z \in Sides : t.child[z][t.parent[e]] = e
      BY <1>8, <1>12, <3>1
    <3>3. t.parent[e] \in InTree(t) /\ t.parent[e] \in Nodes /\ t.parent[e] # e
      BY <1>3, <1>6, <1>8, <1>12, <3>1
    <3>4. u.child[z][t.parent[e]] = c
      BY <1>5, <3>2, <3>3
    <3> QED BY <1>9, <2>2, <3>1, <3>3, <3>4
  <2>3. CASE x # c
    <3>1. u.parent[x] = t.parent[x]
      BY <1>4, <2>1, <2>3
    <3>2. PICK z \in Sides : t.child[z][t.parent[x]] = x
      BY <1>8, <1>12, <2>1, <3>1
    <3>3. t.parent[x] \in InTree(t) /\ t.parent[x] \in Nodes
      BY <1>3, <1>8, <1>12, <2>1, <3>1
    <3>4. t.parent[x] # e
      <4>1. z = s \/ z = Opposite(s)
        BY SideFacts
      <4> QED BY <1>1, <2>1, <2>3, <3>2, <4>1
    <3>5. u.child[z][t.parent[x]] = x
      BY <1>5, <2>1, <3>2, <3>3, <3>4
    <3> QED BY <1>9, <3>1, <3>3, <3>4, <3>5
  <2> QED BY <2>2, <2>3
<1>13. ASSUME NEW x \in InTree(u), NEW z \in Sides, u.child[z][x] # Nil
       PROVE  /\ u.child[z][x] \in InTree(u) /\ u.parent[u.child[z][x]] = x
              /\ u.child[z][x] # u.child[Opposite(z)][x]
  <2>1. x \in InTree(t) /\ x # e /\ x \in Nodes
    BY <1>3, <1>9
  <2>2. \A y \in Sides : u.child[y][x] = IF t.child[y][x] = e THEN c ELSE t.child[y][x]
    BY <1>5, <2>1
  <2>3. Opposite(z) \in Sides
    BY SideFacts
  <2>4. \A y \in Sides : c # Nil => t.child[y][x] # c
    BY <1>6, <1>7, <2>1
  <2>5. CASE t.child[z][x] = e
    <3>1. u.child[z][x] = c /\ c # Nil
      BY <1>13, <2>2, <2>5
    <3>2. t.child[Opposite(z)][x] # e /\ t.parent[e] = x
      BY <1>6, <1>7, <2>1, <2>5
    <3>3. u.child[Opposite(z)][x] # c
      BY <2>2, <2>3, <2>4, <3>1, <3>2
    <3>4. u.parent[c] = x
      BY <1>4, <1>6, <3>1, <3>2
    <3> QED BY <1>6, <1>9, <3>1, <3>3, <3>4
  <2>6. CASE t.child[z][x] # e
    <3>1. u.child[z][x] = t.child[z][x]
      BY <2>2, <2>6
    <3>2. /\ t.child[z][x] \in InTree(t) /\ t.parent[t.child[z][x]] = x /\ t.child[z][x] \in Nodes
          /\ t.child[z][x] # t.child[Opposite(z)][x]
      BY <1>3, <1>7, <1>13, <2>1, <3>1
    <3>3. t.child[z][x] # c
      BY <1>13, <2>4, <3>1
    <3>4. u.parent[t.child[z][x]] = x
      BY <1>4, <2>6, <3>2, <3>3
    <3>5. u.child[Opposite(z)][x] = c \/ u.child[Opposite(z)][x] = t.child[Opposite(z)][x]
      BY <2>2, <2>3
    <3> QED BY <1>9, <2>6, <3>1, <3>2, <3>3, <3>4, <3>5
  <2> QED BY <2>5, <2>6
<1>14. \A x \in Nodes \ InTree(u) : \A z \in Sides : u.child[z][x] = Nil
  <2>1. \A x \in Nodes \ InTree(t) : \A z \in Sides : t.child[z][x] = Nil
    BY DEF Shape, LinkedTree
  <2>2. \A x \in Nodes \ InTree(u) : x = e \/ x \notin InTree(t)
    BY <1>9
  <2> QED BY <1>5, <1>6, <2>1, <2>2
<1>15. LinkedTree(u)
  BY <1>10, <1>11, <1>12, <1>13, <1>14 DEF LinkedTree
<1>16. \A x \in NodeOrNil : E[x] = D[x] \ {e}
  BY <1>2
<1>17. E \in [NodeOrNil -> SUBSET InTree(u)]
  BY <1>2, <1>3, <1>9
<1>18. E[Nil] = {}
  <2>1. Nil \in NodeOrNil
    BY DEF NodeOrNil
  <2> QED BY <1>3, <1>16, <2>1
<1>19. E[u.root] = InTree(u)
  <2>1. t.root \in NodeOrNil
    BY <1>3, TreeTypes
  <2>2. CASE t.root = e
    <3>1. E[c] = D[c] \ {e} /\ InTree(u) = D[e] \ {e}
      BY <1>3, <1>6, <1>9, <1>16, <2>2
    <3> QED BY <1>4, <1>6, <2>2, <3>1
  <2>3. CASE t.root # e
    BY <1>3, <1>4, <1>9, <1>16, <2>1, <2>3
  <2> QED BY <2>2, <2>3
<1>20. ASSUME NEW x \in InTree(u), NEW z \in Sides
       PROVE  E[u.child[z][x]] = D[t.child[z][x]] \ {e}
  <2>1. x \in InTree(t) /\ x # e /\ x \in Nodes /\ t.child[z][x] \in NodeOrNil
    BY <1>3, <1>7, <1>9
  <2>2. CASE t.child[z][x] = e
    <3>1. u.child[z][x] = c
      BY <1>5, <2>1, <2>2
    <3> QED BY <1>6, <1>16, <2>2, <3>1
  <2>3. CASE t.child[z][x] # e
    <3>1. u.child[z][x] = t.child[z][x]
      BY <1>5, <2>1, <2>3
    <3> QED BY <1>16, <2>1, <3>1
  <2> QED BY <2>2, <2>3
<1>21. ASSUME NEW x \in InTree(u)
       PROVE  E[x] = {x} \cup E[u.child[Left][x]] \cup E[u.child[Right][x]]
  <2>1. x \in InTree(t) /\ x # e /\ x \in NodeOrNil
    BY <1>3, <1>9 DEF NodeOrNil
  <2>2. D[x] = {x} \cup D[t.child[Left][x]] \cup D[t.child[Right][x]]
    BY <2>1 DEF Shape, Ordered
  <2>3. E[x] = D[x] \ {e}
    BY <1>16, <2>1
  <2>4. /\ E[u.child[Left][x]] = D[t.child[Left][x]] \ {e}
        /\ E[u.child[Right][x]] = D[t.child[Right][x]] \ {e}
    BY <1>20 DEF Sides
  <2> QED BY <2>1, <2>2, <2>3, <2>4
<1>22. ASSUME NEW x \in InTree(u), NEW z \in Sides, NEW y \in E[u.child[z][x]]
       PROVE  Beyond(z, y, x)
  <2>1. y \in D[t.child[z][x]] /\ x \in InTree(t)
    BY <1>9, <1>20, <1>22
  <2> QED BY <2>1, NodeFacts
<1>23. Ordered(u, E)
  BY <1>17, <1>18, <1>19, <1>21, <1>22 DEF Ordered
<1>24. IsFiniteSet(InTree(u))
  BY <1>3, <1>9, FS_Subset
<1> QED BY <1>2, <1>4, <1>9, <1>15, <1>23, <1>24 DEF Shape


\* What replacing v by n makes of t.
Replaces(t, u, v, n) ==
    /\ u \in Trees
    /\ u.root = IF t.root = v THEN n ELSE t.root
    /\ \A x \in Nodes : u.parent[x] = IF x = v THEN v ELSE IF x = n THEN t.parent[v]
                                      ELSE IF t.parent[x] = v THEN n ELSE t.parent[x]
    /\ \A x \in Nodes : u.color[x] = IF x = v THEN Red ELSE IF x = n THEN t.color[v] ELSE t.color[x]
    /\ \A z \in Sides : \A x \in Nodes :
         u.child[z][x] = IF x = v THEN Nil ELSE IF x = n THEN t.child[z][v]
                         ELSE IF t.child[z][x] = v THEN n ELSE t.child[z][x]

\* The child pointer that leads to a node.
LEMMA PointerTo ==
    ASSUME NEW t, NEW D, Shape(t, D), NEW n \in InTree(t)
    PROVE  \A z \in Sides : \A x \in Nodes :
             x = t.parent[n] /\ z = SideOf(t, t.parent[n], n) <=> t.child[z][x] = n
<1>1. \A z \in Sides : \A x \in Nodes :
        t.child[z][x] = n => x = t.parent[n] /\ z = SideOf(t, t.parent[n], n) /\ t.parent[n] # Nil
  BY ParentFacts, NilAssumption
<1>2. t.parent[n] # Nil => t.child[SideOf(t, t.parent[n], n)][t.parent[n]] = n
  BY ParentFacts
<1> QED BY <1>1, <1>2, NilAssumption

\* The nodes whose parent is n are its children.
LEMMA ChildrenOf ==
    ASSUME NEW t, NEW D, Shape(t, D), NEW n \in InTree(t), NEW s \in Sides
    PROVE  \A x \in Nodes : t.parent[x] = n <=> (x = t.child[s][n] \/ x = t.child[Opposite(s)][n])
<1>1. ASSUME NEW x \in Nodes, t.parent[x] = n PROVE x = t.child[s][n] \/ x = t.child[Opposite(s)][n]
  <2>1. x \in InTree(t) /\ t.parent[x] # Nil
    <3>1. t.parent[n] # n /\ n # Nil
      BY ParentFacts, NodeFacts
    <3> QED BY <1>1, <3>1 DEF InTree
  <2>2. t.child[SideOf(t, n, x)][n] = x /\ SideOf(t, n, x) \in Sides
    BY <1>1, <2>1, ParentFacts
  <2> QED BY <2>2, SideFacts
<1>2. ASSUME NEW z \in Sides, NEW x \in Nodes, x = t.child[z][n] PROVE t.parent[x] = n
  <2>1. t.child[z][n] # Nil
    BY <1>2, NilAssumption
  <2> QED BY <1>2, <2>1, NodeFacts
<1> QED BY <1>1, <1>2, SideFacts, Zenon

LEMMA ReplacePoints ==
    ASSUME NEW t, NEW D, Shape(t, D), NEW v \in InTree(t), NEW n \in Nodes, n \notin InTree(t)
    PROVE  Replaces(t, rb_init_node(rb_replace_node(t, v, n), v), v, n)
<1>1. PICK p : p = t.parent[v]
  OBVIOUS
<1>2. PICK l : l = t.child[Left][v]
  OBVIOUS
<1>3. PICK r : r = t.child[Right][v]
  OBVIOUS
<1>4. Left \in Sides /\ Right \in Sides /\ \A z \in Sides : z = Left \/ z = Right
  BY DEF Sides
<1>5. /\ t \in Trees /\ v \in Nodes /\ v # n /\ n \in NodeOrNil /\ v \in NodeOrNil
      /\ p \in NodeOrNil /\ p # v /\ p # n /\ l \in NodeOrNil /\ r \in NodeOrNil
      /\ l # v /\ r # v /\ l # n /\ r # n /\ t.color[v] \in {Red, Black}
  <2>1. t \in Trees /\ v \in Nodes /\ v # n /\ n \in NodeOrNil /\ v \in NodeOrNil /\ n # Nil /\ v # Nil
    BY TreeTypes, NilAssumption DEF Shape, NodeOrNil
  <2>2. p \in NodeOrNil /\ p # v /\ p # n
    BY <1>1, <2>1, TreeTypes, ParentFacts
  <2>3. \A z \in Sides : t.child[z][v] \in NodeOrNil /\ t.child[z][v] # v /\ t.child[z][v] # n
    BY <2>1, TreeTypes, NodeFacts
  <2>4. t.color[v] \in {Red, Black}
    BY <2>1, TreeTypes
  <2> QED BY <1>2, <1>3, <1>4, <2>1, <2>2, <2>3, <2>4
<1>6. PICK a : a = Redirect(t, p, v, n)
  OBVIOUS
<1>7. PICK b : b = SetParent(a, l, n)
  OBVIOUS
<1>8. PICK c : c = SetParent(b, r, n)
  OBVIOUS
<1>9. PICK d : d = Place(c, n, c.parent[v], c.color[v], l, r)
  OBVIOUS
<1>10. PICK u : u = rb_init_node(d, v)
  OBVIOUS
<1>11. rb_init_node(rb_replace_node(t, v, n), v) = u
  <2>1. rb_replace_node(t, v, n) = d
    BY <1>1, <1>2, <1>3, <1>6, <1>7, <1>8, <1>9, Zenon DEF rb_replace_node, Place
  <2> QED BY <1>10, <2>1, Zenon
<1>12. Redirects(t, a, p, v, n)
  BY <1>5, <1>6, RedirectPoints
<1>13. SetsParent(a, b, l, n)
  <2>1. a \in Trees
    BY <1>12 DEF Redirects
  <2> QED BY <1>5, <1>7, <2>1, SetParentPoints
<1>14. SetsParent(b, c, r, n)
  <2>1. b \in Trees
    BY <1>13 DEF SetsParent
  <2> QED BY <1>5, <1>8, <2>1, SetParentPoints
<1>15. c \in Trees /\ c.color = t.color /\ c.parent[v] = p /\ c.root = a.root /\ c.child = a.child
  <2>1. c \in Trees /\ c.color = t.color /\ c.root = a.root /\ c.child = a.child
    BY <1>12, <1>13, <1>14 DEF Redirects, SetsParent
  <2>2. c.parent[v] = b.parent[v] /\ b.parent[v] = a.parent[v]
    BY <1>5, <1>13, <1>14 DEF SetsParent
  <2>3. a.parent = t.parent
    BY <1>12 DEF Redirects
  <2> QED BY <1>1, <2>1, <2>2, <2>3
<1>16. Places(c, d, n, p, t.color[v], l, r)
  <2>1. d = Place(c, n, p, t.color[v], l, r)
    BY <1>9, <1>15
  <2> QED BY <1>5, <1>15, <2>1, PlacePoints
<1>17. Inits(d, u, v)
  <2>1. d \in Trees
    BY <1>16 DEF Places
  <2> QED BY <1>5, <1>10, <2>1, InitPoints
<1>18. u \in Trees
  BY <1>17 DEF Inits
<1>19. u.root = IF t.root = v THEN n ELSE t.root
  <2>1. u.root = IF p = Nil THEN n ELSE t.root
    BY <1>12, <1>15, <1>16, <1>17 DEF Redirects, Places, Inits
  <2> QED BY <1>1, <2>1, ParentFacts
<1>20. \A x \in Nodes : u.parent[x] = IF x = v THEN v ELSE IF x = n THEN t.parent[v]
                                      ELSE IF t.parent[x] = v THEN n ELSE t.parent[x]
  <2>1. \A x \in Nodes : b.parent[x] = IF x = l THEN n ELSE t.parent[x]
    BY <1>12, <1>13, Zenon DEF Redirects, SetsParent
  <2>2. \A x \in Nodes : c.parent[x] = IF x = r THEN n ELSE b.parent[x]
    BY <1>14, Zenon DEF SetsParent
  <2>3. \A x \in Nodes : d.parent[x] = IF x = n THEN p ELSE c.parent[x]
    BY <1>16, Zenon DEF Places
  <2>4. \A x \in Nodes : u.parent[x] = IF x = v THEN v ELSE d.parent[x]
    BY <1>17, Zenon DEF Inits
  <2>5. \A x \in Nodes : t.parent[x] = v <=> x = l \/ x = r
    <3>1. Opposite(Left) = Right
      BY SideFacts, <1>4
    <3>2. \A x \in Nodes : t.parent[x] = v <=> (x = t.child[Left][v] \/ x = t.child[Opposite(Left)][v])
      BY <1>4, ChildrenOf
    <3> QED BY <1>2, <1>3, <3>1, <3>2, Zenon
  <2>6. \A x \in Nodes : c.parent[x] = IF t.parent[x] = v THEN n ELSE t.parent[x]
    BY <2>1, <2>2, <2>5, Zenon
  <2> QED BY <1>1, <2>3, <2>4, <2>6, Zenon
<1>21. \A x \in Nodes : u.color[x] = IF x = v THEN Red ELSE IF x = n THEN t.color[v] ELSE t.color[x]
  <2>1. \A x \in Nodes : d.color[x] = IF x = n THEN t.color[v] ELSE t.color[x]
    BY <1>15, <1>16, Zenon DEF Places
  <2> QED BY <1>17, <2>1, Zenon DEF Inits
<1>22. \A z \in Sides : \A x \in Nodes :
         u.child[z][x] = IF x = v THEN Nil ELSE IF x = n THEN t.child[z][v]
                         ELSE IF t.child[z][x] = v THEN n ELSE t.child[z][x]
  <2>1. \A z \in Sides : \A x \in Nodes : a.child[z][x] = IF t.child[z][x] = v THEN n ELSE t.child[z][x]
    <3>1. \A z \in Sides : \A x \in Nodes :
            a.child[z][x] = IF x = p /\ z = SideOf(t, p, v) THEN n ELSE t.child[z][x]
      BY <1>12 DEF Redirects
    <3> QED BY <1>1, <3>1, PointerTo
  <2>2. \A z \in Sides : \A x \in Nodes :
          d.child[z][x] = IF x = n THEN IF z = Left THEN l ELSE r ELSE a.child[z][x]
    BY <1>15, <1>16, Zenon DEF Places
  <2>3. \A z \in Sides : (IF z = Left THEN l ELSE r) = t.child[z][v]
    BY <1>2, <1>3, <1>4
  <2>4. \A z \in Sides : \A x \in Nodes : u.child[z][x] = IF x = v THEN Nil ELSE d.child[z][x]
    BY <1>17, Zenon DEF Inits
  <2>5. \A z \in Sides : \A x \in Nodes : d.child[z][x] = IF x = n THEN t.child[z][v] ELSE a.child[z][x]
    BY <2>2, <2>3
  <2> QED BY <2>1, <2>4, <2>5
<1>23. Replaces(t, u, v, n)
  BY <1>18, <1>19, <1>20, <1>21, <1>22 DEF Replaces
<1> QED BY <1>11, <1>23


\* What is below a node once n is in the place of v.
Swapped(S, v, n) == IF v \in S THEN (S \ {v}) \cup {n} ELSE S
ReplacedBelow(D, v, n) == [x \in NodeOrNil |-> Swapped(D[IF x = n THEN v ELSE x], v, n)]

LEMMA SwappedNodes ==
    ASSUME NEW S, NEW v, NEW n
    PROVE  \A y : y \in Swapped(S, v, n) <=> (y \in S /\ y # v) \/ (y = n /\ v \in S)
BY DEF Swapped

\* Replacing a node by one that the order of the keys wants in its place.
LEMMA ReplaceShape ==
    ASSUME NEW t, NEW D, Shape(t, D), NEW v \in InTree(t), NEW n \in Nodes, n \notin InTree(t),
           \A z \in Sides : \A x \in D[t.child[z][v]] : Beyond(z, x, n),
           \A a \in InTree(t) : \A z \in Sides : v \in D[t.child[z][a]] => Beyond(z, n, a),
           NEW u, Replaces(t, u, v, n)
    PROVE  InTree(u) = (InTree(t) \ {v}) \cup {n} /\ Shape(u, ReplacedBelow(D, v, n))
<1>1. PICK E : E = ReplacedBelow(D, v, n)
  OBVIOUS
<1>2. /\ t \in Trees /\ IsFiniteSet(InTree(t)) /\ InTree(t) \subseteq Nodes
      /\ D \in [NodeOrNil -> SUBSET InTree(t)] /\ D[Nil] = {} /\ D[t.root] = InTree(t)
  BY TreeTypes DEF Shape, Ordered
<1>3. /\ v \in Nodes /\ v # n /\ v # Nil /\ n # Nil /\ Nil \notin Nodes
      /\ v \in NodeOrNil /\ n \in NodeOrNil /\ Nil \in NodeOrNil
  BY <1>2, NilAssumption DEF NodeOrNil
<1>4. /\ u \in Trees /\ u.root = IF t.root = v THEN n ELSE t.root
      /\ \A x \in Nodes : u.parent[x] = IF x = v THEN v ELSE IF x = n THEN t.parent[v]
                                        ELSE IF t.parent[x] = v THEN n ELSE t.parent[x]
  BY DEF Replaces
<1>5. \A z \in Sides : \A x \in Nodes :
         u.child[z][x] = IF x = v THEN Nil ELSE IF x = n THEN t.child[z][v]
                         ELSE IF t.child[z][x] = v THEN n ELSE t.child[z][x]
  BY Zenon DEF Replaces
<1>6. \A x \in InTree(t) : \A z \in Sides :
        /\ t.child[z][x] # Nil => /\ t.child[z][x] \in InTree(t) /\ t.parent[t.child[z][x]] = x
                                  /\ t.child[z][x] # t.child[Opposite(z)][x]
        /\ t.child[z][x] \in NodeOrNil /\ t.child[z][x] # n /\ t.child[z][x] # x
  BY <1>2, <1>3, NodeFacts, TreeTypes
<1>7. \A x \in InTree(t) : /\ t.parent[x] = Nil <=> t.root = x
                           /\ t.parent[x] # Nil => /\ t.parent[x] \in InTree(t)
                                                   /\ \E z \in Sides : t.child[z][t.parent[x]] = x
                           /\ t.root \in InTree(t) /\ t.root # Nil
                           /\ t.parent[x] # x /\ t.parent[x] # n
  BY <1>2, <1>3, ParentFacts
<1>8. \A x \in Nodes \ InTree(t) : t.parent[x] = x /\ \A z \in Sides : t.child[z][x] = Nil
  BY DEF Shape, LinkedTree, InTree
<1>9. InTree(u) = (InTree(t) \ {v}) \cup {n}
  <2>1. ASSUME NEW x \in Nodes PROVE u.parent[x] # x <=> (x \in InTree(t) /\ x # v) \/ x = n
    <3>1. CASE x = n
      BY <1>3, <1>4, <1>7, <3>1
    <3>2. CASE x # n /\ x \in InTree(t)
      BY <1>4, <1>7, <3>2
    <3>3. CASE x # n /\ x \notin InTree(t)
      BY <1>4, <1>8, <3>3
    <3> QED BY <3>1, <3>2, <3>3
  <2>2. InTree(u) = {x \in Nodes : u.parent[x] # x}
    BY DEF InTree
  <2> QED BY <1>2, <2>1, <2>2
<1>10. u.root # Nil => u.root \in InTree(u) /\ u.parent[u.root] = Nil
  <2>1. CASE t.root = v
    BY <1>3, <1>4, <1>7, <1>9, <2>1
  <2>2. CASE t.root # v
    <3>1. t.root \in InTree(t) /\ t.parent[t.root] = Nil /\ t.root \in Nodes /\ t.root # n
      BY <1>2, <1>7
    <3> QED BY <1>3, <1>4, <1>9, <2>2, <3>1
  <2> QED BY <2>1, <2>2
<1>11. ASSUME NEW x \in InTree(u), u.parent[x] = Nil PROVE u.root = x
  <2>1. CASE x = n
    BY <1>3, <1>4, <1>7, <1>11, <2>1
  <2>2. CASE x # n
    <3>1. x \in InTree(t) /\ x # v /\ x \in Nodes
      BY <1>2, <1>9, <2>2
    <3>2. t.parent[x] = Nil
      BY <1>3, <1>4, <1>11, <2>2, <3>1
    <3> QED BY <1>4, <1>7, <3>1, <3>2
  <2> QED BY <2>1, <2>2
<1>12. ASSUME NEW x \in InTree(u), u.parent[x] # Nil
       PROVE  u.parent[x] \in InTree(u) /\ \E z \in Sides : u.child[z][u.parent[x]] = x
  <2>1. CASE x = n
    <3>1. u.parent[x] = t.parent[v]
      BY <1>3, <1>4, <2>1
    <3>2. PICK z \in Sides : t.child[z][t.parent[v]] = v
      BY <1>7, <1>12, <3>1
    <3>3. t.parent[v] \in InTree(t) /\ t.parent[v] \in Nodes /\ t.parent[v] # v /\ t.parent[v] # n
      BY <1>2, <1>7, <1>12, <3>1
    <3>4. u.child[z][t.parent[v]] = n
      BY <1>5, <3>2, <3>3
    <3> QED BY <1>9, <2>1, <3>1, <3>3, <3>4
  <2>2. CASE x # n
    <3>1. x \in InTree(t) /\ x # v /\ x \in Nodes
      BY <1>2, <1>9, <2>2
    <3>2. CASE t.parent[x] = v
      <4>1. u.parent[x] = n
        BY <1>4, <2>2, <3>1, <3>2
      <4>2. PICK z \in Sides : t.child[z][v] = x
        BY <1>3, <1>7, <3>1, <3>2
      <4>3. u.child[z][n] = x
        BY <1>3, <1>5, <4>2
      <4> QED BY <1>9, <4>1, <4>3
    <3>3. CASE t.parent[x] # v
      <4>1. u.parent[x] = t.parent[x]
        BY <1>4, <2>2, <3>1, <3>3
      <4>2. t.parent[x] \in InTree(t) /\ t.parent[x] \in Nodes /\ t.parent[x] # n
        BY <1>2, <1>7, <1>12, <3>1, <4>1
      <4>3. PICK z \in Sides : t.child[z][t.parent[x]] = x
        BY <1>7, <1>12, <3>1, <4>1
      <4>4. u.child[z][t.parent[x]] = x
        BY <1>5, <3>1, <3>3, <4>2, <4>3
      <4> QED BY <1>9, <3>3, <4>1, <4>2, <4>4
    <3> QED BY <3>2, <3>3
  <2> QED BY <2>1, <2>2
<1>13. ASSUME NEW x \in InTree(u), NEW z \in Sides, u.child[z][x] # Nil
       PROVE  /\ u.child[z][x] \in InTree(u) /\ u.parent[u.child[z][x]] = x
              /\ u.child[z][x] # u.child[Opposite(z)][x]
  <2>1. Opposite(z) \in Sides
    BY SideFacts
  <2>2. CASE x = n
    <3>1. u.child[z][x] = t.child[z][v] /\ u.child[Opposite(z)][x] = t.child[Opposite(z)][v]
      BY <1>3, <1>5, <2>1, <2>2
    <3>2. /\ t.child[z][v] \in InTree(t) /\ t.parent[t.child[z][v]] = v /\ t.child[z][v] \in Nodes
          /\ t.child[z][v] # v /\ t.child[z][v] # n /\ t.child[z][v] # t.child[Opposite(z)][v]
      BY <1>2, <1>6, <1>13, <3>1
    <3>3. u.parent[t.child[z][v]] = n
      BY <1>4, <3>2
    <3> QED BY <1>9, <2>2, <3>1, <3>2, <3>3
  <2>3. CASE x # n
    <3>1. x \in InTree(t) /\ x # v /\ x \in Nodes
      BY <1>2, <1>9, <2>3
    <3>2. \A y \in Sides : u.child[y][x] = IF t.child[y][x] = v THEN n ELSE t.child[y][x]
      BY <1>5, <2>3, <3>1
    <3>3. /\ t.child[z][x] # Nil /\ t.child[z][x] \in InTree(t) /\ t.parent[t.child[z][x]] = x
          /\ t.child[z][x] \in Nodes /\ t.child[z][x] # n /\ t.child[Opposite(z)][x] # n
          /\ t.child[z][x] # t.child[Opposite(z)][x]
      BY <1>2, <1>3, <1>6, <1>13, <2>1, <3>1, <3>2
    <3>4. CASE t.child[z][x] = v
      <4>1. u.child[z][x] = n /\ u.child[Opposite(z)][x] = t.child[Opposite(z)][x]
        BY <2>1, <3>2, <3>3, <3>4
      <4>2. u.parent[n] = x
        BY <1>3, <1>4, <3>3, <3>4
      <4> QED BY <1>9, <3>3, <4>1, <4>2
    <3>5. CASE t.child[z][x] # v
      <4>1. u.child[z][x] = t.child[z][x]
        BY <3>2, <3>5
      <4>2. u.parent[t.child[z][x]] = x
        BY <1>4, <3>1, <3>3, <3>5
      <4>3. u.child[Opposite(z)][x] = n \/ u.child[Opposite(z)][x] = t.child[Opposite(z)][x]
        BY <2>1, <3>2
      <4> QED BY <1>9, <3>3, <3>5, <4>1, <4>2, <4>3
    <3> QED BY <3>4, <3>5
  <2> QED BY <2>2, <2>3
<1>14. \A x \in Nodes \ InTree(u) : \A z \in Sides : u.child[z][x] = Nil
  <2>1. \A x \in Nodes \ InTree(u) : x # n /\ (x = v \/ x \notin InTree(t))
    BY <1>9
  <2> QED BY <1>3, <1>5, <1>8, <2>1
<1>15. LinkedTree(u)
  BY <1>10, <1>11, <1>12, <1>13, <1>14 DEF LinkedTree
<1>16. /\ E[n] = Swapped(D[v], v, n)
       /\ \A x \in NodeOrNil : x # n => E[x] = Swapped(D[x], v, n)
  BY <1>1, <1>3 DEF ReplacedBelow
<1>17. E \in [NodeOrNil -> SUBSET InTree(u)]
  <2>1. \A x \in NodeOrNil : D[IF x = n THEN v ELSE x] \in SUBSET InTree(t)
    BY <1>2, <1>3
  <2>2. \A S \in SUBSET InTree(t) : Swapped(S, v, n) \in SUBSET InTree(u)
    BY <1>9 DEF Swapped
  <2> QED BY <1>1, <2>1, <2>2 DEF ReplacedBelow
<1>18. E[Nil] = {}
  BY <1>2, <1>3, <1>16 DEF Swapped
<1>19. E[u.root] = InTree(u)
  <2>1. t.root \in NodeOrNil /\ t.root # n
    BY <1>2, <1>7, TreeTypes
  <2>2. E[u.root] = Swapped(D[t.root], v, n)
    BY <1>4, <1>16, <2>1
  <2> QED BY <1>2, <1>9, <2>2 DEF Swapped
<1>20. \A z \in Sides : v \notin D[t.child[z][v]]
  BY NodeFacts
<1>21. ASSUME NEW z \in Sides PROVE E[u.child[z][n]] = D[t.child[z][v]]
  <2>1. u.child[z][n] = t.child[z][v] /\ t.child[z][v] \in NodeOrNil /\ t.child[z][v] # n
    BY <1>3, <1>5, <1>6
  <2> QED BY <1>16, <1>20, <2>1 DEF Swapped
<1>22. ASSUME NEW x \in InTree(t), x # v, NEW z \in Sides
       PROVE  E[u.child[z][x]] = Swapped(D[t.child[z][x]], v, n)
  <2>1. x # n /\ x \in Nodes /\ t.child[z][x] \in NodeOrNil /\ t.child[z][x] # n
    BY <1>2, <1>6
  <2>2. u.child[z][x] = IF t.child[z][x] = v THEN n ELSE t.child[z][x]
    BY <1>5, <1>22, <2>1
  <2> QED BY <1>16, <2>1, <2>2
<1>23. ASSUME NEW x \in InTree(u)
       PROVE  E[x] = {x} \cup E[u.child[Left][x]] \cup E[u.child[Right][x]]
  <2>1. CASE x = n
    <3>1. D[v] = {v} \cup D[t.child[Left][v]] \cup D[t.child[Right][v]]
      BY DEF Shape, Ordered
    <3>2. v \notin D[t.child[Left][v]] /\ v \notin D[t.child[Right][v]]
      BY <1>20, Zenon DEF Sides
    <3>3. E[u.child[Left][n]] = D[t.child[Left][v]] /\ E[u.child[Right][n]] = D[t.child[Right][v]]
      BY <1>21, Zenon DEF Sides
    <3> QED BY <1>16, <2>1, <3>1, <3>2, <3>3 DEF Swapped
  <2>2. CASE x # n
    <3>1. x \in InTree(t) /\ x # v /\ x \in NodeOrNil
      BY <1>2, <1>9, <2>2 DEF NodeOrNil
    <3>2. D[x] = {x} \cup D[t.child[Left][x]] \cup D[t.child[Right][x]]
      BY <3>1 DEF Shape, Ordered
    <3>3. /\ E[u.child[Left][x]] = Swapped(D[t.child[Left][x]], v, n)
          /\ E[u.child[Right][x]] = Swapped(D[t.child[Right][x]], v, n)
      BY <1>22, <3>1, Zenon DEF Sides
    <3>4. E[x] = Swapped(D[x], v, n)
      BY <1>16, <2>2, <3>1
    <3>5. PICK L : L = D[t.child[Left][x]]
      OBVIOUS
    <3>6. PICK R : R = D[t.child[Right][x]]
      OBVIOUS
    <3>7. E[x] = Swapped({x} \cup L \cup R, v, n)
      BY <3>2, <3>4, <3>5, <3>6
    <3>8. \A y : y \in E[x] <=> y \in {x} \cup Swapped(L, v, n) \cup Swapped(R, v, n)
      <4>1. \A y : y \in E[x] <=> (y \in {x} \cup L \cup R /\ y # v) \/ (y = n /\ v \in {x} \cup L \cup R)
        <5>1. PICK T : T = {x} \cup L \cup R
          OBVIOUS
        <5>2. PICK B : B = Swapped(T, v, n)
          OBVIOUS
        <5>3. \A y : y \in B <=> (y \in T /\ y # v) \/ (y = n /\ v \in T)
          BY <5>2, SwappedNodes, Zenon
        <5>4. E[x] = B
          BY <3>7, <5>1, <5>2, Zenon
        <5> QED BY <5>1, <5>3, <5>4, Zenon
      <4>2. /\ \A y : y \in Swapped(L, v, n) <=> (y \in L /\ y # v) \/ (y = n /\ v \in L)
            /\ \A y : y \in Swapped(R, v, n) <=> (y \in R /\ y # v) \/ (y = n /\ v \in R)
        BY SwappedNodes, Zenon
      <4> QED BY <3>1, <4>1, <4>2
    <3>9. E[x] = {x} \cup Swapped(L, v, n) \cup Swapped(R, v, n)
      BY <3>8, Zenon
    <3> QED BY <3>3, <3>5, <3>6, <3>9
  <2> QED BY <2>1, <2>2
<1>24. ASSUME NEW x \in InTree(u), NEW z \in Sides, NEW y \in E[u.child[z][x]]
       PROVE  Beyond(z, y, x)
  <2>1. CASE x = n
    BY <1>21, <2>1
  <2>2. CASE x # n
    <3>1. x \in InTree(t) /\ x # v
      BY <1>9, <2>2
    <3>2. y \in Swapped(D[t.child[z][x]], v, n)
      BY <1>22, <3>1
    <3>3. y \in D[t.child[z][x]] \/ (y = n /\ v \in D[t.child[z][x]])
      BY <3>2 DEF Swapped
    <3> QED BY <3>1, <3>3, NodeFacts
  <2> QED BY <2>1, <2>2
<1>25. Ordered(u, E)
  BY <1>17, <1>18, <1>19, <1>23, <1>24 DEF Ordered
<1>26. IsFiniteSet(InTree(u))
  <2>1. IsFiniteSet(InTree(t) \ {v})
    BY <1>2, FS_Subset
  <2> QED BY <1>9, <2>1, FS_AddElement
<1> QED BY <1>1, <1>4, <1>9, <1>15, <1>25, <1>26 DEF Shape


-----------------------------------------------------------------------------
(* The successor takes the place of the node that is erased.               *)

\* y is on the way from the right child of e to the left, and ends it.
IsSuccessor(t, D, e, y) ==
    /\ y \in D[t.child[Right][e]]
    /\ y # t.child[Right][e] => y = t.child[Left][t.parent[y]]
    /\ t.child[Left][y] = Nil

\* What is below a node without y.
Without(D, y, Dm) == Dm = [x \in NodeOrNil |-> D[x] \ {y}]

\* The nodes that the splice of a successor is about.
LEMMA SuccessorNodes ==
    ASSUME NEW t, NEW D, Shape(t, D), NEW e \in InTree(t), t.child[Left][e] # Nil,
           NEW y, IsSuccessor(t, D, e, y)
    PROVE  LET l == t.child[Left][e]
               r == t.child[Right][e]
               c == t.child[Right][y]
               p == t.parent[y]
           IN /\ y \in InTree(t) /\ y # e /\ y # t.root
              /\ l \in InTree(t) /\ l # e /\ l # y /\ t.parent[l] = e
              /\ r \in InTree(t) /\ r # e /\ r # l /\ t.parent[r] = e
              /\ p \in InTree(t) /\ p # y /\ (p = e <=> y = r)
              /\ c \in NodeOrNil /\ c # e /\ c # y /\ c # l /\ c # r
              /\ c # Nil => c \in InTree(t) /\ t.parent[c] = y
              /\ t.parent[e] # y
              /\ \A z \in Sides : \A x \in Nodes :
                   t.child[z][x] = y <=> x = p /\ z = IF p = e THEN Right ELSE Left
<1>1. PICK l : l = t.child[Left][e]
  OBVIOUS
<1>2. PICK r : r = t.child[Right][e]
  OBVIOUS
<1>3. PICK c : c = t.child[Right][y]
  OBVIOUS
<1>4. PICK p : p = t.parent[y]
  OBVIOUS
<1>5. Left \in Sides /\ Right \in Sides /\ Left # Right /\ Opposite(Left) = Right /\ Opposite(Right) = Left
  BY Zenon DEF Sides, Opposite, Left, Right
<1>6. t \in Trees /\ e \in Nodes /\ e # Nil
  BY TreeTypes, NodeFacts DEF Shape
<1>7. l \in InTree(t) /\ t.parent[l] = e /\ l # e
  BY <1>1, <1>5, NodeFacts
<1>8. e \notin D[r] /\ D[Nil] = {} /\ D[r] \cap D[l] = {}
  <2>1. e \notin D[r] /\ D[Nil] = {}
    BY <1>2, <1>5, NodeFacts
  <2>2. D[t.child[Right][e]] \cap D[t.child[Opposite(Right)][e]] = {}
    BY <1>5, NodeFacts
  <2> QED BY <1>1, <1>2, <1>5, <2>1, <2>2
<1>9. y \in D[r]
  BY <1>2 DEF IsSuccessor
<1>10. r # Nil
  BY <1>8, <1>9
<1>11. r \in InTree(t) /\ t.parent[r] = e /\ r # e /\ r # l
  <2>1. r \in InTree(t) /\ t.parent[r] = e /\ r # e /\ r # t.child[Opposite(Right)][e]
    BY <1>2, <1>5, <1>10, NodeFacts
  <2> QED BY <1>1, <1>5, <2>1
<1>12. /\ y \in InTree(t) /\ y \in D[y] /\ D[y] \subseteq D[r] /\ r \in D[r]
       /\ y # r => p \in D[r] /\ p # Nil
  BY <1>4, <1>9, <1>11, Below
<1>13. y # e /\ y # l
  <2>1. l \in D[l]
    BY <1>7, Below, NodeFacts, <1>1, <1>5
  <2> QED BY <1>8, <1>9, <2>1
<1>14. (p = e <=> y = r) /\ p \in InTree(t)
  <2>1. y = r => p = e
    BY <1>4, <1>11
  <2>2. y # r => p # e
    BY <1>8, <1>12
  <2>3. p # Nil
    BY <1>6, <1>12, <2>1
  <2>4. p \in InTree(t)
    BY <1>4, <1>12, <2>3, ParentFacts
  <2> QED BY <2>1, <2>2, <2>4
<1>15. p # y /\ y # t.root
  <2>1. t.parent[y] # y /\ (t.parent[y] = Nil <=> t.root = y)
    BY <1>12, ParentFacts
  <2>2. p # Nil
    BY <1>14, <1>6, TreeTypes
  <2> QED BY <1>4, <2>1, <2>2
<1>16. c \in NodeOrNil /\ (c # Nil => c \in InTree(t) /\ t.parent[c] = y /\ c # y /\ c \in D[c] /\ D[c] \subseteq D[y])
  <2>1. y \in Nodes
    BY <1>6, <1>12, TreeTypes
  <2>2. c \in NodeOrNil
    BY <1>3, <1>5, <1>6, <2>1, TreeTypes
  <2>3. c # Nil => c \in InTree(t) /\ t.parent[c] = y /\ c # y /\ c \in D[c]
    BY <1>3, <1>5, <1>12, NodeFacts
  <2>4. D[y] = {y} \cup D[c] \cup D[t.child[Opposite(Right)][y]]
    BY <1>3, <1>5, <1>12, NodeFacts
  <2> QED BY <2>2, <2>3, <2>4
<1>17. c # e /\ c # y /\ c # l /\ c # r
  <2>1. CASE c = Nil
    BY <1>6, <1>7, <1>10, <1>12, <2>1, TreeTypes
  <2>2. CASE c # Nil
    BY <1>7, <1>8, <1>11, <1>12, <1>13, <1>16, <2>2
  <2> QED BY <2>1, <2>2
<1>18. t.parent[e] # y
  <2> SUFFICES ASSUME t.parent[e] = y PROVE FALSE
    OBVIOUS
  <2>1. t.parent[e] # Nil
    BY <1>6, <1>12, TreeTypes
  <2>2. PICK z \in Sides : t.child[z][y] = e
    BY <2>1, ParentFacts
  <2>3. e \in D[y]
    <3>1. e \in D[e]
      BY Below, NodeFacts, <1>5
    <3>2. D[y] = {y} \cup D[t.child[z][y]] \cup D[t.child[Opposite(z)][y]]
      BY <1>12, NodeFacts
    <3> QED BY <2>2, <3>1, <3>2
  <2> QED BY <1>8, <1>12, <2>3
<1>19. \A z \in Sides : \A x \in Nodes : t.child[z][x] = y <=> x = p /\ z = IF p = e THEN Right ELSE Left
  <2>1. \A z \in Sides : \A x \in Nodes : x = p /\ z = SideOf(t, p, y) <=> t.child[z][x] = y
    BY <1>4, <1>12, PointerTo
  <2>2. p = e => t.child[Right][p] = y
    BY <1>2, <1>14
  <2>3. p # e => t.child[Left][p] = y
    BY <1>2, <1>4, <1>14 DEF IsSuccessor
  <2>4. p \in Nodes
    BY <1>6, <1>14, TreeTypes
  <2>5. SideOf(t, p, y) = IF p = e THEN Right ELSE Left
    BY <1>5, <2>1, <2>2, <2>3, <2>4
  <2> QED BY <2>1, <2>5
<1> QED BY <1>1, <1>2, <1>3, <1>4, <1>7, <1>11, <1>12, <1>13, <1>14, <1>15, <1>16, <1>17, <1>18, <1>19


\* What the splice of a successor does first: y leaves its place, and takes
\* over the right subtree.
Frees(t, u, e, y) ==
    LET c == t.child[Right][y]
        r == t.child[Right][e]
        p == t.parent[y]
    IN /\ u \in Trees /\ u.color = t.color
       /\ u.root = IF t.root = e THEN y ELSE t.root
       /\ \A x \in Nodes : u.parent[x] = IF p = e THEN t.parent[x]
                                         ELSE IF x = c THEN p ELSE IF x = r THEN y ELSE t.parent[x]
       /\ \A z \in Sides : \A x \in Nodes :
            u.child[z][x] = IF t.child[z][x] = e THEN y
                            ELSE IF p = e THEN t.child[z][x]
                            ELSE IF z = Right /\ x = y THEN r
                            ELSE IF z = Left /\ x = p THEN c ELSE t.child[z][x]

LEMMA FreePoints ==
    ASSUME NEW t, NEW D, Shape(t, D), NEW e \in InTree(t), t.child[Left][e] # Nil,
           NEW y, IsSuccessor(t, D, e, y)
    PROVE  LET c == t.child[Right][y]
               r == t.child[Right][e]
               p == t.parent[y]
               a == Redirect(t, t.parent[e], e, y)
           IN Frees(t, IF p = e THEN a
                       ELSE [SetParent(a, c, p) EXCEPT !.child[Left][p] = c, !.child[Right][y] = r,
                                                       !.parent[r] = y], e, y)
<1>1. PICK r : r = t.child[Right][e]
  OBVIOUS
<1>2. PICK c : c = t.child[Right][y]
  OBVIOUS
<1>3. PICK p : p = t.parent[y]
  OBVIOUS
<1>4. PICK q : q = t.parent[e]
  OBVIOUS
<1>5. PICK a : a = Redirect(t, q, e, y)
  OBVIOUS
<1>6. /\ y \in InTree(t) /\ y # e /\ y # t.root
      /\ r \in InTree(t) /\ r # e /\ p \in InTree(t) /\ p # y /\ (p = e <=> y = r)
      /\ c \in NodeOrNil /\ c # e /\ c # y /\ c # r /\ q # y
  BY <1>1, <1>2, <1>3, <1>4, SuccessorNodes
<1>7. t \in Trees /\ e \in Nodes /\ y \in Nodes /\ r \in Nodes /\ p \in Nodes /\ q \in NodeOrNil /\ r # Nil
  BY <1>4, <1>6, TreeTypes DEF Shape
<1>8. Left \in Sides /\ Right \in Sides /\ Left # Right
  BY Zenon DEF Sides, Left, Right
<1>9. Redirects(t, a, q, e, y)
  BY <1>5, <1>7, RedirectPoints DEF NodeOrNil
<1>10. a \in Trees /\ a.color = t.color /\ a.parent = t.parent
  BY <1>9 DEF Redirects
<1>11. a.root = IF t.root = e THEN y ELSE t.root
  BY <1>4, <1>9, ParentFacts DEF Redirects
<1>12. \A z \in Sides : \A x \in Nodes : a.child[z][x] = IF t.child[z][x] = e THEN y ELSE t.child[z][x]
  <2>1. \A z \in Sides : \A x \in Nodes :
          a.child[z][x] = IF x = q /\ z = SideOf(t, q, e) THEN y ELSE t.child[z][x]
    BY <1>9 DEF Redirects
  <2> QED BY <1>4, <2>1, PointerTo
<1>13. CASE p = e
  <2>1. Frees(t, a, e, y)
    BY <1>3, <1>10, <1>11, <1>12, <1>13, Zenon DEF Frees
  <2> QED BY <1>3, <1>4, <1>5, <1>13, <2>1
<1>14. CASE p # e
  <2>1. PICK b : b = SetParent(a, c, p)
    OBVIOUS
  <2>2. PICK d : d = SetChild(b, Left, p, c)
    OBVIOUS
  <2>3. PICK f : f = SetChild(d, Right, y, r)
    OBVIOUS
  <2>4. PICK u : u = SetParent(f, r, y)
    OBVIOUS
  <2>5. [SetParent(a, c, p) EXCEPT !.child[Left][p] = c, !.child[Right][y] = r, !.parent[r] = y] = u
    <3>1. [b EXCEPT !.child[Left][p] = c, !.child[Right][y] = r, !.parent[r] = y]
            = [[[b EXCEPT !.child[Left][p] = c] EXCEPT !.child[Right][y] = r] EXCEPT !.parent[r] = y]
      BY Zenon
    <3>2. d = [b EXCEPT !.child[Left][p] = c]
      BY <2>2, Zenon DEF SetChild
    <3>3. f = [d EXCEPT !.child[Right][y] = r]
      BY <2>3, Zenon DEF SetChild
    <3>4. u = [f EXCEPT !.parent[r] = y]
      BY <1>7, <2>4, Zenon DEF SetParent
    <3> QED BY <2>1, <3>1, <3>2, <3>3, <3>4, Zenon
  <2>6. SetsParent(a, b, c, p)
    BY <1>6, <1>7, <1>10, <2>1, SetParentPoints DEF NodeOrNil
  <2>7. SetsChild(b, d, Left, p, c)
    <3>1. b \in Trees
      BY <2>6 DEF SetsParent
    <3> QED BY <1>6, <1>7, <1>8, <2>2, <3>1, ChildPoints
  <2>8. SetsChild(d, f, Right, y, r)
    <3>1. d \in Trees
      BY <2>7 DEF SetsChild
    <3> QED BY <1>7, <1>8, <2>3, <3>1, ChildPoints DEF NodeOrNil
  <2>9. SetsParent(f, u, r, y)
    <3>1. f \in Trees
      BY <2>8 DEF SetsChild
    <3> QED BY <1>7, <2>4, <3>1, SetParentPoints DEF NodeOrNil
  <2>10. u \in Trees /\ u.color = t.color /\ u.root = a.root
    BY <1>10, <2>6, <2>7, <2>8, <2>9 DEF SetsParent, SetsChild
  <2>11. \A x \in Nodes : u.parent[x] = IF x = c THEN p ELSE IF x = r THEN y ELSE t.parent[x]
    <3>1. \A x \in Nodes : b.parent[x] = IF x = c THEN p ELSE t.parent[x]
      BY <1>10, <2>6, Zenon DEF SetsParent
    <3>2. f.parent = b.parent
      BY <2>7, <2>8 DEF SetsChild
    <3>3. \A x \in Nodes : u.parent[x] = IF x = r THEN y ELSE f.parent[x]
      BY <2>9, Zenon DEF SetsParent
    <3> QED BY <1>6, <3>1, <3>2, <3>3, Zenon
  <2>12. \A z \in Sides : \A x \in Nodes :
           u.child[z][x] = IF t.child[z][x] = e THEN y
                            ELSE IF z = Right /\ x = y THEN r
                            ELSE IF z = Left /\ x = p THEN c ELSE t.child[z][x]
    <3>1. b.child = a.child /\ u.child = f.child
      BY <2>6, <2>9 DEF SetsParent
    <3>2. \A z \in Sides : \A x \in Nodes : d.child[z][x] = IF z = Left /\ x = p THEN c ELSE a.child[z][x]
      BY <2>7, <3>1 DEF SetsChild
    <3>3. \A z \in Sides : \A x \in Nodes : u.child[z][x] = IF z = Right /\ x = y THEN r ELSE d.child[z][x]
      BY <2>8, <3>1 DEF SetsChild
    <3>4. \A z \in Sides : t.child[z][y] # e
      BY <1>4, <1>6, <1>7, ParentFacts
    <3>5. t.child[Left][p] = y
      BY <1>3, <1>7, <1>8, <1>14, SuccessorNodes
    <3>6. t.child[Left][p] # e /\ t.child[Right][y] # e
      BY <1>6, <1>8, <3>4, <3>5
    <3> QED BY <1>6, <1>12, <3>2, <3>3, <3>6
  <2>13. Frees(t, u, e, y)
    BY <1>1, <1>2, <1>3, <1>11, <1>14, <2>10, <2>11, <2>12 DEF Frees
  <2> QED BY <1>1, <1>2, <1>3, <1>4, <1>5, <1>14, <2>5, <2>13, Zenon
<1> QED BY <1>13, <1>14

\* The splice comes to taking the successor out of its place and then
\* replacing e by it.
LEMMA SuccessorPoints ==
    ASSUME NEW t, NEW D, Shape(t, D), NEW e \in InTree(t), t.child[Left][e] # Nil,
           NEW y, IsSuccessor(t, D, e, y), NEW m, Removes(t, m, y, t.child[Right][y])
    PROVE  Replaces(m, rb_init_node(SpliceSuccessor(t, e, y), e), e, y)
           /\ rb_init_node(SpliceSuccessor(t, e, y), e).color[y] = t.color[e]
<1>1. PICK r : r = t.child[Right][e]
  OBVIOUS
<1>2. PICK c : c = t.child[Right][y]
  OBVIOUS
<1>3. PICK p : p = t.parent[y]
  OBVIOUS
<1>4. PICK q : q = t.parent[e]
  OBVIOUS
<1>5. PICK l : l = t.child[Left][e]
  OBVIOUS
<1>6. PICK k : k = t.color[e]
  OBVIOUS
<1>7. /\ y \in InTree(t) /\ y # e /\ y # t.root
      /\ l \in InTree(t) /\ l # e /\ l # y /\ t.parent[l] = e
      /\ r \in InTree(t) /\ r # e /\ r # l /\ t.parent[r] = e
      /\ p \in InTree(t) /\ p # y /\ (p = e <=> y = r)
      /\ c \in NodeOrNil /\ c # e /\ c # y /\ c # l /\ c # r /\ q # y
      /\ c # Nil => c \in InTree(t) /\ t.parent[c] = y
  BY <1>1, <1>2, <1>3, <1>4, <1>5, SuccessorNodes
<1>8. /\ t \in Trees /\ e \in Nodes /\ y \in Nodes /\ l \in Nodes /\ r \in Nodes /\ p \in Nodes
      /\ q \in NodeOrNil /\ r # Nil /\ l # Nil /\ y # Nil /\ q # e /\ k \in {Red, Black}
  <2>1. /\ t \in Trees /\ e \in Nodes /\ y \in Nodes /\ l \in Nodes /\ r \in Nodes /\ p \in Nodes
        /\ r # Nil /\ l # Nil /\ y # Nil
    BY <1>7, TreeTypes DEF Shape
  <2> QED BY <1>4, <1>6, <2>1, TreeTypes, ParentFacts
<1>9. Left \in Sides /\ Right \in Sides /\ Left # Right /\ \A z \in Sides : z = Left \/ z = Right
  BY Zenon DEF Sides, Left, Right
<1>10. PICK f : f = IF t.parent[y] = e THEN Redirect(t, t.parent[e], e, y)
                    ELSE [SetParent(Redirect(t, t.parent[e], e, y), t.child[Right][y], t.parent[y])
                            EXCEPT !.child[Left][t.parent[y]] = t.child[Right][y],
                                   !.child[Right][y] = t.child[Right][e],
                                   !.parent[t.child[Right][e]] = y]
  OBVIOUS
<1>11. Frees(t, f, e, y)
  BY <1>10, FreePoints, Zenon
<1>12. PICK a : a = SetParent(f, y, q)
  OBVIOUS
<1>13. PICK b : b = Paint(a, y, k)
  OBVIOUS
<1>14. PICK d : d = SetChild(b, Left, y, l)
  OBVIOUS
<1>15. PICK g : g = SetParent(d, l, y)
  OBVIOUS
<1>16. PICK u : u = rb_init_node(g, e)
  OBVIOUS
<1>17. rb_init_node(SpliceSuccessor(t, e, y), e) = u
  <2>1. SpliceSuccessor(t, e, y) = [f EXCEPT !.parent[y] = q, !.color[y] = k, !.child[Left][y] = l, !.parent[l] = y]
    <3>1. SpliceSuccessor(t, e, y) = [f EXCEPT !.parent[y] = t.parent[e], !.color[y] = t.color[e],
                                               !.child[Left][y] = t.child[Left][e],
                                               !.parent[t.child[Left][e]] = y]
      <4>1. CASE t.parent[y] = e
        <5>1. f = Redirect(t, t.parent[e], e, y)
          BY <1>10, <4>1, Zenon
        <5> QED BY <4>1, <5>1, SMT DEF SpliceSuccessor
      <4>2. CASE t.parent[y] # e
        <5>1. f = [SetParent(Redirect(t, t.parent[e], e, y), t.child[Right][y], t.parent[y])
                     EXCEPT !.child[Left][t.parent[y]] = t.child[Right][y],
                            !.child[Right][y] = t.child[Right][e],
                            !.parent[t.child[Right][e]] = y]
          BY <1>10, <4>2, Zenon
        <5> QED BY <4>2, <5>1, SMT DEF SpliceSuccessor
      <4> QED BY <4>1, <4>2, Zenon
    <3> QED BY <1>4, <1>5, <1>6, <3>1, Zenon
  <2>2. [f EXCEPT !.parent[y] = q, !.color[y] = k, !.child[Left][y] = l, !.parent[l] = y]
          = [[[[f EXCEPT !.parent[y] = q] EXCEPT !.color[y] = k] EXCEPT !.child[Left][y] = l] EXCEPT !.parent[l] = y]
    BY Zenon
  <2>3. a = [f EXCEPT !.parent[y] = q]
    BY <1>8, <1>12, Zenon DEF SetParent
  <2>4. b = [a EXCEPT !.color[y] = k]
    BY <1>13, Zenon DEF Paint
  <2>5. d = [b EXCEPT !.child[Left][y] = l]
    BY <1>14, Zenon DEF SetChild
  <2>6. g = [d EXCEPT !.parent[l] = y]
    BY <1>8, <1>15, Zenon DEF SetParent
  <2>7. SpliceSuccessor(t, e, y) = g
    BY <2>1, <2>2, <2>3, <2>4, <2>5, <2>6, Zenon
  <2> QED BY <1>16, <2>7, Zenon
<1>18. SetsParent(f, a, y, q)
  <2>1. f \in Trees
    BY <1>11 DEF Frees
  <2> QED BY <1>8, <1>12, <2>1, SetParentPoints DEF NodeOrNil
<1>19. Paints(a, b, y, k)
  <2>1. a \in Trees
    BY <1>18 DEF SetsParent
  <2> QED BY <1>8, <1>13, <2>1, PaintPoints
<1>20. SetsChild(b, d, Left, y, l)
  <2>1. b \in Trees
    BY <1>19 DEF Paints
  <2> QED BY <1>8, <1>9, <1>14, <2>1, ChildPoints DEF NodeOrNil
<1>21. SetsParent(d, g, l, y)
  <2>1. d \in Trees
    BY <1>20 DEF SetsChild
  <2> QED BY <1>8, <1>15, <2>1, SetParentPoints DEF NodeOrNil
<1>22. Inits(g, u, e)
  <2>1. g \in Trees
    BY <1>21 DEF SetsParent
  <2> QED BY <1>8, <1>16, <2>1, InitPoints
<1>23. u \in Trees
  BY <1>22 DEF Inits
<1>24. u.root = IF m.root = e THEN y ELSE m.root
  <2>1. u.root = f.root
    BY <1>18, <1>19, <1>20, <1>21, <1>22 DEF SetsParent, Paints, SetsChild, Inits
  <2>2. m.root = t.root
    BY <1>7 DEF Removes
  <2> QED BY <1>11, <2>1, <2>2 DEF Frees
<1>25. \A x \in Nodes : u.parent[x] = IF x = e THEN e ELSE IF x = y THEN m.parent[e]
                                      ELSE IF m.parent[x] = e THEN y ELSE m.parent[x]
  <2>1. \A x \in Nodes : u.parent[x] = IF x = e THEN e ELSE IF x = l THEN y ELSE IF x = y THEN q ELSE f.parent[x]
    <3>1. \A x \in Nodes : a.parent[x] = IF x = y THEN q ELSE f.parent[x]
      BY <1>18, Zenon DEF SetsParent
    <3>2. d.parent = a.parent
      BY <1>19, <1>20 DEF Paints, SetsChild
    <3>3. \A x \in Nodes : g.parent[x] = IF x = l THEN y ELSE d.parent[x]
      BY <1>21, Zenon DEF SetsParent
    <3>4. \A x \in Nodes : u.parent[x] = IF x = e THEN e ELSE g.parent[x]
      BY <1>22, Zenon DEF Inits
    <3> QED BY <3>1, <3>2, <3>3, <3>4, Zenon
  <2>2. \A x \in Nodes : m.parent[x] = IF x = y THEN y ELSE IF x = c THEN p ELSE t.parent[x]
    BY <1>2, <1>3, Zenon DEF Removes
  <2>3. \A x \in Nodes : f.parent[x] = IF p = e THEN t.parent[x]
                                       ELSE IF x = c THEN p ELSE IF x = r THEN y ELSE t.parent[x]
    BY <1>1, <1>2, <1>3, <1>11, Zenon DEF Frees
  <2>4. \A x \in Nodes : t.parent[x] = e <=> (x = l \/ x = r)
    <3>1. Opposite(Left) = Right
      BY <1>9, SideFacts
    <3>2. \A x \in Nodes : t.parent[x] = e <=> (x = t.child[Left][e] \/ x = t.child[Opposite(Left)][e])
      BY <1>9, ChildrenOf
    <3> QED BY <1>1, <1>5, <3>1, <3>2, Zenon
  <2>5. m.parent[e] = q
    BY <1>4, <1>7, <1>8, <2>2
  <2>6. ASSUME NEW x \in Nodes, x # e, x # y
        PROVE  u.parent[x] = IF m.parent[x] = e THEN y ELSE m.parent[x]
    <3>1. CASE x = c
      <4>1. u.parent[x] = f.parent[x] /\ m.parent[x] = p /\ t.parent[x] = y
        BY <1>7, <1>8, <2>1, <2>2, <2>6, <3>1, NilAssumption
      <4> QED BY <2>3, <3>1, <4>1
    <3>2. CASE x = l
      BY <1>7, <2>1, <2>2, <2>6, <3>2
    <3>3. CASE x = r
      BY <1>7, <2>1, <2>2, <2>3, <2>6, <3>3
    <3>4. CASE x # c /\ x # l /\ x # r
      BY <2>1, <2>2, <2>3, <2>4, <2>6, <3>4
    <3> QED BY <3>1, <3>2, <3>3, <3>4
  <2> QED BY <1>7, <1>8, <2>1, <2>5, <2>6, Zenon
<1>26. \A x \in Nodes : u.color[x] = IF x = e THEN Red ELSE IF x = y THEN m.color[e] ELSE m.color[x]
  <2>1. \A x \in Nodes : b.color[x] = IF x = y THEN k ELSE t.color[x]
    <3>1. a.color = t.color
      BY <1>11, <1>18 DEF Frees, SetsParent
    <3> QED BY <1>19, <3>1, Zenon DEF Paints
  <2>2. g.color = b.color
    BY <1>20, <1>21 DEF SetsChild, SetsParent
  <2>3. \A x \in Nodes : m.color[x] = IF x = y THEN Red ELSE t.color[x]
    BY Zenon DEF Removes
  <2>4. \A x \in Nodes : u.color[x] = IF x = e THEN Red ELSE g.color[x]
    BY <1>22, Zenon DEF Inits
  <2>5. m.color[e] = k
    BY <1>6, <1>7, <1>8, <2>3
  <2>6. ASSUME NEW x \in Nodes, x # e, x # y PROVE u.color[x] = m.color[x]
    BY <2>1, <2>2, <2>3, <2>4, <2>6
  <2> QED BY <1>7, <1>8, <2>1, <2>2, <2>4, <2>5, <2>6, Zenon
<1>27. \A z \in Sides : \A x \in Nodes :
         u.child[z][x] = IF x = e THEN Nil ELSE IF x = y THEN m.child[z][e]
                         ELSE IF m.child[z][x] = e THEN y ELSE m.child[z][x]
  <2>1. \A z \in Sides : \A x \in Nodes :
          u.child[z][x] = IF x = e THEN Nil ELSE IF z = Left /\ x = y THEN l ELSE f.child[z][x]
    <3>1. b.child = f.child
      BY <1>18, <1>19 DEF SetsParent, Paints
    <3>2. \A z \in Sides : \A x \in Nodes : d.child[z][x] = IF z = Left /\ x = y THEN l ELSE b.child[z][x]
      BY <1>20 DEF SetsChild
    <3>3. g.child = d.child
      BY <1>21 DEF SetsParent
    <3>4. \A z \in Sides : \A x \in Nodes : u.child[z][x] = IF x = e THEN Nil ELSE g.child[z][x]
      BY <1>22, Zenon DEF Inits
    <3> QED BY <3>1, <3>2, <3>3, <3>4
  <2>2. \A z \in Sides : \A x \in Nodes :
          m.child[z][x] = IF x = y THEN Nil ELSE IF t.child[z][x] = y THEN c ELSE t.child[z][x]
    BY <1>2, Zenon DEF Removes
  <2>3. \A z \in Sides : \A x \in Nodes :
          f.child[z][x] = IF t.child[z][x] = e THEN y
                            ELSE IF p = e THEN t.child[z][x]
                            ELSE IF z = Right /\ x = y THEN r
                            ELSE IF z = Left /\ x = p THEN c ELSE t.child[z][x]
    BY <1>1, <1>2, <1>3, <1>11, Zenon DEF Frees
  <2>4. \A z \in Sides : \A x \in Nodes : t.child[z][x] = y <=> x = p /\ z = IF p = e THEN Right ELSE Left
    BY <1>3, SuccessorNodes
  <2>5. \A z \in Sides : t.child[z][y] # e
    BY <1>4, <1>7, <1>8, ParentFacts
  <2>6. ASSUME NEW z \in Sides PROVE u.child[z][y] = m.child[z][e]
    <3>1. CASE z = Left
      <4>1. m.child[z][e] = l
        BY <1>5, <1>7, <1>8, <2>2, <3>1
      <4> QED BY <1>7, <1>8, <2>1, <3>1, <4>1
    <3>2. CASE z = Right /\ p = e
      <4>1. m.child[z][e] = c
        BY <1>1, <1>7, <1>8, <2>2, <3>2
      <4>2. u.child[z][y] = f.child[z][y]
        BY <1>7, <1>8, <1>9, <2>1, <3>2
      <4> QED BY <1>2, <1>7, <1>8, <2>3, <2>5, <3>2, <4>1, <4>2
    <3>3. CASE z = Right /\ p # e
      <4>1. m.child[z][e] = r
        BY <1>1, <1>7, <1>8, <2>2, <3>3
      <4>2. u.child[z][y] = f.child[z][y]
        BY <1>7, <1>8, <1>9, <2>1, <3>3
      <4> QED BY <1>7, <1>8, <2>3, <2>5, <3>3, <4>1, <4>2
    <3> QED BY <1>9, <3>1, <3>2, <3>3
  <2>7. ASSUME NEW z \in Sides, NEW x \in Nodes, x # e, x # y
        PROVE  u.child[z][x] = IF m.child[z][x] = e THEN y ELSE m.child[z][x]
    <3>1. u.child[z][x] = f.child[z][x]
      BY <2>1, <2>7
    <3>2. CASE t.child[z][x] = y
      <4>1. m.child[z][x] = c /\ x = p /\ z = Left /\ p # e
        BY <2>2, <2>4, <2>7, <3>2
      <4> QED BY <1>7, <2>3, <3>1, <3>2, <4>1
    <3>3. CASE t.child[z][x] # y
      <4>1. m.child[z][x] = t.child[z][x]
        BY <2>2, <2>7, <3>3
      <4>2. ~ (z = Left /\ x = p /\ p # e)
        BY <2>4, <3>3
      <4> QED BY <2>3, <2>7, <3>1, <4>1, <4>2
    <3> QED BY <3>2, <3>3
  <2> QED BY <1>8, <2>1, <2>6, <2>7
<1>28. Replaces(m, u, e, y)
  BY <1>23, <1>24, <1>25, <1>26, <1>27 DEF Replaces
<1>29. u.color[y] = t.color[e]
  <2>1. m.color[e] = t.color[e]
    BY <1>7, <1>8 DEF Removes
  <2> QED BY <1>7, <1>8, <1>26, <2>1
<1> QED BY <1>17, <1>28, <1>29


\* The nodes after the splice of a successor: e has left, the others stay.
LEMMA SuccessorShape ==
    ASSUME NEW t, NEW D, Shape(t, D), NEW e \in InTree(t), t.child[Left][e] # Nil,
           NEW y, IsSuccessor(t, D, e, y),
           \A x \in D[t.child[Right][e]] : x = y \/ Key[y] < Key[x],
           NEW m, Removes(t, m, y, t.child[Right][y]), NEW u, Replaces(m, u, e, y),
           NEW Dm, Without(D, y, Dm)
    PROVE  /\ InTree(m) = InTree(t) \ {y} /\ InTree(u) = InTree(t) \ {e}
           /\ Shape(m, Dm) /\ Shape(u, ReplacedBelow(Dm, e, y))
<1>1. PICK r : r = t.child[Right][e]
  OBVIOUS
<1>2. PICK c : c = t.child[Right][y]
  OBVIOUS
<1>3. Left \in Sides /\ Right \in Sides /\ Opposite(Left) = Right /\ Opposite(Right) = Left
      /\ \A z \in Sides : z = Left \/ z = Right
  BY Zenon DEF Sides, Opposite, Left, Right
<1>4. /\ y \in InTree(t) /\ y # e /\ t.child[Left][e] # y /\ r # e
      /\ c \in NodeOrNil /\ c # e
      /\ c # Nil => c \in InTree(t) /\ t.parent[c] = y
  BY <1>1, <1>2, SuccessorNodes
<1>5. t \in Trees /\ y \in Nodes /\ e \in Nodes
  BY <1>4, TreeTypes DEF Shape
<1>6. y \in D[r] /\ t.child[Left][y] = Nil
  BY <1>1 DEF IsSuccessor
<1>7. r \in InTree(t)
  BY <1>1, SuccessorNodes
<1>8. InTree(m) = InTree(t) \ {y} /\ Shape(m, Dm)
  <2>1. t.child[Opposite(Right)][y] = Nil
    BY <1>3, <1>6
  <2>2. Dm = [x \in NodeOrNil |-> D[x] \ {y}]
    BY DEF Without
  <2> QED BY <1>3, <1>4, <2>1, <2>2, RemoveShape
<1>9. e \in InTree(m) /\ y \notin InTree(m)
  BY <1>4, <1>8
<1>10. D[c] \subseteq D[y] /\ D[y] \subseteq D[r] /\ e \notin D[r]
  <2>1. D[y] \subseteq D[r]
    BY <1>6, <1>7, Below, Zenon
  <2>2. D[y] = {y} \cup D[c] \cup D[t.child[Opposite(Right)][y]]
    BY <1>2, <1>3, <1>4, NodeFacts
  <2>3. e \notin D[r]
    BY <1>1, <1>3, NodeFacts
  <2> QED BY <2>1, <2>2, <2>3
<1>11. ASSUME NEW a \in InTree(m), NEW z \in Sides
       PROVE  /\ t.child[z][a] # y => Dm[m.child[z][a]] = D[t.child[z][a]] \ {y}
              /\ t.child[z][a] = y => Dm[m.child[z][a]] \subseteq D[r] \ {y}
  <2>1. a \in Nodes /\ a # y /\ a \in InTree(t)
    BY <1>5, <1>8, TreeTypes
  <2>2. m.child[z][a] = IF t.child[z][a] = y THEN c ELSE t.child[z][a]
    BY <1>2, <2>1 DEF Removes
  <2>3. t.child[z][a] \in NodeOrNil
    BY <1>5, <2>1, TreeTypes
  <2>4. \A x \in NodeOrNil : Dm[x] = D[x] \ {y}
    BY DEF Without
  <2> QED BY <1>4, <1>10, <2>2, <2>3, <2>4
<1>12. ASSUME NEW z \in Sides, NEW x \in Dm[m.child[z][e]] PROVE Beyond(z, x, y)
  <2>1. CASE z = Left
    <3>1. x \in D[t.child[Left][e]]
      BY <1>4, <1>9, <1>11, <2>1
    <3>2. Beyond(Left, x, e) /\ x \in InTree(t)
      BY <1>3, <3>1, NodeFacts
    <3>3. Beyond(Right, y, e)
      BY <1>1, <1>3, <1>6, NodeFacts
    <3>4. x \in Nodes
      BY <1>5, <3>2, TreeTypes
    <3>5. Beyond(Left, e, y)
      BY <1>3, <1>5, <3>3, BeyondFacts
    <3> QED BY <1>3, <1>5, <2>1, <3>2, <3>4, <3>5, BeyondFacts
  <2>2. CASE z = Right
    <3>1. x \in D[r] /\ x # y
      BY <1>1, <1>9, <1>11, <2>2
    <3>2. Key[y] < Key[x]
      BY <1>1, <3>1
    <3> QED BY <2>2, <3>2 DEF Beyond, Left, Right
  <2> QED BY <1>3, <2>1, <2>2
<1>13. ASSUME NEW a \in InTree(m), NEW z \in Sides, e \in Dm[m.child[z][a]] PROVE Beyond(z, y, a)
  <2>1. a \in InTree(t)
    BY <1>8
  <2>2. t.child[z][a] # y /\ e \in D[t.child[z][a]]
    BY <1>10, <1>11, <1>13
  <2>3. t.child[z][a] \in InTree(t)
    BY <2>1, <2>2, NodeFacts
  <2>4. D[e] \subseteq D[t.child[z][a]]
    BY <2>2, <2>3, Below
  <2>5. y \in D[e]
    <3>1. D[e] = {e} \cup D[r] \cup D[t.child[Opposite(Right)][e]]
      BY <1>1, <1>3, NodeFacts
    <3> QED BY <1>6, <3>1, Zenon
  <2> QED BY <2>1, <2>4, <2>5, NodeFacts
<1>14. InTree(u) = (InTree(m) \ {e}) \cup {y} /\ Shape(u, ReplacedBelow(Dm, e, y))
  BY <1>5, <1>8, <1>9, <1>12, <1>13, ReplaceShape
<1>15. InTree(u) = InTree(t) \ {e}
  BY <1>4, <1>8, <1>14
<1> QED BY <1>8, <1>14, <1>15


-----------------------------------------------------------------------------
(* Colours and heights.                                                    *)

\* A red node has a black parent.
RedAt(t, n) == IsRed(t, n) => t.parent[n] # Nil /\ IsBlack(t, t.parent[n])

\* One black node is lacking on the paths through the places of X.
Level(t, h, X, n, s) ==
    h[n] = h[t.child[s][n]] + (IF <<n, s>> \in X THEN 1 ELSE 0) + (IF t.color[n] = Black THEN 1 ELSE 0)

\* h[n] black nodes are on every path down from n, with those that are lacking.
Balanced(t, h, X) ==
    /\ h \in [NodeOrNil -> Nat]
    /\ h[Nil] = 0
    /\ \A n \in InTree(t) : \A s \in Sides : Level(t, h, X, n, s)

LEMMA Colours ==
    ASSUME NEW t \in Trees, NEW n \in Nodes
    PROVE  /\ n # Nil /\ Red # Black
           /\ IsRed(t, n) <=> t.color[n] = Red
           /\ IsBlack(t, n) <=> t.color[n] = Black
           /\ IsRed(t, n) <=> t.color[n] # Black
           /\ IsBlack(t, n) <=> t.color[n] # Red
<1>1. t.color[n] \in {Red, Black} /\ n # Nil
  BY TreeTypes, NilAssumption
<1> QED BY <1>1 DEF IsRed, IsBlack, Red, Black

\* NULL is black.
LEMMA NilBlack ==
    ASSUME NEW t
    PROVE  ~ IsRed(t, Nil) /\ IsBlack(t, Nil)
BY DEF IsRed, IsBlack

\* A node in a place that lacks a black one has a sibling, and so its side is
\* the one that the code finds.
LEMMA ShortSide ==
    ASSUME NEW t, NEW D, Shape(t, D), NEW h, NEW n \in InTree(t), NEW s \in Sides,
           Balanced(t, h, {<<n, s>>})
    PROVE  /\ t.child[Opposite(s)][n] # Nil
           /\ h[t.child[Opposite(s)][n]] = h[t.child[s][n]] + 1
           /\ SideOf(t, n, t.child[s][n]) = s
<1>1. t \in Trees /\ n \in Nodes
  BY TreeTypes DEF Shape
<1>2. Opposite(s) \in Sides /\ Opposite(s) # s
  BY SideFacts
<1>3. h[t.child[s][n]] \in Nat /\ h[t.child[Opposite(s)][n]] \in Nat /\ h[Nil] = 0
  BY <1>1, <1>2, TreeTypes DEF Balanced
<1>4. h[n] = h[t.child[s][n]] + 1 + (IF t.color[n] = Black THEN 1 ELSE 0)
  BY DEF Balanced, Level
<1>5. h[n] = h[t.child[Opposite(s)][n]] + 0 + (IF t.color[n] = Black THEN 1 ELSE 0)
  <2>1. <<n, Opposite(s)>> \notin {<<n, s>>}
    BY <1>2
  <2> QED BY <1>2, <2>1 DEF Balanced, Level
<1>6. h[t.child[Opposite(s)][n]] = h[t.child[s][n]] + 1
  BY <1>3, <1>4, <1>5
<1>7. t.child[Opposite(s)][n] # Nil
  BY <1>3, <1>6
<1>8. t.child[Opposite(s)][n] # t.child[s][n]
  BY <1>2, <1>7, NodeFacts, SideFacts
<1>9. SideOf(t, n, t.child[s][n]) = s
  BY <1>8, SideFacts DEF SideOf, Sides, Opposite
<1> QED BY <1>6, <1>7, <1>9

\* A tree with other colours.
SamePointers(t, u) == u \in Trees /\ u.root = t.root /\ u.child = t.child /\ u.parent = t.parent

\* A rotation after nodes have been painted.
LEMMA PaintedRotation ==
    ASSUME NEW t, NEW D, Shape(t, D), NEW m, SamePointers(t, m), NEW n \in InTree(t), NEW s \in Sides,
           t.child[Opposite(s)][n] # Nil, NEW u, u = rb_rotate(m, n, s)
    PROVE  /\ u \in Trees /\ u.color = m.color
           /\ RotatedRoot(t, u, n, s) /\ RotatedChildren(t, u, n, s) /\ RotatedParents(t, u, n, s)
           /\ InTree(u) = InTree(t) /\ Shape(u, RotatedBelow(t, D, n, s))
<1>1. m \in Trees /\ m.root = t.root /\ m.child = t.child /\ m.parent = t.parent
  BY DEF SamePointers
<1>2. InTree(m) = InTree(t) /\ Shape(m, D)
  BY <1>1, SameShape
<1>3. n \in InTree(m) /\ m.child[Opposite(s)][n] # Nil
  BY <1>1, <1>2
<1>4. Rotates(m, u, n, s)
  BY <1>2, <1>3, RotatePoints
<1>5. InTree(u) = InTree(m) /\ Shape(u, RotatedBelow(m, D, n, s))
  BY <1>2, <1>3, <1>4, RotateShape
<1>6. RotatedBelow(m, D, n, s) = RotatedBelow(t, D, n, s)
  BY <1>1 DEF RotatedBelow
<1>7. u \in Trees /\ u.color = m.color /\ RotatedRoot(m, u, n, s) /\ RotatedChildren(m, u, n, s)
      /\ RotatedParents(m, u, n, s)
  BY <1>4 DEF Rotates
<1>8. RotatedRoot(t, u, n, s)
  BY <1>1, <1>7 DEF RotatedRoot
<1>9. RotatedChildren(t, u, n, s)
  BY <1>1, <1>7 DEF RotatedChildren
<1>10. RotatedParents(t, u, n, s)
  BY <1>1, <1>7, Zenon DEF RotatedParents
<1> QED BY <1>2, <1>5, <1>6, <1>7, <1>8, <1>9, <1>10

\* After a rotation of n to the side s the node n, the node up that goes above
\* it, and the outer child of up if its height has changed, have the heights g.
Relevels(t, u, n, s, h, X, g, Y, out) ==
    LET up == t.child[Opposite(s)][n] IN
    /\ out = Nil \/ out = t.child[Opposite(s)][up]
    /\ g[up] = h[n]
    /\ \A x \in NodeOrNil : x # n /\ x # up /\ (x # out \/ x = Nil) => g[x] = h[x]
    /\ \A x \in Nodes : x # n /\ x # up /\ x # out =>
         u.color[x] = t.color[x] /\ \A z \in Sides : <<x, z>> \in X <=> <<x, z>> \in Y
    /\ \A z \in Sides : Level(u, g, Y, n, z) /\ Level(u, g, Y, up, z)
    /\ out # Nil => \A z \in Sides : Level(u, g, Y, out, z)

\* Then the other nodes have theirs.
LEMMA RotateLevels ==
    ASSUME NEW t, NEW D, Shape(t, D), NEW n \in InTree(t), NEW s \in Sides,
           t.child[Opposite(s)][n] # Nil,
           NEW h, NEW X, Balanced(t, h, X),
           NEW u \in Trees, RotatedChildren(t, u, n, s), InTree(u) = InTree(t),
           NEW g \in [NodeOrNil -> Nat], NEW Y, NEW out, Relevels(t, u, n, s, h, X, g, Y, out)
    PROVE  Balanced(u, g, Y)
<1>1. PICK up : up = t.child[Opposite(s)][n]
  OBVIOUS
<1>0. /\ out = Nil \/ out = t.child[Opposite(s)][up]
      /\ g[up] = h[n]
      /\ \A x \in NodeOrNil : x # n /\ x # up /\ (x # out \/ x = Nil) => g[x] = h[x]
      /\ \A x \in Nodes : x # n /\ x # up /\ x # out =>
           u.color[x] = t.color[x] /\ \A z \in Sides : <<x, z>> \in X <=> <<x, z>> \in Y
      /\ \A z \in Sides : Level(u, g, Y, n, z) /\ Level(u, g, Y, up, z)
      /\ out # Nil => \A z \in Sides : Level(u, g, Y, out, z)
  BY <1>1 DEF Relevels
<1>2. n \in Nodes /\ up \in Nodes /\ up \in InTree(t) /\ up # n /\ t.parent[up] = n
  BY <1>1, RotatedNodes
<1>3. t \in Trees /\ Opposite(s) \in Sides
  BY SideFacts DEF Shape
<1>4. g[Nil] = 0
  <2>1. g[Nil] = h[Nil]
    BY <1>0, <1>2, NilAssumption DEF NodeOrNil
  <2> QED BY <2>1 DEF Balanced
<1>5. ASSUME NEW x \in InTree(u), NEW z \in Sides PROVE Level(u, g, Y, x, z)
  <2>1. x \in InTree(t) /\ x \in Nodes /\ x # Nil /\ x \in NodeOrNil
    BY <1>3, TreeTypes, NilAssumption DEF NodeOrNil
  <2>2. CASE x = n \/ x = up \/ x = out
    BY <1>0, <2>1, <2>2
  <2>3. CASE x # n /\ x # up /\ x # out
    <3>1. u.child[z][x] = IF t.child[z][x] = n THEN up ELSE t.child[z][x]
      BY <1>1, <2>1, <2>3 DEF RotatedChildren
    <3>2. t.child[z][x] # up
      BY <1>2, <2>1, <2>3, ParentFacts
    <3>3. t.child[z][x] # out \/ out = Nil
      <4>1. CASE out = Nil
        BY <4>1
      <4>2. CASE out # Nil
        <5>1. out = t.child[Opposite(s)][up] /\ out \in InTree(t) /\ t.parent[out] = up
          BY <1>0, <1>2, <1>3, <4>2, NodeFacts
        <5> QED BY <2>1, <2>3, <5>1, ParentFacts
      <4> QED BY <4>1, <4>2
    <3>4. t.child[z][x] \in NodeOrNil
      BY <1>3, <2>1, TreeTypes
    <3>5. g[u.child[z][x]] = h[t.child[z][x]]
      BY <1>0, <3>1, <3>2, <3>3, <3>4
    <3>6. Level(t, h, X, x, z)
      BY <2>1 DEF Balanced
    <3>7. g[x] = h[x] /\ u.color[x] = t.color[x] /\ (<<x, z>> \in X <=> <<x, z>> \in Y)
      BY <1>0, <2>1, <2>3
    <3> QED BY <3>5, <3>6, <3>7 DEF Level
  <2> QED BY <2>2, <2>3
<1> QED BY <1>4, <1>5 DEF Balanced

\* A red node that goes up and changes colours with the node above it keeps
\* the heights.
LEMMA SwapBalanced ==
    ASSUME NEW t, NEW D, Shape(t, D), NEW n \in InTree(t), NEW s \in Sides,
           t.child[Opposite(s)][n] # Nil,
           NEW h, NEW X, Balanced(t, h, X),
           NEW u \in Trees, RotatedChildren(t, u, n, s), InTree(u) = InTree(t),
           LET up == t.child[Opposite(s)][n] IN
             /\ t.color[up] = Red
             /\ u.color[up] = t.color[n] /\ u.color[n] = Red
             /\ \A x \in Nodes : x # n /\ x # up => u.color[x] = t.color[x]
             /\ <<n, Opposite(s)>> \notin X /\ \A z \in Sides : <<up, z>> \notin X
    PROVE  \E g : Balanced(u, g, X)
<1>1. PICK up : up = t.child[Opposite(s)][n]
  OBVIOUS
<1>2. PICK g : g = [x \in NodeOrNil |-> IF x = n THEN h[up] ELSE IF x = up THEN h[n] ELSE h[x]]
  OBVIOUS
<1>3. n \in Nodes /\ up \in Nodes /\ up \in InTree(t) /\ up # n /\ n \in NodeOrNil /\ up \in NodeOrNil
      /\ t.child[s][up] \in NodeOrNil /\ t.child[s][up] # n /\ t.child[s][up] # up
  BY <1>1, RotatedNodes DEF NodeOrNil
<1>4. Opposite(s) \in Sides /\ Opposite(s) # s /\ \A z \in Sides : z = s \/ z = Opposite(s)
  BY SideFacts
<1>5. t \in Trees /\ h \in [NodeOrNil -> Nat] /\ Red # Black
  BY DEF Shape, Balanced, Red, Black
<1>6. g \in [NodeOrNil -> Nat]
  BY <1>2, <1>3, <1>5
<1>7. /\ u.child[s][n] = t.child[s][n] /\ u.child[Opposite(s)][n] = t.child[s][up]
      /\ u.child[s][up] = n /\ u.child[Opposite(s)][up] = t.child[Opposite(s)][up]
  BY <1>1, <1>3, <1>4 DEF RotatedChildren
<1>8. t.child[s][n] \in NodeOrNil /\ t.child[Opposite(s)][up] \in NodeOrNil
      /\ t.child[s][n] # n /\ t.child[s][n] # up /\ t.child[Opposite(s)][up] # n /\ t.child[Opposite(s)][up] # up
  <2>1. t.child[s][n] \in NodeOrNil /\ t.child[Opposite(s)][up] \in NodeOrNil
    BY <1>3, <1>4, <1>5, TreeTypes, Zenon
  <2>2. t.child[s][n] # n /\ t.child[Opposite(s)][up] # up
    BY <1>3, <1>4, <1>5, NodeFacts, NilAssumption
  <2>3. t.child[s][n] # up
    BY <1>1, <1>3, <1>4, NodeFacts, NilAssumption
  <2>4. t.child[Opposite(s)][up] # n
    <3>1. t.parent[n] # up
      BY <1>1, RotatedNodes
    <3> QED BY <1>3, <1>4, <3>1, ParentFacts
  <2> QED BY <2>1, <2>2, <2>3, <2>4
<1>9. /\ g[n] = h[up] /\ g[up] = h[n]
      /\ \A x \in NodeOrNil : x # n /\ x # up => g[x] = h[x]
  BY <1>2, <1>3
<1>10. /\ h[n] \in Nat /\ h[up] \in Nat /\ h[t.child[s][n]] \in Nat
       /\ h[t.child[s][up]] \in Nat /\ h[t.child[Opposite(s)][up]] \in Nat
  BY <1>3, <1>5, <1>8
<1>11. /\ h[n] = h[up] + (IF t.color[n] = Black THEN 1 ELSE 0)
       /\ h[n] = h[t.child[s][n]] + (IF <<n, s>> \in X THEN 1 ELSE 0) + (IF t.color[n] = Black THEN 1 ELSE 0)
       /\ h[up] = h[t.child[s][up]] /\ h[up] = h[t.child[Opposite(s)][up]]
  <2>1. Level(t, h, X, n, s) /\ Level(t, h, X, n, Opposite(s)) /\ Level(t, h, X, up, s)
        /\ Level(t, h, X, up, Opposite(s))
    BY <1>3, <1>4 DEF Balanced
  <2>2. <<n, Opposite(s)>> \notin X /\ <<up, s>> \notin X /\ <<up, Opposite(s)>> \notin X /\ t.color[up] # Black
    BY <1>1, <1>4, <1>5, Zenon
  <2> QED BY <1>1, <1>10, <2>1, <2>2 DEF Level
<1>12. Level(u, g, X, n, s)
  <2>1. u.color[n] # Black
    BY <1>5
  <2>2. g[u.child[s][n]] = h[t.child[s][n]]
    BY <1>7, <1>8, <1>9
  <2> QED BY <1>9, <1>10, <1>11, <2>1, <2>2 DEF Level
<1>13. Level(u, g, X, n, Opposite(s))
  <2>1. u.color[n] # Black /\ <<n, Opposite(s)>> \notin X
    BY <1>5
  <2>2. g[u.child[Opposite(s)][n]] = h[t.child[s][up]]
    BY <1>3, <1>7, <1>9
  <2>3. g[n] = h[t.child[s][up]] + 0 + 0
    BY <1>9, <1>10, <1>11
  <2> QED BY <2>1, <2>2, <2>3, Zenon DEF Level
<1>14. Level(u, g, X, up, s)
  <2>1. u.color[up] = t.color[n] /\ <<up, s>> \notin X
    BY <1>1
  <2>2. g[u.child[s][up]] = h[up]
    BY <1>7, <1>9
  <2> QED BY <1>9, <1>10, <1>11, <2>1, <2>2 DEF Level
<1>15. Level(u, g, X, up, Opposite(s))
  <2>1. u.color[up] = t.color[n] /\ <<up, Opposite(s)>> \notin X
    BY <1>1, <1>4
  <2>2. g[u.child[Opposite(s)][up]] = h[t.child[Opposite(s)][up]]
    BY <1>7, <1>8, <1>9
  <2> QED BY <1>9, <1>10, <1>11, <2>1, <2>2 DEF Level
<1>16. /\ \A z \in Sides : Level(u, g, X, n, z) /\ Level(u, g, X, up, z)
       /\ \A x \in Nodes : x # n /\ x # up => u.color[x] = t.color[x]
  BY <1>1, <1>4, <1>12, <1>13, <1>14, <1>15, Zenon
<1>17. Balanced(u, g, X)
  <2>1. Relevels(t, u, n, s, h, X, g, X, Nil)
    BY <1>1, <1>6, <1>9, <1>16, Zenon DEF Relevels
  <2> QED BY <1>1, <1>6, <1>9, <2>1, RotateLevels, Zenon
<1> QED BY <1>17


\* A search tree whose paths have the same number of black nodes, when those
\* that X lacks are counted.
Sound(t, X) == (\E D : Shape(t, D)) /\ (\E h : Balanced(t, h, X))

\* What a rotation at n to the side s makes of t when up, the node that goes
\* above it, takes its black and gives it its red.
Swaps(t, u, n, s, up, X) ==
    /\ u \in Trees /\ InTree(u) = InTree(t) /\ Sound(u, X)
    /\ \A x \in InTree(u) : RedAt(u, x)
    /\ u.color[up] = Black /\ u.color[n] = Red
    /\ \A x \in Nodes : x # n /\ x # up => u.color[x] = t.color[x]
    /\ u.child[s][n] = t.child[s][n] /\ u.child[Opposite(s)][n] = t.child[s][up]
    /\ u.child[s][up] = n /\ u.child[Opposite(s)][up] = t.child[Opposite(s)][up]
    /\ u.parent[n] = up /\ u.parent[up] = t.parent[n]
    /\ \A z \in Sides : \A x \in Nodes : x # n /\ x # up =>
         u.child[z][x] = IF t.child[z][x] = n THEN up ELSE t.child[z][x]

\* A red node comes above a black one and they change colours.
LEMMA SwapRotation ==
    ASSUME NEW t, NEW D, Shape(t, D), NEW n \in InTree(t), NEW s \in Sides,
           t.child[Opposite(s)][n] # Nil,
           NEW h, NEW X, Balanced(t, h, X),
           NEW up, up = t.child[Opposite(s)][n], t.color[up] = Red, t.color[n] = Black,
           IsBlack(t, t.child[s][n]),
           <<n, Opposite(s)>> \notin X, \A z \in Sides : <<up, z>> \notin X,
           \A x \in InTree(t) : x # t.child[Opposite(s)][up] => RedAt(t, x),
           NEW u, u = rb_rotate(Paint(Paint(t, up, Black), n, Red), n, s)
    PROVE  Swaps(t, u, n, s, up, X)
<1>1. /\ n \in Nodes /\ up \in Nodes /\ up \in InTree(t) /\ up # n /\ t.parent[up] = n
      /\ t.child[s][up] # n /\ t.child[s][up] # up
      /\ t.child[s][up] # Nil => t.child[s][up] \in InTree(t) /\ t.parent[t.child[s][up]] = up
  BY RotatedNodes
<1>2. t \in Trees /\ Opposite(s) \in Sides /\ Opposite(s) # s /\ Red # Black
      /\ Red \in {Red, Black} /\ Black \in {Red, Black} /\ \A z \in Sides : z = s \/ z = Opposite(s)
  BY SideFacts DEF Shape, Red, Black
<1>3. PICK a : a = Paint(t, up, Black)
  OBVIOUS
<1>4. PICK m : m = Paint(a, n, Red)
  OBVIOUS
<1>5. Paints(t, a, up, Black)
  BY <1>1, <1>2, <1>3, PaintPoints
<1>6. Paints(a, m, n, Red)
  <2>1. a \in Trees
    BY <1>5 DEF Paints
  <2> QED BY <1>1, <1>2, <1>4, <2>1, PaintPoints
<1>7. SamePointers(t, m)
  BY <1>5, <1>6 DEF Paints, SamePointers
<1>8. \A x \in Nodes : m.color[x] = IF x = n THEN Red ELSE IF x = up THEN Black ELSE t.color[x]
  <2>1. \A x \in Nodes : a.color[x] = IF x = up THEN Black ELSE t.color[x]
    BY <1>5, Zenon DEF Paints
  <2>2. \A x \in Nodes : m.color[x] = IF x = n THEN Red ELSE a.color[x]
    BY <1>6, Zenon DEF Paints
  <2> QED BY <2>1, <2>2, Zenon
<1>9. u = rb_rotate(m, n, s)
  BY <1>3, <1>4
<1>10. /\ u \in Trees /\ u.color = m.color
       /\ RotatedRoot(t, u, n, s) /\ RotatedChildren(t, u, n, s) /\ RotatedParents(t, u, n, s)
       /\ InTree(u) = InTree(t) /\ Shape(u, RotatedBelow(t, D, n, s))
  BY <1>7, <1>9, PaintedRotation, Zenon
<1>11. /\ u.color[up] = Black /\ u.color[n] = Red
       /\ \A x \in Nodes : x # n /\ x # up => u.color[x] = t.color[x]
  BY <1>1, <1>8, <1>10
<1>12. \E g : Balanced(u, g, X)
  BY <1>10, <1>11, SwapBalanced
<1>13. \A x \in Nodes : u.parent[x] = IF x = n THEN up ELSE IF x = up THEN t.parent[n]
                                      ELSE IF x = t.child[s][up] THEN n ELSE t.parent[x]
  BY <1>10, Zenon DEF RotatedParents
<1>14. ASSUME NEW x \in InTree(u), IsRed(u, x) PROVE u.parent[x] # Nil /\ IsBlack(u, u.parent[x])
  <2>1. x \in InTree(t) /\ x \in Nodes /\ u.color[x] = Red
    BY <1>2, <1>10, <1>14, TreeTypes, Colours
  <2>2. x # up
    BY <1>2, <1>11, <2>1, Zenon
  <2> up # Nil /\ IsBlack(u, up)
    <3>1. u \in Trees
      BY <1>10, Zenon
    <3>2. u.color[up] = Black
      BY <1>11, Zenon
    <3> QED BY <1>1, <3>1, <3>2, Colours
  <2>3. CASE x = n
    <3>1. u.parent[x] = up /\ up # Nil
      BY <1>13, <1>1, <2>1, <2>3, NilAssumption
    <3> QED BY <3>1, Zenon
  <2>4. CASE x # n /\ x = t.child[Opposite(s)][up]
    <3>1. PICK o : o = Opposite(s)
      OBVIOUS
    <3>2. o \in Sides /\ Opposite(o) = s /\ x = t.child[o][up] /\ x # Nil
      BY <1>2, <2>1, <2>4, <3>1, SideFacts, NilAssumption, Zenon
    <3>3. t.parent[x] = up /\ x # t.child[s][up]
      <4>1. up \in InTree(t)
        BY <1>1, Zenon
      <4>2. \A z \in Sides : t.child[z][up] # Nil =>
              t.parent[t.child[z][up]] = up /\ t.child[z][up] # t.child[Opposite(z)][up]
        BY <4>1, NodeFacts
      <4> QED BY <3>2, <4>2, Zenon
    <3>4. u.parent[x] = up
      BY <1>13, <2>1, <2>2, <2>4, <3>3
    <3> QED BY <3>4
  <2>5. CASE x # n /\ x # t.child[Opposite(s)][up]
    <3>1. IsRed(t, x) /\ RedAt(t, x)
      BY <1>2, <1>11, <2>1, <2>2, <2>5, Colours
    <3>2. t.parent[x] # Nil /\ IsBlack(t, t.parent[x])
      BY <3>1 DEF RedAt
    <3>3. t.parent[x] # up
      BY <1>1, <1>2, <3>2, Colours
    <3>4. x # t.child[s][up]
      BY <1>1, <2>1, <3>3, NilAssumption, Zenon
    <3>5. u.parent[x] = t.parent[x]
      BY <1>13, <2>1, <2>2, <2>5, <3>4
    <3>6. t.parent[x] # n
      <4> SUFFICES ASSUME t.parent[x] = n PROVE FALSE
        BY Zenon
      <4>1. x = t.child[s][n] \/ x = t.child[Opposite(s)][n]
        BY <2>1, ChildrenOf
      <4> QED BY <2>2, <3>1, <4>1 DEF IsBlack
    <3>7. t.parent[x] \in Nodes
      BY <1>2, <2>1, <3>2, TreeTypes DEF NodeOrNil
    <3>8. u.color[t.parent[x]] = t.color[t.parent[x]]
      BY <1>11, <3>3, <3>6, <3>7, Zenon
    <3> QED BY <1>2, <1>10, <3>2, <3>5, <3>7, <3>8, Colours
  <2> QED BY <2>3, <2>4, <2>5, Zenon
<1>15. /\ u.child[s][n] = t.child[s][n] /\ u.child[Opposite(s)][n] = t.child[s][up]
       /\ u.child[s][up] = n /\ u.child[Opposite(s)][up] = t.child[Opposite(s)][up]
  BY <1>1, <1>2, <1>10, Zenon DEF RotatedChildren
<1>16. Sound(u, X)
  BY <1>10, <1>12, Zenon DEF Sound
<1>17. u.parent[n] = up /\ u.parent[up] = t.parent[n]
  BY <1>1, <1>13, Zenon
<1>18. \A z \in Sides : \A x \in Nodes : x # n /\ x # up =>
         u.child[z][x] = IF t.child[z][x] = n THEN up ELSE t.child[z][x]
  BY <1>10 DEF RotatedChildren
<1>19. \A x \in InTree(u) : RedAt(u, x)
  BY <1>14, Zenon DEF RedAt
<1> QED BY <1>10, <1>11, <1>15, <1>16, <1>17, <1>18, <1>19, Zenon DEF Swaps

\* What it makes of t when both are red.
Turns(t, u, n, s, up, X) ==
    /\ u \in Trees /\ InTree(u) = InTree(t) /\ Sound(u, X) /\ u.color = t.color
    /\ \A x \in InTree(u) : x # n => RedAt(u, x)
    /\ \A z \in Sides : \A x \in Nodes : x # n /\ x # up =>
         u.child[z][x] = IF t.child[z][x] = n THEN up ELSE t.child[z][x]
    /\ u.child[s][up] = n /\ u.parent[up] = t.parent[n] /\ u.parent[n] = up

\* A red node that goes above its red parent: no colour changes.
LEMMA RedRotation ==
    ASSUME NEW t, NEW D, Shape(t, D), NEW n \in InTree(t), NEW s \in Sides,
           t.child[Opposite(s)][n] # Nil,
           NEW h, NEW X, Balanced(t, h, X),
           NEW up, up = t.child[Opposite(s)][n], t.color[up] = Red, t.color[n] = Red,
           <<n, Opposite(s)>> \notin X, \A z \in Sides : <<up, z>> \notin X,
           \A x \in InTree(t) : x # up => RedAt(t, x),
           NEW u, u = rb_rotate(t, n, s)
    PROVE  Turns(t, u, n, s, up, X)
<1>1. /\ n \in Nodes /\ up \in Nodes /\ up \in InTree(t) /\ up # n /\ t.parent[up] = n
      /\ t.child[s][up] # n /\ t.child[s][up] # up
      /\ t.child[s][up] # Nil => t.child[s][up] \in InTree(t) /\ t.parent[t.child[s][up]] = up
  BY RotatedNodes
<1>2. t \in Trees /\ Opposite(s) \in Sides /\ Opposite(s) # s /\ Red # Black
  BY SideFacts DEF Shape, Red, Black
<1>3. SamePointers(t, t)
  BY <1>2 DEF SamePointers
<1>4. /\ u \in Trees /\ u.color = t.color
      /\ RotatedRoot(t, u, n, s) /\ RotatedChildren(t, u, n, s) /\ RotatedParents(t, u, n, s)
      /\ InTree(u) = InTree(t) /\ Shape(u, RotatedBelow(t, D, n, s))
  BY <1>3, PaintedRotation
<1>5. \E g : Balanced(u, g, X)
  BY <1>4, SwapBalanced
<1>6. \A x \in Nodes : u.parent[x] = IF x = n THEN up ELSE IF x = up THEN t.parent[n]
                                     ELSE IF x = t.child[s][up] THEN n ELSE t.parent[x]
  BY <1>4, Zenon DEF RotatedParents
<1>7. ASSUME NEW x \in InTree(u), x # n, IsRed(u, x) PROVE u.parent[x] # Nil /\ IsBlack(u, u.parent[x])
  <2>1. x \in InTree(t) /\ x \in Nodes /\ IsRed(t, x)
    BY <1>2, <1>4, <1>7, TreeTypes DEF IsRed
  <2>2. CASE x = up
    <3>1. RedAt(t, n) /\ IsRed(t, n)
      BY <1>1, <1>2, Colours
    <3>2. u.parent[x] = t.parent[n]
      BY <1>1, <1>6, <2>2
    <3> QED BY <1>4, <3>1, <3>2, Zenon DEF RedAt, IsBlack, IsRed
  <2>3. CASE x # up
    <3>1. t.parent[x] # Nil /\ IsBlack(t, t.parent[x])
      BY <2>1, <2>3 DEF RedAt
    <3>2. x # t.child[s][up]
      BY <1>1, <1>2, <2>1, <3>1, Colours, NilAssumption
    <3>3. u.parent[x] = t.parent[x]
      BY <1>6, <1>7, <2>1, <2>3, <3>2
    <3> QED BY <1>4, <3>1, <3>3 DEF IsBlack, IsRed
  <2> QED BY <2>2, <2>3
<1>8. \A z \in Sides : \A x \in Nodes : x # n /\ x # up =>
        u.child[z][x] = IF t.child[z][x] = n THEN up ELSE t.child[z][x]
  BY <1>4 DEF RotatedChildren
<1>9. u.child[s][up] = n /\ u.parent[up] = t.parent[n] /\ u.parent[n] = up
  BY <1>1, <1>4, <1>6 DEF RotatedChildren
<1>10. Sound(u, X)
  BY <1>4, <1>5 DEF Sound
<1>11. \A x \in InTree(u) : x # n => RedAt(u, x)
  BY <1>7, Zenon DEF RedAt
<1> QED BY <1>4, <1>8, <1>9, <1>10, <1>11, Zenon DEF Turns


\* The nodes that a turn of rb_insert_color is about.
Around(t, n, p, g, s, uncle) ==
    /\ n \in Nodes /\ p \in Nodes /\ g \in Nodes /\ p \in InTree(t) /\ g \in InTree(t)
    /\ g # Nil /\ p # n /\ g # n /\ g # p
    /\ s \in Sides /\ t.child[s][g] = p
    /\ t.color[p] = Red /\ t.color[g] = Black
    /\ uncle \in NodeOrNil /\ uncle # p /\ uncle # g /\ uncle # n
    /\ uncle # Nil => uncle \in InTree(t) /\ uncle \in Nodes /\ t.parent[uncle] = g
    /\ IsInner(t, n) <=> t.child[Opposite(s)][p] = n
    /\ ~ IsInner(t, n) => t.child[s][p] = n

\* A red parent has a parent.
LEMMA InsertNodes ==
    ASSUME NEW t, NEW D, Shape(t, D), NEW n \in InTree(t), IsRed(t, t.parent[n]),
           \A x \in InTree(t) : x # n => RedAt(t, x),
           NEW p, p = t.parent[n], NEW g, g = t.parent[p], NEW s, s = SideOf(t, g, p),
           NEW uncle, uncle = t.child[Opposite(s)][g]
    PROVE  Around(t, n, p, g, s, uncle)
<1>1. t \in Trees /\ n \in Nodes
  BY TreeTypes DEF Shape
<1>2. p # Nil /\ IsRed(t, p)
  BY DEF IsRed
<1>3. p \in InTree(t) /\ p # n /\ g # n
  BY <1>2, ParentFacts
<1>4. p \in Nodes
  BY <1>1, <1>3, TreeTypes
<1>5. g # Nil /\ IsBlack(t, g) /\ t.color[p] = Red
  <2>1. RedAt(t, p)
    BY <1>3, Zenon
  <2> QED BY <1>1, <1>2, <1>4, <2>1, Colours DEF RedAt
<1>6. g \in InTree(t) /\ g # p /\ s \in Sides /\ t.child[s][g] = p
  BY <1>3, <1>5, ParentFacts
<1>7. g \in Nodes /\ t.color[g] = Black
  BY <1>1, <1>5, <1>6, TreeTypes, Colours, Zenon
<1>8. Opposite(s) \in Sides /\ Opposite(s) # s /\ \A z \in Sides : z = s \/ z = Opposite(s)
  BY <1>6, SideFacts, Zenon
<1>9. uncle \in NodeOrNil /\ uncle # p /\ uncle # g
  <2>1. uncle # p
    <3>1. t.child[s][g] # Nil
      BY <1>4, <1>6, NilAssumption, Zenon
    <3>2. \A x \in InTree(t) : \A z \in Sides : t.child[z][x] # Nil => t.child[z][x] # t.child[Opposite(z)][x]
      BY NodeFacts
    <3> QED BY <1>6, <3>1, <3>2, Zenon
  <2>2. uncle # g
    <3>1. \A x \in InTree(t) : \A z \in Sides : t.child[z][x] # Nil => t.child[z][x] # x
      BY NodeFacts
    <3> QED BY <1>6, <1>7, <1>8, <3>1, NilAssumption
  <2> QED BY <1>1, <1>7, <1>8, <2>1, <2>2, TreeTypes, Zenon
<1>10. uncle # Nil => uncle \in InTree(t) /\ uncle \in Nodes /\ t.parent[uncle] = g
  <2>1. \A x \in InTree(t) : \A z \in Sides : t.child[z][x] # Nil =>
          t.child[z][x] \in InTree(t) /\ t.parent[t.child[z][x]] = x
    BY NodeFacts
  <2>2. uncle # Nil => uncle \in InTree(t) /\ t.parent[uncle] = g
    BY <1>6, <1>8, <2>1, Zenon
  <2> QED BY <1>1, <2>2, TreeTypes, Zenon
<1>11. uncle # n
  BY <1>1, <1>3, <1>6, <1>10, NilAssumption
<1>12. IsInner(t, n) <=> t.child[Opposite(s)][p] = n
  BY Zenon DEF IsInner
<1>13. ~ IsInner(t, n) => t.child[s][p] = n
  <2>1. t.child[SideOf(t, p, n)][p] = n /\ SideOf(t, p, n) \in Sides
    BY <1>2, ParentFacts, Zenon
  <2> QED BY <1>8, <1>12, <2>1
<1> QED BY <1>1, <1>3, <1>4, <1>5, <1>6, <1>7, <1>9, <1>10, <1>11, <1>12, <1>13, Zenon DEF Around

\* The uncle of n.
UncleAt(t, n) ==
    LET p == t.parent[n]
        g == t.parent[p]
    IN t.child[Opposite(SideOf(t, g, p))][g]

\* A black uncle: after the rotations no red node has a red parent.
LEMMA InsertRotatedSound ==
    ASSUME NEW t, NEW D, Shape(t, D), NEW n \in InTree(t), IsRed(t, n), IsRed(t, t.parent[n]),
           \A x \in InTree(t) : x # n => RedAt(t, x),
           NEW h, Balanced(t, h, {}),
           IsBlack(t, UncleAt(t, n)),
           NEW u, u = InsertRotated(t, n)
    PROVE  /\ u \in Trees /\ InTree(u) = InTree(t) /\ Sound(u, {})
           /\ \A x \in InTree(u) : RedAt(u, x)
           /\ LET c == IF IsInner(t, n) THEN t.parent[n] ELSE n IN c \in InTree(u) /\ IsRed(u, c)
<1>1. PICK p : p = t.parent[n]
  OBVIOUS
<1>2. PICK g : g = t.parent[p]
  OBVIOUS
<1>3. PICK s : s = SideOf(t, g, p)
  BY Zenon
<1>4. PICK uncle : uncle = t.child[Opposite(s)][g]
  BY Zenon
<1>5. /\ n \in Nodes /\ p \in Nodes /\ g \in Nodes /\ p \in InTree(t) /\ g \in InTree(t)
      /\ g # Nil /\ p # n /\ g # n /\ g # p
      /\ s \in Sides /\ t.child[s][g] = p
      /\ t.color[p] = Red /\ t.color[g] = Black
      /\ uncle \in NodeOrNil /\ uncle # p /\ uncle # g /\ uncle # n
      /\ uncle # Nil => uncle \in InTree(t) /\ uncle \in Nodes /\ t.parent[uncle] = g
      /\ IsInner(t, n) <=> t.child[Opposite(s)][p] = n
      /\ ~ IsInner(t, n) => t.child[s][p] = n
  <2>1. Around(t, n, p, g, s, uncle)
    BY <1>1, <1>2, <1>3, <1>4, InsertNodes, Zenon
  <2> QED BY <2>1, Zenon DEF Around
<1>6. t \in Trees /\ Opposite(s) \in Sides /\ Opposite(Opposite(s)) = s /\ Opposite(s) # s
  BY <1>5, SideFacts DEF Shape
<1>7. PICK top : top = IF IsInner(t, n) THEN n ELSE p
  OBVIOUS
<1>8. PICK low : low = IF IsInner(t, n) THEN p ELSE n
  OBVIOUS
<1>9. PICK m : m = IF IsInner(t, n) THEN rb_rotate(t, p, s) ELSE t
  BY Zenon
<1>10. u = rb_rotate(Paint(Paint(m, top, Black), g, Red), g, Opposite(s))
  BY <1>1, <1>2, <1>3, <1>7, <1>9, Zenon DEF InsertRotated
<1>11. t.color[n] = Red
  BY <1>5, <1>6, Colours
<1>12. /\ InTree(m) = InTree(t) /\ Sound(m, {}) /\ m.color = t.color
       /\ \A x \in InTree(m) : x # low => RedAt(m, x)
       /\ m.child[s][g] = top /\ m.child[Opposite(s)][g] = uncle /\ m.child[s][top] = low
  <2>1. CASE IsInner(t, n)
    <3>1. <<p, Opposite(s)>> \notin {} /\ \A z \in Sides : <<n, z>> \notin {}
      BY Zenon
    <3>2. t.child[Opposite(s)][p] = n /\ n # Nil
      BY <1>5, <2>1, NilAssumption, Zenon
    <3>3. m = rb_rotate(t, p, s)
      BY <1>9, <2>1, Zenon
    <3>4. /\ InTree(m) = InTree(t) /\ Sound(m, {}) /\ m.color = t.color
          /\ \A x \in InTree(m) : x # p => RedAt(m, x)
          /\ \A z \in Sides : \A x \in Nodes : x # p /\ x # n =>
               m.child[z][x] = IF t.child[z][x] = p THEN n ELSE t.child[z][x]
          /\ m.child[s][n] = p
      <4>1. Turns(t, m, p, s, n, {})
        BY <1>5, <1>11, <3>1, <3>2, <3>3, RedRotation
      <4> QED BY <4>1 DEF Turns
    <3>5. m.child[s][g] = n /\ m.child[Opposite(s)][g] = uncle
      BY <1>4, <1>5, <1>6, <3>4
    <3> QED BY <1>7, <1>8, <2>1, <3>4, <3>5
  <2>2. CASE ~ IsInner(t, n)
    <3>1. Sound(t, {})
      BY Zenon DEF Sound
    <3> QED BY <1>4, <1>5, <1>7, <1>8, <1>9, <2>2, <3>1, Zenon
  <2> QED BY <2>1, <2>2
<1>13. PICK E : Shape(m, E)
  BY <1>12, Zenon DEF Sound
<1>14. PICK k : Balanced(m, k, {})
  BY <1>12 DEF Sound
<1>15. top \in Nodes /\ top # Nil /\ low \in Nodes /\ low \in InTree(t) /\ low # g /\ low # top
       /\ t.color[top] = Red /\ t.color[low] = Red
  BY <1>5, <1>7, <1>8, <1>11, NilAssumption, Zenon
<1>16. IsBlack(m, m.child[Opposite(s)][g])
  <2>1. uncle = UncleAt(t, n)
    BY <1>1, <1>2, <1>3, <1>4, Zenon DEF UncleAt
  <2> QED BY <1>12, <2>1, Zenon DEF IsBlack, IsRed
<1>17. /\ u \in Trees /\ InTree(u) = InTree(m) /\ Sound(u, {})
       /\ \A x \in InTree(u) : RedAt(u, x)
       /\ \A x \in Nodes : x # g /\ x # top => u.color[x] = m.color[x]
  <2>1. PICK o : o = Opposite(s)
    BY Zenon
  <2>2. o \in Sides /\ Opposite(o) = s /\ g \in InTree(m) /\ m.child[Opposite(o)][g] # Nil
        /\ top = m.child[Opposite(o)][g] /\ m.color[top] = Red /\ m.color[g] = Black
        /\ IsBlack(m, m.child[o][g]) /\ low = m.child[Opposite(o)][top]
    BY <1>5, <1>6, <1>12, <1>15, <1>16, <2>1
  <2>3. \A x \in InTree(m) : x # m.child[Opposite(o)][top] => RedAt(m, x)
    BY <1>12, <2>2
  <2>4. u = rb_rotate(Paint(Paint(m, top, Black), g, Red), g, o)
    BY <1>10, <2>1
  <2>5. <<g, Opposite(o)>> \notin {} /\ \A z \in Sides : <<top, z>> \notin {}
    BY Zenon
  <2>6. Swaps(m, u, g, o, top, {})
    BY <1>13, <1>14, <2>2, <2>3, <2>4, <2>5, SwapRotation
  <2> QED BY <2>6 DEF Swaps
<1>18. low \in InTree(u) /\ IsRed(u, low)
  <2>1. u.color[low] = Red
    BY <1>12, <1>15, <1>17, Zenon
  <2> QED BY <1>12, <1>15, <1>17, <2>1, Colours
<1> QED BY <1>1, <1>8, <1>12, <1>17, <1>18, Zenon

\* A red uncle: the grandparent is the red node that is left.
LEMMA InsertRecoloredSound ==
    ASSUME NEW t, NEW D, Shape(t, D), NEW n \in InTree(t), IsRed(t, t.parent[n]),
           \A x \in InTree(t) : x # n => RedAt(t, x),
           NEW h, Balanced(t, h, {}),
           IsRed(t, UncleAt(t, n)),
           NEW u, u = InsertRecolored(t, n)
    PROVE  LET g == t.parent[t.parent[n]] IN
           /\ u \in Trees /\ InTree(u) = InTree(t) /\ Sound(u, {})
           /\ g \in InTree(u) /\ IsRed(u, g)
           /\ \A x \in InTree(u) : x # g => RedAt(u, x)
<1>1. PICK p : p = t.parent[n]
  OBVIOUS
<1>2. PICK g : g = t.parent[p]
  OBVIOUS
<1>3. PICK s : s = SideOf(t, g, p)
  OBVIOUS
<1>4. PICK uncle : uncle = t.child[Opposite(s)][g]
  BY Zenon
<1>5. /\ n \in Nodes /\ p \in Nodes /\ g \in Nodes /\ p \in InTree(t) /\ g \in InTree(t)
      /\ g # Nil /\ p # n /\ g # n /\ g # p
      /\ s \in Sides /\ t.child[s][g] = p
      /\ t.color[p] = Red /\ t.color[g] = Black
      /\ uncle \in NodeOrNil /\ uncle # p /\ uncle # g /\ uncle # n
      /\ uncle # Nil => uncle \in InTree(t) /\ uncle \in Nodes /\ t.parent[uncle] = g
  <2>1. Around(t, n, p, g, s, uncle)
    BY <1>1, <1>2, <1>3, <1>4, InsertNodes, Zenon
  <2> QED BY <2>1, Zenon DEF Around
<1>6. uncle # Nil /\ t.color[uncle] = Red
  <2>1. uncle = UncleAt(t, n)
    BY <1>1, <1>2, <1>3, <1>4, Zenon DEF UncleAt
  <2> QED BY <2>1, Zenon DEF IsRed
<1>7. /\ t \in Trees /\ Opposite(s) \in Sides /\ Red # Black /\ Red \in {Red, Black} /\ Black \in {Red, Black}
      /\ \A z \in Sides : z = s \/ z = Opposite(s)
  BY <1>5, SideFacts DEF Shape, Red, Black
<1>8. PICK a : a = Paint(t, uncle, Black)
  OBVIOUS
<1>9. PICK b : b = Paint(a, p, Black)
  BY Zenon
<1>10. u = Paint(b, g, Red)
  BY <1>1, <1>2, <1>3, <1>4, <1>8, <1>9, Zenon DEF InsertRecolored
<1>11. Paints(t, a, uncle, Black)
  BY <1>5, <1>6, <1>7, <1>8, PaintPoints
<1>12. Paints(a, b, p, Black)
  <2>1. a \in Trees
    BY <1>11 DEF Paints
  <2> QED BY <1>5, <1>7, <1>9, <2>1, PaintPoints
<1>13. Paints(b, u, g, Red)
  <2>1. b \in Trees
    BY <1>12 DEF Paints
  <2> QED BY <1>5, <1>7, <1>10, <2>1, PaintPoints
<1>14. u \in Trees /\ u.root = t.root /\ u.child = t.child /\ u.parent = t.parent
  BY <1>11, <1>12, <1>13 DEF Paints
<1>15. \A x \in Nodes : u.color[x] = IF x = g THEN Red ELSE IF x = p \/ x = uncle THEN Black ELSE t.color[x]
  <2>1. \A x \in Nodes : a.color[x] = IF x = uncle THEN Black ELSE t.color[x]
    BY <1>11, Zenon DEF Paints
  <2>2. \A x \in Nodes : b.color[x] = IF x = p THEN Black ELSE a.color[x]
    BY <1>12, Zenon DEF Paints
  <2>3. \A x \in Nodes : u.color[x] = IF x = g THEN Red ELSE b.color[x]
    BY <1>13, Zenon DEF Paints
  <2> QED BY <2>1, <2>2, <2>3, Zenon
<1>16. InTree(u) = InTree(t) /\ Shape(u, D)
  BY <1>14, SameShape
<1>17. PICK k : k = [x \in NodeOrNil |-> IF x = p \/ x = uncle THEN h[x] + 1 ELSE h[x]]
  OBVIOUS
<1>18. h \in [NodeOrNil -> Nat] /\ h[Nil] = 0
  BY DEF Balanced
<1>19. k \in [NodeOrNil -> Nat]
  BY <1>17, <1>18
<1>20. \A x \in NodeOrNil : k[x] = IF x = p \/ x = uncle THEN h[x] + 1 ELSE h[x]
  BY <1>17
<1>21. k[Nil] = 0
  BY <1>5, <1>6, <1>18, <1>20, NilAssumption, Zenon DEF NodeOrNil
<1>22. ASSUME NEW x \in InTree(u), NEW z \in Sides PROVE Level(u, k, {}, x, z)
  <2>1. x \in InTree(t) /\ x \in Nodes /\ x \in NodeOrNil /\ t.child[z][x] \in NodeOrNil
    BY <1>7, <1>16, TreeTypes DEF NodeOrNil
  <2>2. h[x] = h[t.child[z][x]] + 0 + (IF t.color[x] = Black THEN 1 ELSE 0)
    <3>1. Level(t, h, {}, x, z)
      BY <2>1, Zenon DEF Balanced
    <3> QED BY <3>1 DEF Level
  <2>3. h[x] \in Nat /\ h[t.child[z][x]] \in Nat
    BY <1>18, <2>1
  <2>4. u.child[z][x] = t.child[z][x]
    BY <1>14, Zenon
  <2>5. k[x] = k[u.child[z][x]] + 0 + (IF u.color[x] = Black THEN 1 ELSE 0)
    <3>1. CASE x = g
      <4>1. t.child[z][x] = p \/ t.child[z][x] = uncle
        BY <1>4, <1>5, <1>7, <3>1
      <4>2. k[u.child[z][x]] = h[t.child[z][x]] + 1
        BY <1>20, <2>1, <2>4, <4>1
      <4>3. k[x] = h[x] /\ u.color[x] # Black /\ t.color[x] = Black
        BY <1>5, <1>7, <1>15, <1>20, <2>1, <3>1, Zenon
      <4> QED BY <2>2, <2>3, <4>2, <4>3
    <3>2. CASE x # g
      <4>1. t.child[z][x] # p /\ t.child[z][x] # uncle
        BY <1>2, <1>5, <1>6, <2>1, <3>2, ParentFacts
      <4>2. k[u.child[z][x]] = h[t.child[z][x]]
        BY <1>20, <2>1, <2>4, <4>1, Zenon
      <4>3. CASE x = p \/ x = uncle
        <5>1. k[x] = h[x] + 1 /\ u.color[x] = Black /\ t.color[x] # Black
          BY <1>5, <1>6, <1>7, <1>15, <1>20, <2>1, <3>2, <4>3
        <5> QED BY <2>2, <2>3, <4>2, <5>1
      <4>4. CASE x # p /\ x # uncle
        <5>1. k[x] = h[x] /\ u.color[x] = t.color[x]
          BY <1>15, <1>20, <2>1, <3>2, <4>4, Zenon
        <5> QED BY <2>2, <2>3, <4>2, <5>1, Zenon
      <4> QED BY <4>3, <4>4, Zenon
    <3> QED BY <3>1, <3>2, Zenon
  <2> QED BY <2>5, Zenon DEF Level
<1>23. Sound(u, {})
  <2>1. Balanced(u, k, {})
    BY <1>19, <1>21, <1>22 DEF Balanced
  <2> QED BY <1>16, <2>1 DEF Sound
<1>24. IsRed(u, g)
  BY <1>5, <1>15 DEF IsRed
<1>25. ASSUME NEW x \in InTree(u), x # g, IsRed(u, x) PROVE u.parent[x] # Nil /\ IsBlack(u, u.parent[x])
  <2>1. x \in InTree(t) /\ x \in Nodes /\ u.color[x] = Red
    BY <1>7, <1>16, <1>25, TreeTypes, Zenon DEF IsRed
  <2>2. x # p /\ x # uncle /\ t.color[x] = Red
    BY <1>7, <1>15, <1>25, <2>1, Zenon
  <2>3. CASE x = n
    <3>1. u.parent[x] = p /\ u.color[p] = Black
      BY <1>1, <1>5, <1>14, <1>15, <2>3, Zenon
    <3> QED BY <1>5, <1>14, <3>1, Colours, NilAssumption, Zenon
  <2>4. CASE x # n
    <3>1. t.parent[x] # Nil /\ IsBlack(t, t.parent[x])
      BY <1>7, <2>1, <2>2, <2>4, Colours DEF RedAt
    <3>2. t.parent[x] # g
      <4> SUFFICES ASSUME t.parent[x] = g PROVE FALSE
        BY Zenon
      <4>1. x = t.child[s][g] \/ x = t.child[Opposite(s)][g]
        BY <1>5, <2>1, ChildrenOf
      <4> QED BY <1>4, <1>5, <2>2, <4>1
    <3>3. t.parent[x] \in Nodes /\ t.color[t.parent[x]] = Black
      BY <1>7, <2>1, <3>1, TreeTypes, Colours DEF NodeOrNil
    <3>4. u.color[t.parent[x]] = Black
      BY <1>15, <3>2, <3>3
    <3> QED BY <1>14, <3>3, <3>4, Colours
  <2> QED BY <2>3, <2>4, Zenon
<1> QED BY <1>1, <1>2, <1>5, <1>14, <1>16, <1>23, <1>24, <1>25 DEF RedAt


\* What __rb_erase_color has once the sibling is black.
Levels(t, u, p, s) ==
    /\ u \in Trees /\ InTree(u) = InTree(t) /\ Sound(u, {<<p, s>>})
    /\ \A x \in InTree(u) : RedAt(u, x)
    /\ u.child[s][p] = t.child[s][p] /\ IsBlack(u, u.child[s][p])
    /\ u.child[Opposite(s)][p] \in Nodes /\ u.color[u.child[Opposite(s)][p]] = Black

\* A place that lacks a black node has a sibling, and a black one when the red
\* one has gone up.
LEMMA BlackSiblingSound ==
    ASSUME NEW t, NEW D, Shape(t, D), NEW p \in InTree(t), NEW s \in Sides,
           NEW h, Balanced(t, h, {<<p, s>>}), IsBlack(t, t.child[s][p]),
           \A x \in InTree(t) : RedAt(t, x),
           NEW u, u = BlackSibling(t, p, s)
    PROVE  Levels(t, u, p, s)
<1>1. PICK o : o = Opposite(s)
  OBVIOUS
<1>2. PICK other : other = t.child[o][p]
  OBVIOUS
<1>3. o \in Sides /\ o # s /\ Opposite(o) = s /\ t \in Trees /\ p \in Nodes /\ Red # Black
  BY <1>1, SideFacts, TreeTypes DEF Shape, Red, Black
<1>4. other # Nil
  BY <1>1, <1>2, ShortSide
<1>5. /\ other \in InTree(t) /\ t.parent[other] = p /\ other # p
      /\ other # t.child[s][p] /\ t.child[s][p] # p
  <2>1. \A x \in InTree(t) : \A z \in Sides : t.child[z][x] # Nil =>
          /\ t.child[z][x] \in InTree(t) /\ t.parent[t.child[z][x]] = x /\ t.child[z][x] # x
          /\ t.child[z][x] # t.child[Opposite(z)][x]
    BY NodeFacts
  <2> QED BY <1>2, <1>3, <1>4, <2>1, NilAssumption
<1>6. other \in Nodes
  BY <1>3, <1>5, TreeTypes
<1>7. CASE ~ IsRed(t, other)
  <2>1. u = t
    BY <1>1, <1>2, <1>7 DEF BlackSibling
  <2>2. t.color[other] = Black
    BY <1>3, <1>6, <1>7, Colours
  <2>3. Sound(t, {<<p, s>>})
    BY DEF Sound
  <2> QED BY <1>1, <1>2, <1>3, <1>6, <2>1, <2>2, <2>3 DEF Levels
<1>8. CASE IsRed(t, other)
  <2>1. u = rb_rotate(Paint(Paint(t, other, Black), p, Red), p, s)
    BY <1>1, <1>2, <1>8 DEF BlackSibling
  <2>2. t.color[other] = Red
    BY <1>8 DEF IsRed
  <2>3. t.color[p] = Black
    <3>1. RedAt(t, other)
      BY <1>5
    <3>2. IsBlack(t, p)
      BY <1>5, <1>8, <3>1 DEF RedAt
    <3> QED BY <1>3, <3>2, Colours
  <2>4. <<p, o>> \notin {<<p, s>>} /\ \A z \in Sides : <<other, z>> \notin {<<p, s>>}
    BY <1>3, <1>5
  <2>5. Swaps(t, u, p, s, other, {<<p, s>>})
    BY <1>1, <1>2, <1>4, <2>1, <2>2, <2>3, <2>4, SwapRotation
  <2>6. /\ u \in Trees /\ InTree(u) = InTree(t) /\ Sound(u, {<<p, s>>})
        /\ \A x \in InTree(u) : RedAt(u, x)
        /\ \A x \in Nodes : x # p /\ x # other => u.color[x] = t.color[x]
        /\ u.child[s][p] = t.child[s][p] /\ u.child[o][p] = t.child[s][other]
    BY <1>1, <2>5 DEF Swaps
  <2>7. IsBlack(u, u.child[s][p])
    <3>1. CASE t.child[s][p] = Nil
      BY <2>6, <3>1, NilBlack
    <3>2. CASE t.child[s][p] # Nil
      <4>1. t.child[s][p] \in Nodes
        BY <1>3, <3>2, TreeTypes DEF NodeOrNil
      <4>2. u.color[t.child[s][p]] = t.color[t.child[s][p]]
        BY <1>5, <2>6, <4>1
      <4> QED BY <1>3, <2>6, <4>1, <4>2, Colours
    <3> QED BY <3>1, <3>2
  <2>8. PICK E, k : Shape(u, E) /\ Balanced(u, k, {<<p, s>>})
    BY <2>6 DEF Sound
  <2>9. u.child[o][p] # Nil
    BY <1>1, <2>6, <2>8, ShortSide
  <2>10. t.child[s][other] \in InTree(t) /\ t.parent[t.child[s][other]] = other /\ t.child[s][other] \in Nodes
    BY <1>3, <1>5, <2>6, <2>9, NodeFacts, TreeTypes
  <2>11. t.color[t.child[s][other]] = Black
    <3>1. RedAt(t, t.child[s][other])
      BY <2>10
    <3> QED BY <1>3, <1>8, <2>10, <3>1, Colours DEF RedAt, IsBlack
  <2>12. t.child[s][other] # p /\ t.child[s][other] # other
    <3>1. t.parent[p] # other
      BY <1>4, <1>5, ParentFacts
    <3> QED BY <2>2, <2>10, <2>11, <3>1, <1>3
  <2>13. u.child[o][p] \in Nodes /\ u.color[u.child[o][p]] = Black
    BY <2>6, <2>10, <2>11, <2>12, Zenon
  <2> QED BY <1>1, <2>6, <2>7, <2>13 DEF Levels
<1> QED BY <1>7, <1>8

\* The sibling turns red: now the paths through the parent lack a black node.
LEMMA EraseRecolorSound ==
    ASSUME NEW t, NEW D, Shape(t, D), NEW p \in InTree(t), NEW s \in Sides,
           NEW h, Balanced(t, h, {<<p, s>>}),
           \A x \in InTree(t) : RedAt(t, x),
           NEW w \in Nodes, w = t.child[Opposite(s)][p], t.color[w] = Black,
           \A z \in Sides : IsBlack(t, t.child[z][w]),
           NEW u, u = Paint(t, w, Red)
    PROVE  /\ SamePointers(t, u) /\ InTree(u) = InTree(t)
           /\ Sound(u, IF t.parent[p] = Nil THEN {} ELSE {<<t.parent[p], SideOf(t, t.parent[p], p)>>})
           /\ \A x \in InTree(u) : u.parent[x] # p => RedAt(u, x)
<1>1. PICK o : o = Opposite(s)
  OBVIOUS
<1>2. /\ o \in Sides /\ o # s /\ Opposite(o) = s /\ \A z \in Sides : z = s \/ z = o
      /\ t \in Trees /\ p \in Nodes /\ Red # Black /\ Red \in {Red, Black}
  BY <1>1, SideFacts, TreeTypes DEF Shape, Red, Black
<1>3. w \in InTree(t) /\ t.parent[w] = p /\ w # p /\ w # Nil
  <2>1. \A x \in InTree(t) : \A z \in Sides : t.child[z][x] # Nil =>
          t.child[z][x] \in InTree(t) /\ t.parent[t.child[z][x]] = x /\ t.child[z][x] # x
    BY NodeFacts
  <2> QED BY <1>1, <1>2, <2>1, NilAssumption
<1>4. Paints(t, u, w, Red)
  BY <1>2, PaintPoints
<1>5. u \in Trees /\ u.root = t.root /\ u.child = t.child /\ u.parent = t.parent
  BY <1>4 DEF Paints
<1>6. \A x \in Nodes : u.color[x] = IF x = w THEN Red ELSE t.color[x]
  BY <1>4, Zenon DEF Paints
<1>7. InTree(u) = InTree(t) /\ Shape(u, D)
  BY <1>5, SameShape
<1>8. PICK q : q = t.parent[p]
  OBVIOUS
<1>9. PICK y : y = SideOf(t, q, p)
  OBVIOUS
<1>10. PICK Y : Y = IF q = Nil THEN {} ELSE {<<q, y>>}
  OBVIOUS
<1>11. h \in [NodeOrNil -> Nat] /\ h[Nil] = 0
  BY DEF Balanced
<1>12. PICK k : k = [x \in NodeOrNil |-> IF x = p \/ x = w THEN h[x] - 1 ELSE h[x]]
  OBVIOUS
<1>13. \A x \in NodeOrNil : k[x] = IF x = p \/ x = w THEN h[x] - 1 ELSE h[x]
  BY <1>12
<1>14. /\ h[t.child[s][p]] \in Nat /\ h[w] \in Nat /\ h[p] \in Nat
       /\ h[w] = h[t.child[s][p]] + 1 /\ h[p] = h[w] + (IF t.color[p] = Black THEN 1 ELSE 0)
  <2>1. h[t.child[s][p]] \in Nat /\ h[w] \in Nat /\ h[p] \in Nat
    BY <1>2, <1>11, TreeTypes DEF NodeOrNil
  <2>2. h[w] = h[t.child[s][p]] + 1
    BY ShortSide
  <2>3. Level(t, h, {<<p, s>>}, p, o) /\ <<p, o>> \notin {<<p, s>>}
    BY <1>2 DEF Balanced
  <2>4. h[p] = h[w] + 0 + (IF t.color[p] = Black THEN 1 ELSE 0)
    BY <1>1, <2>3 DEF Level
  <2> QED BY <2>1, <2>2, <2>4
<1>15. k \in [NodeOrNil -> Nat]
  <2>1. h[w] - 1 \in Nat /\ h[p] - 1 \in Nat
    BY <1>14
  <2> QED BY <1>11, <1>12, <2>1
<1>16. k[Nil] = 0
  BY <1>2, <1>11, <1>13, NilAssumption DEF NodeOrNil
<1>17. ASSUME NEW x \in InTree(u), NEW z \in Sides PROVE Level(u, k, Y, x, z)
  <2>1. x \in InTree(t) /\ x \in Nodes /\ x \in NodeOrNil /\ t.child[z][x] \in NodeOrNil
    BY <1>2, <1>7, TreeTypes DEF NodeOrNil
  <2>2. h[x] = h[t.child[z][x]] + (IF <<x, z>> \in {<<p, s>>} THEN 1 ELSE 0) + (IF t.color[x] = Black THEN 1 ELSE 0)
    <3>1. Level(t, h, {<<p, s>>}, x, z)
      BY <2>1 DEF Balanced
    <3> QED BY <3>1 DEF Level
  <2>3. h[x] \in Nat /\ h[t.child[z][x]] \in Nat
    BY <1>11, <2>1
  <2>4. u.child[z][x] = t.child[z][x]
    BY <1>5
  <2>5. t.child[z][x] = w => x = p /\ z = o
    <3>1. t.child[z][x] = w => x = p
      BY <1>3, <2>1, ParentFacts
    <3>2. t.child[s][p] # w
      BY <1>1, <1>2, <1>3, NodeFacts
    <3> QED BY <1>2, <3>1, <3>2
  <2>6. t.child[z][x] = p <=> x = q /\ z = y
    BY <1>8, <1>9, <2>1, PointerTo
  <2>7. q # p /\ q # w
    BY <1>2, <1>3, <1>8, ParentFacts, NilAssumption
  <2>8. <<x, z>> \in Y <=> t.child[z][x] = p
    <3>1. x # Nil
      BY <2>1, NilAssumption, Zenon
    <3> QED BY <1>10, <2>6, <3>1
  <2>9. k[x] = k[t.child[z][x]] + (IF <<x, z>> \in Y THEN 1 ELSE 0) + (IF u.color[x] = Black THEN 1 ELSE 0)
    <3>1. CASE x = p /\ z = s
      <4>1. <<x, z>> \in {<<p, s>>} /\ t.child[z][x] # w /\ t.child[z][x] # p
        BY <1>2, <2>5, <2>6, <2>7, <3>1, Zenon
      <4>2. k[x] = h[x] - 1 /\ k[t.child[z][x]] = h[t.child[z][x]] /\ u.color[x] = t.color[x] /\ <<x, z>> \notin Y
        BY <1>3, <1>6, <1>13, <2>1, <2>8, <3>1, <4>1, Zenon
      <4> QED BY <2>2, <2>3, <4>1, <4>2
    <3>2. CASE x = p /\ z = o
      <4>1. <<x, z>> \notin {<<p, s>>} /\ t.child[z][x] = w
        BY <1>1, <1>2, <3>2, Zenon
      <4>2. k[x] = h[x] - 1 /\ k[t.child[z][x]] = h[t.child[z][x]] - 1 /\ u.color[x] = t.color[x] /\ <<x, z>> \notin Y
        BY <1>3, <1>6, <1>13, <2>1, <2>8, <3>2, <4>1, Zenon
      <4> QED BY <2>2, <2>3, <4>1, <4>2
    <3>3. CASE x = w
      <4>1. <<x, z>> \notin {<<p, s>>} /\ t.child[z][x] # p /\ t.child[z][x] # w
        BY <1>3, <2>5, <2>6, <2>7, <3>3, Zenon
      <4>2. k[x] = h[x] - 1 /\ k[t.child[z][x]] = h[t.child[z][x]] /\ u.color[x] # Black /\ t.color[x] = Black
            /\ <<x, z>> \notin Y
        BY <1>2, <1>6, <1>13, <2>1, <2>8, <3>3, <4>1
      <4> QED BY <2>2, <2>3, <4>1, <4>2
    <3>4. CASE x # p /\ x # w
      <4>1. <<x, z>> \notin {<<p, s>>} /\ t.child[z][x] # w
        BY <2>5, <3>4, Zenon
      <4>2. k[x] = h[x] /\ u.color[x] = t.color[x]
        BY <1>6, <1>13, <2>1, <3>4
      <4>3. CASE t.child[z][x] = p
        <5>1. k[t.child[z][x]] = h[t.child[z][x]] - 1 /\ <<x, z>> \in Y
          BY <1>13, <2>1, <2>8, <4>3
        <5> QED BY <2>2, <2>3, <4>1, <4>2, <5>1
      <4>4. CASE t.child[z][x] # p
        <5>1. k[t.child[z][x]] = h[t.child[z][x]] /\ <<x, z>> \notin Y
          BY <1>13, <2>1, <2>8, <4>1, <4>4
        <5> QED BY <2>2, <2>3, <4>1, <4>2, <5>1
      <4> QED BY <4>3, <4>4
    <3> QED BY <1>2, <3>1, <3>2, <3>3, <3>4
  <2> QED BY <2>4, <2>9 DEF Level
<1>18. Sound(u, Y)
  <2>1. Balanced(u, k, Y)
    BY <1>15, <1>16, <1>17, Zenon DEF Balanced
  <2> QED BY <1>7, <2>1 DEF Sound
<1>19. ASSUME NEW x \in InTree(u), u.parent[x] # p, IsRed(u, x) PROVE u.parent[x] # Nil /\ IsBlack(u, u.parent[x])
  <2>1. x \in InTree(t) /\ x \in Nodes /\ x # w
    BY <1>2, <1>3, <1>5, <1>7, <1>19, TreeTypes, Zenon
  <2>2. IsRed(t, x)
    BY <1>2, <1>5, <1>6, <1>19, <2>1, Colours
  <2>3. t.parent[x] # Nil /\ IsBlack(t, t.parent[x])
    BY <2>1, <2>2 DEF RedAt
  <2>4. t.parent[x] # w
    <3> SUFFICES ASSUME t.parent[x] = w PROVE FALSE
      OBVIOUS
    <3>1. \E z \in Sides : x = t.child[z][w]
      BY <1>1, <1>2, <1>3, <2>1, ChildrenOf
    <3> QED BY <2>2, <3>1 DEF IsBlack
  <2>5. t.parent[x] \in Nodes
    BY <1>2, <2>1, <2>3, TreeTypes DEF NodeOrNil
  <2>6. u.color[t.parent[x]] = t.color[t.parent[x]]
    BY <1>6, <2>4, <2>5
  <2> QED BY <1>2, <1>5, <2>3, <2>5, <2>6, Colours
<1>20. \A x \in InTree(u) : u.parent[x] # p => RedAt(u, x)
  BY <1>19 DEF RedAt
<1>21. SamePointers(t, u)
  BY <1>5 DEF SamePointers
<1> QED BY <1>7, <1>8, <1>9, <1>10, <1>18, <1>20, <1>21


\* A black sibling with a red child on the far side, and what the last rotation
\* of __rb_erase_color makes of them.
Outer(t, p, s, top, f) ==
    /\ top = t.child[Opposite(s)][p] /\ t.color[top] = Black
    /\ f = t.child[Opposite(s)][top] /\ t.color[f] = Red

Lifts(t, u, p, s, top, f) ==
    u = rb_rotate(Paint(Paint(Paint(t, top, t.color[p]), p, Black), f, Black), p, s)

\* The sibling takes the colour of the parent, and no place lacks a black node
\* any more.
LEMMA LastRotationSound ==
    ASSUME NEW t, NEW D, Shape(t, D), NEW p \in InTree(t), NEW s \in Sides,
           NEW h, Balanced(t, h, {<<p, s>>}),
           \A x \in InTree(t) : RedAt(t, x),
           NEW top \in Nodes, NEW f \in Nodes, Outer(t, p, s, top, f), NEW u, Lifts(t, u, p, s, top, f)
    PROVE  u \in Trees /\ InTree(u) = InTree(t) /\ Sound(u, {}) /\ \A x \in InTree(u) : RedAt(u, x)
<1>1. PICK o : o = Opposite(s)
  OBVIOUS
<1>2. PICK inner : inner = t.child[s][top]
  OBVIOUS
<1>3. PICK near : near = t.child[s][p]
  OBVIOUS
<1>0. /\ top = t.child[o][p] /\ t.color[top] = Black /\ f = t.child[o][top] /\ t.color[f] = Red
      /\ t.child[Opposite(s)][p] = top /\ t.child[Opposite(s)][top] = f
  BY <1>1 DEF Outer
<1>4. /\ o \in Sides /\ o # s /\ Opposite(o) = s /\ \A z \in Sides : z = s \/ z = o
      /\ t \in Trees /\ p \in Nodes /\ Red # Black /\ Black \in {Red, Black} /\ t.color[p] \in {Red, Black}
      /\ top # Nil /\ f # Nil /\ p \in NodeOrNil /\ top \in NodeOrNil /\ f \in NodeOrNil
  <2>1. o \in Sides /\ o # s /\ Opposite(o) = s /\ \A z \in Sides : z = s \/ z = o
    BY <1>1, SideFacts
  <2>2. t \in Trees
    BY DEF Shape
  <2>3. p \in Nodes
    BY <2>2, TreeTypes
  <2>4. t.color[p] \in {Red, Black}
    BY <2>2, <2>3, TreeTypes
  <2>5. Red # Black /\ Black \in {Red, Black}
    BY DEF Red, Black
  <2>6. top # Nil /\ f # Nil /\ p \in NodeOrNil /\ top \in NodeOrNil /\ f \in NodeOrNil
    BY <2>3, NilAssumption, Zenon DEF NodeOrNil
  <2> QED BY <2>1, <2>2, <2>3, <2>4, <2>5, <2>6
<1>5. /\ top \in InTree(t) /\ top # p /\ t.parent[top] = p
      /\ inner # p /\ inner # top /\ t.parent[p] # p /\ t.parent[p] # top
  <2>1. t.child[Opposite(s)][p] # Nil
    BY <1>0, <1>4
  <2>2. LET up == t.child[Opposite(s)][p]
            in == t.child[s][up]
        IN /\ up \in InTree(t) /\ up # p /\ t.parent[up] = p
           /\ in # p /\ in # up /\ t.parent[p] # p /\ t.parent[p] # up
    BY <2>1, RotatedNodes
  <2> QED BY <1>0, <1>2, <2>2, Zenon
<1>6. \A x \in InTree(t) : \A z \in Sides : t.child[z][x] # Nil =>
        /\ t.child[z][x] \in InTree(t) /\ t.parent[t.child[z][x]] = x /\ t.child[z][x] # x
        /\ t.child[z][x] # t.child[Opposite(z)][x]
  BY NodeFacts
<1>7. f \in InTree(t) /\ t.parent[f] = top /\ f # top /\ f # p /\ f # inner
  <2>1. f \in InTree(t) /\ t.parent[f] = top /\ f # top /\ f # t.child[Opposite(o)][top]
    BY <1>0, <1>4, <1>5, <1>6
  <2> QED BY <1>2, <1>4, <1>5, <2>1
<1>8. inner # f /\ inner \in NodeOrNil /\ (inner # Nil => t.parent[inner] = top)
  BY <1>2, <1>4, <1>5, <1>6, <1>7, TreeTypes
<1>9. near # p /\ near # top /\ near # f /\ near \in NodeOrNil
  <2>1. near = Nil \/ (near # p /\ near # t.child[o][p] /\ t.parent[near] = p)
    BY <1>1, <1>3, <1>6
  <2> QED BY <1>0, <1>3, <1>4, <1>5, <1>7, <2>1, NilAssumption, TreeTypes
<1>10. PICK a : a = Paint(t, top, t.color[p])
  OBVIOUS
<1>11. PICK b : b = Paint(a, p, Black)
  OBVIOUS
<1>12. PICK m : m = Paint(b, f, Black)
  OBVIOUS
<1>13. Paints(t, a, top, t.color[p])
  BY <1>4, <1>10, PaintPoints
<1>14. Paints(a, b, p, Black)
  <2>1. a \in Trees
    BY <1>13 DEF Paints
  <2> QED BY <1>4, <1>11, <2>1, PaintPoints
<1>15. Paints(b, m, f, Black)
  <2>1. b \in Trees
    BY <1>14 DEF Paints
  <2> QED BY <1>4, <1>12, <2>1, PaintPoints
<1>16. SamePointers(t, m)
  BY <1>13, <1>14, <1>15 DEF Paints, SamePointers
<1>17. \A x \in Nodes : m.color[x] = IF x = f \/ x = p THEN Black ELSE IF x = top THEN t.color[p] ELSE t.color[x]
  <2>1. \A x \in Nodes : a.color[x] = IF x = top THEN t.color[p] ELSE t.color[x]
    BY <1>13, Zenon DEF Paints
  <2>2. \A x \in Nodes : b.color[x] = IF x = p THEN Black ELSE a.color[x]
    BY <1>14, Zenon DEF Paints
  <2>3. \A x \in Nodes : m.color[x] = IF x = f THEN Black ELSE b.color[x]
    BY <1>15, Zenon DEF Paints
  <2> QED BY <2>1, <2>2, <2>3, Zenon
<1>18. u = rb_rotate(m, p, s)
  BY <1>10, <1>11, <1>12 DEF Lifts
<1>19. /\ u \in Trees /\ u.color = m.color
       /\ RotatedRoot(t, u, p, s) /\ RotatedChildren(t, u, p, s) /\ RotatedParents(t, u, p, s)
       /\ InTree(u) = InTree(t) /\ Shape(u, RotatedBelow(t, D, p, s))
  BY <1>0, <1>4, <1>16, <1>18, PaintedRotation
<1>20. /\ u.color[p] = Black /\ u.color[f] = Black /\ u.color[top] = t.color[p]
       /\ \A x \in Nodes : x # p /\ x # top /\ x # f => u.color[x] = t.color[x]
  BY <1>4, <1>5, <1>7, <1>17, <1>19
<1>21. h \in [NodeOrNil -> Nat]
  BY DEF Balanced
<1>22. PICK k : k = [x \in NodeOrNil |-> IF x = p THEN h[top] ELSE IF x = top THEN h[p]
                                         ELSE IF x = f THEN h[f] + 1 ELSE h[x]]
  OBVIOUS
<1>23. k \in [NodeOrNil -> Nat]
  BY <1>4, <1>21, <1>22
<1>24. /\ k[p] = h[top] /\ k[top] = h[p] /\ k[f] = h[f] + 1
       /\ \A x \in NodeOrNil : x # p /\ x # top /\ x # f => k[x] = h[x]
  BY <1>4, <1>5, <1>7, <1>22
<1>25. h[p] \in Nat /\ h[top] \in Nat /\ h[f] \in Nat /\ h[near] \in Nat /\ h[inner] \in Nat
  BY <1>4, <1>8, <1>9, <1>21
<1>26. /\ h[top] = h[near] + 1 /\ h[top] = h[inner] + 1 /\ h[top] = h[f] + 1
       /\ h[p] = h[top] + (IF t.color[p] = Black THEN 1 ELSE 0)
  <2>1. h[top] = h[near] + 1
    BY <1>0, <1>3, ShortSide
  <2>2. Level(t, h, {<<p, s>>}, top, s) /\ Level(t, h, {<<p, s>>}, top, o) /\ Level(t, h, {<<p, s>>}, p, o)
    BY <1>4, <1>5, Zenon DEF Balanced
  <2>3. <<top, s>> \notin {<<p, s>>} /\ <<top, o>> \notin {<<p, s>>} /\ <<p, o>> \notin {<<p, s>>}
    BY <1>4, <1>5
  <2>4. h[top] = h[inner] + 0 + 1 /\ h[top] = h[f] + 0 + 1
        /\ h[p] = h[top] + 0 + (IF t.color[p] = Black THEN 1 ELSE 0)
    BY <1>0, <1>2, <1>4, <2>2, <2>3 DEF Level
  <2> QED BY <1>25, <2>1, <2>4
<1>27. /\ u.child[s][p] = near /\ u.child[o][p] = inner
       /\ u.child[s][top] = p /\ u.child[o][top] = f
       /\ \A z \in Sides : u.child[z][f] = t.child[z][f]
  <2>1. \A z \in Sides : \A x \in Nodes :
          u.child[z][x] = IF x = p THEN IF z = s THEN near ELSE inner
                          ELSE IF x = top THEN IF z = s THEN p ELSE t.child[z][top]
                          ELSE IF t.child[z][x] = p THEN top
                          ELSE t.child[z][x]
    BY <1>0, <1>2, <1>3, <1>19 DEF RotatedChildren
  <2>2. \A z \in Sides : t.child[z][f] # p
    <3>1. \A x \in Nodes : \A z \in Sides : t.child[z][x] = p => x = t.parent[p]
      BY ParentFacts
    <3>2. t.parent[p] # f
      <4> SUFFICES ASSUME t.parent[p] = f PROVE FALSE
        OBVIOUS
      <4>1. PICK z \in Sides : t.child[z][f] = p
        BY <1>4, ParentFacts
      <4>0. \A x \in InTree(t) : \A y \in Sides :
              D[x] = {x} \cup D[t.child[y][x]] \cup D[t.child[Opposite(y)][x]] /\ x \notin D[t.child[y][x]]
        BY NodeFacts
      <4>2. D[f] = {f} \cup D[p] \cup D[t.child[Opposite(z)][f]]
        BY <1>7, <4>0, <4>1
      <4>3. p \notin D[top] /\ p \in D[p]
        BY <1>0, <1>4, <4>0
      <4>4. D[top] = {top} \cup D[f] \cup D[t.child[Opposite(o)][top]]
        <5>1. D[top] = {top} \cup D[t.child[o][top]] \cup D[t.child[Opposite(o)][top]]
          BY <1>4, <1>5, <4>0
        <5> QED BY <1>0, <5>1
      <4> QED BY <4>2, <4>3, <4>4
    <3> QED BY <1>4, <3>1, <3>2
  <2> QED BY <1>0, <1>4, <1>5, <1>7, <2>1, <2>2, Zenon
<1>28. Level(u, k, {}, p, s) /\ Level(u, k, {}, p, o)
  <2>1. k[near] = h[near] /\ k[inner] = h[inner]
    BY <1>5, <1>8, <1>9, <1>24
  <2>2. k[p] = k[near] + 0 + 1 /\ k[p] = k[inner] + 0 + 1
    BY <1>24, <1>25, <1>26, <2>1
  <2> QED BY <1>20, <1>27, <2>2, Zenon DEF Level
<1>29. Level(u, k, {}, top, s) /\ Level(u, k, {}, top, o)
  <2>1. k[top] = k[p] + 0 + (IF u.color[top] = Black THEN 1 ELSE 0)
    BY <1>20, <1>24, <1>25, <1>26
  <2>2. k[top] = k[f] + 0 + (IF u.color[top] = Black THEN 1 ELSE 0)
    BY <1>20, <1>24, <1>25, <1>26
  <2> QED BY <1>27, <2>1, <2>2 DEF Level
<1>30. ASSUME NEW z \in Sides PROVE Level(u, k, {}, f, z)
  <2>0. <<f, z>> \notin {<<p, s>>}
    BY <1>7
  <2>1. Level(t, h, {<<p, s>>}, f, z) /\ <<f, z>> \notin {<<p, s>>}
    BY <1>7, <2>0, Zenon DEF Balanced
  <2>2. h[f] = h[t.child[z][f]] + 0 + 0
    BY <1>0, <1>4, <2>1 DEF Level
  <2>3. t.child[z][f] \in NodeOrNil /\ t.child[z][f] # p /\ t.child[z][f] # top /\ t.child[z][f] # f
    <3>1. t.child[z][f] \in NodeOrNil
      BY <1>4, TreeTypes
    <3>2. t.child[z][f] = Nil \/ (t.parent[t.child[z][f]] = f /\ t.child[z][f] # f)
      BY <1>6, <1>7
    <3>3. t.child[z][f] # p
      <4>1. u.child[z][f] # p
        <5>1. \A x \in Nodes : u.child[z][x] = p => x = u.parent[p]
          BY <1>4, <1>19, ParentFacts
        <5>2. u.parent[p] = top
          BY <1>0, <1>4, <1>19 DEF RotatedParents
        <5> QED BY <1>7, <5>1, <5>2
      <4> QED BY <1>27, <4>1
    <3> QED BY <1>4, <1>5, <1>7, <3>1, <3>2, <3>3, NilAssumption
  <2>4. k[t.child[z][f]] = h[t.child[z][f]] /\ h[t.child[z][f]] \in Nat
    BY <1>21, <1>24, <2>3
  <2>5. k[f] = k[t.child[z][f]] + 0 + 1
    BY <1>24, <1>25, <2>2, <2>4
  <2> QED BY <1>20, <1>27, <2>5, Zenon DEF Level
<1>31. Balanced(u, k, {})
  <2>2. \A x \in Nodes : x # p => \A z \in Sides : <<x, z>> \in {<<p, s>>} <=> <<x, z>> \in {}
    OBVIOUS
  <2>3. \A z \in Sides : Level(u, k, {}, p, z) /\ Level(u, k, {}, top, z)
    BY <1>4, <1>28, <1>29, Zenon
  <2>4. t.child[Opposite(s)][p] # Nil
    BY <1>0, <1>4
  <2>5. f = t.child[Opposite(s)][t.child[Opposite(s)][p]]
    BY <1>0, Zenon
  <2>6. k[t.child[Opposite(s)][p]] = h[p]
    BY <1>0, <1>24, Zenon
  <2>7. \A x \in NodeOrNil : x # p /\ x # t.child[Opposite(s)][p] /\ (x # f \/ x = Nil) => k[x] = h[x]
    BY <1>0, <1>4, <1>24, Zenon
  <2>8. \A x \in Nodes : x # p /\ x # t.child[Opposite(s)][p] /\ x # f =>
          u.color[x] = t.color[x] /\ \A z \in Sides : <<x, z>> \in {<<p, s>>} <=> <<x, z>> \in {}
    BY <1>0, <1>20, <2>2
  <2>9. \A z \in Sides : Level(u, k, {}, p, z) /\ Level(u, k, {}, t.child[Opposite(s)][p], z)
    BY <1>0, <2>3
  <2>10. f # Nil => \A z \in Sides : Level(u, k, {}, f, z)
    BY <1>30
  <2>11. Relevels(t, u, p, s, h, {<<p, s>>}, k, {}, f)
    BY <2>5, <2>6, <2>7, <2>8, <2>9, <2>10, Zenon DEF Relevels
  <2>12. u \in Trees /\ RotatedChildren(t, u, p, s) /\ InTree(u) = InTree(t)
    BY <1>19
  <2> QED BY <1>23, <2>4, <2>11, <2>12, RotateLevels
<1>32. Sound(u, {})
  BY <1>19, <1>31 DEF Sound
<1>33. \A x \in Nodes : u.parent[x] = IF x = p THEN top ELSE IF x = top THEN t.parent[p]
                                      ELSE IF x = inner THEN p ELSE t.parent[x]
  BY <1>0, <1>2, <1>19, Zenon DEF RotatedParents
<1>34. ASSUME NEW x \in InTree(u), IsRed(u, x) PROVE u.parent[x] # Nil /\ IsBlack(u, u.parent[x])
  <2>1. x \in InTree(t) /\ x \in Nodes /\ u.color[x] = Red
    BY <1>4, <1>19, <1>34, TreeTypes DEF IsRed
  <2>2. x # p /\ x # f
    BY <1>4, <1>20, <2>1
  <2>3. CASE x = top
    <3>1. IsRed(t, p) /\ RedAt(t, p)
      BY <1>4, <1>20, <2>1, <2>3, Colours
    <3>2. t.parent[p] # Nil /\ IsBlack(t, t.parent[p])
      BY <3>1 DEF RedAt
    <3>3. t.parent[p] \in Nodes /\ t.color[t.parent[p]] = Black
      BY <1>4, <3>2, TreeTypes, Colours DEF NodeOrNil
    <3>4. t.parent[p] # f
      BY <1>0, <1>4, <3>3
    <3>5. u.color[t.parent[p]] = Black
      BY <1>5, <1>20, <3>3, <3>4
    <3>6. u.parent[x] = t.parent[p]
      BY <1>5, <1>33, <2>1, <2>3
    <3> QED BY <1>19, <3>3, <3>5, <3>6, Colours
  <2>4. CASE x # top /\ x = inner
    <3>1. u.parent[x] = p
      BY <1>33, <2>1, <2>2, <2>4
    <3> QED BY <1>4, <1>19, <1>20, <3>1, Colours
  <2>5. CASE x # top /\ x # inner
    <3>1. u.parent[x] = t.parent[x]
      BY <1>33, <2>1, <2>2, <2>5
    <3>2. IsRed(t, x)
      BY <1>4, <1>20, <2>1, <2>2, <2>5, Colours
    <3>3. t.parent[x] # Nil /\ IsBlack(t, t.parent[x])
      BY <2>1, <3>2 DEF RedAt
    <3>4. t.parent[x] \in Nodes /\ t.color[t.parent[x]] = Black
      BY <1>4, <2>1, <3>3, TreeTypes, Colours DEF NodeOrNil
    <3>5. t.parent[x] # f
      BY <1>0, <1>4, <3>4, Zenon
    <3>6. t.parent[x] # top
      <4> SUFFICES ASSUME t.parent[x] = top PROVE FALSE
        OBVIOUS
      <4>1. x = t.child[s][top] \/ x = t.child[Opposite(s)][top]
        BY <1>5, <2>1, ChildrenOf
      <4> QED BY <1>0, <1>2, <2>2, <2>5, <4>1
    <3>7. u.color[t.parent[x]] = Black
      BY <1>20, <3>4, <3>5, <3>6, Zenon
    <3> QED BY <1>19, <3>1, <3>4, <3>7, Colours
  <2> QED BY <2>3, <2>4, <2>5
<1> QED BY <1>19, <1>32, <1>34 DEF RedAt


\* The tree with a red child of the sibling on the far side.
Straight(t, m, p, s, top, f) ==
    /\ m \in Trees /\ InTree(m) = InTree(t) /\ Sound(m, {<<p, s>>})
    /\ \A x \in InTree(m) : RedAt(m, x)
    /\ top \in Nodes /\ f \in Nodes /\ Outer(m, p, s, top, f)

LEMMA StraightSound ==
    ASSUME NEW t, NEW D, Shape(t, D), NEW p \in InTree(t), NEW s \in Sides,
           NEW h, Balanced(t, h, {<<p, s>>}),
           \A x \in InTree(t) : RedAt(t, x),
           NEW w \in Nodes, w = t.child[Opposite(s)][p], t.color[w] = Black,
           NEW near, near = t.child[s][w], ~ IsRed(t, t.child[Opposite(s)][w]), IsRed(t, near),
           NEW m, m = rb_rotate(Paint(Paint(t, near, Black), w, Red), w, Opposite(s))
    PROVE  Straight(t, m, p, s, near, w)
<1>1. PICK o : o = Opposite(s)
  BY Zenon
<1>2. /\ o \in Sides /\ o # s /\ Opposite(o) = s /\ t \in Trees /\ p \in Nodes /\ Red # Black
  <2>1. o \in Sides /\ o # s /\ Opposite(o) = s
    BY <1>1, SideFacts, Zenon
  <2>2. t \in Trees /\ Red # Black
    BY Zenon DEF Shape, Red, Black
  <2> QED BY <2>1, <2>2, TreeTypes, Zenon
<1>3. \A x \in InTree(t) : \A z \in Sides : t.child[z][x] # Nil =>
        t.child[z][x] \in InTree(t) /\ t.parent[t.child[z][x]] = x /\ t.child[z][x] # x
  BY NodeFacts
<1>4. w \in InTree(t) /\ t.parent[w] = p /\ w # p /\ w # Nil
  BY <1>1, <1>2, <1>3, NilAssumption, Zenon
<1>5. near # Nil /\ t.color[near] = Red
  BY Zenon DEF IsRed
<1>6. near \in InTree(t) /\ t.parent[near] = w /\ near # w
  BY <1>3, <1>4, <1>5, Zenon
<1>7. near \in Nodes /\ near # p
  <2>1. near \in Nodes
    BY <1>2, <1>6, TreeTypes, Zenon
  <2>2. t.parent[t.parent[w]] # w
    <3>1. t.parent[w] \in Nodes
      BY <1>2, <1>4, Zenon
    <3> QED BY <1>4, <3>1, ParentFacts, NilAssumption, Zenon
  <2> QED BY <1>4, <1>6, <2>1, <2>2, Zenon
<1>8. Swaps(t, m, w, o, near, {<<p, s>>})
  <2>1. t.child[Opposite(o)][w] # Nil /\ near = t.child[Opposite(o)][w]
    BY <1>2, <1>5, Zenon
  <2>2. IsBlack(t, t.child[o][w])
    BY <1>1, Zenon DEF IsBlack
  <2>3. <<w, Opposite(o)>> \notin {<<p, s>>} /\ \A z \in Sides : <<near, z>> \notin {<<p, s>>}
    BY <1>4, <1>7, Zenon
  <2>4. m = rb_rotate(Paint(Paint(t, near, Black), w, Red), w, o)
    BY <1>1, Zenon
  <2> HIDE DEF IsBlack
  <2> QED BY <1>2, <1>4, <1>5, <2>1, <2>2, <2>3, <2>4, SwapRotation, Zenon
<1>9. /\ m \in Trees /\ InTree(m) = InTree(t) /\ Sound(m, {<<p, s>>})
      /\ \A x \in InTree(m) : RedAt(m, x)
      /\ m.color[near] = Black /\ m.color[w] = Red
      /\ m.child[o][near] = w
      /\ \A x \in Nodes : x # w /\ x # near =>
           m.child[o][x] = IF t.child[o][x] = w THEN near ELSE t.child[o][x]
  BY <1>2, <1>8, Zenon DEF Swaps
<1>10. m.child[o][p] = near
  BY <1>1, <1>2, <1>4, <1>7, <1>9, Zenon
<1> QED BY <1>1, <1>7, <1>9, <1>10, Zenon DEF Straight, Outer

\* The sibling has a red child: with the last rotation no place lacks a black
\* node any more.
LEMMA EraseRotatedSound ==
    ASSUME NEW t, NEW D, Shape(t, D), NEW p \in InTree(t), NEW s \in Sides,
           NEW h, Balanced(t, h, {<<p, s>>}),
           \A x \in InTree(t) : RedAt(t, x),
           NEW w \in Nodes, w = t.child[Opposite(s)][p], t.color[w] = Black,
           \E z \in Sides : IsRed(t, t.child[z][w]),
           NEW u, u = EraseRotated(t, p, s)
    PROVE  u \in Trees /\ InTree(u) = InTree(t) /\ Sound(u, {}) /\ \A x \in InTree(u) : RedAt(u, x)
<1>1. \E m : \E top, f \in Nodes : Straight(t, m, p, s, top, f) /\ Lifts(m, u, p, s, top, f)
  <2>1. CASE IsRed(t, t.child[Opposite(s)][w])
    <3>1. PICK f : f = t.child[Opposite(s)][w]
      OBVIOUS
    <3>2. t \in Trees /\ Opposite(s) \in Sides
      BY SideFacts, Zenon DEF Shape
    <3>3. f \in Nodes /\ t.color[f] = Red
      BY <2>1, <3>1, <3>2, TreeTypes DEF IsRed, NodeOrNil
    <3>4. Sound(t, {<<p, s>>})
      BY Zenon DEF Sound
    <3>5. Outer(t, p, s, w, f)
      BY <3>1, <3>3 DEF Outer
    <3>6. Straight(t, t, p, s, w, f)
      BY <3>2, <3>3, <3>4, <3>5 DEF Straight
    <3>7. Lifts(t, u, p, s, w, f)
      BY <2>1, <3>1, Zenon DEF Lifts, EraseRotated
    <3> QED BY <3>3, <3>6, <3>7
  <2>2. CASE ~ IsRed(t, t.child[Opposite(s)][w])
    <3>1. PICK near : near = t.child[s][w]
      OBVIOUS
    <3>2. IsRed(t, near)
      BY <2>2, <3>1, SideFacts
    <3>3. PICK m : m = rb_rotate(Paint(Paint(t, near, Black), w, Red), w, Opposite(s))
      BY Zenon
    <3>4. Straight(t, m, p, s, near, w)
      BY <2>2, <3>1, <3>2, <3>3, StraightSound, Zenon
    <3>5. near \in Nodes /\ near = m.child[Opposite(s)][p] /\ w = m.child[Opposite(s)][near]
      BY <3>4, Zenon DEF Straight, Outer
    <3>6. u = rb_rotate(Paint(Paint(Paint(m, m.child[Opposite(s)][p], m.color[p]), p, Black),
                              m.child[Opposite(s)][m.child[Opposite(s)][p]], Black), p, s)
      BY <2>2, <3>1, <3>3, Zenon DEF EraseRotated
    <3>7. Lifts(m, u, p, s, near, w)
      BY <3>5, <3>6, Zenon DEF Lifts
    <3> QED BY <3>4, <3>5, <3>7, Zenon
  <2> QED BY <2>1, <2>2
<1>2. PICK m, top, f : top \in Nodes /\ f \in Nodes /\ Straight(t, m, p, s, top, f) /\ Lifts(m, u, p, s, top, f)
  BY <1>1
<1>3. /\ m \in Trees /\ InTree(m) = InTree(t) /\ Sound(m, {<<p, s>>})
      /\ \A x \in InTree(m) : RedAt(m, x)
      /\ Outer(m, p, s, top, f)
  BY <1>2 DEF Straight
<1>4. PICK E, k : Shape(m, E) /\ Balanced(m, k, {<<p, s>>})
  BY <1>3 DEF Sound
<1>5. p \in InTree(m)
  BY <1>3
<1> QED BY <1>2, <1>3, <1>4, <1>5, LastRotationSound

\* Painting a node black: the root, or a red node in a place that lacks one.
LEMMA PaintBlackSound ==
    ASSUME NEW t, NEW D, Shape(t, D), NEW n \in InTree(t), NEW h, NEW X, Balanced(t, h, X),
           \/ n = t.root /\ X = {}
           \/ \E q \in InTree(t), z \in Sides : t.color[n] = Red /\ X = {<<q, z>>} /\ t.child[z][q] = n,
           \A x \in InTree(t) : x # n /\ t.parent[x] # n => RedAt(t, x),
           NEW u, u = Paint(t, n, Black)
    PROVE  /\ SamePointers(t, u) /\ InTree(u) = InTree(t) /\ Sound(u, {})
           /\ \A x \in InTree(u) : RedAt(u, x)
<1>1. t \in Trees /\ n \in Nodes /\ Black \in {Red, Black} /\ Red # Black /\ n # Nil
  BY TreeTypes, NilAssumption DEF Shape, Red, Black
<1>2. Paints(t, u, n, Black)
  BY <1>1, PaintPoints
<1>3. u \in Trees /\ u.root = t.root /\ u.child = t.child /\ u.parent = t.parent
  BY <1>2 DEF Paints
<1>4. \A x \in Nodes : u.color[x] = IF x = n THEN Black ELSE t.color[x]
  BY <1>2, Zenon DEF Paints
<1>5. SamePointers(t, u)
  BY <1>3 DEF SamePointers
<1>6. InTree(u) = InTree(t) /\ Shape(u, D)
  BY <1>3, SameShape DEF InTree
<1>7. ASSUME NEW x \in InTree(u), IsRed(u, x) PROVE u.parent[x] # Nil /\ IsBlack(u, u.parent[x])
  <2>1. x \in InTree(t) /\ x \in Nodes
    BY <1>1, <1>6, TreeTypes
  <2>2. u.color[x] = Red /\ x # n /\ t.color[x] = Red /\ IsRed(t, x)
    BY <1>1, <1>3, <1>4, <1>7, <2>1, Colours
  <2>3. CASE t.parent[x] = n
    BY <1>1, <1>3, <1>4, <2>3, Colours
  <2>4. CASE t.parent[x] # n
    <3>1. t.parent[x] # Nil /\ IsBlack(t, t.parent[x])
      BY <2>1, <2>2, <2>4 DEF RedAt
    <3>2. t.parent[x] \in Nodes
      BY <1>1, <2>1, <3>1, TreeTypes DEF NodeOrNil
    <3>3. u.color[t.parent[x]] = t.color[t.parent[x]]
      BY <1>4, <2>4, <3>2
    <3> QED BY <1>1, <1>3, <3>1, <3>2, <3>3, Colours
  <2> QED BY <2>3, <2>4
<1>8. \A x \in InTree(u) : RedAt(u, x)
  BY <1>7 DEF RedAt
<1>9. h \in [NodeOrNil -> Nat] /\ h[Nil] = 0 /\ \A x \in InTree(t) : \A z \in Sides : Level(t, h, X, x, z)
  BY DEF Balanced
<1>10. PICK k : k = [x \in NodeOrNil |-> IF x = n /\ t.color[n] = Red THEN h[x] + 1 ELSE h[x]]
  OBVIOUS
<1>11. k \in [NodeOrNil -> Nat] /\ k[Nil] = 0 /\ \A x \in NodeOrNil : h[x] \in Nat
  BY <1>1, <1>9, <1>10 DEF NodeOrNil
<1>12. ASSUME NEW x \in InTree(u), NEW z \in Sides PROVE Level(u, k, {}, x, z)
  <2>1. x \in InTree(t) /\ x \in Nodes /\ x \in NodeOrNil
    BY <1>1, <1>6, TreeTypes DEF NodeOrNil
  <2>2. t.child[z][x] \in NodeOrNil /\ h[x] \in Nat /\ h[t.child[z][x]] \in Nat
    BY <1>1, <1>11, <2>1, TreeTypes
  <2>3. h[x] = h[t.child[z][x]] + (IF <<x, z>> \in X THEN 1 ELSE 0) + (IF t.color[x] = Black THEN 1 ELSE 0)
    BY <1>9, <2>1 DEF Level
  <2>4. t.child[z][x] = n => x = t.parent[n]
    BY <2>1, ParentFacts
  <2>5. t.parent[n] # n /\ (n = t.root => t.parent[n] = Nil)
    BY ParentFacts
  <2>6. t.color[n] = Red \/ t.color[n] = Black
    BY <1>1, TreeTypes
  <2>7. k[x] = (IF x = n /\ t.color[n] = Red THEN h[x] + 1 ELSE h[x])
        /\ k[t.child[z][x]] = (IF t.child[z][x] = n /\ t.color[n] = Red THEN h[t.child[z][x]] + 1 ELSE h[t.child[z][x]])
    BY <1>10, <2>1, <2>2
  <2>8. <<x, z>> \in X <=> t.child[z][x] = n /\ t.color[n] = Red
    <3>1. CASE n = t.root /\ X = {}
      BY <1>1, <2>1, <2>4, <2>5, <3>1, NilAssumption
    <3>2. CASE \E q \in InTree(t), y \in Sides : t.color[n] = Red /\ X = {<<q, y>>} /\ t.child[y][q] = n
      <4>1. PICK q \in InTree(t), y \in Sides : t.color[n] = Red /\ X = {<<q, y>>} /\ t.child[y][q] = n
        BY <3>2
      <4>2. q = t.parent[n]
        BY <1>1, <4>1, TreeTypes, ParentFacts
      <4>3. t.child[z][x] = n => z = y
        <5>1. t.child[y][q] # t.child[Opposite(y)][q]
          BY <1>1, <4>1, NodeFacts
        <5> QED BY <2>4, <4>1, <4>2, <5>1, SideFacts
      <4> QED BY <2>4, <4>1, <4>2, <4>3
    <3> QED BY <3>1, <3>2
  <2>9. k[x] = k[t.child[z][x]] + (IF u.color[x] = Black THEN 1 ELSE 0)
    <3>1. CASE x = n
      <4>1. t.child[z][x] # n /\ u.color[x] = Black
        BY <1>4, <2>1, <2>4, <2>5, <3>1
      <4> QED BY <1>1, <2>2, <2>3, <2>6, <2>7, <2>8, <3>1, <4>1
    <3>2. CASE x # n
      <4>1. u.color[x] = t.color[x]
        BY <1>4, <2>1, <3>2
      <4> QED BY <2>2, <2>3, <2>7, <2>8, <3>2, <4>1
    <3> QED BY <3>1, <3>2
  <2>10. k[x] \in Nat /\ k[t.child[z][x]] \in Nat /\ u.child[z][x] = t.child[z][x]
    BY <1>3, <1>11, <2>1, <2>2
  <2> QED BY <2>9, <2>10 DEF Level
<1>13. Balanced(u, k, {})
  BY <1>11, <1>12 DEF Balanced
<1>14. Sound(u, {})
  BY <1>6, <1>13 DEF Sound
<1> QED BY <1>5, <1>6, <1>8, <1>14


-----------------------------------------------------------------------------
(* A node leaves the tree, or another takes its place.                     *)

\* What is left when e has gone and c has the place at q that is left empty,
\* k being the colour of that place before.
Vacated(t, u, e, c, q, k) ==
    /\ u \in Trees /\ InTree(u) = InTree(t) \ {e}
    /\ c \in InTree(u) \cup {Nil}
    /\ Sound(u, IF k = Black /\ c # u.root THEN {<<q, SideOf(u, q, c)>>} ELSE {})
    /\ k = Black /\ c # u.root => q \in InTree(u) /\ u.child[SideOf(u, q, c)][q] = c
    /\ \A x \in InTree(u) : (x = c => k # Black) => RedAt(u, x)

LEMMA RemoveSound ==
    ASSUME NEW t, NEW D, Shape(t, D), NEW e \in InTree(t), NEW s \in Sides,
           t.child[Opposite(s)][e] = Nil,
           NEW h, Balanced(t, h, {}), \A x \in InTree(t) : RedAt(t, x),
           NEW c, c = t.child[s][e], NEW q, q = t.parent[e], NEW k, k = t.color[e],
           NEW u, Removes(t, u, e, c)
    PROVE  Vacated(t, u, e, c, q, k)
<1>1. InTree(u) = InTree(t) \ {e} /\ \E E : Shape(u, E)
  BY RemoveShape
<1>2. PICK E : Shape(u, E)
  BY <1>1
<1>3. /\ u \in Trees /\ u.root = IF t.root = e THEN c ELSE t.root
      /\ \A x \in Nodes : u.parent[x] = IF x = e THEN e ELSE IF x = c THEN q ELSE t.parent[x]
      /\ \A x \in Nodes : u.color[x] = IF x = e THEN Red ELSE t.color[x]
      /\ \A z \in Sides : \A x \in Nodes :
           u.child[z][x] = IF x = e THEN Nil ELSE IF t.child[z][x] = e THEN c ELSE t.child[z][x]
  BY DEF Removes
<1>4. t \in Trees /\ e \in Nodes /\ e # Nil /\ InTree(t) \subseteq Nodes /\ Red # Black
  BY TreeTypes, NilAssumption DEF Shape, Red, Black
<1>5. /\ c \in NodeOrNil /\ c # e
      /\ c # Nil => c \in InTree(t) /\ c \in Nodes /\ t.parent[c] = e
  BY <1>4, TreeTypes, NodeFacts, NilAssumption
<1>6. c \in InTree(u) \cup {Nil}
  BY <1>1, <1>5
<1>7. q # e /\ (q = Nil <=> t.root = e) /\ (q # Nil => q \in InTree(t)) /\ t.root \in InTree(t)
  BY ParentFacts
<1>8. c = u.root <=> q = Nil
  <2>1. CASE q = Nil
    BY <1>3, <1>7, <2>1
  <2>2. CASE q # Nil
    <3>1. u.root = t.root
      BY <1>3, <1>7, <2>2
    <3>2. t.parent[t.root] = Nil /\ t.root # Nil
      BY <1>4, <1>7, ParentFacts, NilAssumption
    <3> QED BY <1>4, <1>5, <2>2, <3>1, <3>2
  <2> QED BY <2>1, <2>2
<1>9. h \in [NodeOrNil -> Nat] /\ h[Nil] = 0 /\ \A x \in InTree(t) : \A z \in Sides : Level(t, h, {}, x, z)
  BY DEF Balanced
<1>10. h[e] = h[c] + (IF k = Black THEN 1 ELSE 0) /\ h[e] \in Nat /\ h[c] \in Nat
  <2>1. h[e] \in Nat /\ h[c] \in Nat
    BY <1>4, <1>5, <1>9 DEF NodeOrNil
  <2>2. h[e] = h[c] + 0 + (IF k = Black THEN 1 ELSE 0)
    BY <1>9 DEF Level
  <2> QED BY <2>1, <2>2
<1>11. PICK y : y = SideOf(t, q, e)
  OBVIOUS
<1>12. \A x \in Nodes : \A z \in Sides : t.child[z][x] = e <=> x = q /\ z = y
  BY <1>11, PointerTo
<1>13. PICK X : X = IF k = Black /\ c # u.root THEN {<<q, y>>} ELSE {}
  OBVIOUS
<1>14. ASSUME NEW x \in InTree(u), NEW z \in Sides PROVE Level(u, h, X, x, z)
  <2>1. x \in InTree(t) /\ x \in Nodes /\ x # e /\ x \in NodeOrNil /\ x # Nil
    BY <1>1, <1>4, NilAssumption DEF NodeOrNil
  <2>2. u.color[x] = t.color[x]
    BY <1>3, <2>1
  <2>3. h[x] \in Nat /\ h[t.child[z][x]] \in Nat
    BY <1>4, <1>9, <2>1, TreeTypes
  <2>4. h[x] = h[t.child[z][x]] + 0 + (IF t.color[x] = Black THEN 1 ELSE 0)
    BY <1>9, <2>1 DEF Level
  <2>5. CASE t.child[z][x] = e
    <3>1. u.child[z][x] = c /\ x = q /\ z = y
      BY <1>3, <1>12, <2>1, <2>5
    <3>2. <<x, z>> \in X <=> k = Black
      BY <1>8, <1>13, <2>1, <3>1
    <3>3. h[x] = h[c] + (IF <<x, z>> \in X THEN 1 ELSE 0) + (IF t.color[x] = Black THEN 1 ELSE 0)
      BY <1>10, <2>3, <2>4, <2>5, <3>2
    <3> QED BY <2>2, <3>1, <3>3 DEF Level
  <2>6. CASE t.child[z][x] # e
    <3>1. u.child[z][x] = t.child[z][x] /\ ~ (x = q /\ z = y)
      BY <1>3, <1>12, <2>1, <2>6
    <3>2. <<x, z>> \notin X
      BY <1>13, <3>1
    <3> QED BY <2>2, <2>4, <3>1, <3>2 DEF Level
  <2> QED BY <2>5, <2>6
<1>15. Balanced(u, h, X)
  BY <1>9, <1>14 DEF Balanced
<1>16. ASSUME k = Black, c # u.root PROVE q \in InTree(u) /\ SideOf(u, q, c) = y /\ u.child[y][q] = c
  <2>1. q \in InTree(u) /\ q \in Nodes
    BY <1>1, <1>4, <1>7, <1>8, <1>16
  <2>2. y \in Sides
    BY <1>11 DEF SideOf, Sides
  <2>3. u.child[y][q] = c
    BY <1>3, <1>7, <1>12, <2>1, <2>2
  <2>4. X = {<<q, y>>}
    BY <1>13, <1>16
  <2>5. SideOf(u, q, u.child[y][q]) = y
    BY <1>2, <1>15, <2>1, <2>2, <2>4, ShortSide
  <2> QED BY <2>1, <2>3, <2>5
<1>17. X = IF k = Black /\ c # u.root THEN {<<q, SideOf(u, q, c)>>} ELSE {}
  BY <1>13, <1>16
<1>18. Sound(u, IF k = Black /\ c # u.root THEN {<<q, SideOf(u, q, c)>>} ELSE {})
  <2>1. Sound(u, X)
    BY <1>2, <1>15 DEF Sound
  <2> QED BY <1>17, <2>1
<1>19. ASSUME NEW x \in InTree(u), x = c => k # Black, IsRed(u, x)
       PROVE  u.parent[x] # Nil /\ IsBlack(u, u.parent[x])
  <2>1. x \in InTree(t) /\ x \in Nodes /\ x # e
    BY <1>1, <1>4
  <2>2. u.color[x] = t.color[x] /\ IsRed(t, x)
    BY <1>3, <1>4, <1>19, <2>1, Colours
  <2>3. PICK w \in InTree(t) : u.parent[x] = t.parent[w] /\ IsRed(t, w) /\ t.parent[w] # e
    <3>1. CASE x = c
      <4>1. IsRed(t, e)
        BY <1>4, <1>19, <3>1, Colours
      <4>2. u.parent[x] = q
        BY <1>3, <2>1, <3>1
      <4> QED BY <1>7, <4>1, <4>2
    <3>2. CASE x # c
      <4>1. u.parent[x] = t.parent[x]
        BY <1>3, <2>1, <3>2
      <4>2. t.parent[x] # e
        <5> SUFFICES ASSUME t.parent[x] = e PROVE FALSE
          OBVIOUS
        <5>1. x = t.child[s][e] \/ x = t.child[Opposite(s)][e]
          BY <2>1, ChildrenOf
        <5> QED BY <1>4, <2>1, <3>2, <5>1, NilAssumption
      <4> QED BY <2>1, <2>2, <4>1, <4>2
    <3> QED BY <3>1, <3>2
  <2>4. t.parent[w] # Nil /\ IsBlack(t, t.parent[w])
    BY <2>3 DEF RedAt
  <2>5. t.parent[w] \in Nodes
    BY <1>4, <2>4, TreeTypes DEF NodeOrNil
  <2>6. u.color[t.parent[w]] = t.color[t.parent[w]]
    BY <1>3, <2>3, <2>5
  <2> QED BY <1>3, <1>4, <2>3, <2>4, <2>5, <2>6, Colours
<1>20. \A x \in InTree(u) : (x = c => k # Black) => RedAt(u, x)
  BY <1>19 DEF RedAt
<1>21. k = Black /\ c # u.root => q \in InTree(u) /\ u.child[SideOf(u, q, c)][q] = c
  BY <1>16
<1> QED BY <1>1, <1>3, <1>6, <1>18, <1>20, <1>21 DEF Vacated

\* The names of the nodes when n has taken the place of v.
Renamed(v, n, x) == IF x = v THEN n ELSE x

Renames(t, u, v, n) ==
    /\ u.root = Renamed(v, n, t.root)
    /\ \A x \in InTree(t) : /\ Renamed(v, n, x) \in InTree(u) /\ Renamed(v, n, x) \in Nodes
                            /\ u.color[Renamed(v, n, x)] = t.color[x]
                            /\ u.parent[Renamed(v, n, x)] = Renamed(v, n, t.parent[x])
                            /\ \A z \in Sides : u.child[z][Renamed(v, n, x)] = Renamed(v, n, t.child[z][x])
    /\ \A x \in InTree(u) : \E w \in InTree(t) : x = Renamed(v, n, w)

LEMMA RenamePoints ==
    ASSUME NEW t, NEW D, Shape(t, D), NEW v \in InTree(t), NEW n \in Nodes, n \notin InTree(t),
           NEW u, Replaces(t, u, v, n), InTree(u) = (InTree(t) \ {v}) \cup {n}
    PROVE  Renames(t, u, v, n)
<1>1. t \in Trees /\ InTree(t) \subseteq Nodes /\ v \in Nodes /\ v # n
  BY TreeTypes DEF Shape
<1>2. /\ u.root = IF t.root = v THEN n ELSE t.root
      /\ \A x \in Nodes : u.parent[x] = IF x = v THEN v ELSE IF x = n THEN t.parent[v]
                                        ELSE IF t.parent[x] = v THEN n ELSE t.parent[x]
      /\ \A x \in Nodes : u.color[x] = IF x = v THEN Red ELSE IF x = n THEN t.color[v] ELSE t.color[x]
      /\ \A z \in Sides : \A x \in Nodes :
           u.child[z][x] = IF x = v THEN Nil ELSE IF x = n THEN t.child[z][v]
                           ELSE IF t.child[z][x] = v THEN n ELSE t.child[z][x]
  BY DEF Replaces
<1>3. t.parent[v] # v /\ \A z \in Sides : t.child[z][v] # v
  <2>1. \A x \in InTree(t) : \A z \in Sides : t.child[z][x] # Nil => t.child[z][x] # x
    BY NodeFacts
  <2> QED BY <1>1, <2>1, ParentFacts, NilAssumption
<1>4. ASSUME NEW x \in InTree(t)
      PROVE  /\ Renamed(v, n, x) \in InTree(u) /\ Renamed(v, n, x) \in Nodes
             /\ u.color[Renamed(v, n, x)] = t.color[x]
             /\ u.parent[Renamed(v, n, x)] = Renamed(v, n, t.parent[x])
             /\ \A z \in Sides : u.child[z][Renamed(v, n, x)] = Renamed(v, n, t.child[z][x])
  <2>1. x \in Nodes /\ x # n
    BY <1>1
  <2>2. CASE x = v
    <3>1. Renamed(v, n, x) = n
      BY <2>2 DEF Renamed
    <3>2. u.color[n] = t.color[v] /\ u.parent[n] = t.parent[v] /\ \A z \in Sides : u.child[z][n] = t.child[z][v]
      BY <1>1, <1>2
    <3>3. Renamed(v, n, t.parent[x]) = t.parent[v] /\ \A z \in Sides : Renamed(v, n, t.child[z][x]) = t.child[z][v]
      BY <1>3, <2>2 DEF Renamed
    <3> QED BY <2>2, <3>1, <3>2, <3>3
  <2>3. CASE x # v
    <3>1. Renamed(v, n, x) = x
      BY <2>3 DEF Renamed
    <3>2. u.color[x] = t.color[x] /\ u.parent[x] = Renamed(v, n, t.parent[x])
      BY <1>2, <2>1, <2>3 DEF Renamed
    <3>3. \A z \in Sides : u.child[z][x] = Renamed(v, n, t.child[z][x])
      BY <1>2, <2>1, <2>3 DEF Renamed
    <3> QED BY <2>1, <2>3, <3>1, <3>2, <3>3
  <2> QED BY <2>2, <2>3
<1>5. \A x \in InTree(u) : \E w \in InTree(t) : x = Renamed(v, n, w)
  <2>1. ASSUME NEW x \in InTree(u) PROVE \E w \in InTree(t) : x = Renamed(v, n, w)
    <3>1. CASE x = n
      BY <3>1 DEF Renamed
    <3>2. CASE x # n
      BY <3>2 DEF Renamed
    <3> QED BY <3>1, <3>2
  <2> QED BY <2>1
<1>6. u.root = Renamed(v, n, t.root)
  BY <1>2 DEF Renamed
<1> QED BY <1>4, <1>5, <1>6 DEF Renames

\* A new name changes neither heights nor colours.
LEMMA RenameSound ==
    ASSUME NEW t, NEW D, Shape(t, D), NEW v \in InTree(t), NEW n \in Nodes, n \notin InTree(t),
           NEW u \in Trees, Renames(t, u, v, n), NEW E, Shape(u, E),
           NEW h, NEW X, Balanced(t, h, X),
           NEW Y, \A x \in InTree(t) : \A z \in Sides : <<x, z>> \in X <=> <<Renamed(v, n, x), z>> \in Y
    PROVE  /\ Sound(u, Y)
           /\ \A x \in InTree(t) : RedAt(t, x) => RedAt(u, Renamed(v, n, x))
<1>1. t \in Trees /\ InTree(t) \subseteq Nodes /\ v \in Nodes /\ v # n /\ n # Nil /\ v # Nil
  BY TreeTypes, NilAssumption DEF Shape
<1>2. \A x \in InTree(t) : /\ Renamed(v, n, x) \in InTree(u) /\ Renamed(v, n, x) \in Nodes
                           /\ u.color[Renamed(v, n, x)] = t.color[x]
                           /\ u.parent[Renamed(v, n, x)] = Renamed(v, n, t.parent[x])
                           /\ \A z \in Sides : u.child[z][Renamed(v, n, x)] = Renamed(v, n, t.child[z][x])
  BY DEF Renames
<1>3. \A x \in InTree(u) : \E w \in InTree(t) : x = Renamed(v, n, w)
  BY DEF Renames
<1>4. h \in [NodeOrNil -> Nat] /\ h[Nil] = 0 /\ \A x \in InTree(t) : \A z \in Sides : Level(t, h, X, x, z)
  BY DEF Balanced
<1>5. PICK k : k = [x \in NodeOrNil |-> IF x = n THEN h[v] ELSE h[x]]
  OBVIOUS
<1>6. k \in [NodeOrNil -> Nat] /\ k[Nil] = 0
  BY <1>1, <1>4, <1>5 DEF NodeOrNil
<1>7. \A x \in InTree(t) \cup {Nil} : k[Renamed(v, n, x)] = h[x]
  <2>1. ASSUME NEW x \in InTree(t) \cup {Nil} PROVE k[Renamed(v, n, x)] = h[x]
    <3>1. x # n /\ x \in NodeOrNil /\ n \in NodeOrNil
      BY <1>1 DEF NodeOrNil
    <3>2. CASE x = v
      BY <1>5, <3>1, <3>2 DEF Renamed
    <3>3. CASE x # v
      BY <1>5, <3>1, <3>3 DEF Renamed
    <3> QED BY <3>2, <3>3
  <2> QED BY <2>1
<1>8. ASSUME NEW x \in InTree(u), NEW z \in Sides PROVE Level(u, k, Y, x, z)
  <2>1. PICK w \in InTree(t) : x = Renamed(v, n, w)
    BY <1>3
  <2>2. t.child[z][w] \in InTree(t) \cup {Nil}
    BY NodeFacts
  <2>3. u.child[z][x] = Renamed(v, n, t.child[z][w]) /\ u.color[x] = t.color[w]
    BY <1>2, <2>1
  <2>4. k[x] = h[w] /\ k[u.child[z][x]] = h[t.child[z][w]]
    BY <1>7, <2>1, <2>2, <2>3
  <2>5. <<w, z>> \in X <=> <<x, z>> \in Y
    BY <2>1
  <2>6. Level(t, h, X, w, z)
    BY <1>4
  <2> QED BY <2>3, <2>4, <2>5, <2>6 DEF Level
<1>9. Balanced(u, k, Y)
  BY <1>6, <1>8 DEF Balanced
<1>10. Sound(u, Y)
  BY <1>9 DEF Sound
<1>11. ASSUME NEW x \in InTree(t), RedAt(t, x), IsRed(u, Renamed(v, n, x))
       PROVE  u.parent[Renamed(v, n, x)] # Nil /\ IsBlack(u, u.parent[Renamed(v, n, x)])
  <2>1. x \in Nodes /\ Renamed(v, n, x) \in Nodes /\ u.color[Renamed(v, n, x)] = t.color[x]
        /\ u.parent[Renamed(v, n, x)] = Renamed(v, n, t.parent[x])
    BY <1>1, <1>2
  <2>2. IsRed(t, x)
    BY <1>1, <1>11, <2>1, Colours
  <2>3. t.parent[x] # Nil /\ IsBlack(t, t.parent[x])
    BY <1>11, <2>2 DEF RedAt
  <2>4. t.parent[x] \in InTree(t) /\ t.parent[x] \in Nodes
    BY <1>1, <2>3, ParentFacts
  <2>5. Renamed(v, n, t.parent[x]) \in Nodes /\ u.color[Renamed(v, n, t.parent[x])] = t.color[t.parent[x]]
    BY <1>2, <2>4
  <2> QED BY <1>1, <2>1, <2>3, <2>4, <2>5, Colours
<1>12. \A x \in InTree(t) : RedAt(t, x) => RedAt(u, Renamed(v, n, x))
  BY <1>11 DEF RedAt
<1> QED BY <1>10, <1>12


\* rb_erase of a node without a child on the side opposite to s.
LEMMA SpliceOutSound ==
    ASSUME NEW t, NEW D, Shape(t, D), NEW e \in InTree(t), NEW s \in Sides,
           t.child[Opposite(s)][e] = Nil,
           NEW h, Balanced(t, h, {}), \A x \in InTree(t) : RedAt(t, x)
    PROVE  Vacated(t, rb_init_node(SpliceOut(t, e, t.child[s][e]), e), e, t.child[s][e], t.parent[e], t.color[e])
<1>1. Removes(t, rb_init_node(SpliceOut(t, e, t.child[s][e]), e), e, t.child[s][e])
  BY RemovePoints
<1> QED BY <1>1, RemoveSound

\* rb_erase of a node with two children, whose successor is y.
LEMMA SpliceSuccessorSound ==
    ASSUME NEW t, NEW D, Shape(t, D), NEW e \in InTree(t), t.child[Left][e] # Nil,
           NEW y, IsSuccessor(t, D, e, y),
           \A x \in D[t.child[Right][e]] : x = y \/ Key[y] < Key[x],
           NEW h, Balanced(t, h, {}), \A x \in InTree(t) : RedAt(t, x)
    PROVE  Vacated(t, rb_init_node(SpliceSuccessor(t, e, y), e), e, t.child[Right][y],
                   IF t.parent[y] = e THEN y ELSE t.parent[y], t.color[y])
<1>1. PICK c : c = t.child[Right][y]
  OBVIOUS
<1>2. PICK p : p = t.parent[y]
  OBVIOUS
<1>3. PICK k : k = t.color[y]
  OBVIOUS
<1>4. PICK u : u = rb_init_node(SpliceSuccessor(t, e, y), e)
  OBVIOUS
<1>5. /\ t \in Trees /\ e \in Nodes /\ y \in InTree(t) /\ y \in Nodes /\ y # e
      /\ p \in InTree(t) /\ p # y /\ c # e /\ c \in NodeOrNil
  <2>1. y \in InTree(t) /\ y # e /\ p \in InTree(t) /\ p # y /\ c # e /\ c \in NodeOrNil
    BY <1>1, <1>2, SuccessorNodes
  <2>2. t \in Trees
    BY DEF Shape
  <2> QED BY <2>1, <2>2, TreeTypes
<1>6. Left \in Sides /\ Right \in Sides /\ Opposite(Right) = Left /\ t.child[Left][y] = Nil
  BY Zenon DEF Sides, Opposite, Left, Right, IsSuccessor
<1>7. PICK m : m = rb_init_node(SpliceOut(t, y, c), y)
  OBVIOUS
<1>8. Removes(t, m, y, c)
  BY <1>1, <1>5, <1>6, <1>7, RemovePoints
<1>9. Vacated(t, m, y, c, p, k)
  BY <1>1, <1>2, <1>3, <1>5, <1>6, <1>8, RemoveSound
<1>10. Replaces(m, u, e, y)
  BY <1>1, <1>4, <1>8, SuccessorPoints
<1>11. /\ InTree(m) = InTree(t) \ {y} /\ InTree(u) = InTree(t) \ {e}
       /\ \E Dm, E : Shape(m, Dm) /\ Shape(u, E)
  <2>1. PICK Dm : Without(D, y, Dm)
    BY DEF Without
  <2>2. /\ InTree(m) = InTree(t) \ {y} /\ InTree(u) = InTree(t) \ {e}
        /\ Shape(m, Dm) /\ Shape(u, ReplacedBelow(Dm, e, y))
    BY <1>1, <1>8, <1>10, <2>1, SuccessorShape
  <2> QED BY <2>2
<1>12. PICK Dm, E : Shape(m, Dm) /\ Shape(u, E)
  BY <1>11
<1>13. e \in InTree(m) /\ y \notin InTree(m) /\ InTree(u) = (InTree(m) \ {e}) \cup {y} /\ u \in Trees
  BY <1>5, <1>11, <1>12 DEF Shape
<1>14. Renames(m, u, e, y)
  BY <1>5, <1>10, <1>12, <1>13, RenamePoints
<1>15. PICK X : X = IF k = Black /\ c # m.root THEN {<<p, SideOf(m, p, c)>>} ELSE {}
  OBVIOUS
<1>16. /\ c \in InTree(m) \cup {Nil}
       /\ Sound(m, X)
       /\ k = Black /\ c # m.root => p \in InTree(m) /\ m.child[SideOf(m, p, c)][p] = c
       /\ \A x \in InTree(m) : (x = c => k # Black) => RedAt(m, x)
  BY <1>9, <1>15 DEF Vacated
<1>17. PICK h2 : Balanced(m, h2, X)
  BY <1>16 DEF Sound
<1>18. PICK q : q = Renamed(e, y, p)
  OBVIOUS
<1>19. PICK Y : Y = IF k = Black /\ c # m.root THEN {<<q, SideOf(m, p, c)>>} ELSE {}
  OBVIOUS
<1>20. ASSUME NEW x \in InTree(m), NEW z \in Sides
       PROVE  <<x, z>> \in X <=> <<Renamed(e, y, x), z>> \in Y
  <2>1. x # y /\ p # y
    BY <1>5, <1>13
  <2>2. x = p <=> Renamed(e, y, x) = q
    BY <1>18, <2>1 DEF Renamed
  <2> QED BY <1>15, <1>19, <2>2
<1>21. Sound(u, Y) /\ \A x \in InTree(m) : RedAt(m, x) => RedAt(u, Renamed(e, y, x))
  BY <1>5, <1>12, <1>13, <1>14, <1>17, <1>20, RenameSound
<1>22. Renamed(e, y, c) = c /\ (c = u.root <=> c = m.root)
  <2>1. u.root = Renamed(e, y, m.root)
    BY <1>14 DEF Renames
  <2>2. c # y /\ c # e
    BY <1>5, <1>13, <1>16, NilAssumption
  <2> QED BY <2>1, <2>2 DEF Renamed
<1>23. ASSUME k = Black, c # m.root
       PROVE  q \in InTree(u) /\ SideOf(u, q, c) = SideOf(m, p, c) /\ u.child[SideOf(m, p, c)][q] = c
  <2>1. p \in InTree(m) /\ m.child[SideOf(m, p, c)][p] = c
    BY <1>16, <1>23
  <2>2. SideOf(m, p, c) \in Sides
    BY <1>6 DEF SideOf
  <2>3. q \in InTree(u) /\ u.child[SideOf(m, p, c)][q] = Renamed(e, y, c)
    BY <1>14, <1>18, <2>1, <2>2 DEF Renames
  <2>4. PICK h3 : Balanced(u, h3, {<<q, SideOf(m, p, c)>>})
    BY <1>19, <1>21, <1>23 DEF Sound
  <2>5. SideOf(u, q, u.child[SideOf(m, p, c)][q]) = SideOf(m, p, c)
    BY <1>12, <2>2, <2>3, <2>4, ShortSide
  <2> QED BY <1>22, <2>3, <2>5
<1>24. Y = IF k = Black /\ c # u.root THEN {<<q, SideOf(u, q, c)>>} ELSE {}
  BY <1>19, <1>22, <1>23
<1>25. Sound(u, IF k = Black /\ c # u.root THEN {<<q, SideOf(u, q, c)>>} ELSE {})
  BY <1>21, <1>24
<1>26. k = Black /\ c # u.root => q \in InTree(u) /\ u.child[SideOf(u, q, c)][q] = c
  BY <1>22, <1>23
<1>27. ASSUME NEW x \in InTree(u), x = c => k # Black PROVE RedAt(u, x)
  <2>1. PICK w \in InTree(m) : x = Renamed(e, y, w)
    BY <1>14 DEF Renames
  <2>2. w = c => x = c
    BY <1>22, <2>1
  <2>3. RedAt(m, w)
    BY <1>16, <1>27, <2>2
  <2> QED BY <1>21, <2>1, <2>3
<1>28. c \in InTree(u) \cup {Nil} /\ q = IF p = e THEN y ELSE p
  BY <1>5, <1>11, <1>16, <1>18 DEF Renamed
<1>29. Vacated(t, u, e, c, q, k)
  BY <1>11, <1>13, <1>25, <1>26, <1>27, <1>28 DEF Vacated
<1> QED BY <1>1, <1>2, <1>3, <1>4, <1>28, <1>29

\* rb_replace_node changes neither heights nor colours.
LEMMA ReplaceSound ==
    ASSUME NEW t, NEW D, Shape(t, D), NEW v \in InTree(t), NEW n \in Nodes, n \notin InTree(t), Key[v] = Key[n],
           NEW h, Balanced(t, h, {}), \A x \in InTree(t) : RedAt(t, x),
           NEW u, u = rb_init_node(rb_replace_node(t, v, n), v)
    PROVE  /\ u \in Trees /\ InTree(u) = (InTree(t) \ {v}) \cup {n} /\ Sound(u, {})
           /\ \A x \in InTree(u) : RedAt(u, x)
<1>1. Replaces(t, u, v, n)
  BY ReplacePoints
<1>2. \A x \in Nodes : \A z \in Sides : (Beyond(z, x, n) <=> Beyond(z, x, v)) /\ (Beyond(z, n, x) <=> Beyond(z, v, x))
  BY DEF Beyond
<1>3. \A a \in InTree(t) : \A z \in Sides : a \in Nodes /\ \A x \in D[t.child[z][a]] : Beyond(z, x, a)
  BY NodeFacts
<1>4. \A z \in Sides : \A x \in D[t.child[z][v]] : Beyond(z, x, n)
  <2>1. \A z \in Sides : D[t.child[z][v]] \subseteq Nodes
    <3>1. t \in Trees
      BY DEF Shape
    <3> QED BY <3>1, NodeFacts, TreeTypes
  <2> QED BY <1>2, <1>3, <2>1, Zenon
<1>5. \A a \in InTree(t) : \A z \in Sides : v \in D[t.child[z][a]] => Beyond(z, n, a)
  BY <1>2, <1>3
<1>6. InTree(u) = (InTree(t) \ {v}) \cup {n} /\ \E E : Shape(u, E)
  BY <1>1, <1>4, <1>5, ReplaceShape
<1>7. PICK E : Shape(u, E)
  BY <1>6
<1>8. u \in Trees
  BY <1>7 DEF Shape
<1>9. Renames(t, u, v, n)
  BY <1>1, <1>6, RenamePoints
<1>10. \A x \in InTree(t) : \A z \in Sides : <<x, z>> \in {} <=> <<Renamed(v, n, x), z>> \in {}
  OBVIOUS
<1>11. Sound(u, {}) /\ \A x \in InTree(t) : RedAt(t, x) => RedAt(u, Renamed(v, n, x))
  BY <1>7, <1>8, <1>9, <1>10, RenameSound
<1>12. \A x \in InTree(u) : \E w \in InTree(t) : x = Renamed(v, n, w)
  BY <1>9 DEF Renames
<1> QED BY <1>6, <1>8, <1>11, <1>12

\* rb_link_node: a red leaf changes no heights.
LEMMA LinkSound ==
    ASSUME NEW t, NEW D, Shape(t, D), NEW n \in Nodes, n \notin InTree(t),
           NEW p \in NodeOrNil, NEW s \in Sides,
           p = Nil => t.root = Nil,
           p # Nil => p \in InTree(t) /\ t.child[s][p] = Nil /\ Beyond(s, n, p),
           \A a \in InTree(t) : \A z \in Sides : p \in D[t.child[z][a]] => Beyond(z, n, a),
           NEW h, Balanced(t, h, {}), \A x \in InTree(t) : RedAt(t, x),
           NEW u, u = rb_link_node(t, n, p, s)
    PROVE  /\ u \in Trees /\ InTree(u) = InTree(t) \cup {n} /\ Sound(u, {}) /\ IsRed(u, n)
           /\ \A x \in InTree(u) : x # n => RedAt(u, x)
<1>1. t \in Trees /\ InTree(t) \subseteq Nodes /\ n # Nil /\ p # n /\ Red # Black
  BY TreeTypes, NilAssumption DEF Shape, Red, Black
<1>2. Links(t, u, n, p, s)
  BY <1>1, LinkPoints
<1>3. InTree(u) = InTree(t) \cup {n} /\ Shape(u, LinkedBelow(D, n, p))
  BY <1>2, LinkShape
<1>4. /\ u \in Trees
      /\ \A x \in Nodes : u.parent[x] = IF x = n THEN p ELSE t.parent[x]
      /\ \A x \in Nodes : u.color[x] = IF x = n THEN Red ELSE t.color[x]
      /\ \A z \in Sides : \A x \in Nodes :
           u.child[z][x] = IF x = n THEN Nil ELSE IF x = p /\ z = s THEN n ELSE t.child[z][x]
  BY <1>2 DEF Links
<1>5. h \in [NodeOrNil -> Nat] /\ h[Nil] = 0 /\ \A x \in InTree(t) : \A z \in Sides : Level(t, h, {}, x, z)
  BY DEF Balanced
<1>6. PICK k : k = [x \in NodeOrNil |-> IF x = n THEN 0 ELSE h[x]]
  OBVIOUS
<1>7. k \in [NodeOrNil -> Nat] /\ k[Nil] = 0 /\ k[n] = 0
  BY <1>1, <1>5, <1>6 DEF NodeOrNil
<1>8. ASSUME NEW x \in InTree(u), NEW z \in Sides PROVE Level(u, k, {}, x, z)
  <2>1. CASE x = n
    <3>1. u.child[z][x] = Nil /\ u.color[x] # Black
      BY <1>1, <1>4, <2>1
    <3>2. k[n] = k[Nil] + 0 + 0
      BY <1>7
    <3> QED BY <2>1, <3>1, <3>2, Zenon DEF Level
  <2>2. CASE x # n
    <3>1. x \in InTree(t) /\ x \in Nodes /\ x \in NodeOrNil
      BY <1>1, <1>3, <2>2 DEF NodeOrNil
    <3>2. t.child[z][x] \in InTree(t) \cup {Nil}
      BY <3>1, NodeFacts
    <3>3. t.child[z][x] \in NodeOrNil /\ t.child[z][x] # n
      BY <1>1, <3>2 DEF NodeOrNil
    <3>4. k[x] = h[x] /\ k[t.child[z][x]] = h[t.child[z][x]] /\ u.color[x] = t.color[x]
      BY <1>4, <1>6, <2>2, <3>1, <3>3
    <3>5. k[u.child[z][x]] = h[t.child[z][x]]
      <4>1. CASE x = p /\ z = s
        <5>1. u.child[z][x] = n /\ t.child[z][x] = Nil
          BY <1>1, <1>4, <2>2, <3>1, <4>1, NilAssumption
        <5> QED BY <1>5, <1>7, <5>1
      <4>2. CASE ~ (x = p /\ z = s)
        <5>1. u.child[z][x] = t.child[z][x]
          BY <1>4, <2>2, <3>1, <4>2
        <5> QED BY <3>4, <5>1
      <4> QED BY <4>1, <4>2
    <3>6. Level(t, h, {}, x, z)
      BY <1>5, <3>1
    <3> QED BY <3>4, <3>5, <3>6 DEF Level
  <2> QED BY <2>1, <2>2
<1>9. Sound(u, {})
  <2>1. Balanced(u, k, {})
    BY <1>7, <1>8 DEF Balanced
  <2> QED BY <1>3, <2>1 DEF Sound
<1>10. IsRed(u, n)
  BY <1>1, <1>4 DEF IsRed
<1>11. ASSUME NEW x \in InTree(u), x # n, IsRed(u, x) PROVE u.parent[x] # Nil /\ IsBlack(u, u.parent[x])
  <2>1. x \in InTree(t) /\ x \in Nodes
    BY <1>1, <1>3, <1>11
  <2>2. u.parent[x] = t.parent[x] /\ u.color[x] = t.color[x]
    BY <1>4, <1>11, <2>1
  <2>3. IsRed(t, x)
    BY <1>1, <1>4, <1>11, <2>1, <2>2, Colours
  <2>4. t.parent[x] # Nil /\ IsBlack(t, t.parent[x])
    BY <2>1, <2>3 DEF RedAt
  <2>5. t.parent[x] \in InTree(t) /\ t.parent[x] \in Nodes /\ t.parent[x] # n
    BY <1>1, <2>1, <2>4, ParentFacts
  <2>6. u.color[t.parent[x]] = t.color[t.parent[x]]
    BY <1>4, <2>5
  <2> QED BY <1>1, <1>4, <2>2, <2>4, <2>5, <2>6, Colours
<1>12. \A x \in InTree(u) : x # n => RedAt(u, x)
  BY <1>11 DEF RedAt
<1> QED BY <1>3, <1>4, <1>9, <1>10, <1>12


-----------------------------------------------------------------------------
(* The invariant.                                                          *)

\* The place that __rb_erase_color is looking for a black node for.
Lacking == IF pc = "erase_color" /\ cur # tree.root THEN {<<par, Short>>} ELSE {}

\* The new node belongs where the search has come to.
InsertPlace(D) ==
    pc = "insert" =>
        /\ call[2] \in Nodes \ InTree(tree)
        /\ cur \in InTree(tree) \cup {Nil}
        /\ par = Nil => cur = tree.root
        /\ par # Nil => /\ par \in InTree(tree) /\ Key[call[2]] # Key[par]
                        /\ cur = tree.child[SideFor(Key[call[2]], par)][par]
        /\ \A a \in InTree(tree) : \A z \in Sides :
             par \in D[tree.child[z][a]] => Beyond(z, call[2], a)

\* The search for the successor has come to the least of the nodes on the
\* right that are not below it.
SuccessorPlace(D) ==
    LET r == tree.child[Right][call[2]] IN
    /\ pc \in {"erase", "successor"} => call[2] \in InTree(tree)
    /\ pc = "erase" => cur = r
    /\ pc = "successor" => /\ cur \in D[r] /\ cur # r
                           /\ cur = tree.child[Left][tree.parent[cur]]
                           /\ \A x \in D[r] : x \in D[cur] \/ Key[cur] < Key[x]

TreeInv == \E D, h : /\ Shape(tree, D) /\ Balanced(tree, h, Lacking)
                     /\ InsertPlace(D) /\ SuccessorPlace(D)

\* The red nodes that the loops may leave below a red node or at the root.
Mending(n) == \/ pc \in {"insert_color", "erase_color"} /\ n = cur
              \/ pc = "erase_color" /\ cur # Nil /\ tree.parent[n] = cur

RedInv == \A n \in InTree(tree) : ~ Mending(n) => RedAt(tree, n)

\* What the cursors stand for.
CursorInv ==
    /\ pc = "idle" => par = Nil
    /\ pc \in {"augment", "up"} => cur \in Nodes
    /\ pc = "insert_color" => cur \in InTree(tree) /\ IsRed(tree, cur) /\ call[2] \in Nodes
    /\ pc = "erase_color" =>
         /\ cur \in InTree(tree) \cup {Nil}
         /\ cur # tree.root => par \in InTree(tree) /\ tree.child[Short][par] = cur

Inv == TypeOK /\ TreeInv /\ RedInv /\ CursorInv

LEMMA Initially == Init => Inv
<1> SUFFICES ASSUME Init PROVE Inv
  OBVIOUS
<1>1. /\ tree.root = Nil /\ InTree(tree) = {}
      /\ \A s \in Sides : \A n \in Nodes : tree.child[s][n] = Nil
  BY Zenon DEF Init, InTree
<1>2. TypeOK
  <2>1. tree \in Trees
    BY DEF Init, Trees, NodeOrNil
  <2>2. size \in [Nodes -> Nat]
    BY DEF Init
  <2> QED BY <2>1, <2>2 DEF Init, TypeOK, NodeOrNil
<1>3. PICK D : D = [n \in NodeOrNil |-> {}]
  OBVIOUS
<1>4. PICK h : h = [n \in NodeOrNil |-> 0]
  OBVIOUS
<1>5. Nil \in NodeOrNil
  BY DEF NodeOrNil
<1>6. Shape(tree, D)
  <2>1. LinkedTree(tree)
    BY <1>1 DEF LinkedTree
  <2>2. Ordered(tree, D)
    BY <1>1, <1>3, <1>5 DEF Ordered
  <2>3. IsFiniteSet(InTree(tree))
    BY <1>1, FS_EmptySet
  <2> QED BY <1>2, <2>1, <2>2, <2>3 DEF Shape, TypeOK
<1>7. Lacking = {}
  BY DEF Init, Lacking
<1>8. Balanced(tree, h, {})
  BY <1>1, <1>4, <1>5 DEF Balanced
<1>9. InsertPlace(D) /\ SuccessorPlace(D)
  BY DEF Init, InsertPlace, SuccessorPlace
<1>10. TreeInv
  BY <1>6, <1>7, <1>8, <1>9 DEF TreeInv
<1>11. RedInv /\ CursorInv
  BY <1>1, Zenon DEF Init, RedInv, CursorInv
<1> QED BY <1>2, <1>10, <1>11 DEF Inv

\* What the invariant says when no loop is mending the tree.
LEMMA Mended ==
    ASSUME Inv, pc \notin {"insert_color", "erase_color"}
    PROVE  /\ tree \in Trees /\ Lacking = {} /\ Sound(tree, {})
           /\ \A n \in InTree(tree) : RedAt(tree, n)
<1>1. Lacking = {}
  BY DEF Lacking
<1>2. PICK D, h : Shape(tree, D) /\ Balanced(tree, h, Lacking)
  BY DEF Inv, TreeInv
<1>3. \A n \in InTree(tree) : RedAt(tree, n)
  BY DEF Inv, RedInv, Mending
<1> QED BY <1>1, <1>2, <1>3 DEF Sound, Inv, TypeOK

\* A state without a search for a place in the tree.
LEMMA Settled ==
    ASSUME TypeOK', CursorInv', pc' \notin {"insert", "erase", "successor"},
           Sound(tree', Lacking'),
           \A n \in InTree(tree') : ~ Mending(n)' => RedAt(tree', n)
    PROVE  Inv'
<1>1. PICK D, h : Shape(tree', D) /\ Balanced(tree', h, Lacking')
  BY DEF Sound
<1>2. InsertPlace(D)' /\ SuccessorPlace(D)'
  BY DEF InsertPlace, SuccessorPlace
<1>3. TreeInv'
  BY <1>1, <1>2 DEF TreeInv
<1>4. RedInv'
  BY DEF RedInv
<1> QED BY <1>3, <1>4 DEF Inv

\* A step that leaves the tree alone, outside the loops that mend it.
LEMMA Quiet ==
    ASSUME Inv, UNCHANGED tree, TypeOK',
           pc \notin {"insert_color", "erase_color"},
           pc' \in {"idle", "search", "erased", "augment", "down", "up", "nowhere", "return"},
           pc' = "idle" => par' = Nil, pc' \in {"augment", "up"} => cur' \in Nodes
    PROVE  Inv'
<1>1. Sound(tree', {}) /\ \A n \in InTree(tree') : RedAt(tree', n)
  BY Mended
<1>2. Lacking' = {}
  BY DEF Lacking
<1>3. CursorInv'
  BY DEF CursorInv
<1> QED BY <1>1, <1>2, <1>3, Settled


LEMMA AugmentTypes ==
    ASSUME tree \in Trees, NEW sz \in [Nodes -> Nat], NEW n \in Nodes
    PROVE  rb_augment_f(sz, n) \in [Nodes -> Nat]
<1>1. \A s \in Sides : tree.child[s][n] \in NodeOrNil
  BY TreeTypes
<1>2. tree.child[Left][n] \in NodeOrNil /\ tree.child[Right][n] \in NodeOrNil
  BY <1>1 DEF Sides
<1>3. \A m \in NodeOrNil : (IF m = Nil THEN 0 ELSE sz[m]) \in Nat
  BY DEF NodeOrNil
<1> QED BY <1>2, <1>3 DEF rb_augment_f

\* The steps that only read the tree.
LEMMA ReadSteps ==
    ASSUME Inv, ClientReads \/ SearchDown \/ SearchDone \/ InsertDuplicate
                \/ AugmentErased \/ AugmentUp \/ Walking \/ Return
    PROVE  Inv'
<1>1. /\ TypeOK /\ tree \in Trees /\ tree.root \in NodeOrNil
      /\ \A n \in Nodes : tree.parent[n] \in NodeOrNil
      /\ \A s \in Sides : \A n \in Nodes : tree.child[s][n] \in NodeOrNil
  BY TreeTypes DEF Inv, TypeOK
<1>2. Left \in Sides /\ Right \in Sides
  BY DEF Sides
<1>3. \A n \in NodeOrNil : n # Nil => n \in Nodes
  BY DEF NodeOrNil
<1>4. \A k, n : SideFor(k, n) \in Sides
  BY DEF SideFor, Sides
<1>5. Towards \in Sides /\ Opposite(Towards) \in Sides
  BY <1>2, SideFacts DEF Towards
<1>6. \A n \in Nodes : n \in NodeOrNil
  BY DEF NodeOrNil
<1>7. CASE ClientReads
  <2>1. ASSUME NEW n \in Nodes, myrbdemo_search(Key[n]) PROVE Inv'
    <3>1. TypeOK'
      BY <1>1, <2>1 DEF TypeOK, myrbdemo_search, Begin
    <3> QED BY <2>1, <3>1, Quiet DEF myrbdemo_search, Begin
  <2>2. ASSUME NEW s \in Sides, rb_first(s) PROVE Inv'
    <3>1. TypeOK'
      BY <1>1, <2>2 DEF TypeOK, rb_first, Begin
    <3> QED BY <2>2, <3>1, Quiet DEF rb_first, Begin
  <2>3. ASSUME NEW n \in Nodes, NEW s \in Sides, rb_next(n, s) PROVE Inv'
    <3>1. CASE tree.parent[n] # n /\ tree.child[s][n] # Nil
      <4>1. pc = "idle" /\ pc' = "down" /\ cur' = tree.child[s][n] /\ UNCHANGED <<tree, size, par, deepest>>
        BY <2>3, <3>1 DEF rb_next, Begin
      <4>2. TypeOK'
        BY <1>1, <4>1 DEF TypeOK
      <4> QED BY <4>1, <4>2, Quiet
    <3>2. CASE ~ (tree.parent[n] # n /\ tree.child[s][n] # Nil)
      <4>1. pc = "idle" /\ pc' \in {"nowhere", "up"} /\ cur' = n /\ UNCHANGED <<tree, size, par, deepest>>
        BY <2>3, <3>2 DEF rb_next, Begin
      <4>2. TypeOK'
        BY <1>1, <1>6, <4>1 DEF TypeOK
      <4> QED BY <4>1, <4>2, Quiet
    <3> QED BY <3>1, <3>2
  <2> QED BY <1>7, <2>1, <2>2, <2>3 DEF ClientReads
<1>8. CASE SearchDown
  <2>1. cur \in Nodes
    BY <1>1, <1>3, <1>8 DEF SearchDown, TypeOK
  <2>2. cur' \in NodeOrNil
    BY <1>1, <1>4, <1>8, <2>1 DEF SearchDown
  <2>3. TypeOK'
    BY <1>1, <1>8, <2>2 DEF SearchDown, TypeOK
  <2> QED BY <1>8, <2>3, Quiet DEF SearchDown
<1>9. CASE SearchDone
  <2>1. TypeOK'
    BY <1>1, <1>9 DEF SearchDone, Answer, locals, TypeOK
  <2> QED BY <1>9, <2>1, Quiet DEF SearchDone, Answer
<1>10. CASE InsertDuplicate
  <2>1. TypeOK'
    BY <1>1, <1>10 DEF InsertDuplicate, Answer, locals, TypeOK
  <2> QED BY <1>10, <2>1, Quiet DEF InsertDuplicate, Answer
<1>11. CASE AugmentErased
  <2>1. TypeOK'
    BY <1>1, <1>11 DEF AugmentErased, TypeOK
  <2>2. pc' \in {"return", "augment"} /\ (pc' = "augment" => cur' \in Nodes)
    BY <1>1, <1>3, <1>11 DEF AugmentErased, TypeOK
  <2> QED BY <1>11, <2>1, <2>2, Quiet DEF AugmentErased
<1>12. CASE AugmentUp
  <2>1. cur \in Nodes
    BY <1>12 DEF AugmentUp, Inv, CursorInv
  <2>2. PICK p : p = tree.parent[cur]
    OBVIOUS
  <2>3. p \in NodeOrNil /\ cur' = p /\ pc' = IF p = Nil THEN "return" ELSE "augment"
    BY <1>1, <1>12, <2>1, <2>2 DEF AugmentUp
  <2>4. size' \in [Nodes -> Nat]
    <3>1. PICK own : own = rb_augment_f(size, cur)
      OBVIOUS
    <3>2. own \in [Nodes -> Nat]
      BY <1>1, <2>1, <3>1, AugmentTypes DEF TypeOK
    <3>3. \A n \in Nodes : rb_augment_f(own, n) \in [Nodes -> Nat]
      BY <1>1, <3>2, AugmentTypes, Zenon
    <3>4. PICK l : l = tree.child[Left][p]
      OBVIOUS
    <3>5. PICK r : r = tree.child[Right][p]
      OBVIOUS
    <3>6. size' = IF p = Nil THEN own
                  ELSE IF cur = l /\ r # Nil THEN rb_augment_f(own, r)
                  ELSE IF l # Nil THEN rb_augment_f(own, l)
                  ELSE own
      BY <1>12, <2>2, <3>1, <3>4, <3>5 DEF AugmentUp
    <3>7. p # Nil => l \in NodeOrNil /\ r \in NodeOrNil
      BY <1>1, <1>2, <1>3, <2>3, <3>4, <3>5
    <3> QED BY <1>3, <3>2, <3>3, <3>6, <3>7
  <2>5. TypeOK'
    BY <1>1, <1>12, <2>3, <2>4 DEF AugmentUp, TypeOK
  <2> QED BY <1>3, <1>12, <2>3, <2>5, Quiet DEF AugmentUp
<1>13. CASE Walking
  <2>1. CASE WalkDown
    <3>1. cur' \in NodeOrNil
      BY <1>1, <1>3, <1>5, <2>1 DEF WalkDown, TypeOK
    <3>2. TypeOK'
      BY <1>1, <2>1, <3>1 DEF WalkDown, TypeOK
    <3> QED BY <2>1, <3>2, Quiet DEF WalkDown
  <2>2. CASE WalkUp
    <3>1. cur \in Nodes
      BY <2>2 DEF WalkUp, Inv, CursorInv
    <3>2. cur' \in Nodes
      BY <1>1, <1>3, <2>2, <3>1 DEF WalkUp, FarChild
    <3>3. TypeOK'
      BY <1>1, <1>6, <2>2, <3>2 DEF WalkUp, TypeOK
    <3> QED BY <2>2, <3>2, <3>3, Quiet DEF WalkUp
  <2>3. CASE WalkDone
    <3>1. /\ pc \in {"down", "up", "nowhere"} /\ pc' = "return"
          /\ UNCHANGED <<tree, size, call, cur, par, deepest>>
      BY <2>3 DEF WalkDone, Answer, locals
    <3>2. TypeOK'
      BY <1>1, <3>1 DEF TypeOK
    <3> QED BY <3>1, <3>2, Quiet
  <2> QED BY <1>13, <2>1, <2>2, <2>3 DEF Walking
<1>14. CASE Return
  <2>1. TypeOK'
    BY <1>1, <1>14 DEF Return, TypeOK, NodeOrNil
  <2> QED BY <1>14, <2>1, Quiet DEF Return
<1> QED BY <1>7, <1>8, <1>9, <1>10, <1>11, <1>12, <1>13, <1>14

-----------------------------------------------------------------------------
(* The steps of an insertion.                                              *)

LEMMA BeginInsert ==
    ASSUME Inv, NEW n \in Nodes, myrbdemo_insert(n)
    PROVE  Inv'
<1>1. /\ pc = "idle" /\ pc' = "insert" /\ call' = <<"insert", n>> /\ cur' = tree.root
      /\ n \notin InTree(tree) /\ UNCHANGED <<tree, size, par, deepest, reply>>
  BY DEF myrbdemo_insert, Begin
<1>2. PICK D, h : Shape(tree, D) /\ Balanced(tree, h, {})
  BY <1>1, Mended DEF Sound
<1>3. tree.root \in InTree(tree) \cup {Nil} /\ Nil \notin InTree(tree) /\ tree.root \in NodeOrNil
  BY <1>2, TreeTypes DEF Shape, LinkedTree
<1>4. TypeOK'
  BY <1>1, <1>3 DEF Inv, TypeOK
<1>5. call'[2] = n /\ par' = Nil
  BY <1>1 DEF Inv, CursorInv
<1>6. InsertPlace(D)'
  <2>1. \A a \in InTree(tree) : \A z \in Sides : Nil \notin D[tree.child[z][a]]
    BY <1>2, <1>3, NodeFacts
  <2> QED BY <1>1, <1>3, <1>5, <2>1 DEF InsertPlace
<1>7. SuccessorPlace(D)' /\ Lacking' = {}
  BY <1>1 DEF SuccessorPlace, Lacking
<1>8. TreeInv'
  BY <1>1, <1>2, <1>6, <1>7 DEF TreeInv
<1>9. RedInv' /\ CursorInv'
  BY <1>1, Mended DEF RedInv, CursorInv
<1> QED BY <1>4, <1>8, <1>9 DEF Inv

LEMMA StepInsertDown ==
    ASSUME Inv, InsertDown
    PROVE  Inv'
<1>1. PICK n : n = call[2]
  OBVIOUS
<1>2. PICK s : s = SideFor(Key[n], cur)
  OBVIOUS
<1>3. PICK z0 : z0 = SideFor(Key[n], par)
  OBVIOUS
<1>4. /\ pc = "insert" /\ pc' = "insert" /\ cur # Nil /\ Key[cur] # Key[n]
      /\ cur' = tree.child[s][cur] /\ par' = cur /\ call'[2] = n
      /\ UNCHANGED <<tree, size, call, deepest, reply>>
  BY <1>1, <1>2 DEF InsertDown
<1>5. Lacking = {} /\ Lacking' = {}
  BY <1>4 DEF Lacking
<1>6. PICK D, h : Shape(tree, D) /\ Balanced(tree, h, {}) /\ InsertPlace(D)
  BY <1>5 DEF Inv, TreeInv
<1>7. /\ n \in Nodes /\ n \notin InTree(tree) /\ cur \in InTree(tree) /\ cur \in Nodes
      /\ par = Nil => cur = tree.root
      /\ par # Nil => par \in InTree(tree) /\ Key[n] # Key[par] /\ cur = tree.child[z0][par]
      /\ \A a \in InTree(tree) : \A z \in Sides : par \in D[tree.child[z][a]] => Beyond(z, n, a)
  <2>1. cur \in InTree(tree)
    BY <1>4, <1>6 DEF InsertPlace
  <2>2. cur \in Nodes
    BY <2>1 DEF InTree
  <2> QED BY <1>1, <1>3, <1>4, <1>6, <2>1, <2>2 DEF InsertPlace
<1>8. s \in Sides /\ z0 \in Sides /\ \A z \in Sides : z = s \/ z = Opposite(s)
  BY <1>2, <1>3 DEF SideFor, Sides, Opposite, Left, Right
<1>9. cur' \in InTree(tree) \cup {Nil}
  BY <1>4, <1>6, <1>7, <1>8, NodeFacts
<1>10. ASSUME NEW a \in InTree(tree), NEW z \in Sides, cur \in D[tree.child[z][a]]
       PROVE  Beyond(z, n, a)
  <2>1. tree.child[z][a] \in InTree(tree)
    BY <1>6, <1>10, NodeFacts
  <2>2. CASE cur = tree.child[z][a]
    <3>1. a = tree.parent[cur] /\ a \in Nodes /\ a # Nil
      BY <1>6, <1>7, <2>2, ParentFacts, NodeFacts
    <3>2. par # Nil
      BY <1>6, <1>7, <3>1, ParentFacts
    <3>3. par \in InTree(tree) /\ par \in Nodes /\ cur = tree.child[z0][par]
      BY <1>7, <3>2, Zenon DEF InTree
    <3>4. par = a
      BY <1>6, <1>7, <1>8, <3>1, <3>3, ParentFacts
    <3>5. z = z0
      <4>1. tree.child[z][a] # tree.child[Opposite(z)][a]
        BY <1>6, <2>1, <3>1, NodeFacts, TreeTypes DEF Shape
      <4> QED BY <1>8, <2>2, <3>3, <3>4, <4>1, SideFacts
    <3>6. Key[n] # Key[a] /\ Key[n] \in Int /\ Key[a] \in Int
      BY <1>7, <3>1, <3>2, <3>4, KeyAssumption
    <3> QED BY <1>3, <3>4, <3>5, <3>6 DEF SideFor, Beyond, Left, Right
  <2>3. CASE cur # tree.child[z][a]
    <3>1. tree.parent[cur] \in D[tree.child[z][a]] /\ tree.parent[cur] # Nil
      BY <1>6, <1>10, <2>1, <2>3, Below
    <3>2. par # Nil
      BY <1>6, <1>7, <3>1, ParentFacts
    <3>3. par = tree.parent[cur]
      <4>1. par \in Nodes /\ cur = tree.child[z0][par]
        BY <1>7, <3>2 DEF InTree
      <4> QED BY <1>6, <1>7, <1>8, <4>1, ParentFacts
    <3> QED BY <1>7, <3>1, <3>3
  <2> QED BY <2>2, <2>3
<1>11. InsertPlace(D)'
  <2>1. par' = cur /\ par' # Nil /\ call'[2] = n /\ InTree(tree') = InTree(tree) /\ tree' = tree
    BY <1>4
  <2>2. cur' = tree.child[SideFor(Key[n], cur)][cur]
    BY <1>2, <1>4
  <2> QED BY <1>4, <1>7, <1>9, <1>10, <2>1, <2>2 DEF InsertPlace
<1>12. SuccessorPlace(D)'
  BY <1>4 DEF SuccessorPlace
<1>13. TreeInv'
  BY <1>4, <1>5, <1>6, <1>11, <1>12 DEF TreeInv
<1>14. RedInv' /\ CursorInv'
  BY <1>4, Mended DEF RedInv, CursorInv
<1>15. TypeOK'
  BY <1>4, <1>7, <1>9 DEF Inv, TypeOK, NodeOrNil, InTree
<1> QED BY <1>13, <1>14, <1>15 DEF Inv

LEMMA StepInsertLink ==
    ASSUME Inv, InsertLink
    PROVE  Inv' /\ InTree(tree') = InTree(tree) \cup {call[2]}
<1>1. PICK n : n = call[2]
  OBVIOUS
<1>2. PICK s : s = IF par = Nil THEN Left ELSE SideFor(Key[n], par)
  OBVIOUS
<1>3. /\ pc = "insert" /\ pc' = "insert_color" /\ cur = Nil /\ cur' = n
      /\ tree' = rb_link_node(tree, n, par, s) /\ call'[2] = n
      /\ UNCHANGED <<size, call, par, deepest>>
  BY <1>1, <1>2 DEF InsertLink
<1>4. Lacking = {} /\ Lacking' = {}
  BY <1>3 DEF Lacking
<1>5. PICK D, h : Shape(tree, D) /\ Balanced(tree, h, {}) /\ InsertPlace(D)
  BY <1>4 DEF Inv, TreeInv
<1>6. /\ n \in Nodes /\ n \notin InTree(tree)
      /\ par = Nil => tree.root = Nil
      /\ par # Nil => par \in InTree(tree) /\ Key[n] # Key[par] /\ tree.child[SideFor(Key[n], par)][par] = Nil
      /\ \A a \in InTree(tree) : \A z \in Sides : par \in D[tree.child[z][a]] => Beyond(z, n, a)
  BY <1>1, <1>3, <1>5 DEF InsertPlace
<1>7. s \in Sides /\ par \in NodeOrNil
  BY <1>2 DEF SideFor, Sides, Inv, TypeOK
<1>8. par # Nil => par \in InTree(tree) /\ tree.child[s][par] = Nil /\ Beyond(s, n, par)
  <2> SUFFICES ASSUME par # Nil PROVE par \in InTree(tree) /\ tree.child[s][par] = Nil /\ Beyond(s, n, par)
    OBVIOUS
  <2>1. par \in Nodes /\ Key[n] \in Int /\ Key[par] \in Int
    BY <1>6, KeyAssumption DEF InTree
  <2> QED BY <1>2, <1>6, <2>1 DEF SideFor, Beyond, Left, Right
<1>9. \A x \in InTree(tree) : RedAt(tree, x)
  BY <1>3, Mended
<1>10. /\ tree' \in Trees /\ InTree(tree') = InTree(tree) \cup {n} /\ Sound(tree', {}) /\ IsRed(tree', n)
       /\ \A x \in InTree(tree') : x # n => RedAt(tree', x)
  BY <1>3, <1>5, <1>6, <1>7, <1>8, <1>9, LinkSound
<1>11. TypeOK'
  BY <1>3, <1>6, <1>10 DEF Inv, TypeOK, NodeOrNil
<1>12. CursorInv'
  BY <1>3, <1>6, <1>10 DEF CursorInv
<1>13. \A x \in InTree(tree') : ~ Mending(x)' => RedAt(tree', x)
  BY <1>3, <1>10 DEF Mending
<1>14. Inv'
  BY <1>3, <1>4, <1>10, <1>11, <1>12, <1>13, Settled
<1> QED BY <1>1, <1>10, <1>14


\* The node that rb_insert_color has in hand.
LEMMA InsertState ==
    ASSUME Inv, pc = "insert_color"
    PROVE  /\ \E D, h : Shape(tree, D) /\ Balanced(tree, h, {})
           /\ cur \in InTree(tree) /\ IsRed(tree, cur) /\ call[2] \in Nodes
           /\ \A x \in InTree(tree) : x # cur => RedAt(tree, x)
<1>1. Lacking = {}
  BY DEF Lacking
<1>2. \A x \in InTree(tree) : x # cur => RedAt(tree, x)
  BY DEF Inv, RedInv, Mending
<1> QED BY <1>1, <1>2 DEF Inv, TreeInv, CursorInv

LEMMA StepInsertRecolor ==
    ASSUME Inv, InsertRecolor
    PROVE  Inv' /\ InTree(tree') = InTree(tree)
<1>1. /\ pc = "insert_color" /\ pc' = "insert_color" /\ IsRed(tree, tree.parent[cur]) /\ IsRed(tree, Uncle)
      /\ tree' = InsertRecolored(tree, cur) /\ cur' = tree.parent[tree.parent[cur]]
      /\ UNCHANGED <<size, call, par, deepest>>
  BY DEF InsertRecolor, InsertRebalances
<1>2. /\ cur \in InTree(tree) /\ call[2] \in Nodes
      /\ \A x \in InTree(tree) : x # cur => RedAt(tree, x)
  BY <1>1, InsertState
<1>3. PICK D, h : Shape(tree, D) /\ Balanced(tree, h, {})
  BY <1>1, InsertState
<1>4. IsRed(tree, UncleAt(tree, cur))
  <2>1. UncleAt(tree, cur) = Uncle
    BY Zenon DEF UncleAt, Uncle
  <2> QED BY <1>1, <2>1, Zenon
<1>5. /\ tree' \in Trees /\ InTree(tree') = InTree(tree) /\ Sound(tree', {})
      /\ cur' \in InTree(tree') /\ IsRed(tree', cur')
      /\ \A x \in InTree(tree') : x # cur' => RedAt(tree', x)
  BY <1>1, <1>2, <1>3, <1>4, InsertRecoloredSound, Zenon
<1>6. TypeOK'
  BY <1>1, <1>5 DEF Inv, TypeOK, NodeOrNil, InTree
<1>7. CursorInv'
  BY <1>1, <1>2, <1>5 DEF CursorInv
<1>8. Lacking' = {} /\ \A x \in InTree(tree') : ~ Mending(x)' => RedAt(tree', x)
  BY <1>1, <1>5 DEF Lacking, Mending
<1>9. Inv'
  BY <1>1, <1>5, <1>6, <1>7, <1>8, Settled
<1> QED BY <1>5, <1>9

LEMMA StepInsertRotate ==
    ASSUME Inv, InsertRotate
    PROVE  Inv' /\ InTree(tree') = InTree(tree)
<1>1. /\ pc = "insert_color" /\ pc' = "insert_color" /\ IsRed(tree, tree.parent[cur]) /\ IsBlack(tree, Uncle)
      /\ tree' = InsertRotated(tree, cur)
      /\ cur' = IF IsInner(tree, cur) THEN tree.parent[cur] ELSE cur
      /\ UNCHANGED <<size, call, par, deepest>>
  BY DEF InsertRotate, InsertRebalances
<1>2. /\ cur \in InTree(tree) /\ IsRed(tree, cur) /\ call[2] \in Nodes
      /\ \A x \in InTree(tree) : x # cur => RedAt(tree, x)
  <2> pc = "insert_color"
    BY <1>1, Zenon
  <2> QED BY InsertState, Zenon
<1>3. PICK D, h : Shape(tree, D) /\ Balanced(tree, h, {})
  <2> pc = "insert_color"
    BY <1>1, Zenon
  <2> QED BY InsertState, Zenon
<1>4. IsBlack(tree, UncleAt(tree, cur))
  <2>1. UncleAt(tree, cur) = Uncle
    BY Zenon DEF UncleAt, Uncle
  <2> QED BY <1>1, <2>1, Zenon
<1>5. /\ tree' \in Trees /\ InTree(tree') = InTree(tree) /\ Sound(tree', {})
      /\ cur' \in InTree(tree') /\ IsRed(tree', cur')
      /\ \A x \in InTree(tree') : RedAt(tree', x)
  <2>1. IsRed(tree, tree.parent[cur])
    BY <1>1, Zenon
  <2>2. /\ InsertRotated(tree, cur) \in Trees /\ InTree(InsertRotated(tree, cur)) = InTree(tree)
        /\ Sound(InsertRotated(tree, cur), {})
        /\ (IF IsInner(tree, cur) THEN tree.parent[cur] ELSE cur) \in InTree(InsertRotated(tree, cur))
        /\ IsRed(InsertRotated(tree, cur), IF IsInner(tree, cur) THEN tree.parent[cur] ELSE cur)
        /\ \A x \in InTree(InsertRotated(tree, cur)) : RedAt(InsertRotated(tree, cur), x)
    BY <1>2, <1>3, <1>4, <2>1, InsertRotatedSound, Zenon
  <2> QED BY <1>1, <2>2, Zenon
<1>6. TypeOK'
  BY <1>1, <1>5 DEF Inv, TypeOK, NodeOrNil, InTree
<1>7. CursorInv'
  BY <1>1, <1>2, <1>5 DEF CursorInv
<1>8. Lacking' = {}
  BY <1>1 DEF Lacking
<1>9. Inv'
  BY <1>1, <1>5, <1>6, <1>7, <1>8, Settled
<1> QED BY <1>5, <1>9

LEMMA StepInsertDone ==
    ASSUME Inv, InsertDone
    PROVE  Inv' /\ InTree(tree') = InTree(tree)
<1>1. /\ pc = "insert_color" /\ pc' = "augment" /\ ~ IsRed(tree, tree.parent[cur])
      /\ tree' = Paint(tree, tree.root, Black) /\ cur' = rb_augment_insert(tree, call[2])
      /\ UNCHANGED <<size, call, par, deepest>>
  BY DEF InsertDone, InsertRebalances
<1>2. /\ cur \in InTree(tree) /\ call[2] \in Nodes
      /\ \A x \in InTree(tree) : x # cur => RedAt(tree, x)
  BY <1>1, InsertState
<1>3. PICK D, h : Shape(tree, D) /\ Balanced(tree, h, {})
  BY <1>1, InsertState
<1>4. tree \in Trees /\ tree.root \in InTree(tree)
  BY <1>2, <1>3, ParentFacts DEF Shape
<1>5. \A x \in InTree(tree) : x # tree.root /\ tree.parent[x] # tree.root => RedAt(tree, x)
  <2>1. ASSUME cur # tree.root PROVE RedAt(tree, cur)
    <3>1. tree.parent[cur] # Nil
      BY <1>2, <1>3, <2>1, ParentFacts
    <3> QED BY <1>1, <3>1 DEF RedAt, IsBlack
  <2> QED BY <1>2, <2>1
<1>6. /\ SamePointers(tree, tree') /\ InTree(tree') = InTree(tree) /\ Sound(tree', {})
      /\ \A x \in InTree(tree') : RedAt(tree', x)
  BY <1>1, <1>3, <1>4, <1>5, PaintBlackSound
<1>7. tree' \in Trees
  BY <1>6 DEF SamePointers
<1>8. cur' \in Nodes
  <2>1. \A s \in Sides : tree.child[s][call[2]] \in NodeOrNil
    BY <1>2, <1>4, TreeTypes
  <2> QED BY <1>1, <1>2, <2>1 DEF rb_augment_insert, NodeOrNil, Sides
<1>9. TypeOK'
  BY <1>1, <1>7, <1>8 DEF Inv, TypeOK, NodeOrNil
<1>10. CursorInv'
  BY <1>1, <1>8 DEF CursorInv
<1>11. Lacking' = {}
  BY <1>1 DEF Lacking
<1>12. Inv'
  BY <1>1, <1>6, <1>9, <1>10, <1>11, Settled
<1> QED BY <1>6, <1>12

-----------------------------------------------------------------------------
(* The steps of erasing.                                                   *)

LEMMA BeginErase ==
    ASSUME Inv, NEW e \in Nodes, myrbdemo_delete(e)
    PROVE  Inv'
<1>1. /\ pc = "idle" /\ pc' = "erase" /\ call' = <<"erase", e>> /\ cur' = tree.child[Right][e]
      /\ e \in InTree(tree) /\ UNCHANGED <<tree, size, par, deepest, reply>>
  BY DEF myrbdemo_delete, Begin
<1>2. PICK D, h : Shape(tree, D) /\ Balanced(tree, h, {})
  BY <1>1, Mended DEF Sound
<1>3. cur' \in NodeOrNil
  BY <1>1, <1>2, TreeTypes DEF Shape, Sides
<1>4. TypeOK'
  BY <1>1, <1>3 DEF Inv, TypeOK
<1>5. call'[2] = e
  BY <1>1
<1>6. SuccessorPlace(D)'
  BY <1>1, <1>5 DEF SuccessorPlace
<1>7. InsertPlace(D)' /\ Lacking' = {}
  BY <1>1 DEF InsertPlace, Lacking
<1>8. TreeInv'
  BY <1>1, <1>2, <1>6, <1>7 DEF TreeInv
<1>9. RedInv' /\ CursorInv'
  BY <1>1, Mended DEF RedInv, CursorInv
<1> QED BY <1>4, <1>8, <1>9 DEF Inv

\* The search for the successor starts at the right child.
LEMMA SearchState ==
    ASSUME Inv, pc \in {"erase", "successor"}, cur # Nil, NEW r, r = tree.child[Right][call[2]]
    PROVE  /\ call[2] \in InTree(tree) /\ r \in InTree(tree)
           /\ \E D, h : /\ Shape(tree, D) /\ Balanced(tree, h, {})
                        /\ cur \in D[r] /\ cur \in InTree(tree)
                        /\ cur # r => cur = tree.child[Left][tree.parent[cur]]
                        /\ \A x \in D[r] : x \in D[cur] \/ Key[cur] < Key[x]
<1>1. Lacking = {}
  BY DEF Lacking
<1>2. PICK D, h : Shape(tree, D) /\ Balanced(tree, h, {}) /\ SuccessorPlace(D)
  BY <1>1 DEF Inv, TreeInv
<1>3. call[2] \in InTree(tree)
  BY <1>2 DEF SuccessorPlace
<1>4. Right \in Sides
  BY DEF Sides
<1>5. CASE pc = "erase"
  <2>1. cur = r
    BY <1>2, <1>5 DEF SuccessorPlace
  <2>2. r \in InTree(tree) /\ r \in D[r]
    BY <1>2, <1>3, <1>4, <2>1, NodeFacts
  <2> QED BY <1>2, <1>3, <2>1, <2>2
<1>6. CASE pc = "successor"
  <2>1. /\ cur \in D[r] /\ cur # r
        /\ cur = tree.child[Left][tree.parent[cur]]
        /\ \A x \in D[r] : x \in D[cur] \/ Key[cur] < Key[x]
    BY <1>2, <1>6 DEF SuccessorPlace
  <2>2. r \in InTree(tree) /\ D[r] \subseteq InTree(tree)
    BY <1>2, <1>3, <1>4, <2>1, NodeFacts
  <2> QED BY <1>2, <1>3, <2>1, <2>2
<1> QED BY <1>5, <1>6

LEMMA StepSuccessorDown ==
    ASSUME Inv, SuccessorDown
    PROVE  Inv'
<1>1. PICK r : r = tree.child[Right][call[2]]
  OBVIOUS
<1>2. /\ pc \in {"erase", "successor"} /\ pc' = "successor" /\ cur # Nil /\ tree.child[Left][cur] # Nil
      /\ cur' = tree.child[Left][cur]
      /\ UNCHANGED <<tree, size, call, par, deepest, reply>>
  BY DEF SuccessorDown
<1>3. call[2] \in InTree(tree) /\ r \in InTree(tree)
  BY <1>1, <1>2, SearchState
<1>4. PICK D, h : /\ Shape(tree, D) /\ Balanced(tree, h, {})
                  /\ cur \in D[r] /\ cur \in InTree(tree)
                  /\ \A x \in D[r] : x \in D[cur] \/ Key[cur] < Key[x]
  BY <1>1, <1>2, SearchState
<1>5. PICK c : c = tree.child[Left][cur]
  OBVIOUS
<1>6. Left \in Sides /\ Right \in Sides /\ Opposite(Left) = Right
  BY DEF Sides, Opposite, Left, Right
<1>7. /\ c \in InTree(tree) /\ tree.parent[c] = cur /\ c \in D[c] /\ c \in Nodes /\ cur \in Nodes
      /\ D[cur] = {cur} \cup D[c] \cup D[tree.child[Right][cur]]
      /\ \A x \in D[tree.child[Right][cur]] : Beyond(Right, x, cur)
      /\ \A x \in D[c] : Beyond(Left, x, cur)
  <2>1. /\ cur \in Nodes
        /\ D[cur] = {cur} \cup D[c] \cup D[tree.child[Right][cur]]
        /\ \A x \in D[c] : Beyond(Left, x, cur)
        /\ c \in InTree(tree) /\ tree.parent[c] = cur /\ c \in D[c]
    BY <1>2, <1>4, <1>5, <1>6, NodeFacts
  <2>2. \A x \in D[tree.child[Right][cur]] : Beyond(Right, x, cur)
    BY <1>4, <1>6, NodeFacts
  <2>3. c \in Nodes
    BY <2>1 DEF InTree
  <2> QED BY <2>1, <2>2, <2>3
<1>8. D[cur] \subseteq D[r] /\ D[r] \subseteq Nodes
  BY <1>3, <1>4, Below DEF InTree
<1>9. Key[c] < Key[cur] /\ Key[c] \in Int /\ Key[cur] \in Int
  BY <1>7, KeyAssumption DEF Beyond
<1>10. ASSUME NEW x \in D[r], x \notin D[c] PROVE Key[c] < Key[x]
  <2>1. Key[x] \in Int
    BY <1>8, KeyAssumption
  <2>2. CASE x \notin D[cur]
    BY <1>4, <1>9, <2>1, <2>2
  <2>3. CASE x \in D[cur]
    <3>1. x = cur \/ x \in D[tree.child[Right][cur]]
      BY <1>7, <1>10, <2>3
    <3>2. x = cur \/ Key[cur] < Key[x]
      BY <1>7, <3>1 DEF Beyond, Left, Right
    <3> QED BY <1>9, <2>1, <3>2
  <2> QED BY <2>2, <2>3
<1>11. c # r
  <2>1. tree.parent[r] = call[2] /\ call[2] \notin D[r]
    BY <1>1, <1>3, <1>4, <1>6, NodeFacts
  <2> QED BY <1>4, <1>7, <2>1
<1>12. cur' = c /\ tree' = tree /\ call' = call /\ c \in D[r]
  BY <1>2, <1>5, <1>7, <1>8
<1>13. SuccessorPlace(D)'
  <2>1. c = tree.child[Left][tree.parent[c]]
    BY <1>5, <1>7
  <2> QED BY <1>1, <1>2, <1>3, <1>10, <1>11, <1>12, <2>1 DEF SuccessorPlace
<1>14. InsertPlace(D)' /\ Lacking' = {}
  BY <1>2 DEF InsertPlace, Lacking
<1>15. TreeInv'
  BY <1>4, <1>12, <1>13, <1>14 DEF TreeInv
<1>16. RedInv' /\ CursorInv'
  BY <1>2, Mended DEF RedInv, CursorInv
<1>17. TypeOK'
  BY <1>2, <1>7, <1>12 DEF Inv, TypeOK, NodeOrNil
<1> QED BY <1>15, <1>16, <1>17 DEF Inv

\* A node has left the tree.
LEMMA StepSplice ==
    ASSUME Inv, NEW e \in InTree(tree), NEW k, Vacated(tree, tree', e, cur', par', k),
           pc' = IF k = Black THEN "erase_color" ELSE "erased",
           size' = [size EXCEPT ![e] = 0], par' \in NodeOrNil, deepest' \in NodeOrNil
    PROVE  Inv' /\ InTree(tree') = InTree(tree) \ {e}
<1>1. /\ tree' \in Trees /\ InTree(tree') = InTree(tree) \ {e}
      /\ cur' \in InTree(tree') \cup {Nil}
      /\ Sound(tree', IF k = Black /\ cur' # tree'.root THEN {<<par', SideOf(tree', par', cur')>>} ELSE {})
      /\ k = Black /\ cur' # tree'.root => par' \in InTree(tree') /\ tree'.child[SideOf(tree', par', cur')][par'] = cur'
      /\ \A x \in InTree(tree') : (x = cur' => k # Black) => RedAt(tree', x)
  BY DEF Vacated
<1>2. Lacking' = IF k = Black /\ cur' # tree'.root THEN {<<par', SideOf(tree', par', cur')>>} ELSE {}
  BY DEF Lacking, Short
<1>3. CursorInv'
  BY <1>1 DEF CursorInv, Short
<1>4. TypeOK'
  BY <1>1 DEF Inv, TypeOK, NodeOrNil, InTree
<1>5. \A x \in InTree(tree') : ~ Mending(x)' => RedAt(tree', x)
  BY <1>1 DEF Mending
<1>6. Inv'
  BY <1>1, <1>2, <1>3, <1>4, <1>5, Settled
<1> QED BY <1>1, <1>6

LEMMA StepEraseNode ==
    ASSUME Inv, EraseNode
    PROVE  Inv' /\ InTree(tree') = InTree(tree) \ {call[2]}
<1>1. PICK e : e = call[2]
  OBVIOUS
<1>2. PICK c : c = IF tree.child[Left][e] = Nil THEN cur ELSE tree.child[Left][e]
  OBVIOUS
<1>3. /\ pc = "erase" /\ (tree.child[Left][e] = Nil \/ cur = Nil)
      /\ deepest' = rb_augment_erase_begin(tree, e, Nil)
      /\ Splice(SpliceOut(tree, e, c), e, e, c, tree.parent[e])
  BY <1>1, <1>2 DEF EraseNode
<1>4. PICK D, h : Shape(tree, D) /\ Balanced(tree, h, {}) /\ SuccessorPlace(D)
  <2>1. Lacking = {}
    BY <1>3 DEF Lacking
  <2> QED BY <2>1 DEF Inv, TreeInv
<1>5. e \in InTree(tree) /\ cur = tree.child[Right][e]
  BY <1>1, <1>3, <1>4 DEF SuccessorPlace
<1>6. PICK s : s = IF tree.child[Left][e] = Nil THEN Right ELSE Left
  OBVIOUS
<1>7. s \in Sides /\ c = tree.child[s][e] /\ tree.child[Opposite(s)][e] = Nil
  BY <1>2, <1>3, <1>5, <1>6 DEF Sides, Opposite, Left, Right
<1>8. \A x \in InTree(tree) : RedAt(tree, x)
  BY <1>3, Mended
<1>9. Vacated(tree, rb_init_node(SpliceOut(tree, e, tree.child[s][e]), e), e, tree.child[s][e],
              tree.parent[e], tree.color[e])
  BY <1>4, <1>5, <1>7, <1>8, SpliceOutSound
<1>10. /\ tree' = rb_init_node(SpliceOut(tree, e, c), e) /\ cur' = c /\ par' = tree.parent[e]
       /\ pc' = IF tree.color[e] = Black THEN "erase_color" ELSE "erased"
       /\ size' = [size EXCEPT ![e] = 0]
  BY <1>3 DEF Splice
<1>11. par' \in NodeOrNil /\ deepest' \in NodeOrNil
  <2>1. e \in Nodes /\ tree.parent[e] \in NodeOrNil
        /\ tree.child[Left][e] \in NodeOrNil /\ tree.child[Right][e] \in NodeOrNil
    BY <1>4, <1>5, TreeTypes DEF Shape, Sides
  <2> QED BY <1>3, <1>5, <1>10, <2>1 DEF rb_augment_erase_begin
<1>12. Inv' /\ InTree(tree') = InTree(tree) \ {e}
  BY <1>5, <1>7, <1>9, <1>10, <1>11, StepSplice
<1> QED BY <1>1, <1>12

LEMMA StepEraseSuccessor ==
    ASSUME Inv, EraseSuccessor
    PROVE  Inv' /\ InTree(tree') = InTree(tree) \ {call[2]}
<1>1. PICK e : e = call[2]
  OBVIOUS
<1>2. PICK p : p = tree.parent[cur]
  OBVIOUS
<1>3. PICK r : r = tree.child[Right][e]
  OBVIOUS
<1>4. /\ pc \in {"erase", "successor"} /\ cur # Nil /\ tree.child[Left][e] # Nil /\ tree.child[Left][cur] = Nil
      /\ deepest' = rb_augment_erase_begin(tree, e, cur)
      /\ Splice(SpliceSuccessor(tree, e, cur), e, cur, tree.child[Right][cur], IF p = e THEN cur ELSE p)
  BY <1>1, <1>2 DEF EraseSuccessor
<1>5. e \in InTree(tree) /\ r \in InTree(tree)
  BY <1>1, <1>3, <1>4, SearchState
<1>6. PICK D, h : /\ Shape(tree, D) /\ Balanced(tree, h, {})
                  /\ cur \in D[r] /\ cur \in InTree(tree)
                  /\ cur # r => cur = tree.child[Left][tree.parent[cur]]
                  /\ \A x \in D[r] : x \in D[cur] \/ Key[cur] < Key[x]
  BY <1>1, <1>3, <1>4, SearchState
<1>7. IsSuccessor(tree, D, e, cur)
  BY <1>3, <1>4, <1>6 DEF IsSuccessor
<1>8. \A x \in D[tree.child[Right][e]] : x = cur \/ Key[cur] < Key[x]
  <2>1. Left \in Sides /\ Opposite(Left) = Right /\ Right \in Sides
    BY DEF Sides, Opposite, Left, Right
  <2>2. D[cur] = {cur} \cup D[tree.child[Left][cur]] \cup D[tree.child[Right][cur]]
        /\ D[Nil] = {}
    BY <1>6, <2>1, NodeFacts
  <2>3. \A x \in D[tree.child[Right][cur]] : Beyond(Right, x, cur)
    BY <1>6, <2>1, NodeFacts
  <2>4. \A x \in D[cur] : x = cur \/ Key[cur] < Key[x]
    BY <1>4, <2>2, <2>3 DEF Beyond, Left, Right
  <2> QED BY <1>3, <1>6, <2>4
<1>9. \A x \in InTree(tree) : RedAt(tree, x)
  BY <1>4, Mended
<1>10. Vacated(tree, rb_init_node(SpliceSuccessor(tree, e, cur), e), e, tree.child[Right][cur],
               IF tree.parent[cur] = e THEN cur ELSE tree.parent[cur], tree.color[cur])
  BY <1>4, <1>5, <1>6, <1>7, <1>8, <1>9, SpliceSuccessorSound
<1>11. /\ tree' = rb_init_node(SpliceSuccessor(tree, e, cur), e) /\ cur' = tree.child[Right][cur]
       /\ par' = IF tree.parent[cur] = e THEN cur ELSE tree.parent[cur]
       /\ pc' = IF tree.color[cur] = Black THEN "erase_color" ELSE "erased"
       /\ size' = [size EXCEPT ![e] = 0]
  BY <1>2, <1>4 DEF Splice
<1>12. par' \in NodeOrNil /\ deepest' \in NodeOrNil
  <2>1. /\ e \in Nodes /\ cur \in Nodes /\ tree.parent[e] \in NodeOrNil /\ tree.parent[cur] \in NodeOrNil
        /\ tree.child[Left][e] \in NodeOrNil /\ tree.child[Right][e] \in NodeOrNil
        /\ tree.child[Right][cur] \in NodeOrNil /\ cur \in NodeOrNil
    BY <1>5, <1>6, TreeTypes DEF Shape, Sides, NodeOrNil
  <2> QED BY <1>4, <1>11, <2>1 DEF rb_augment_erase_begin
<1>13. Vacated(tree, tree', e, cur', par', tree.color[cur])
  BY <1>10, <1>11
<1>14. Inv' /\ InTree(tree') = InTree(tree) \ {e}
  BY <1>5, <1>11, <1>12, <1>13, StepSplice
<1> QED BY <1>1, <1>14


\* The node in the loop of __rb_erase_color.
LEMMA EraseState ==
    ASSUME Inv, pc = "erase_color"
    PROVE  /\ \E D, h : Shape(tree, D) /\ Balanced(tree, h, Lacking)
           /\ tree \in Trees /\ cur \in InTree(tree) \cup {Nil}
           /\ cur # tree.root => /\ par \in InTree(tree) /\ par # Nil /\ Short \in Sides
                                 /\ tree.child[Short][par] = cur
           /\ Lacking = IF cur # tree.root THEN {<<par, Short>>} ELSE {}
           /\ \A x \in InTree(tree) : x # cur /\ (cur # Nil => tree.parent[x] # cur) => RedAt(tree, x)
<1>1. \A x \in InTree(tree) : x # cur /\ (cur # Nil => tree.parent[x] # cur) => RedAt(tree, x)
  BY DEF Inv, RedInv, Mending
<1>2. Short \in Sides /\ Lacking = IF cur # tree.root THEN {<<par, Short>>} ELSE {}
  BY DEF Short, SideOf, Sides, Lacking
<1>3. tree \in Trees /\ Nil \notin InTree(tree)
  BY TreeTypes DEF Inv, TypeOK
<1> QED BY <1>1, <1>2, <1>3 DEF Inv, TreeInv, CursorInv

\* Before it is rebalanced, and with a black sibling.
LEMMA BalancingState ==
    ASSUME Inv, EraseRebalances
    PROVE  /\ par \in InTree(tree) /\ Short \in Sides /\ tree.child[Short][par] = cur
           /\ \E D, h : Shape(tree, D) /\ Balanced(tree, h, {<<par, Short>>})
           /\ \A x \in InTree(tree) : RedAt(tree, x)
           /\ Levels(tree, Balancing, par, Short)
<1>1. pc = "erase_color" /\ IsBlack(tree, cur) /\ cur # tree.root
  BY DEF EraseRebalances
<1>2. /\ par \in InTree(tree) /\ Short \in Sides /\ tree.child[Short][par] = cur
      /\ \E D, h : Shape(tree, D) /\ Balanced(tree, h, {<<par, Short>>})
      /\ \A x \in InTree(tree) : x # cur /\ (cur # Nil => tree.parent[x] # cur) => RedAt(tree, x)
  BY <1>1, EraseState
<1>3. PICK D, h : Shape(tree, D) /\ Balanced(tree, h, {<<par, Short>>})
  BY <1>2
<1>4. \A x \in InTree(tree) : RedAt(tree, x)
  BY <1>1, <1>2 DEF RedAt, IsBlack
<1>5. Levels(tree, Balancing, par, Short)
  BY <1>1, <1>2, <1>3, <1>4, BlackSiblingSound DEF Balancing
<1> QED BY <1>2, <1>4, <1>5

LEMMA StepEraseRecolor ==
    ASSUME Inv, EraseRecolor
    PROVE  Inv' /\ InTree(tree') = InTree(tree)
<1>1. PICK m : m = Balancing
  OBVIOUS
<1>2. PICK s : s = Short
  OBVIOUS
<1>3. PICK w : w = Sibling
  OBVIOUS
<1>4. /\ EraseRebalances /\ pc = "erase_color" /\ pc' = "erase_color"
      /\ tree' = Paint(m, w, Red) /\ cur' = par /\ par' = m.parent[par]
      /\ UNCHANGED <<size, call, deepest>>
      /\ w = m.child[Opposite(s)][par] /\ \A z \in Sides : ~ IsRed(m, m.child[z][w])
  BY <1>1, <1>2, <1>3 DEF EraseRecolor, EraseRebalances, RedNephew, Sibling
<1>5. /\ par \in InTree(tree) /\ s \in Sides /\ Levels(tree, m, par, s)
  BY <1>1, <1>2, <1>4, BalancingState
<1>6. /\ m \in Trees /\ InTree(m) = InTree(tree) /\ Sound(m, {<<par, s>>})
      /\ \A x \in InTree(m) : RedAt(m, x)
      /\ w \in Nodes /\ m.color[w] = Black
  BY <1>4, <1>5 DEF Levels
<1>7. PICK D, h : Shape(m, D) /\ Balanced(m, h, {<<par, s>>})
  BY <1>6 DEF Sound
<1>8. \A z \in Sides : IsBlack(m, m.child[z][w])
  BY <1>4 DEF IsBlack
<1>9. /\ SamePointers(m, tree') /\ InTree(tree') = InTree(m)
      /\ Sound(tree', IF m.parent[par] = Nil THEN {} ELSE {<<m.parent[par], SideOf(m, m.parent[par], par)>>})
      /\ \A x \in InTree(tree') : tree'.parent[x] # par => RedAt(tree', x)
  BY <1>4, <1>5, <1>6, <1>7, <1>8, EraseRecolorSound
<1>10. tree' \in Trees /\ tree'.root = m.root /\ tree'.child = m.child /\ tree'.parent = m.parent
  BY <1>9 DEF SamePointers
<1>11. /\ par \in InTree(m) /\ par # Nil /\ (m.parent[par] = Nil <=> m.root = par)
       /\ m.parent[par] # Nil => /\ m.parent[par] \in InTree(m)
                                 /\ m.child[SideOf(m, m.parent[par], par)][m.parent[par]] = par
  BY <1>5, <1>6, <1>7, ParentFacts, TreeTypes
<1>12. Short' = SideOf(m, m.parent[par], par)
  BY <1>4, <1>10 DEF Short, SideOf
<1>13. Lacking' = IF m.parent[par] = Nil THEN {} ELSE {<<m.parent[par], SideOf(m, m.parent[par], par)>>}
  BY <1>4, <1>10, <1>11, <1>12 DEF Lacking
<1>14. CursorInv'
  BY <1>4, <1>6, <1>9, <1>10, <1>11, <1>12 DEF CursorInv
<1>15. TypeOK'
  <2>1. par \in Nodes /\ m.parent[par] \in NodeOrNil
    BY <1>6, <1>11, TreeTypes
  <2> QED BY <1>4, <1>10, <2>1 DEF Inv, TypeOK, NodeOrNil
<1>16. \A x \in InTree(tree') : ~ Mending(x)' => RedAt(tree', x)
  BY <1>4, <1>9, <1>11 DEF Mending
<1>17. Inv'
  BY <1>4, <1>9, <1>13, <1>14, <1>15, <1>16, Settled
<1> QED BY <1>6, <1>9, <1>17

LEMMA StepEraseRotate ==
    ASSUME Inv, EraseRotate
    PROVE  Inv' /\ InTree(tree') = InTree(tree)
<1>1. PICK m : m = Balancing
  OBVIOUS
<1>2. PICK s : s = Short
  OBVIOUS
<1>3. PICK w : w = Sibling
  OBVIOUS
<1>4. /\ EraseRebalances /\ pc = "erase_color" /\ pc' = "erase_color"
      /\ tree' = EraseRotated(m, par, s) /\ cur' = tree'.root
      /\ UNCHANGED <<size, call, par, deepest>>
      /\ w = m.child[Opposite(s)][par] /\ \E z \in Sides : IsRed(m, m.child[z][w])
  BY <1>1, <1>2, <1>3 DEF EraseRotate, EraseRebalances, RedNephew, Sibling
<1>5. /\ par \in InTree(tree) /\ s \in Sides /\ Levels(tree, m, par, s)
  BY <1>1, <1>2, <1>4, BalancingState, Zenon
<1>6. /\ m \in Trees /\ InTree(m) = InTree(tree) /\ Sound(m, {<<par, s>>})
      /\ \A x \in InTree(m) : RedAt(m, x)
      /\ w \in Nodes /\ m.color[w] = Black
  BY <1>4, <1>5 DEF Levels
<1>7. PICK D, h : Shape(m, D) /\ Balanced(m, h, {<<par, s>>})
  BY <1>6 DEF Sound
<1>8. /\ tree' \in Trees /\ InTree(tree') = InTree(m) /\ Sound(tree', {})
      /\ \A x \in InTree(tree') : RedAt(tree', x)
  BY <1>4, <1>5, <1>6, <1>7, EraseRotatedSound
<1>9. cur' \in InTree(tree') \cup {Nil} /\ cur' \in NodeOrNil
  BY <1>4, <1>8, TreeTypes DEF Sound, Shape, LinkedTree
<1>10. CursorInv' /\ Lacking' = {}
  BY <1>4, <1>9 DEF CursorInv, Lacking
<1>11. TypeOK'
  BY <1>4, <1>8, <1>9 DEF Inv, TypeOK
<1>12. Inv'
  BY <1>4, <1>8, <1>10, <1>11, Settled
<1> QED BY <1>6, <1>8, <1>12

LEMMA StepEraseDone ==
    ASSUME Inv, EraseDone
    PROVE  Inv' /\ InTree(tree') = InTree(tree)
<1>1. /\ pc = "erase_color" /\ pc' = "erased" /\ (IsRed(tree, cur) \/ cur = tree.root)
      /\ tree' = IF cur = Nil THEN tree ELSE Paint(tree, cur, Black)
      /\ UNCHANGED <<size, call, cur, par, deepest>>
  BY DEF EraseDone, EraseRebalances, IsBlack, locals
<1>2. PICK D, h : Shape(tree, D) /\ Balanced(tree, h, Lacking)
  BY <1>1, EraseState
<1>3. /\ tree \in Trees /\ cur \in InTree(tree) \cup {Nil}
      /\ cur # tree.root => /\ par \in InTree(tree) /\ Short \in Sides
                            /\ tree.child[Short][par] = cur
      /\ Lacking = IF cur # tree.root THEN {<<par, Short>>} ELSE {}
      /\ \A x \in InTree(tree) : x # cur /\ (cur # Nil => tree.parent[x] # cur) => RedAt(tree, x)
  BY <1>1, EraseState
<1>4. tree' \in Trees /\ InTree(tree') = InTree(tree) /\ Sound(tree', {}) /\ \A x \in InTree(tree') : RedAt(tree', x)
  <2>1. CASE cur = Nil
    <3>1. cur = tree.root
      BY <1>1, <2>1 DEF IsRed
    <3>2. Lacking = {} /\ tree' = tree
      BY <1>1, <1>3, <2>1, <3>1
    <3>3. Sound(tree, {})
      BY <1>2, <3>2 DEF Sound
    <3>4. \A x \in InTree(tree) : x # Nil
      BY <1>3, TreeTypes
    <3> QED BY <1>3, <2>1, <3>2, <3>3, <3>4
  <2>2. CASE cur # Nil
    <3>1. cur \in InTree(tree) /\ tree' = Paint(tree, cur, Black)
      BY <1>1, <1>3, <2>2
    <3>2. \/ cur = tree.root /\ Lacking = {}
          \/ \E q \in InTree(tree), z \in Sides :
               tree.color[cur] = Red /\ Lacking = {<<q, z>>} /\ tree.child[z][q] = cur
      BY <1>1, <1>3, <2>2 DEF IsRed
    <3>3. \A x \in InTree(tree) : x # cur /\ tree.parent[x] # cur => RedAt(tree, x)
      BY <1>3
    <3>4. SamePointers(tree, tree') /\ InTree(tree') = InTree(tree) /\ Sound(tree', {}) /\ \A x \in InTree(tree') : RedAt(tree', x)
      BY <1>2, <3>1, <3>2, <3>3, PaintBlackSound
    <3> QED BY <3>4 DEF SamePointers
  <2> QED BY <2>1, <2>2
<1>5. TypeOK'
  BY <1>1, <1>4 DEF Inv, TypeOK
<1>6. CursorInv' /\ Lacking' = {}
  BY <1>1 DEF CursorInv, Lacking
<1>7. Inv'
  BY <1>1, <1>4, <1>5, <1>6, Settled
<1> QED BY <1>4, <1>7

LEMMA StepReplace ==
    ASSUME Inv, NEW v \in Nodes, NEW n \in Nodes, rb_replace(v, n)
    PROVE  Inv' /\ InTree(tree') = (InTree(tree) \ {v}) \cup {n}
<1>1. /\ pc = "idle" /\ pc' = "return" /\ v \in InTree(tree) /\ n \notin InTree(tree) /\ Key[v] = Key[n]
      /\ tree' = rb_init_node(rb_replace_node(tree, v, n), v)
      /\ size' = [size EXCEPT ![n] = size[v], ![v] = 0]
      /\ UNCHANGED <<call, cur, par, deepest>>
  BY DEF rb_replace, locals
<1>2. PICK D, h : Shape(tree, D) /\ Balanced(tree, h, {})
  BY <1>1, Mended DEF Sound
<1>3. \A x \in InTree(tree) : RedAt(tree, x)
  BY <1>1, Mended
<1>4. tree' \in Trees /\ InTree(tree') = (InTree(tree) \ {v}) \cup {n} /\ Sound(tree', {}) /\ \A x \in InTree(tree') : RedAt(tree', x)
  BY <1>1, <1>2, <1>3, ReplaceSound
<1>5. size' \in [Nodes -> Nat]
  BY <1>1 DEF Inv, TypeOK
<1>6. TypeOK'
  BY <1>1, <1>4, <1>5 DEF Inv, TypeOK
<1>7. CursorInv' /\ Lacking' = {}
  BY <1>1 DEF CursorInv, Lacking
<1>8. Inv'
  BY <1>1, <1>4, <1>6, <1>7, Settled
<1> QED BY <1>4, <1>8

-----------------------------------------------------------------------------
(* The theorems.                                                           *)

\* A step without a change.
LEMMA Stutter == Inv /\ UNCHANGED vars => Inv'
<1> SUFFICES ASSUME Inv, UNCHANGED vars PROVE Inv'
  OBVIOUS
<1>1. /\ tree' = tree /\ size' = size /\ pc' = pc /\ call' = call /\ cur' = cur /\ par' = par
      /\ deepest' = deepest /\ Short' = Short
  BY DEF vars, Short
<1>2. TypeOK' /\ CursorInv' /\ Lacking' = Lacking
  BY <1>1 DEF Inv, TypeOK, CursorInv, Lacking
<1>3. PICK D, h : /\ Shape(tree, D) /\ Balanced(tree, h, Lacking)
                  /\ InsertPlace(D) /\ SuccessorPlace(D)
  BY DEF Inv, TreeInv
<1>4. InsertPlace(D)' /\ SuccessorPlace(D)'
  BY <1>1, <1>3 DEF InsertPlace, SuccessorPlace
<1>5. TreeInv'
  BY <1>1, <1>2, <1>3, <1>4 DEF TreeInv
<1>6. RedInv'
  BY <1>1 DEF Inv, RedInv, Mending
<1> QED BY <1>2, <1>5, <1>6 DEF Inv

\* Every step of the client and of the library, for any set of elements and
\* any keys, keeps the invariant: the child pointers make a search tree on
\* which the pointers up agree, the paths have as many black nodes but for the
\* place that __rb_erase_color is looking for one for, and the cursors stand
\* where the loops take them to stand.
THEOREM Invariance == Spec => []Inv
<1>1. Inv /\ [Next]_vars => Inv'
  <2> SUFFICES ASSUME Inv, [Next]_vars PROVE Inv'
    OBVIOUS
  <2>1. CASE ClientReads \/ SearchDown \/ SearchDone \/ InsertDuplicate
             \/ AugmentErased \/ AugmentUp \/ Walking \/ Return
    BY <2>1, ReadSteps
  <2>2. CASE ClientWrites
    BY <2>2, BeginInsert, BeginErase, StepReplace DEF ClientWrites
  <2>3. CASE InsertDown \/ InsertLink \/ InsertRecolor \/ InsertRotate \/ InsertDone
    BY <2>3, StepInsertDown, StepInsertLink, StepInsertRecolor, StepInsertRotate, StepInsertDone
  <2>4. CASE EraseNode \/ SuccessorDown \/ EraseSuccessor \/ EraseRecolor \/ EraseRotate \/ EraseDone
    BY <2>4, StepEraseNode, StepSuccessorDown, StepEraseSuccessor,
       StepEraseRecolor, StepEraseRotate, StepEraseDone
  <2>5. CASE UNCHANGED vars
    BY <2>5, Stutter
  <2> QED BY <2>1, <2>2, <2>3, <2>4, <2>5 DEF Next, Client, Library, Inserting, Erasing
<1> QED BY <1>1, Initially, PTL DEF Spec

\* The tree, the cursors and the augmented data have their types; no size goes
\* below zero.
THEOREM TypeCorrect == Spec => []TypeOK
<1>1. Inv => TypeOK
  BY DEF Inv
<1> QED BY <1>1, Invariance, PTL

\* Between any two turns of any loop, the pointers up and down agree, whatever
\* has been inserted, erased and replaced.
THEOREM PointersAgree == Spec => []Linked
<1>1. Inv => Linked
  <2> SUFFICES ASSUME Inv PROVE Linked
    OBVIOUS
  <2>1. PICK D : Shape(tree, D)
    BY DEF Inv, TreeInv
  <2> QED BY <2>1 DEF Shape, LinkedTree, Linked
<1> QED BY <1>1, Invariance, PTL

\* No red node has a red parent and the root is black, but for the nodes that
\* the loops of rb_insert_color and __rb_erase_color are about to mend.
THEOREM RedNodesApart == Spec => []RedRule
<1>1. Inv => RedRule
  BY DEF Inv, RedInv, Mending, RedAt, RedRule
<1> QED BY <1>1, Invariance, PTL

\* The grandparent of a red node with a red parent and the sibling of a place
\* that lacks a black node, which the loops read through without looking, are
\* there, and so is the sibling after the red one has been moved up.
THEOREM NothingReadThroughNull == Spec => []NoNullAccess
<1>1. Inv => NoNullAccess
  <2> SUFFICES ASSUME Inv PROVE NoNullAccess
    OBVIOUS
  <2>1. ASSUME InsertRebalances PROVE tree.parent[tree.parent[cur]] # Nil
    <3>1. pc = "insert_color" /\ IsRed(tree, tree.parent[cur])
      BY <2>1 DEF InsertRebalances
    <3>2. cur \in InTree(tree) /\ \A x \in InTree(tree) : x # cur => RedAt(tree, x)
      BY <3>1, InsertState
    <3>3. PICK D, h : Shape(tree, D) /\ Balanced(tree, h, {})
      BY <3>1, InsertState
    <3>4. tree.parent[cur] \in InTree(tree) /\ tree.parent[cur] # cur
      BY <3>1, <3>2, <3>3, ParentFacts DEF IsRed
    <3> QED BY <3>1, <3>2, <3>4 DEF RedAt
  <2>2. ASSUME EraseRebalances PROVE par # Nil /\ tree.child[Opposite(Short)][par] # Nil /\ Sibling # Nil
    <3>1. PICK m : m = Balancing
      OBVIOUS
    <3>2. /\ par \in InTree(tree) /\ Short \in Sides /\ Levels(tree, m, par, Short)
      BY <2>2, <3>1, BalancingState
    <3>3. PICK D, h : Shape(tree, D) /\ Balanced(tree, h, {<<par, Short>>})
      BY <2>2, BalancingState
    <3>4. tree.child[Opposite(Short)][par] # Nil
      BY <3>2, <3>3, ShortSide
    <3>5. par # Nil
      BY <3>2, <3>3, NodeFacts
    <3>6. m.child[Opposite(Short)][par] \in Nodes
      BY <3>2 DEF Levels
    <3> QED BY <3>1, <3>4, <3>5, <3>6, NilAssumption DEF Sibling
  <2> QED BY <2>1, <2>2 DEF NoNullAccess
<1> QED BY <1>1, Invariance, PTL


\* The function that the recursive definition in BlackBalanced is.
BlacksAt(f, n) ==
    {h + (IF IsBlack(tree, n) THEN 1 ELSE 0) :
        h \in UNION {{b + (IF Lacks(n, s) THEN 1 ELSE 0) : b \in f[tree.child[s][n]]} : s \in Sides}}

Blacks(f) == f = [n \in NodeOrNil |-> IF n = Nil THEN {0} ELSE BlacksAt(f, n)]

LEMMA BlacksFunction == BlackBalanced <=> \A g, h \in (CHOOSE f : Blacks(f))[tree.root] : g = h
BY Zenon DEF BlackBalanced, Blacks, BlacksAt

\* v black nodes on every path from n that goes on with the x of its child.
Adds(n, s, x, v) == v = x + (IF Lacks(n, s) THEN 1 ELSE 0) + (IF IsBlack(tree, n) THEN 1 ELSE 0)

\* One level, when each of the children has one number.
LEMMA BlacksStep ==
    ASSUME NEW f, NEW n \in Nodes, NEW x \in Nat, NEW y \in Nat, NEW v \in Nat,
           f[tree.child[Left][n]] = {x}, f[tree.child[Right][n]] = {y},
           Adds(n, Left, x, v), Adds(n, Right, y, v)
    PROVE  BlacksAt(f, n) = {v}
<1>1. PICK k : k = IF IsBlack(tree, n) THEN 1 ELSE 0
  OBVIOUS
<1>2. PICK l : l = IF Lacks(n, Left) THEN 1 ELSE 0
  OBVIOUS
<1>3. PICK r : r = IF Lacks(n, Right) THEN 1 ELSE 0
  OBVIOUS
<1> DEFINE w(s) == {b + (IF Lacks(n, s) THEN 1 ELSE 0) : b \in f[tree.child[s][n]]}
<1>4. w(Left) = {x + l}
  BY <1>2
<1>5. w(Right) = {y + r}
  BY <1>3
<1>6. k \in Nat /\ l \in Nat /\ r \in Nat
  BY <1>1, <1>2, <1>3
<1>7. v = (x + l) + k /\ v = (y + r) + k
  BY <1>1, <1>2, <1>3, <1>6 DEF Adds
<1>8. x + l = y + r
  BY <1>6, <1>7
<1>9. UNION {w(s) : s \in Sides} = {x + l}
  <2>1. \A s \in Sides : w(s) = {x + l}
    BY <1>4, <1>5, <1>8 DEF Sides
  <2>2. Left \in Sides
    BY DEF Sides
  <2> HIDE DEF w
  <2> QED BY <2>1, <2>2
<1>10. BlacksAt(f, n) = {h + k : h \in UNION {w(s) : s \in Sides}}
  BY <1>1 DEF BlacksAt
<1> HIDE DEF w
<1> QED BY <1>7, <1>9, <1>10

\* Every path down from the root meets the same number of black nodes, when the
\* one that __rb_erase_color is looking for is counted; so it is between any
\* two rotations.
THEOREM SameBlackHeights == Spec => []BlackBalanced
<1>1. Inv => BlackBalanced
  <2> SUFFICES ASSUME Inv PROVE \A g, h \in (CHOOSE f : Blacks(f))[tree.root] : g = h
    BY BlacksFunction
  <2>1. PICK D, h : Shape(tree, D) /\ Balanced(tree, h, Lacking)
    BY DEF Inv, TreeInv
  <2>2. tree \in Trees /\ InTree(tree) \subseteq Nodes
    BY <2>1, TreeTypes DEF Shape
  <2>3. h \in [NodeOrNil -> Nat] /\ h[Nil] = 0 /\ \A n \in InTree(tree) : \A s \in Sides : Level(tree, h, Lacking, n, s)
    BY <2>1 DEF Balanced
  <2>4. \A n \in Nodes : \A s \in Sides : Lacks(n, s) <=> <<n, s>> \in Lacking
    BY DEF Lacks, Lacking
  <2>5. Left \in Sides /\ Right \in Sides
    BY DEF Sides
  <2>6. ASSUME NEW n \in InTree(tree), NEW f,
               \A c \in InTree(tree) \cup {Nil} : (c = tree.child[Left][n] \/ c = tree.child[Right][n]) => f[c] = {h[c]}
        PROVE  BlacksAt(f, n) = {h[n]}
    <3>1. n \in Nodes /\ (IsBlack(tree, n) <=> tree.color[n] = Black)
      BY <2>2, Colours
    <3>2. \A s \in Sides : tree.child[s][n] \in InTree(tree) \cup {Nil}
      BY <2>1, NodeFacts
    <3>3. f[tree.child[Left][n]] = {h[tree.child[Left][n]]} /\ f[tree.child[Right][n]] = {h[tree.child[Right][n]]}
      BY <2>5, <2>6, <3>2
    <3>4. \A c \in InTree(tree) \cup {Nil} : h[c] \in Nat
      BY <2>2, <2>3 DEF NodeOrNil
    <3>5. h[n] \in Nat /\ h[tree.child[Left][n]] \in Nat /\ h[tree.child[Right][n]] \in Nat
      BY <2>5, <3>2, <3>4
    <3>6. \A s \in Sides : Adds(n, s, h[tree.child[s][n]], h[n])
      BY <2>3, <2>4, <3>1 DEF Level, Adds
    <3> QED BY <2>5, <3>1, <3>3, <3>5, <3>6, BlacksStep
  <2>7. \E f : Blacks(f)
    <3> DEFINE F == [n \in NodeOrNil |-> IF n \in InTree(tree) \cup {Nil} THEN {h[n]}
                                         ELSE {IF IsBlack(tree, n) THEN 1 ELSE 0}]
    <3>1. F[Nil] = {0} /\ \A n \in InTree(tree) \cup {Nil} : F[n] = {h[n]}
      BY <2>2, <2>3, Zenon DEF NodeOrNil
    <3>2. \A n \in Nodes : n \notin InTree(tree) => F[n] = {IF IsBlack(tree, n) THEN 1 ELSE 0}
      BY NilAssumption DEF NodeOrNil
    <3>3. \A n \in NodeOrNil : n = Nil \/ n \in Nodes
      BY DEF NodeOrNil
    <3>4. F = [n \in NodeOrNil |-> F[n]]
      OBVIOUS
    <3> HIDE DEF F
    <3>5. ASSUME NEW n \in Nodes
          PROVE  F[n] = BlacksAt(F, n)
      <4>1. CASE n \in InTree(tree)
        BY <2>6, <3>1, <4>1
      <4>2. CASE n \notin InTree(tree)
        <5>1. tree.child[Left][n] = Nil /\ tree.child[Right][n] = Nil
          BY <2>1, <2>5, <4>2 DEF Shape, LinkedTree
        <5>2. ~ Lacks(n, Left) /\ ~ Lacks(n, Right)
          <6>1. ASSUME pc = "erase_color", cur # tree.root PROVE n # par
            BY <4>2, <6>1, EraseState
          <6> QED BY <6>1 DEF Lacks
        <5>3. PICK v : v = IF IsBlack(tree, n) THEN 1 ELSE 0
          OBVIOUS
        <5>4. v \in Nat /\ Adds(n, Left, 0, v) /\ Adds(n, Right, 0, v)
          BY <5>2, <5>3 DEF Adds
        <5>5. BlacksAt(F, n) = {v}
          BY <3>1, <5>1, <5>4, BlacksStep
        <5> QED BY <3>2, <4>2, <5>3, <5>5
      <4> QED BY <4>1, <4>2
    <3>6. F = [n \in NodeOrNil |->
                 IF n = Nil THEN {0}
                 ELSE BlacksAt(F, n)]
      BY <3>1, <3>3, <3>4, <3>5, NilAssumption, Zenon
    <3> QED BY <3>6, Zenon DEF Blacks
  <2>8. PICK f : f = CHOOSE g : Blacks(g)
    OBVIOUS
  <2>9. Blacks(f)
    BY <2>7, <2>8
  <2>10. /\ f[Nil] = {0}
         /\ \A n \in Nodes : f[n] = BlacksAt(f, n)
    BY <2>9, NilAssumption, Zenon DEF Blacks, NodeOrNil
  <2>11. \A n \in InTree(tree) : f[n] = {h[n]}
    <3> DEFINE S == {n \in InTree(tree) : f[n] # {h[n]}}
    <3> SUFFICES ASSUME S # {} PROVE FALSE
      OBVIOUS
    <3>1. PICK n \in S : \A s \in Sides : tree.child[s][n] \notin S
      <4>1. S \in SUBSET InTree(tree)
        OBVIOUS
      <4> HIDE DEF S
      <4> QED BY <2>1, <4>1, TreeInduction
    <3>2. \A s \in Sides : tree.child[s][n] \in InTree(tree) \cup {Nil}
      BY <2>1, NodeFacts
    <3>3. \A s \in Sides : f[tree.child[s][n]] = {h[tree.child[s][n]]}
      BY <2>3, <2>10, <3>1, <3>2
    <3>4. f[n] = {h[n]}
      <4>1. \A c \in InTree(tree) \cup {Nil} : (c = tree.child[Left][n] \/ c = tree.child[Right][n]) => f[c] = {h[c]}
        BY <2>5, <3>3
      <4>2. BlacksAt(f, n) = {h[n]}
        BY <2>6, <4>1
      <4> QED BY <2>2, <2>10, <4>2
    <3> QED BY <3>4
  <2>12. tree.root \in InTree(tree) \cup {Nil}
    BY <2>1 DEF Shape, LinkedTree
  <2>13. f[tree.root] = {h[tree.root]}
    BY <2>3, <2>10, <2>11, <2>12
  <2> QED BY <2>8, <2>13
<1> QED BY <1>1, Invariance, PTL


-----------------------------------------------------------------------------
(* The order in which the child pointers lead to the elements.             *)

\* q enumerates S in the order of the keys.
Sorted(q, S) ==
    /\ q \in Seq(Nodes)
    /\ \A i \in 1..Len(q) : q[i] \in S
    /\ \A x \in S : \E i \in 1..Len(q) : q[i] = x
    /\ \A i, j \in 1..Len(q) : i < j => Key[q[i]] < Key[q[j]]

LEMMA SortedOne ==
    ASSUME NEW n \in Nodes
    PROVE  Sorted(<<n>>, {n}) /\ Sorted(<<>>, {})
<1>1. <<n>> \in Seq(Nodes) /\ Len(<<n>>) = 1 /\ <<n>>[1] = n
  OBVIOUS
<1>2. <<>> \in Seq(Nodes) /\ Len(<<>>) = 0
  OBVIOUS
<1>3. Sorted(<<n>>, {n})
  BY <1>1 DEF Sorted
<1> QED BY <1>2, <1>3 DEF Sorted

\* One after the other, when all of the one have lesser keys.
LEMMA SortedJoin ==
    ASSUME NEW a, NEW b, NEW A \in SUBSET Nodes, NEW B \in SUBSET Nodes, Sorted(a, A), Sorted(b, B),
           \A x \in A : \A y \in B : Key[x] < Key[y]
    PROVE  Sorted(a \o b, A \cup B)
<1> DEFINE q == a \o b
<1>1. a \in Seq(Nodes) /\ b \in Seq(Nodes)
  BY DEF Sorted
<1>2. Len(a) \in Nat /\ Len(b) \in Nat
  BY <1>1
<1>3. q \in Seq(Nodes) /\ Len(q) = Len(a) + Len(b)
  BY <1>1, ConcatProperties
<1>4. \A i \in 1..Len(a) : q[i] = a[i]
  <2>1. \A i \in 1..Len(a) + Len(b) : q[i] = IF i <= Len(a) THEN a[i] ELSE b[i - Len(a)]
    BY <1>1, ConcatProperties
  <2> HIDE DEF q
  <2> QED BY <1>2, <2>1
<1>5. \A i \in 1..Len(b) : q[i + Len(a)] = b[i]
  <2>1. \A i \in 1..Len(a) + Len(b) : q[i] = IF i <= Len(a) THEN a[i] ELSE b[i - Len(a)]
    BY <1>1, ConcatProperties
  <2> HIDE DEF q
  <2>2. TAKE i \in 1..Len(b)
  <2>3. i + Len(a) \in 1..Len(a) + Len(b) /\ ~ (i + Len(a) <= Len(a)) /\ (i + Len(a)) - Len(a) = i
    BY <1>2
  <2> QED BY <2>1, <2>3
<1> HIDE DEF q
<1>6. ASSUME NEW i \in 1..Len(q)
      PROVE  \/ i \in 1..Len(a) /\ q[i] = a[i]
             \/ \E j \in 1..Len(b) : i = j + Len(a) /\ q[i] = b[j]
  <2>1. CASE i <= Len(a)
    BY <1>2, <1>4, <2>1
  <2>2. CASE ~ (i <= Len(a))
    <3>1. i - Len(a) \in 1..Len(b) /\ i = (i - Len(a)) + Len(a)
      BY <1>2, <1>3, <2>2
    <3> QED BY <1>5, <3>1
  <2> QED BY <2>1, <2>2
<1>7. \A i \in 1..Len(q) : q[i] \in A \cup B
  <2>1. (\A i \in 1..Len(a) : a[i] \in A) /\ (\A i \in 1..Len(b) : b[i] \in B)
    BY DEF Sorted
  <2> QED BY <1>6, <2>1
<1>8. \A x \in A \cup B : \E i \in 1..Len(q) : q[i] = x
  <2>1. ASSUME NEW x \in A PROVE \E i \in 1..Len(q) : q[i] = x
    <3>1. PICK i \in 1..Len(a) : a[i] = x
      BY DEF Sorted
    <3> QED BY <1>2, <1>3, <1>4, <3>1
  <2>2. ASSUME NEW x \in B PROVE \E i \in 1..Len(q) : q[i] = x
    <3>1. PICK i \in 1..Len(b) : b[i] = x
      BY DEF Sorted
    <3>2. i + Len(a) \in 1..Len(q)
      BY <1>2, <1>3
    <3> QED BY <1>5, <3>1, <3>2
  <2> QED BY <2>1, <2>2
<1>9. ASSUME NEW i \in 1..Len(q), NEW j \in 1..Len(q), i < j
      PROVE  Key[q[i]] < Key[q[j]]
  <2>1. \A k \in 1..Len(a) : a[k] \in A
    BY DEF Sorted
  <2>2. \A k \in 1..Len(b) : b[k] \in B
    BY DEF Sorted
  <2>3. CASE i \in 1..Len(a) /\ j \in 1..Len(a)
    <3>1. q[i] = a[i] /\ q[j] = a[j]
      BY <1>4, <2>3
    <3> QED BY <1>9, <2>3, <3>1 DEF Sorted
  <2>4. CASE i \in 1..Len(a) /\ j \notin 1..Len(a)
    <3>1. q[i] \in A
      BY <1>4, <2>1, <2>4
    <3>2. PICK k \in 1..Len(b) : q[j] = b[k]
      BY <1>6, <2>4
    <3>3. q[j] \in B
      BY <2>2, <3>2
    <3> QED BY <3>1, <3>3
  <2>5. CASE i \notin 1..Len(a)
    <3>1. j \notin 1..Len(a)
      BY <1>2, <1>9, <2>5
    <3>2. PICK k \in 1..Len(b) : i = k + Len(a) /\ q[i] = b[k]
      BY <1>6, <2>5
    <3>3. PICK l \in 1..Len(b) : j = l + Len(a) /\ q[j] = b[l]
      BY <1>6, <3>1
    <3>4. k < l
      BY <1>2, <1>9, <3>2, <3>3
    <3> QED BY <3>2, <3>3, <3>4 DEF Sorted
  <2> QED BY <2>3, <2>4, <2>5
<1> QED BY <1>3, <1>7, <1>8, <1>9 DEF Sorted, q

\* n between what is below it on its sides.
Step(a, n, b) == (a \o <<n>>) \o b

LEMMA SortedStep ==
    ASSUME NEW a, NEW b, NEW n \in Nodes, NEW A \in SUBSET Nodes, NEW B \in SUBSET Nodes,
           Sorted(a, A), Sorted(b, B),
           \A x \in A : Key[x] < Key[n], \A x \in B : Key[n] < Key[x]
    PROVE  Sorted(Step(a, n, b), {n} \cup A \cup B)
<1>1. Sorted(a \o <<n>>, A \cup {n})
  BY SortedOne, SortedJoin
<1>2. \A x \in Nodes : Key[x] \in Int
  BY KeyAssumption
<1>3. \A x \in A \cup {n} : \A y \in B : Key[x] < Key[y]
  BY <1>2
<1>4. Sorted((a \o <<n>>) \o b, (A \cup {n}) \cup B)
  BY <1>1, <1>3, SortedJoin
<1>5. (A \cup {n}) \cup B = {n} \cup A \cup B
  OBVIOUS
<1> QED BY <1>4, <1>5 DEF Step

\* The function that the recursive definition in InOrder is.
Orders(f) ==
    f = [n \in NodeOrNil |->
            IF n = Nil THEN <<>> ELSE Step(f[tree.child[Left][n]], n, f[tree.child[Right][n]])]

\* f does so at the nodes of S.
OrdersAt(f, S) ==
    f[Nil] = <<>> /\ \A n \in S : f[n] = Step(f[tree.child[Left][n]], n, f[tree.child[Right][n]])

LEMMA InOrderFunction == InOrder = (CHOOSE f : Orders(f))[tree.root]
BY Zenon DEF InOrder, Orders, Step

\* The function exists, from the leaves up.
LEMMA OrdersExists ==
    ASSUME NEW D, Shape(tree, D)
    PROVE  \E f : Orders(f)
<1>1. tree \in Trees /\ InTree(tree) \subseteq Nodes /\ Nil \notin InTree(tree) /\ Nil \notin Nodes
  BY TreeTypes, NilAssumption DEF Shape
<1>2. \A n \in InTree(tree) : \A s \in Sides : tree.child[s][n] \in InTree(tree) \cup {Nil}
  BY NodeFacts
<1>3. D[Nil] = {} /\ \A n \in InTree(tree) \cup {Nil} : D[n] \subseteq InTree(tree)
  BY <1>1 DEF Shape, Ordered, NodeOrNil
<1>4. ASSUME NEW n \in InTree(tree) \cup {Nil}, NEW m \in D[n], NEW s \in Sides
      PROVE  tree.child[s][m] \in D[n] \cup {Nil}
  <2>1. n \in InTree(tree) /\ m \in InTree(tree) /\ D[m] \subseteq D[n]
    BY <1>3, Below
  <2>2. tree.child[s][m] # Nil => tree.child[s][m] \in D[m]
    BY <2>1, NodeFacts
  <2> QED BY <2>1, <2>2
<1> DEFINE P(n) == \E f : OrdersAt(f, D[n])
           S == {n \in InTree(tree) : ~ P(n)}
<1>5. P(Nil)
  <2> DEFINE f == [n \in NodeOrNil |-> <<>>]
  <2>1. f[Nil] = <<>>
    BY DEF NodeOrNil
  <2> HIDE DEF f
  <2> QED BY <1>3, <2>1 DEF OrdersAt
<1>6. ASSUME NEW n \in InTree(tree), P(tree.child[Left][n]), P(tree.child[Right][n])
      PROVE  P(n)
  <2>1. PICK l : l = tree.child[Left][n]
    OBVIOUS
  <2>2. PICK r : r = tree.child[Right][n]
    OBVIOUS
  <2>3. PICK f : OrdersAt(f, D[l])
    BY <1>6, <2>1
  <2>4. PICK g : OrdersAt(g, D[r])
    BY <1>6, <2>2
  <2>5. /\ D[n] = {n} \cup D[l] \cup D[r] /\ n \notin D[l] /\ n \notin D[r] /\ D[l] \cap D[r] = {}
        /\ l \in InTree(tree) \cup {Nil} /\ r \in InTree(tree) \cup {Nil}
        /\ (l # Nil => l \in D[l]) /\ (r # Nil => r \in D[r])
    <3>1. \A s \in Sides : /\ D[n] = {n} \cup D[tree.child[s][n]] \cup D[tree.child[Opposite(s)][n]]
                           /\ n \notin D[tree.child[s][n]]
                           /\ D[tree.child[s][n]] \cap D[tree.child[Opposite(s)][n]] = {}
                           /\ tree.child[s][n] # Nil => tree.child[s][n] \in D[tree.child[s][n]]
      BY NodeFacts
    <3>2. Left \in Sides /\ Right \in Sides /\ Opposite(Left) = Right
      BY DEF Sides, Opposite
    <3> QED BY <1>2, <2>1, <2>2, <3>1, <3>2
  <2> DEFINE h == [x \in NodeOrNil |-> IF x = Nil THEN <<>>
                                       ELSE IF x = n THEN Step(f[l], n, g[r])
                                       ELSE IF x \in D[l] THEN f[x] ELSE g[x]]
  <2>6. /\ h[Nil] = <<>> /\ h[n] = Step(f[l], n, g[r])
        /\ \A x \in D[l] : h[x] = f[x]
        /\ \A x \in D[r] : h[x] = g[x]
    <3>1. \A x \in D[l] \cup D[r] : x \in NodeOrNil /\ x # Nil /\ x # n
      BY <1>1, <1>3, <2>5 DEF NodeOrNil
    <3>2. Nil \in NodeOrNil /\ n \in NodeOrNil /\ n # Nil
      BY <1>1 DEF NodeOrNil
    <3> QED BY <2>5, <3>1, <3>2
  <2> HIDE DEF h
  <2>7. /\ f[Nil] = <<>> /\ g[Nil] = <<>>
        /\ \A x \in D[l] : f[x] = Step(f[tree.child[Left][x]], x, f[tree.child[Right][x]])
        /\ \A x \in D[r] : g[x] = Step(g[tree.child[Left][x]], x, g[tree.child[Right][x]])
    BY <2>3, <2>4 DEF OrdersAt
  <2>8. Left \in Sides /\ Right \in Sides
    BY DEF Sides
  <2>9. ASSUME NEW x \in D[n]
        PROVE  h[x] = Step(h[tree.child[Left][x]], x, h[tree.child[Right][x]])
    <3>1. CASE x = n
      <4>1. h[l] = f[l] /\ h[r] = g[r]
        BY <2>5, <2>6, <2>7
      <4> QED BY <2>1, <2>2, <2>6, <3>1, <4>1
    <3>2. CASE x \in D[l]
      <4>1. \A s \in Sides : h[tree.child[s][x]] = f[tree.child[s][x]]
        BY <1>4, <2>5, <2>6, <2>7, <3>2
      <4>2. h[x] = f[x]
        BY <2>6, <3>2
      <4> QED BY <2>7, <2>8, <3>2, <4>1, <4>2
    <3>3. CASE x \in D[r]
      <4>1. \A s \in Sides : h[tree.child[s][x]] = g[tree.child[s][x]]
        BY <1>4, <2>5, <2>6, <2>7, <3>3
      <4>2. h[x] = g[x]
        BY <2>6, <3>3
      <4> QED BY <2>7, <2>8, <3>3, <4>1, <4>2
    <3> QED BY <2>5, <3>1, <3>2, <3>3
  <2>10. OrdersAt(h, D[n])
    BY <2>6, <2>9 DEF OrdersAt
  <2> QED BY <2>10
<1>7. S = {}
  <2> SUFFICES ASSUME S # {} PROVE FALSE
    OBVIOUS
  <2>1. S \in SUBSET InTree(tree) /\ \A n \in InTree(tree) : n \notin S => P(n)
    OBVIOUS
  <2>2. \A n \in S : ~ P(n)
    OBVIOUS
  <2> HIDE DEF S, P
  <2>3. PICK n \in S : \A s \in Sides : tree.child[s][n] \notin S
    BY <2>1, TreeInduction
  <2>4. n \in InTree(tree) /\ \A s \in Sides : P(tree.child[s][n])
    BY <1>2, <1>5, <2>1, <2>3
  <2>5. P(n)
    BY <1>6, <2>4 DEF Sides
  <2> QED BY <2>2, <2>5
<1>8. PICK f : OrdersAt(f, InTree(tree))
  <2>1. CASE tree.root = Nil
    <3>1. InTree(tree) = D[Nil]
      BY <2>1 DEF Shape, Ordered
    <3> QED BY <1>5, <3>1
  <2>2. CASE tree.root # Nil
    <3>1. tree.root \in InTree(tree) /\ InTree(tree) = D[tree.root]
      BY <2>2 DEF Shape, LinkedTree, Ordered
    <3>2. P(tree.root)
      BY <1>7, <3>1
    <3> QED BY <3>1, <3>2
  <2> QED BY <2>1, <2>2
<1> DEFINE F == [n \in NodeOrNil |-> IF n \in InTree(tree) \cup {Nil} THEN f[n] ELSE Step(<<>>, n, <<>>)]
<1>9. F[Nil] = <<>> /\ \A n \in InTree(tree) \cup {Nil} : F[n] = f[n]
  BY <1>1, <1>8, Zenon DEF OrdersAt, NodeOrNil
<1>10. \A n \in Nodes : n \notin InTree(tree) => F[n] = Step(<<>>, n, <<>>)
  BY <1>1 DEF NodeOrNil
<1>11. F = [n \in NodeOrNil |-> F[n]]
  OBVIOUS
<1> HIDE DEF F
<1>12. Left \in Sides /\ Right \in Sides
  BY DEF Sides
<1>13. ASSUME NEW n \in Nodes
       PROVE  F[n] = Step(F[tree.child[Left][n]], n, F[tree.child[Right][n]])
  <2>1. CASE n \in InTree(tree)
    <3>1. F[n] = Step(f[tree.child[Left][n]], n, f[tree.child[Right][n]])
      BY <1>8, <1>9, <2>1 DEF OrdersAt
    <3>2. F[tree.child[Left][n]] = f[tree.child[Left][n]] /\ F[tree.child[Right][n]] = f[tree.child[Right][n]]
      BY <1>2, <1>9, <1>12, <2>1
    <3> QED BY <3>1, <3>2, Zenon
  <2>2. CASE n \notin InTree(tree)
    <3>1. tree.child[Left][n] = Nil /\ tree.child[Right][n] = Nil
      BY <1>12, <2>2 DEF Shape, LinkedTree
    <3> QED BY <1>9, <1>10, <2>2, <3>1, Zenon
  <2> QED BY <2>1, <2>2
<1>14. \A n \in NodeOrNil : n = Nil \/ n \in Nodes
  BY DEF NodeOrNil
<1>15. F = [n \in NodeOrNil |->
              IF n = Nil THEN <<>> ELSE Step(F[tree.child[Left][n]], n, F[tree.child[Right][n]])]
  BY <1>1, <1>9, <1>11, <1>13, <1>14, Zenon
<1> QED BY <1>15, Zenon DEF Orders

\* Whatever has been inserted, erased and replaced, and between any two
\* rotations, the child pointers lead to every element of the tree, in the
\* order of the keys.
THEOREM InOrderOfTheKeys == Spec => []SearchTree
<1>1. Inv => SearchTree
  <2> SUFFICES ASSUME Inv PROVE SearchTree
    OBVIOUS
  <2>1. PICK D : Shape(tree, D)
    BY DEF Inv, TreeInv
  <2>2. PICK f : f = CHOOSE g : Orders(g)
    OBVIOUS
  <2>3. Orders(f)
    BY <2>1, <2>2, OrdersExists
  <2>4. tree \in Trees /\ InTree(tree) \subseteq Nodes /\ Nil \notin Nodes
    BY <2>1, TreeTypes, NilAssumption DEF Shape
  <2>5. /\ f[Nil] = <<>>
        /\ \A n \in Nodes : f[n] = Step(f[tree.child[Left][n]], n, f[tree.child[Right][n]])
    BY <2>3, <2>4, Zenon DEF Orders, NodeOrNil
  <2>6. \A n \in InTree(tree) : \A s \in Sides : tree.child[s][n] \in InTree(tree) \cup {Nil}
    BY <2>1, NodeFacts
  <2>7. Left \in Sides /\ Right \in Sides
    BY DEF Sides
  <2>8. D[Nil] = {} /\ D[tree.root] = InTree(tree) /\ tree.root \in InTree(tree) \cup {Nil}
    BY <2>1 DEF Shape, Ordered, LinkedTree
  <2> DEFINE S == {n \in InTree(tree) : ~ Sorted(f[n], D[n])}
  <2>9. Sorted(f[Nil], D[Nil])
    BY <2>5, <2>8, SortedOne DEF Sorted
  <2>10. ASSUME NEW n \in InTree(tree),
                Sorted(f[tree.child[Left][n]], D[tree.child[Left][n]]),
                Sorted(f[tree.child[Right][n]], D[tree.child[Right][n]])
         PROVE  Sorted(f[n], D[n])
    <3>1. D[n] = {n} \cup D[tree.child[Left][n]] \cup D[tree.child[Right][n]]
      BY <2>1 DEF Shape, Ordered
    <3>2. \A s \in Sides : D[tree.child[s][n]] \in SUBSET Nodes
      BY <2>1, <2>4, NodeFacts
    <3>3. \A s \in Sides : \A x \in D[tree.child[s][n]] : Beyond(s, x, n)
      BY <2>1, NodeFacts
    <3>4. \A x \in D[tree.child[Left][n]] : Key[x] < Key[n]
      BY <2>7, <3>3 DEF Beyond
    <3>5. \A x \in D[tree.child[Right][n]] : Key[n] < Key[x]
      BY <2>7, <3>3 DEF Beyond, Left, Right
    <3>6. Sorted(Step(f[tree.child[Left][n]], n, f[tree.child[Right][n]]),
                 {n} \cup D[tree.child[Left][n]] \cup D[tree.child[Right][n]])
      BY <2>4, <2>7, <2>10, <3>2, <3>4, <3>5, SortedStep
    <3> QED BY <2>4, <2>5, <3>1, <3>6
  <2>11. S = {}
    <3> SUFFICES ASSUME S # {} PROVE FALSE
      OBVIOUS
    <3>1. S \in SUBSET InTree(tree) /\ \A n \in InTree(tree) : n \notin S => Sorted(f[n], D[n])
      OBVIOUS
    <3>2. \A n \in S : ~ Sorted(f[n], D[n])
      OBVIOUS
    <3> HIDE DEF S
    <3>3. PICK n \in S : \A s \in Sides : tree.child[s][n] \notin S
      BY <2>1, <3>1, TreeInduction
    <3>4. n \in InTree(tree) /\ \A s \in Sides : Sorted(f[tree.child[s][n]], D[tree.child[s][n]])
      BY <2>6, <2>9, <3>1, <3>3
    <3>5. Sorted(f[n], D[n])
      BY <2>7, <2>10, <3>4
    <3> QED BY <3>2, <3>5
  <2>12. PICK q : q = InOrder
    OBVIOUS
  <2>13. Sorted(q, InTree(tree))
    <3>1. q = f[tree.root]
      BY <2>2, <2>12, InOrderFunction
    <3>2. Sorted(f[tree.root], D[tree.root])
      BY <2>8, <2>9, <2>11
    <3> QED BY <2>8, <3>1, <3>2
  <2>14. DOMAIN q = 1..Len(q) /\ Len(q) \in Nat
    BY <2>13 DEF Sorted
  <2>15. {q[i] : i \in DOMAIN q} = InTree(tree)
    BY <2>13, <2>14 DEF Sorted
  <2>16. ASSUME NEW i \in 1..Len(q) - 1
         PROVE  Key[q[i]] < Key[q[i + 1]]
    <3>1. i \in 1..Len(q) /\ i + 1 \in 1..Len(q) /\ i < i + 1
      BY <2>14
    <3> QED BY <2>13, <3>1 DEF Sorted
  <2> QED BY <2>12, <2>15, <2>16 DEF SearchTree
<1> QED BY <1>1, Invariance, PTL


-----------------------------------------------------------------------------
(* The tree implements the ordered set.                                    *)

\* A node that is not below n is on the same side of all that is.
LEMMA OneSided ==
    ASSUME NEW t, NEW D, Shape(t, D), NEW n \in InTree(t), NEW m \in InTree(t), m \notin D[n]
    PROVE  \E s \in Sides : \A x \in D[n] : Beyond(s, m, x)
<1> DEFINE S == {a \in InTree(t) : n \in D[a] /\ m \in D[a]}
<1>1. t.root \in InTree(t) /\ D[t.root] = InTree(t)
  <2>1. t.root \in InTree(t)
    BY ParentFacts
  <2> QED BY <2>1 DEF Shape, Ordered
<1>2. S \in SUBSET InTree(t) /\ S # {}
  BY <1>1
<1>3. PICK a \in S : \A s \in Sides : t.child[s][a] \notin S
  BY <1>2, TreeInduction
<1>4. a \in InTree(t) /\ n \in D[a] /\ m \in D[a] /\ n # a
  BY <1>3
<1>5. PICK s \in Sides : n \in D[t.child[s][a]]
  <2>1. D[a] = {a} \cup D[t.child[Left][a]] \cup D[t.child[Right][a]]
    BY <1>4 DEF Shape, Ordered
  <2> QED BY <1>4, <2>1 DEF Sides
<1>6. PICK c : c = t.child[s][a]
  OBVIOUS
<1>7. PICK d : d = t.child[Opposite(s)][a]
  OBVIOUS
<1>8. /\ D[a] = {a} \cup D[c] \cup D[d] /\ \A x \in D[c] : Beyond(s, x, a)
      /\ c # Nil => c \in InTree(t)
      /\ D[Nil] = {} /\ D[c] \subseteq InTree(t)
  BY <1>4, <1>6, <1>7, NodeFacts
<1>9. \A x \in D[d] : Beyond(Opposite(s), x, a)
  <2>1. Opposite(s) \in Sides
    BY SideFacts
  <2> QED BY <1>4, <1>7, <2>1, NodeFacts
<1>10. c \in InTree(t) /\ n \in D[c] /\ D[n] \subseteq D[c]
  BY <1>5, <1>6, <1>8, Below
<1>11. m \notin D[c]
  BY <1>3, <1>5, <1>6, <1>10
<1>12. m = a \/ Beyond(Opposite(s), m, a)
  BY <1>4, <1>8, <1>9, <1>11
<1>13. InTree(t) \subseteq Nodes
  BY TreeTypes DEF Shape
<1>14. \A x \in D[n] : Beyond(Opposite(s), m, x)
  <2> SUFFICES ASSUME NEW x \in D[n] PROVE Beyond(Opposite(s), m, x)
    OBVIOUS
  <2>1. Beyond(s, x, a) /\ x \in Nodes /\ a \in Nodes /\ m \in Nodes
    BY <1>4, <1>8, <1>10, <1>13
  <2>2. Opposite(s) \in Sides /\ Opposite(Opposite(s)) = s
    BY SideFacts
  <2>3. Beyond(Opposite(s), a, x)
    BY <2>1, <2>2, BeyondFacts
  <2> QED BY <1>12, <2>1, <2>2, <2>3, BeyondFacts
<1> QED BY <1>14, SideFacts

\* No two elements of a tree have the same key.
LEMMA DistinctKeys ==
    ASSUME NEW t, NEW D, Shape(t, D), NEW x \in InTree(t), NEW y \in InTree(t), Key[x] = Key[y]
    PROVE  x = y
<1>1. x \in Nodes /\ y \in Nodes /\ Key[x] \in Int
  BY TreeTypes, KeyAssumption DEF Shape
<1>2. \A s \in Sides : ~ Beyond(s, y, x)
  BY <1>1 DEF Beyond
<1>3. D[x] = {x} \cup D[t.child[Left][x]] \cup D[t.child[Right][x]]
  BY DEF Shape, Ordered
<1>4. x \in D[x]
  BY <1>3
<1>5. y \in D[x]
  BY <1>2, <1>4, OneSided
<1>6. \A s \in Sides : \A z \in D[t.child[s][x]] : Beyond(s, z, x)
  BY DEF Shape, Ordered
<1> QED BY <1>2, <1>3, <1>5, <1>6 DEF Sides

\* The loops in which the result of the call is still open.
Undecided == {"idle", "search", "insert", "erase", "successor", "down", "up", "nowhere"}

\* The call that a loop runs for.
CallShape ==
    /\ pc \in Undecided <=> reply = <<>>
    /\ pc = "search" => \E n \in Nodes : call = <<"search", Key[n]>>
    /\ pc = "insert" => \E n \in Nodes \ InTree(tree) : call = <<"insert", n>>
    /\ pc \in {"erase", "successor"} => \E e \in InTree(tree) : call = <<"erase", e>>
    /\ pc = "down" => \/ call \in {<<"first">>, <<"last">>}
                      \/ \E n \in InTree(tree) : call \in {<<"next", n>>, <<"prev", n>>}
    /\ pc = "up" => \E n \in InTree(tree) : call \in {<<"next", n>>, <<"prev", n>>}
    /\ pc = "nowhere" => \E n \in Nodes \ InTree(tree) : call \in {<<"next", n>>, <<"prev", n>>}

\* An element with the key k is at or below the cursor, if the tree has one.
KeyBelow(D, k) ==
    /\ cur \in InTree(tree) \cup {Nil}
    /\ \A x \in InTree(tree) : Key[x] = k => x \in D[cur]

\* The elements of which a walk looks for the extreme one.
Wanted ==
    IF call[1] \in {"first", "last"} THEN InTree(tree)
    ELSE {m \in InTree(tree) : Beyond(Opposite(Towards), m, call[2])}

\* On the way down all that is at or below the cursor is wanted, and the rest
\* of the wanted is farther away.
WantedBelow(D) ==
    /\ cur \in InTree(tree) \cup {Nil}
    /\ cur = Nil => Wanted = {}
    /\ D[cur] \subseteq Wanted
    /\ \A m \in Wanted \ D[cur] : \A x \in D[cur] : Beyond(Opposite(Towards), m, x)

\* On the way up nothing at or below the cursor is wanted.
WantedAbove(D) ==
    /\ cur \in InTree(tree)
    /\ call[2] \in D[cur]
    /\ Wanted \cap D[cur] = {}

Searches(D) ==
    /\ pc = "search" => KeyBelow(D, call[2])
    /\ pc = "insert" => KeyBelow(D, Key[call[2]])
    /\ pc = "down" => WantedBelow(D)
    /\ pc = "up" => WantedAbove(D)

AnswerInv == CallShape /\ \A D : Shape(tree, D) => Searches(D)

\* The end of a search by key.
LEMMA FoundIs ==
    ASSUME NEW D, Shape(tree, D), NEW k, KeyBelow(D, k), cur # Nil => Key[cur] = k
    PROVE  Abstract!Find(k) = cur
<1>1. cur \in InTree(tree) \cup {Nil} /\ \A x \in InTree(tree) : Key[x] = k => x \in D[cur]
  BY DEF KeyBelow
<1>2. CASE cur = Nil
  <2>1. D[Nil] = {}
    BY DEF Shape, Ordered
  <2>2. ~ \E x \in InTree(tree) : Key[x] = k
    BY <1>1, <1>2, <2>1
  <2> QED BY <1>2, <2>2 DEF Abstract!Find
<1>3. CASE cur # Nil
  <2>1. cur \in InTree(tree) /\ Key[cur] = k
    BY <1>1, <1>3
  <2>2. \A x \in InTree(tree) : Key[x] = k => x = cur
    BY <2>1, DistinctKeys
  <2>3. (CHOOSE x \in InTree(tree) : Key[x] = k) = cur
    BY <2>1, <2>2
  <2> QED BY <2>1, <2>3 DEF Abstract!Find
<1> QED BY <1>2, <1>3

\* The extreme element of S on the side s.
Extreme(s, S) == IF s = Left THEN Abstract!Least(S) ELSE Abstract!Greatest(S)

LEMMA NoExtreme == \A s : Extreme(s, {}) = Nil
BY DEF Extreme, Abstract!Least, Abstract!Greatest

LEMMA ExtremeIs ==
    ASSUME NEW s \in Sides, NEW S \in SUBSET Nodes, NEW n \in S,
           \A m \in S : m = n \/ Beyond(Opposite(s), m, n)
    PROVE  Extreme(s, S) = n
<1>1. \A m \in S : Key[m] \in Int
  BY KeyAssumption
<1>2. CASE s = Left
  <2>1. \A m \in S : m = n \/ Key[n] < Key[m]
    BY <1>2 DEF Beyond, Opposite, Left, Right
  <2>2. \A m \in S : Key[n] <= Key[m]
    BY <1>1, <2>1
  <2>3. \A x \in S : (\A m \in S : Key[x] <= Key[m]) => x = n
    BY <1>1, <2>1
  <2>4. (CHOOSE x \in S : \A m \in S : Key[x] <= Key[m]) = n
    BY <2>2, <2>3
  <2> QED BY <1>2, <2>4 DEF Extreme, Abstract!Least
<1>3. CASE s # Left
  <2>1. \A m \in S : m = n \/ Key[m] < Key[n]
    BY <1>3 DEF Beyond, Opposite, Left, Right
  <2>2. \A m \in S : Key[m] <= Key[n]
    BY <1>1, <2>1
  <2>3. \A x \in S : (\A m \in S : Key[m] <= Key[x]) => x = n
    BY <1>1, <2>1
  <2>4. (CHOOSE x \in S : \A m \in S : Key[m] <= Key[x]) = n
    BY <2>2, <2>3
  <2> QED BY <1>3, <2>4 DEF Extreme, Abstract!Greatest
<1> QED BY <1>2, <1>3

\* What a step comes to in the ordered set: a step of it, or none.
Follows == AnswerInv' /\ (Abstract!SetNext \/ UNCHANGED <<InTree(tree), reply>>)

\* A step that decides nothing and leaves the elements as they are.
LEMMA Quietly ==
    ASSUME AnswerInv', InTree(tree') = InTree(tree), reply' = reply
    PROVE  Follows
BY DEF Follows

\* After the decision no search goes on.
LEMMA Decided ==
    ASSUME pc' \notin Undecided, reply' # <<>>
    PROVE  AnswerInv'
<1>1. CallShape'
  BY DEF CallShape, Undecided
<1>2. ASSUME NEW D PROVE Searches(D)'
  BY DEF Searches, Undecided
<1> QED BY <1>1, <1>2 DEF AnswerInv

\* The steps after the decision.
LEMMA Afterwards ==
    ASSUME AnswerInv, pc \notin Undecided, pc' \notin Undecided,
           InTree(tree') = InTree(tree), reply' = reply
    PROVE  Follows
<1>1. reply' # <<>>
  BY DEF AnswerInv, CallShape
<1> QED BY <1>1, Decided, Quietly

\* A result for a call that leaves the elements as they are.
LEMMA Answered ==
    ASSUME AnswerInv, NEW v, pc \in Undecided, Answer(v),
           reply = <<>> => Abstract!Call
    PROVE  Follows
<1>1. pc' = "return" /\ reply' = <<call, v>> /\ reply = <<>>
  BY DEF Answer, AnswerInv, CallShape
<1>2. reply' # <<>>
  BY <1>1
<1>3. AnswerInv'
  BY <1>1, <1>2, Decided DEF Undecided
<1> QED BY <1>1, <1>3 DEF Follows, Abstract!SetNext

LEMMA AnswersSearch ==
    ASSUME Inv, AnswerInv, SearchDone
    PROVE  Follows
<1>1. pc = "search" /\ (cur # Nil => Key[cur] = call[2]) /\ Answer(cur)
  BY DEF SearchDone
<1>2. PICK n \in Nodes : call = <<"search", Key[n]>>
  BY <1>1 DEF AnswerInv, CallShape
<1>3. PICK D : Shape(tree, D)
  BY DEF Inv, TreeInv
<1>4. KeyBelow(D, Key[n]) /\ (cur # Nil => Key[cur] = Key[n])
  BY <1>1, <1>2, <1>3 DEF AnswerInv, Searches
<1>5. Abstract!Find(Key[n]) = cur
  BY <1>3, <1>4, FoundIs
<1>6. reply' = <<<<"search", Key[n]>>, cur>> /\ InTree(tree') = InTree(tree)
  BY <1>1, <1>2 DEF Answer
<1>7. Abstract!Read
  BY <1>5, <1>6 DEF Abstract!Read, Abstract!Decide
<1> QED BY <1>1, <1>7, Answered DEF Undecided, Abstract!Call

LEMMA AnswersDuplicate ==
    ASSUME Inv, AnswerInv, InsertDuplicate
    PROVE  Follows
<1>1. pc = "insert" /\ cur # Nil /\ Key[cur] = Key[call[2]] /\ Answer(-1)
  BY DEF InsertDuplicate
<1>2. PICK n \in Nodes \ InTree(tree) : call = <<"insert", n>>
  BY <1>1 DEF AnswerInv, CallShape
<1>3. PICK D : Shape(tree, D)
  BY DEF Inv, TreeInv
<1>4. KeyBelow(D, Key[n]) /\ Key[cur] = Key[n]
  BY <1>1, <1>2, <1>3 DEF AnswerInv, Searches
<1>5. Abstract!Find(Key[n]) # Nil
  BY <1>1, <1>3, <1>4, FoundIs
<1>6. reply' = <<<<"insert", n>>, -1>> /\ InTree(tree') = InTree(tree)
  BY <1>1, <1>2 DEF Answer
<1>7. Abstract!Insert(n)
  BY <1>2, <1>5, <1>6 DEF Abstract!Insert, Abstract!Decide
<1> QED BY <1>1, <1>7, Answered DEF Undecided, Abstract!Call

\* A call that changes the elements.
LEMMA Changes ==
    ASSUME AnswerInv, pc \in Undecided, pc' \notin Undecided, reply' # <<>>,
           reply = <<>> => Abstract!Call
    PROVE  Follows
<1>1. reply = <<>>
  BY DEF AnswerInv, CallShape
<1>2. AnswerInv'
  BY Decided
<1> QED BY <1>1, <1>2 DEF Follows, Abstract!SetNext

LEMMA AnswersInsert ==
    ASSUME Inv, AnswerInv, InsertLink
    PROVE  Follows
<1>1. pc = "insert" /\ cur = Nil /\ pc' = "insert_color" /\ reply' = <<call, 0>>
  BY DEF InsertLink
<1>2. PICK n \in Nodes \ InTree(tree) : call = <<"insert", n>>
  BY <1>1 DEF AnswerInv, CallShape
<1>3. PICK D : Shape(tree, D)
  BY DEF Inv, TreeInv
<1>4. KeyBelow(D, Key[n])
  BY <1>1, <1>2, <1>3 DEF AnswerInv, Searches
<1>5. Abstract!Find(Key[n]) = Nil
  BY <1>1, <1>3, <1>4, FoundIs
<1>6. InTree(tree') = InTree(tree) \cup {call[2]}
  BY StepInsertLink
<1>7. reply' = <<<<"insert", n>>, 0>> /\ InTree(tree') = InTree(tree) \cup {n} /\ reply' # <<>>
  BY <1>1, <1>2, <1>6
<1>8. Abstract!Insert(n)
  BY <1>2, <1>5, <1>7 DEF Abstract!Insert, Abstract!Decide
<1> QED BY <1>1, <1>7, <1>8, Changes DEF Undecided, Abstract!Call

LEMMA AnswersErase ==
    ASSUME Inv, AnswerInv, EraseNode \/ EraseSuccessor
    PROVE  Follows
<1>1. /\ pc \in {"erase", "successor"} /\ pc' \in {"erase_color", "erased"} /\ reply' = <<call, Nil>>
  BY DEF EraseNode, EraseSuccessor, Splice
<1>2. PICK e \in InTree(tree) : call = <<"erase", e>>
  BY <1>1 DEF AnswerInv, CallShape
<1>3. InTree(tree') = InTree(tree) \ {call[2]}
  BY StepEraseNode, StepEraseSuccessor
<1>4. reply' = <<<<"erase", e>>, Nil>> /\ InTree(tree') = InTree(tree) \ {e} /\ reply' # <<>>
  BY <1>1, <1>2, <1>3
<1>5. Abstract!Erase(e) /\ e \in Nodes
  BY <1>4 DEF Abstract!Erase, Abstract!Decide, InTree
<1> QED BY <1>1, <1>4, <1>5, Changes DEF Undecided, Abstract!Call

LEMMA AnswersReplace ==
    ASSUME Inv, AnswerInv, NEW v \in Nodes, NEW n \in Nodes, rb_replace(v, n)
    PROVE  Follows
<1>1. /\ pc = "idle" /\ pc' = "return" /\ reply' = <<<<"replace", v, n>>, Nil>>
      /\ v \in InTree(tree) /\ n \notin InTree(tree) /\ Key[v] = Key[n]
  BY DEF rb_replace
<1>2. InTree(tree') = (InTree(tree) \ {v}) \cup {n}
  BY StepReplace
<1>3. Abstract!Replace(v, n) /\ reply' # <<>>
  BY <1>1, <1>2 DEF Abstract!Replace, Abstract!Decide
<1> QED BY <1>1, <1>3, Changes DEF Undecided, Abstract!Call

\* The result of a walk is the extreme element that was wanted.
LEMMA AnswersWalk ==
    ASSUME Inv, AnswerInv, pc \in {"down", "up"}, Answer(Extreme(Towards, Wanted))
    PROVE  Follows
<1>1. reply' = <<call, Extreme(Towards, Wanted)>> /\ InTree(tree') = InTree(tree)
  BY DEF Answer
<1>2. InTree(tree) \subseteq Nodes
  BY DEF InTree
<1>3. CASE call = <<"first">>
  <2>1. Towards = Left /\ Wanted = InTree(tree)
    BY <1>3 DEF Towards, Wanted
  <2>2. Abstract!Decide(<<"first">>, Abstract!Least(InTree(tree)), InTree(tree))
    BY <1>1, <1>3, <2>1 DEF Abstract!Decide, Extreme
  <2> QED BY <2>2, Answered DEF Undecided, Abstract!Call, Abstract!Read
<1>4. CASE call = <<"last">>
  <2>1. Towards = Right /\ Wanted = InTree(tree)
    BY <1>4 DEF Towards, Wanted
  <2>2. Abstract!Decide(<<"last">>, Abstract!Greatest(InTree(tree)), InTree(tree))
    BY <1>1, <1>4, <2>1 DEF Abstract!Decide, Extreme, Left, Right
  <2> QED BY <2>2, Answered DEF Undecided, Abstract!Call, Abstract!Read
<1>5. ASSUME NEW n \in InTree(tree), call = <<"next", n>> PROVE Follows
  <2>1. Towards = Left /\ Wanted = {m \in InTree(tree) : Key[m] > Key[n]}
    <3>1. call[1] = "next" /\ call[2] = n
      BY <1>5
    <3>2. Towards = Left
      BY <3>1 DEF Towards
    <3>3. Wanted = {m \in InTree(tree) : Beyond(Opposite(Towards), m, n)}
      BY <3>1 DEF Wanted
    <3>4. Opposite(Towards) = Right
      BY <3>2 DEF Opposite
    <3>5. \A m \in InTree(tree) : Beyond(Right, m, n) <=> Key[m] > Key[n]
      BY <1>2, KeyAssumption DEF Beyond, Left, Right
    <3> QED BY <3>2, <3>3, <3>4, <3>5
  <2>2. Abstract!Decide(<<"next", n>>, Abstract!After(n), InTree(tree))
    BY <1>1, <1>5, <2>1 DEF Abstract!Decide, Abstract!After, Extreme
  <2> QED BY <1>2, <2>2, Answered DEF Undecided, Abstract!Call, Abstract!Read
<1>6. ASSUME NEW n \in InTree(tree), call = <<"prev", n>> PROVE Follows
  <2>1. Towards # Left /\ Wanted = {m \in InTree(tree) : Key[m] < Key[n]}
    <3>1. call[1] = "prev" /\ call[2] = n
      BY <1>6
    <3>2. Towards = Right
      BY <3>1 DEF Towards
    <3>3. Wanted = {m \in InTree(tree) : Beyond(Opposite(Towards), m, n)}
      BY <3>1 DEF Wanted
    <3>4. Opposite(Towards) = Left /\ Towards # Left
      BY <3>2 DEF Opposite, Left, Right
    <3>5. \A m \in InTree(tree) : Beyond(Left, m, n) <=> Key[m] < Key[n]
      BY DEF Beyond
    <3> QED BY <3>3, <3>4, <3>5
  <2>2. Abstract!Decide(<<"prev", n>>, Abstract!Before(n), InTree(tree))
    BY <1>1, <1>6, <2>1 DEF Abstract!Decide, Abstract!Before, Extreme
  <2> QED BY <1>2, <2>2, Answered DEF Undecided, Abstract!Call, Abstract!Read
<1> QED BY <1>3, <1>4, <1>5, <1>6 DEF AnswerInv, CallShape

\* The sides of a walk.
LEMMA WalkSides == /\ Towards \in Sides /\ Opposite(Towards) \in Sides
                   /\ Opposite(Opposite(Towards)) = Towards
                   /\ Wanted \subseteq InTree(tree) /\ InTree(tree) \subseteq Nodes
BY SideFacts DEF Towards, Wanted, Sides, InTree

\* On the way down the extreme element is found at the end.
LEMMA EndOfWayDown ==
    ASSUME NEW D, Shape(tree, D), WantedBelow(D), cur # Nil => tree.child[Towards][cur] = Nil
    PROVE  Extreme(Towards, Wanted) = cur
<1>1. CASE cur = Nil
  BY <1>1, NoExtreme DEF WantedBelow
<1>2. CASE cur # Nil
  <2>1. cur \in InTree(tree) /\ tree.child[Towards][cur] = Nil
    BY <1>2 DEF WantedBelow
  <2>2. /\ D[cur] = {cur} \cup D[tree.child[Towards][cur]] \cup D[tree.child[Opposite(Towards)][cur]]
        /\ D[Nil] = {}
    BY <2>1, WalkSides, NodeFacts
  <2>3. \A x \in D[tree.child[Opposite(Towards)][cur]] : Beyond(Opposite(Towards), x, cur)
    BY <2>1, WalkSides, NodeFacts
  <2>4. \A m \in D[cur] : m = cur \/ Beyond(Opposite(Towards), m, cur)
    BY <2>1, <2>2, <2>3
  <2>5. cur \in D[cur] /\ D[cur] \subseteq Wanted
    BY <2>2 DEF WantedBelow
  <2>6. \A m \in Wanted \ D[cur] : Beyond(Opposite(Towards), m, cur)
    BY <2>5 DEF WantedBelow
  <2>7. \A m \in Wanted : m = cur \/ Beyond(Opposite(Towards), m, cur)
    BY <2>4, <2>6
  <2>8. cur \in Wanted /\ Wanted \subseteq Nodes
    BY <2>5, WalkSides
  <2> QED BY <2>7, <2>8, WalkSides, ExtremeIs
<1> QED BY <1>1, <1>2

\* On the way up it is the first parent that is reached from the near side.
LEMMA EndOfWayUp ==
    ASSUME NEW D, Shape(tree, D), WantedAbove(D), ~ FarChild,
           Wanted = {m \in InTree(tree) : Beyond(Opposite(Towards), m, call[2])}
    PROVE  Extreme(Towards, Wanted) = tree.parent[cur]
<1>1. PICK n : n = call[2]
  OBVIOUS
<1>2. PICK p : p = tree.parent[cur]
  OBVIOUS
<1>3. PICK s : s = Opposite(Towards)
  OBVIOUS
<1>4. cur \in InTree(tree) /\ n \in D[cur] /\ Wanted \cap D[cur] = {}
  BY <1>1 DEF WantedAbove
<1>5. Wanted = {m \in InTree(tree) : Beyond(s, m, n)}
  BY <1>1, <1>3
<1>6. s \in Sides /\ Opposite(s) = Towards /\ Towards \in Sides /\ InTree(tree) \subseteq Nodes
  BY <1>3, WalkSides
<1>7. CASE p = Nil
  <2>1. D[cur] = InTree(tree)
    <3>1. cur \in InTree(tree) /\ tree.parent[cur] = Nil
      BY <1>2, <1>4, <1>7
    <3>2. \A x \in InTree(tree) : tree.parent[x] = Nil => tree.root = x
      BY ParentFacts
    <3> QED BY <3>1, <3>2 DEF Shape, Ordered
  <2>2. Wanted = {}
    BY <1>4, <1>5, <2>1
  <2> QED BY <1>2, <1>7, <2>2, NoExtreme
<1>8. CASE p # Nil
  <2>1. p \in InTree(tree) /\ \E z \in Sides : tree.child[z][p] = cur
    BY <1>2, <1>4, <1>8, ParentFacts
  <2>2. tree.child[s][p] # cur
    BY <1>2, <1>3, <1>8 DEF FarChild
  <2>3. tree.child[Towards][p] = cur
    BY <1>6, <2>1, <2>2, SideFacts
  <2>4. PICK far : far = tree.child[s][p]
    OBVIOUS
  <2>5. D[p] = {p} \cup D[far] \cup D[cur] /\ \A x \in D[far] : Beyond(s, x, p)
    BY <1>6, <2>1, <2>3, <2>4, NodeFacts
  <2>6. \A x \in D[cur] : Beyond(Towards, x, p)
    BY <1>6, <2>1, <2>3, NodeFacts
  <2>7. n \in Nodes /\ p \in Nodes /\ n \in D[p]
    <3>1. n \in InTree(tree)
      BY <1>4, Below
    <3> QED BY <1>4, <1>6, <2>1, <2>5, <3>1
  <2>8. Beyond(s, p, n)
    <3>1. Beyond(Towards, n, p)
      BY <1>4, <2>6
    <3> QED BY <1>6, <2>7, <3>1, BeyondFacts
  <2>9. p \in Wanted
    BY <1>5, <2>1, <2>8
  <2>10. ASSUME NEW m \in Wanted PROVE m = p \/ Beyond(s, m, p)
    <3>1. m \in InTree(tree) /\ m \notin D[cur] /\ Beyond(s, m, n) /\ m \in Nodes
      BY <1>4, <1>5, <1>6
    <3>2. CASE m \in D[p]
      BY <2>5, <3>1, <3>2
    <3>3. CASE m \notin D[p]
      <4>1. PICK z \in Sides : \A x \in D[p] : Beyond(z, m, x)
        BY <2>1, <3>1, <3>3, OneSided
      <4>2. Beyond(z, m, n) /\ Beyond(z, m, p)
        BY <2>5, <2>7, <4>1
      <4>3. z = s
        BY <1>6, <2>7, <3>1, <4>2, SideFacts, BeyondFacts
      <4> QED BY <4>2, <4>3
    <3> QED BY <3>2, <3>3
  <2>11. Wanted \subseteq Nodes
    BY WalkSides
  <2> QED BY <1>2, <1>3, <1>6, <2>9, <2>10, <2>11, ExtremeIs
<1> QED BY <1>7, <1>8

LEMMA AnswersWalkDone ==
    ASSUME Inv, AnswerInv, WalkDone
    PROVE  Follows
<1>1. PICK D : Shape(tree, D)
  BY DEF Inv, TreeInv
<1>2. Searches(D)
  BY <1>1 DEF AnswerInv
<1>3. CASE pc = "down" /\ (cur # Nil => tree.child[Towards][cur] = Nil) /\ Answer(cur)
  <2>1. WantedBelow(D)
    BY <1>2, <1>3 DEF Searches
  <2>2. Extreme(Towards, Wanted) = cur
    BY <1>1, <1>3, <2>1, EndOfWayDown
  <2> QED BY <1>3, <2>2, AnswersWalk
<1>4. CASE pc = "up" /\ ~ FarChild /\ Answer(tree.parent[cur])
  <2>1. WantedAbove(D)
    BY <1>2, <1>4 DEF Searches
  <2>2. \E n \in InTree(tree) : call \in {<<"next", n>>, <<"prev", n>>}
    BY <1>4 DEF AnswerInv, CallShape
  <2>3. Wanted = {m \in InTree(tree) : Beyond(Opposite(Towards), m, call[2])}
    BY <2>2 DEF Wanted
  <2>4. Extreme(Towards, Wanted) = tree.parent[cur]
    BY <1>1, <1>4, <2>1, <2>3, EndOfWayUp
  <2> QED BY <1>4, <2>4, AnswersWalk
<1>5. CASE pc = "nowhere" /\ Answer(Nil)
  <2>1. PICK n \in Nodes \ InTree(tree) : call \in {<<"next", n>>, <<"prev", n>>}
    BY <1>5 DEF AnswerInv, CallShape
  <2>2. reply' = <<call, Nil>> /\ InTree(tree') = InTree(tree)
    BY <1>5 DEF Answer
  <2>3. Abstract!Read
    BY <2>1, <2>2 DEF Abstract!Read, Abstract!Decide, Abstract!After, Abstract!Before
  <2> QED BY <1>5, <2>3, Answered DEF Undecided, Abstract!Call
<1> QED BY <1>3, <1>4, <1>5 DEF WalkDone

\* A step of a search that goes on.
LEMMA GoesOn ==
    ASSUME CallShape', tree' = tree, reply' = reply,
           \A D : Shape(tree, D) => Searches(D)'
    PROVE  Follows
<1>1. \A D : Shape(tree', D) => Searches(D)'
  OBVIOUS
<1>2. AnswerInv'
  BY <1>1 DEF AnswerInv
<1> QED BY <1>2, Quietly

LEMMA KeyStep ==
    ASSUME NEW D, Shape(tree, D), NEW k, KeyBelow(D, k), cur # Nil, Key[cur] # k,
           tree' = tree, cur' = tree.child[SideFor(k, cur)][cur]
    PROVE  KeyBelow(D, k)'
<1>1. cur \in InTree(tree) /\ \A x \in InTree(tree) : Key[x] = k => x \in D[cur]
  BY DEF KeyBelow
<1>2. PICK s : s = SideFor(k, cur)
  OBVIOUS
<1>3. s \in Sides
  BY <1>2 DEF SideFor, Sides
<1>4. cur' \in InTree(tree) \cup {Nil}
  BY <1>1, <1>2, <1>3, NodeFacts, Zenon
<1>5. /\ D[cur] = {cur} \cup D[tree.child[s][cur]] \cup D[tree.child[Opposite(s)][cur]]
      /\ D[tree.child[Opposite(s)][cur]] \subseteq InTree(tree)
  BY <1>1, <1>3, SideFacts, NodeFacts
<1>6. \A x \in D[tree.child[Opposite(s)][cur]] : Beyond(Opposite(s), x, cur)
  <2>1. Opposite(s) \in Sides
    BY <1>3, SideFacts
  <2> QED BY <1>1, <2>1, NodeFacts
<1>7. ASSUME NEW x \in InTree(tree), Key[x] = k PROVE x \in D[tree.child[s][cur]]
  <2>1. x \in D[cur] /\ x # cur
    BY <1>1, <1>7
  <2>2. Key[x] \in Int /\ Key[cur] \in Int
    BY <1>1, KeyAssumption DEF InTree
  <2>3. ~ Beyond(Opposite(s), x, cur)
    BY <1>2, <1>7, <2>2 DEF SideFor, Beyond, Opposite, Left, Right
  <2> QED BY <1>5, <1>6, <2>1, <2>3
<1> QED BY <1>2, <1>4, <1>7 DEF KeyBelow

LEMMA GoesOnSearch ==
    ASSUME Inv, AnswerInv, SearchDown
    PROVE  Follows
<1>1. /\ pc = "search" /\ pc' = pc /\ call' = call /\ cur # Nil /\ Key[cur] # call[2]
      /\ cur' = tree.child[SideFor(call[2], cur)][cur] /\ tree' = tree /\ reply' = reply
  BY DEF SearchDown
<1>2. CallShape'
  BY <1>1 DEF AnswerInv, CallShape
<1>3. ASSUME NEW D, Shape(tree, D) PROVE Searches(D)'
  <2>1. PICK k : k = call[2]
    OBVIOUS
  <2>2. KeyBelow(D, k)
    BY <1>1, <1>3, <2>1 DEF AnswerInv, Searches
  <2>3. KeyBelow(D, k)'
    BY <1>1, <1>3, <2>1, <2>2, KeyStep
  <2>4. KeyBelow(D, call[2])'
    BY <1>1, <2>1, <2>3 DEF KeyBelow
  <2> QED BY <1>1, <2>4 DEF Searches
<1> QED BY <1>1, <1>2, <1>3, GoesOn

LEMMA GoesOnInsert ==
    ASSUME Inv, AnswerInv, InsertDown
    PROVE  Follows
<1>1. /\ pc = "insert" /\ pc' = pc /\ call' = call /\ cur # Nil /\ Key[cur] # Key[call[2]]
      /\ cur' = tree.child[SideFor(Key[call[2]], cur)][cur] /\ tree' = tree /\ reply' = reply
  BY DEF InsertDown
<1>2. CallShape'
  BY <1>1 DEF AnswerInv, CallShape
<1>3. ASSUME NEW D, Shape(tree, D) PROVE Searches(D)'
  <2>1. PICK k : k = Key[call[2]]
    OBVIOUS
  <2>2. KeyBelow(D, k)
    BY <1>1, <1>3, <2>1 DEF AnswerInv, Searches
  <2>3. KeyBelow(D, k)'
    BY <1>1, <1>3, <2>1, <2>2, KeyStep
  <2>4. KeyBelow(D, Key[call[2]])'
    BY <1>1, <2>1, <2>3 DEF KeyBelow
  <2> QED BY <1>1, <2>4 DEF Searches
<1> QED BY <1>1, <1>2, <1>3, GoesOn

\* What a walk looks for depends on its call alone.
LEMMA SameWalk == UNCHANGED <<tree, call>> => Towards' = Towards /\ Wanted' = Wanted
<1> SUFFICES ASSUME tree' = tree, call' = call PROVE Towards' = Towards /\ Wanted' = Wanted
  OBVIOUS
<1>1. Towards' = Towards
  BY DEF Towards
<1> QED BY <1>1 DEF Wanted

LEMMA GoesOnDown ==
    ASSUME Inv, AnswerInv, WalkDown
    PROVE  Follows
<1>1. /\ pc = "down" /\ pc' = pc /\ call' = call /\ cur # Nil /\ tree.child[Towards][cur] # Nil
      /\ cur' = tree.child[Towards][cur] /\ tree' = tree /\ reply' = reply
  BY DEF WalkDown
<1>2. CallShape'
  BY <1>1 DEF AnswerInv, CallShape
<1>3. ASSUME NEW D, Shape(tree, D) PROVE Searches(D)'
  <2>1. WantedBelow(D)
    BY <1>1, <1>3 DEF AnswerInv, Searches
  <2>2. PICK c : c = tree.child[Towards][cur]
    OBVIOUS
  <2>3. PICK d : d = tree.child[Opposite(Towards)][cur]
    OBVIOUS
  <2>4. PICK s : s = Opposite(Towards)
    OBVIOUS
  <2>5. s \in Sides /\ Towards \in Sides /\ Opposite(s) = Towards
    BY <2>4, WalkSides
  <2>6. /\ cur \in InTree(tree) /\ D[cur] \subseteq Wanted
        /\ \A m \in Wanted \ D[cur] : \A x \in D[cur] : Beyond(s, m, x)
    BY <1>1, <2>1, <2>4 DEF WantedBelow
  <2>7. c \in InTree(tree) /\ D[cur] = {cur} \cup D[c] \cup D[d] /\ \A x \in D[c] : Beyond(Towards, x, cur)
    BY <1>1, <1>3, <2>2, <2>3, <2>5, <2>6, NodeFacts
  <2>8. \A x \in D[d] : Beyond(s, x, cur)
    BY <1>3, <2>3, <2>4, <2>5, <2>6, NodeFacts
  <2>9. Wanted \subseteq Nodes
    BY WalkSides
  <2>10. \A m \in Wanted \ D[c] : \A x \in D[c] : Beyond(s, m, x)
    <3> SUFFICES ASSUME NEW m \in Wanted, m \notin D[c], NEW x \in D[c] PROVE Beyond(s, m, x)
      OBVIOUS
    <3>1. CASE m \notin D[cur]
      BY <2>6, <2>7, <3>1
    <3>2. CASE m \in D[cur]
      <4>1. m = cur \/ Beyond(s, m, cur)
        BY <2>7, <2>8, <3>2
      <4>2. m \in Nodes /\ x \in Nodes /\ cur \in Nodes
        BY <2>6, <2>7, <2>9
      <4>3. Beyond(s, cur, x)
        BY <2>5, <2>7, <4>2, BeyondFacts
      <4> QED BY <2>5, <4>1, <4>2, <4>3, BeyondFacts
    <3> QED BY <3>1, <3>2
  <2>11. c # Nil /\ D[c] \subseteq Wanted
    BY <1>1, <2>2, <2>6, <2>7
  <2>12. cur' = c /\ Towards' = Towards /\ Wanted' = Wanted
    BY <1>1, <2>2, SameWalk
  <2>13. WantedBelow(D)'
    BY <1>1, <2>4, <2>7, <2>10, <2>11, <2>12 DEF WantedBelow
  <2> QED BY <1>1, <2>13 DEF Searches
<1> QED BY <1>1, <1>2, <1>3, GoesOn

LEMMA GoesOnUp ==
    ASSUME Inv, AnswerInv, WalkUp
    PROVE  Follows
<1>1. /\ pc = "up" /\ pc' = pc /\ call' = call /\ FarChild
      /\ cur' = tree.parent[cur] /\ tree' = tree /\ reply' = reply
  BY DEF WalkUp
<1>2. CallShape'
  BY <1>1 DEF AnswerInv, CallShape
<1>3. ASSUME NEW D, Shape(tree, D) PROVE Searches(D)'
  <2>1. WantedAbove(D)
    BY <1>1, <1>3 DEF AnswerInv, Searches
  <2>2. PICK n : n = call[2]
    OBVIOUS
  <2>3. PICK p : p = tree.parent[cur]
    OBVIOUS
  <2>4. PICK s : s = Opposite(Towards)
    OBVIOUS
  <2>5. s \in Sides /\ Towards \in Sides /\ Opposite(s) = Towards /\ Wanted \subseteq Nodes
    BY <2>4, WalkSides
  <2>6. cur \in InTree(tree) /\ n \in D[cur] /\ Wanted \cap D[cur] = {}
    BY <2>1, <2>2 DEF WantedAbove
  <2>7. Wanted = {m \in InTree(tree) : Beyond(s, m, n)}
    <3>1. \E m \in InTree(tree) : call \in {<<"next", m>>, <<"prev", m>>}
      BY <1>1 DEF AnswerInv, CallShape
    <3> QED BY <2>2, <2>4, <3>1 DEF Wanted
  <2>8. p \in InTree(tree) /\ tree.child[s][p] = cur
    <3>1. p # Nil /\ tree.child[s][p] = cur
      BY <1>1, <2>3, <2>4 DEF FarChild
    <3> QED BY <1>3, <2>3, <2>6, <3>1, ParentFacts
  <2>9. PICK near : near = tree.child[Towards][p]
    OBVIOUS
  <2>10. D[p] = {p} \cup D[cur] \cup D[near] /\ \A x \in D[cur] : Beyond(s, x, p)
    BY <1>3, <2>5, <2>8, <2>9, NodeFacts
  <2>11. \A x \in D[near] : Beyond(Towards, x, p)
    BY <1>3, <2>5, <2>8, <2>9, NodeFacts
  <2>12. n \in Nodes /\ p \in Nodes /\ Beyond(s, n, p) /\ Beyond(Towards, p, n)
    <3>1. n \in InTree(tree)
      BY <1>3, <2>6, Below
    <3>2. n \in Nodes /\ p \in Nodes
      BY <2>8, <3>1 DEF InTree
    <3>3. Beyond(s, n, p)
      BY <2>6, <2>10
    <3> QED BY <2>5, <3>2, <3>3, BeyondFacts
  <2>13. ASSUME NEW m \in Wanted, m \in D[p] PROVE FALSE
    <3>1. m \in Nodes /\ Beyond(s, m, n) /\ m \notin D[cur]
      BY <2>5, <2>6, <2>7
    <3>2. m # p
      BY <2>5, <2>12, <3>1, BeyondFacts
    <3>3. Beyond(Towards, m, p)
      BY <2>10, <2>11, <2>13, <3>1, <3>2
    <3>4. Beyond(Towards, m, n)
      BY <2>5, <2>12, <3>1, <3>3, BeyondFacts
    <3> QED BY <2>5, <2>12, <3>1, <3>4, BeyondFacts
  <2>14. n \in D[p] /\ Wanted \cap D[p] = {}
    BY <2>6, <2>10, <2>13
  <2>15. cur' = p /\ Towards' = Towards /\ Wanted' = Wanted
    BY <1>1, <2>3, SameWalk
  <2>16. WantedAbove(D)'
    BY <1>1, <2>2, <2>8, <2>14, <2>15 DEF WantedAbove
  <2> QED BY <1>1, <2>16 DEF Searches
<1> QED BY <1>1, <1>2, <1>3, GoesOn

\* A search begins at the root, and all that it looks for is below the root.
LEMMA AtRoot ==
    ASSUME NEW D, Shape(tree, D), tree' = tree, cur' = tree.root
    PROVE  /\ D[tree.root] = InTree(tree)
           /\ tree.root \in InTree(tree) \cup {Nil}
           /\ tree.root = Nil => InTree(tree) = {}
           /\ \A k : KeyBelow(D, k)'
<1>1. D[tree.root] = InTree(tree) /\ D[Nil] = {}
  BY DEF Shape, Ordered
<1>2. tree.root \in InTree(tree) \cup {Nil}
  BY DEF Shape, LinkedTree
<1> QED BY <1>1, <1>2 DEF KeyBelow

LEMMA BeginsSearch ==
    ASSUME Inv, AnswerInv, NEW n \in Nodes, myrbdemo_search(Key[n])
    PROVE  Follows
<1>1. /\ pc = "idle" /\ pc' = "search" /\ call' = <<"search", Key[n]>> /\ cur' = tree.root
      /\ tree' = tree /\ reply' = reply
  BY DEF myrbdemo_search, Begin
<1>2. CallShape'
  BY <1>1 DEF AnswerInv, CallShape, Undecided
<1>3. ASSUME NEW D, Shape(tree, D) PROVE Searches(D)'
  <2>1. \A k : KeyBelow(D, k)'
    BY <1>1, <1>3, AtRoot
  <2>2. KeyBelow(D, call[2])'
    BY <2>1 DEF KeyBelow
  <2> QED BY <1>1, <2>2 DEF Searches
<1> QED BY <1>1, <1>2, <1>3, GoesOn

LEMMA BeginsInsert ==
    ASSUME Inv, AnswerInv, NEW n \in Nodes, myrbdemo_insert(n)
    PROVE  Follows
<1>1. /\ pc = "idle" /\ pc' = "insert" /\ call' = <<"insert", n>> /\ cur' = tree.root
      /\ n \notin InTree(tree) /\ tree' = tree /\ reply' = reply
  BY DEF myrbdemo_insert, Begin
<1>2. CallShape'
  BY <1>1 DEF AnswerInv, CallShape, Undecided
<1>3. ASSUME NEW D, Shape(tree, D) PROVE Searches(D)'
  <2>1. \A k : KeyBelow(D, k)'
    BY <1>1, <1>3, AtRoot
  <2>2. KeyBelow(D, Key[call[2]])'
    BY <2>1 DEF KeyBelow
  <2> QED BY <1>1, <2>2 DEF Searches
<1> QED BY <1>1, <1>2, <1>3, GoesOn

LEMMA BeginsErase ==
    ASSUME Inv, AnswerInv, NEW e \in Nodes, myrbdemo_delete(e)
    PROVE  Follows
<1>1. /\ pc = "idle" /\ pc' = "erase" /\ call' = <<"erase", e>>
      /\ e \in InTree(tree) /\ tree' = tree /\ reply' = reply
  BY DEF myrbdemo_delete, Begin
<1>2. CallShape'
  BY <1>1 DEF AnswerInv, CallShape, Undecided
<1>3. ASSUME NEW D PROVE Searches(D)'
  BY <1>1 DEF Searches
<1> QED BY <1>1, <1>2, <1>3, GoesOn

LEMMA BeginsFirst ==
    ASSUME Inv, AnswerInv, NEW s \in Sides, rb_first(s)
    PROVE  Follows
<1>1. /\ pc = "idle" /\ pc' = "down" /\ call' = <<IF s = Left THEN "first" ELSE "last">>
      /\ cur' = tree.root /\ tree' = tree /\ reply' = reply
  BY DEF rb_first, Begin
<1>2. call' \in {<<"first">>, <<"last">>}
  BY <1>1
<1>3. CallShape'
  BY <1>1, <1>2 DEF AnswerInv, CallShape, Undecided
<1>4. Wanted' = InTree(tree)
  BY <1>1, <1>2 DEF Wanted
<1>5. ASSUME NEW D, Shape(tree, D) PROVE Searches(D)'
  <2>1. /\ D[tree.root] = InTree(tree) /\ tree.root \in InTree(tree) \cup {Nil}
        /\ tree.root = Nil => InTree(tree) = {}
    BY <1>1, <1>5, AtRoot
  <2>2. WantedBelow(D)'
    BY <1>1, <1>4, <2>1 DEF WantedBelow
  <2> QED BY <1>1, <2>2 DEF Searches
<1> QED BY <1>1, <1>3, <1>5, GoesOn

\* Next to a node on the side s is what is beyond it on that side: all of the
\* subtree there, and what the way up leads to.
LEMMA BeginsNext ==
    ASSUME Inv, AnswerInv, NEW n \in Nodes, NEW s \in Sides, rb_next(n, s)
    PROVE  Follows
<1>1. PICK c : c = tree.child[s][n]
  OBVIOUS
<1>2. /\ pc = "idle"
      /\ pc' = IF tree.parent[n] = n THEN "nowhere" ELSE IF c # Nil THEN "down" ELSE "up"
      /\ call' = <<IF s = Right THEN "next" ELSE "prev", n>>
      /\ cur' = IF tree.parent[n] # n /\ c # Nil THEN c ELSE n
      /\ tree' = tree /\ reply' = reply
  BY <1>1 DEF rb_next, Begin
<1>3. call' \in {<<"next", n>>, <<"prev", n>>}
  BY <1>2
<1>4. n \in InTree(tree) <=> tree.parent[n] # n
  BY DEF InTree
<1>5. CallShape'
  BY <1>2, <1>3, <1>4 DEF AnswerInv, CallShape, Undecided
<1>6. Opposite(Towards)' = s
  <2>1. CASE s = Right
    BY <1>2, <2>1 DEF Towards, Opposite
  <2>2. CASE s = Left
    BY <1>2, <2>2 DEF Towards, Opposite, Left, Right
  <2> QED BY <2>1, <2>2 DEF Sides
<1>7. call'[2] = n /\ call'[1] \notin {"first", "last"}
  BY <1>3
<1>8. Wanted' = {m \in InTree(tree) : Beyond(s, m, n)}
  BY <1>2, <1>6, <1>7 DEF Wanted
<1>9. InTree(tree) \subseteq Nodes
  BY DEF InTree
<1>10. ASSUME NEW D, Shape(tree, D) PROVE Searches(D)'
  <2>1. CASE n \notin InTree(tree)
    BY <1>2, <1>4, <2>1 DEF Searches
  <2>2. CASE n \in InTree(tree)
    <3>1. PICK d : d = tree.child[Opposite(s)][n]
      OBVIOUS
    <3>2. /\ D[n] = {n} \cup D[c] \cup D[d] /\ D[Nil] = {} /\ D[c] \subseteq InTree(tree)
          /\ \A x \in D[c] : Beyond(s, x, n)
          /\ c # Nil => c \in InTree(tree)
      BY <1>1, <1>10, <2>2, <3>1, NodeFacts
    <3>3. D[d] \subseteq InTree(tree) /\ \A x \in D[d] : Beyond(Opposite(s), x, n)
      <4>1. Opposite(s) \in Sides
        BY SideFacts
      <4> QED BY <1>10, <2>2, <3>1, <4>1, NodeFacts
    <3>4. \A m \in InTree(tree) : Beyond(s, m, n) /\ m \in D[n] => m \in D[c]
      <4> SUFFICES ASSUME NEW m \in InTree(tree), Beyond(s, m, n), m \in D[n] PROVE m \in D[c]
        OBVIOUS
      <4>1. m # n /\ ~ Beyond(Opposite(s), m, n)
        BY <1>9, BeyondFacts
      <4> QED BY <3>2, <3>3, <4>1
    <3>5. CASE c = Nil
      <4>1. n \in D[n] /\ {m \in InTree(tree) : Beyond(s, m, n)} \cap D[n] = {}
        BY <3>2, <3>4, <3>5
      <4>2. WantedAbove(D)'
        BY <1>2, <1>7, <1>8, <2>2, <3>5, <4>1 DEF WantedAbove
      <4> QED BY <1>2, <1>4, <2>2, <3>5, <4>2 DEF Searches
    <3>6. CASE c # Nil
      <4>1. ASSUME NEW m \in InTree(tree), Beyond(s, m, n), m \notin D[c], NEW x \in D[c]
            PROVE  Beyond(s, m, x)
        <5>1. m \notin D[n]
          BY <3>4, <4>1
        <5>2. PICK z \in Sides : \A y \in D[n] : Beyond(z, m, y)
          BY <1>10, <2>2, <5>1, OneSided
        <5>3. Beyond(z, m, n) /\ Beyond(z, m, x)
          BY <3>2, <5>2
        <5>4. z = s
          BY <1>9, <4>1, <5>3, SideFacts, BeyondFacts
        <5> QED BY <5>3, <5>4
      <4>2. /\ c \in InTree(tree) /\ D[c] \subseteq {m \in InTree(tree) : Beyond(s, m, n)}
            /\ cur' = c /\ pc' = "down"
        BY <1>2, <1>4, <2>2, <3>2, <3>6
      <4>3. WantedBelow(D)'
        <5>1. Opposite(Towards') = s
          BY <1>6
        <5>2. \A m \in Wanted' \ D[c] : \A x \in D[c] : Beyond(s, m, x)
          BY <1>8, <4>1
        <5> QED BY <1>2, <1>8, <3>6, <4>2, <5>1, <5>2 DEF WantedBelow
      <4> QED BY <4>2, <4>3 DEF Searches
    <3> QED BY <3>5, <3>6
  <2> QED BY <2>1, <2>2
<1> QED BY <1>2, <1>5, <1>10, GoesOn

LEMMA GoesOnErase ==
    ASSUME Inv, AnswerInv, SuccessorDown
    PROVE  Follows
<1>1. /\ pc \in {"erase", "successor"} /\ pc' = "successor" /\ call' = call
      /\ tree' = tree /\ reply' = reply
  BY DEF SuccessorDown
<1>2. CallShape'
  BY <1>1 DEF AnswerInv, CallShape, Undecided
<1>3. ASSUME NEW D PROVE Searches(D)'
  BY <1>1 DEF Searches
<1> QED BY <1>1, <1>2, <1>3, GoesOn

LEMMA Returns ==
    ASSUME Inv, AnswerInv, Return
    PROVE  Follows
<1>1. pc = "return" /\ pc' = "idle" /\ reply' = <<>> /\ tree' = tree
  BY DEF Return
<1>2. reply # <<>>
  BY <1>1 DEF AnswerInv, CallShape, Undecided
<1>3. AnswerInv'
  <2>1. CallShape'
    BY <1>1 DEF CallShape, Undecided
  <2>2. ASSUME NEW D PROVE Searches(D)'
    BY <1>1 DEF Searches
  <2> QED BY <2>1, <2>2 DEF AnswerInv
<1>4. Abstract!SetNext
  BY <1>1, <1>2 DEF Abstract!SetNext, Abstract!Return
<1> QED BY <1>3, <1>4 DEF Follows

\* The loops that rebalance the tree, and those of the augmented data.
LEMMA Mends ==
    ASSUME Inv, AnswerInv,
           \/ InsertRecolor \/ InsertRotate \/ InsertDone
           \/ EraseRecolor \/ EraseRotate \/ EraseDone
           \/ AugmentErased \/ AugmentUp
    PROVE  Follows
<1>1. CASE InsertRecolor \/ InsertRotate \/ InsertDone
  <2>1. pc = "insert_color" /\ pc' \in {"insert_color", "augment"} /\ reply' = reply
    BY <1>1 DEF InsertRecolor, InsertRotate, InsertDone, InsertRebalances
  <2>2. InTree(tree') = InTree(tree)
    BY <1>1, StepInsertRecolor, StepInsertRotate, StepInsertDone
  <2> QED BY <2>1, <2>2, Afterwards DEF Undecided
<1>2. CASE EraseRecolor \/ EraseRotate \/ EraseDone
  <2>1. pc = "erase_color" /\ pc' \in {"erase_color", "erased"} /\ reply' = reply
    BY <1>2 DEF EraseRecolor, EraseRotate, EraseDone, EraseRebalances
  <2>2. InTree(tree') = InTree(tree)
    BY <1>2, StepEraseRecolor, StepEraseRotate, StepEraseDone
  <2> QED BY <2>1, <2>2, Afterwards DEF Undecided
<1>3. CASE AugmentErased \/ AugmentUp
  <2>1. pc \in {"erased", "augment"} /\ pc' \in {"augment", "return"} /\ reply' = reply /\ tree' = tree
    BY <1>3 DEF AugmentErased, AugmentUp
  <2> QED BY <2>1, Afterwards DEF Undecided
<1> QED BY <1>1, <1>2, <1>3

\* Every call of the client, for any set of elements and any keys, comes to
\* what it comes to in a set with distinct keys, in one of its steps, and the
\* steps before and after it change neither the set nor the result: a search
\* finds the element of its key, an insertion is refused just when its key is
\* there, and the walks find the first, the last and the neighbours.
THEOREM Refinement == Spec => ImplementsOrderedSet
<1>1. Init => AnswerInv /\ Abstract!SetInit
  <2> SUFFICES ASSUME Init PROVE AnswerInv /\ Abstract!SetInit
    OBVIOUS
  <2>1. pc = "idle" /\ reply = <<>> /\ InTree(tree) = {}
    BY Zenon DEF Init, InTree
  <2>2. CallShape /\ \A D : Searches(D)
    BY <2>1 DEF CallShape, Searches, Undecided
  <2> QED BY <2>1, <2>2 DEF AnswerInv, Abstract!SetInit
<1>2. ASSUME Inv, AnswerInv, Next PROVE Follows
  <2>1. CASE ClientReads
    BY <1>2, <2>1, BeginsSearch, BeginsNext, BeginsFirst DEF ClientReads
  <2>2. CASE ClientWrites
    BY <1>2, <2>2, BeginsInsert, BeginsErase, AnswersReplace DEF ClientWrites
  <2>3. CASE SearchDown \/ SearchDone \/ InsertDown \/ InsertDuplicate \/ InsertLink
    BY <1>2, <2>3, GoesOnSearch, AnswersSearch, GoesOnInsert, AnswersDuplicate, AnswersInsert
  <2>4. CASE EraseNode \/ SuccessorDown \/ EraseSuccessor
    BY <1>2, <2>4, AnswersErase, GoesOnErase
  <2>5. CASE Walking
    BY <1>2, <2>5, GoesOnDown, GoesOnUp, AnswersWalkDone DEF Walking
  <2>6. CASE Return
    BY <1>2, <2>6, Returns
  <2>7. CASE InsertRecolor \/ InsertRotate \/ InsertDone \/ EraseRecolor \/ EraseRotate \/ EraseDone
             \/ AugmentErased \/ AugmentUp
    BY <1>2, <2>7, Mends
  <2> QED BY <1>2, <2>1, <2>2, <2>3, <2>4, <2>5, <2>6, <2>7
             DEF Next, Client, Library, Inserting, Erasing
<1>3. ASSUME AnswerInv, UNCHANGED vars PROVE Follows
  <2>1. tree' = tree /\ pc' = pc /\ call' = call /\ cur' = cur /\ reply' = reply
    BY <1>3 DEF vars
  <2>2. CallShape' /\ Towards' = Towards /\ Wanted' = Wanted
    BY <1>3, <2>1, SameWalk DEF AnswerInv, CallShape
  <2>3. ASSUME NEW D, Shape(tree, D) PROVE Searches(D)'
    <3>1. Searches(D)
      BY <1>3, <2>3 DEF AnswerInv
    <3>2. (WantedBelow(D) => WantedBelow(D)') /\ (WantedAbove(D) => WantedAbove(D)')
      BY <2>1, <2>2 DEF WantedBelow, WantedAbove
    <3>3. /\ KeyBelow(D, call[2]) => KeyBelow(D, call[2])'
          /\ KeyBelow(D, Key[call[2]]) => KeyBelow(D, Key[call[2]])'
      BY <2>1 DEF KeyBelow
    <3> QED BY <2>1, <3>1, <3>2, <3>3 DEF Searches
  <2> QED BY <2>1, <2>2, <2>3, GoesOn
<1>4. Inv /\ AnswerInv /\ [Next]_vars => AnswerInv' /\ [Abstract!SetNext]_(Abstract!vars)
  BY <1>2, <1>3 DEF Follows, Abstract!vars
<1> QED BY <1>1, <1>4, Invariance, PTL DEF Spec, ImplementsOrderedSet, Abstract!SetSpec


-----------------------------------------------------------------------------
(* The augmented data.                                                     *)

SizeOf(sz, m) == IF m = Nil THEN 0 ELSE sz[m]

\* The augmented data of x is that of its children in t, and one.
Fresh(t, sz, x) == sz[x] = 1 + SizeOf(sz, t.child[Left][x]) + SizeOf(sz, t.child[Right][x])

AllFresh(t, sz) == \A x \in InTree(t) : Fresh(t, sz, x)

\* What is not fresh is m, above m, or in S.
StaleAbove(t, sz, D, m, S) == \A x \in InTree(t) : Fresh(t, sz, x) \/ m \in D[x] \/ x \in S

\* What a walk up from c computes anew: the nodes on its way and their siblings.
OnPath(t, D, x, c) == x = t.root \/ c \in D[t.parent[x]] \ {t.parent[x]}

\* The walk up from c meets all that is not fresh.
Covers(t, sz, D, c) ==
    /\ c \in InTree(t)
    /\ \A x \in InTree(t) : Fresh(t, sz, x) \/ OnPath(t, D, x, c)

\* Whether a node is fresh depends on its children and on the three sizes.
LEMMA SameFresh ==
    ASSUME NEW t, NEW u, NEW sz, NEW rz, NEW x, rz[x] = sz[x],
           \A z \in Sides : SizeOf(rz, u.child[z][x]) = SizeOf(sz, t.child[z][x]),
           Fresh(t, sz, x)
    PROVE  Fresh(u, rz, x)
BY DEF Fresh, Sides

LEMMA SameChildren ==
    ASSUME NEW t, NEW u, NEW sz, NEW x, Fresh(t, sz, x),
           \A z \in Sides : u.child[z][x] = t.child[z][x]
    PROVE  Fresh(u, sz, x)
BY SameFresh

\* A walk up from a node below m meets what is above m.
LEMMA StaleCovered ==
    ASSUME NEW t, NEW D, Shape(t, D), NEW sz, NEW m \in InTree(t), NEW S, StaleAbove(t, sz, D, m, S),
           NEW c \in D[m], \A x \in S : OnPath(t, D, x, c)
    PROVE  Covers(t, sz, D, c)
<1>1. c \in InTree(t)
  BY Below
<1>2. ASSUME NEW x \in InTree(t), m \in D[x], x # t.root PROVE OnPath(t, D, x, c)
  <2>1. PICK q : q = t.parent[x]
    OBVIOUS
  <2>2. PICK s : s = SideOf(t, q, x)
    OBVIOUS
  <2>3. q \in InTree(t) /\ s \in Sides /\ t.child[s][q] = x
    <3>1. \A y \in InTree(t) : y # t.root => t.parent[y] # Nil
      BY ParentFacts
    <3> QED BY <1>2, <2>1, <2>2, <3>1, ParentFacts
  <2>4. D[x] \subseteq D[q] /\ q \notin D[x]
    BY <2>3, NodeFacts
  <2>5. c \in D[x]
    BY <1>2, Below
  <2> QED BY <2>1, <2>4, <2>5 DEF OnPath
<1>3. \A x \in InTree(t) : x = t.root => OnPath(t, D, x, c)
  BY DEF OnPath
<1> QED BY <1>1, <1>2, <1>3 DEF Covers, StaleAbove

\* Fewer nodes of S are left out when m is below the others.
LEMMA StaleFewer ==
    ASSUME NEW t, NEW sz, NEW D, NEW m, NEW S, StaleAbove(t, sz, D, m, S),
           NEW T, \A x \in S : m \in D[x] \/ x \in T
    PROVE  StaleAbove(t, sz, D, m, T)
BY DEF StaleAbove

\* Colours make no difference.
LEMMA StalePainted ==
    ASSUME NEW t, NEW u, SamePointers(t, u), NEW sz, NEW D
    PROVE  /\ \A m, S : StaleAbove(t, sz, D, m, S) => StaleAbove(u, sz, D, m, S)
           /\ \A c : Covers(t, sz, D, c) => Covers(u, sz, D, c)
           /\ AllFresh(t, sz) => AllFresh(u, sz)
<1>1. u.root = t.root /\ u.child = t.child /\ u.parent = t.parent
  BY DEF SamePointers
<1>2. InTree(u) = InTree(t) /\ \A x : Fresh(t, sz, x) <=> Fresh(u, sz, x)
  BY <1>1 DEF InTree, Fresh
<1> QED BY <1>1, <1>2 DEF StaleAbove, Covers, AllFresh, OnPath

\* A rotation of n makes n stale, the node that goes above it, and the parent.
LEMMA RotateStale ==
    ASSUME NEW t, NEW D, Shape(t, D), NEW n \in InTree(t), NEW s \in Sides,
           NEW up, up = t.child[Opposite(s)][n], up # Nil, NEW u, RotatedChildren(t, u, n, s),
           InTree(u) = InTree(t), NEW E, E = RotatedBelow(t, D, n, s),
           NEW sz, NEW m, m \in D[n] \/ m \in D[t.parent[n]], NEW S, StaleAbove(t, sz, D, m, S)
    PROVE  StaleAbove(u, sz, E, m, S \cup {n, up})
<1> SUFFICES ASSUME NEW x \in InTree(t), x # n, x # up, ~ Fresh(u, sz, x)
             PROVE  m \in E[x] \/ x \in S
  BY DEF StaleAbove
<1>1. InTree(t) \subseteq Nodes
  BY TreeTypes DEF Shape
<1>2. E[x] = D[x]
  BY <1>1 DEF RotatedBelow, NodeOrNil
<1>3. CASE \E z \in Sides : t.child[z][x] = n
  <2>1. D[n] \subseteq D[x] /\ t.parent[n] = x
    BY <1>3, NilAssumption, <1>1, NodeFacts
  <2> QED BY <1>2, <2>1
<1>4. CASE \A z \in Sides : t.child[z][x] # n
  <2>1. \A z \in Sides : u.child[z][x] = t.child[z][x]
    BY <1>1, <1>4 DEF RotatedChildren
  <2>2. ~ Fresh(t, sz, x)
    BY <2>1, SameChildren
  <2> QED BY <1>2, <2>2 DEF StaleAbove
<1> QED BY <1>3, <1>4


(* The walk of the augmented data.                                         *)

\* One call of the callback.
LEMMA AugmentOne ==
    ASSUME NEW D, Shape(tree, D), NEW sz \in [Nodes -> Nat], NEW n \in InTree(tree)
    PROVE  LET f == rb_augment_f(sz, n) IN
           /\ f \in [Nodes -> Nat]
           /\ Fresh(tree, f, n)
           /\ \A x \in InTree(tree) : Fresh(tree, sz, x) /\ x # tree.parent[n] => Fresh(tree, f, x)
<1>1. PICK f : f = rb_augment_f(sz, n)
  OBVIOUS
<1>2. PICK l : l = tree.child[Left][n]
  OBVIOUS
<1>3. PICK r : r = tree.child[Right][n]
  OBVIOUS
<1>4. f = [sz EXCEPT ![n] = 1 + SizeOf(sz, l) + SizeOf(sz, r)]
  BY <1>1, <1>2, <1>3 DEF rb_augment_f, SizeOf
<1>5. n \in Nodes /\ InTree(tree) \subseteq Nodes /\ n # Nil /\ Left \in Sides /\ Right \in Sides
  BY NilAssumption DEF InTree, Sides
<1>6. l # n /\ r # n
  BY <1>2, <1>3, <1>5, NodeFacts
<1>7. f \in [Nodes -> Nat]
  <2>1. tree \in Trees
    BY DEF Shape
  <2> QED BY <1>1, <1>5, <2>1, AugmentTypes
<1>8. \A x \in NodeOrNil : x # n => SizeOf(f, x) = SizeOf(sz, x)
  BY <1>4 DEF SizeOf, NodeOrNil
<1>9. l \in NodeOrNil /\ r \in NodeOrNil
  BY <1>2, <1>3, <1>5, TreeTypes DEF Shape
<1>10. Fresh(tree, f, n)
  <2>1. f[n] = 1 + SizeOf(sz, l) + SizeOf(sz, r)
    BY <1>4, <1>5
  <2>2. SizeOf(f, l) = SizeOf(sz, l) /\ SizeOf(f, r) = SizeOf(sz, r)
    BY <1>6, <1>8, <1>9
  <2> QED BY <1>2, <1>3, <2>1, <2>2 DEF Fresh
<1>11. ASSUME NEW x \in InTree(tree), Fresh(tree, sz, x), x # tree.parent[n] PROVE Fresh(tree, f, x)
  <2>1. CASE x = n
    BY <1>10, <2>1
  <2>2. CASE x # n
    <3>1. \A z \in Sides : tree.child[z][x] # n /\ tree.child[z][x] \in NodeOrNil
      <4>1. \A z \in Sides : tree.child[z][x] # n
        BY <1>5, <1>11, ParentFacts
      <4>2. \A z \in Sides : tree.child[z][x] \in NodeOrNil
        BY <1>5, TreeTypes DEF Shape
      <4> QED BY <4>1, <4>2
    <3>2. f[x] = sz[x]
      BY <1>4, <1>5, <2>2
    <3>3. \A z \in Sides : SizeOf(f, tree.child[z][x]) = SizeOf(sz, tree.child[z][x])
      BY <1>5, <1>8, <2>2, <3>1
    <3> QED BY <1>11, <3>2, <3>3, SameFresh
  <2> QED BY <2>1, <2>2
<1> QED BY <1>1, <1>7, <1>10, <1>11

\* One level of rb_augment_path: the cursor and its sibling are fresh then,
\* and no node but their parent stops being fresh.
LEMMA AugmentLevel ==
    ASSUME NEW D, Shape(tree, D), size \in [Nodes -> Nat], cur \in InTree(tree), AugmentUp,
           NEW x \in InTree(tree), x # tree.parent[cur],
           \/ Fresh(tree, size, x)
           \/ x = cur
           \/ tree.parent[cur] # Nil /\ tree.parent[x] = tree.parent[cur]
    PROVE  Fresh(tree, size', x)
<1>1. PICK p : p = tree.parent[cur]
  OBVIOUS
<1>2. PICK l : l = tree.child[Left][p]
  OBVIOUS
<1>3. PICK r : r = tree.child[Right][p]
  OBVIOUS
<1>4. PICK own : own = rb_augment_f(size, cur)
  OBVIOUS
<1>5. size' = IF p = Nil THEN own
              ELSE IF cur = l /\ r # Nil THEN rb_augment_f(own, r)
              ELSE IF l # Nil THEN rb_augment_f(own, l)
              ELSE own
  BY <1>1, <1>2, <1>3, <1>4 DEF AugmentUp
<1>6. /\ own \in [Nodes -> Nat] /\ Fresh(tree, own, cur)
      /\ \A y \in InTree(tree) : Fresh(tree, size, y) /\ y # p => Fresh(tree, own, y)
  BY <1>1, <1>4, AugmentOne
<1>7. CASE p = Nil
  BY <1>1, <1>5, <1>6, <1>7
<1>8. CASE p # Nil
  <2>1. p \in InTree(tree) /\ p # cur /\ (cur = l \/ cur = r)
    <3>1. p \in InTree(tree) /\ SideOf(tree, p, cur) \in Sides /\ tree.child[SideOf(tree, p, cur)][p] = cur /\ p # cur
      BY <1>1, <1>8, ParentFacts
    <3> QED BY <1>2, <1>3, <3>1 DEF Sides
  <2>2. /\ l # Nil => l \in InTree(tree) /\ tree.parent[l] = p
        /\ r # Nil => r \in InTree(tree) /\ tree.parent[r] = p
        /\ l # Nil => l # r
    <3>1. Left \in Sides /\ Right \in Sides /\ Opposite(Left) = Right
      BY DEF Sides, Opposite
    <3> QED BY <1>2, <1>3, <2>1, <3>1, NodeFacts
  <2>3. ASSUME tree.parent[x] = p PROVE x = l \/ x = r
    <3>1. SideOf(tree, p, x) \in Sides /\ tree.child[SideOf(tree, p, x)][p] = x
      BY <1>8, <2>3, ParentFacts
    <3> QED BY <1>2, <1>3, <3>1 DEF Sides
  <2>4. cur # Nil /\ cur \in InTree(tree) /\ x # Nil
    BY NilAssumption DEF InTree
  <2>5. ASSUME NEW w, w \in InTree(tree), tree.parent[w] = p, size' = rb_augment_f(own, w)
        PROVE  /\ Fresh(tree, size', w)
               /\ \A y \in InTree(tree) : Fresh(tree, own, y) /\ y # p => Fresh(tree, size', y)
    BY <1>6, <2>5, AugmentOne
  <2>6. x = l \/ x = r \/ Fresh(tree, own, x)
    BY <1>1, <1>6, <2>1, <2>3
  <2>7. CASE cur = l /\ r # Nil
    <3>1. size' = rb_augment_f(own, r)
      BY <1>5, <1>8, <2>7
    <3>2. Fresh(tree, size', r) /\ \A y \in InTree(tree) : Fresh(tree, own, y) /\ y # p => Fresh(tree, size', y)
      BY <2>2, <2>5, <2>7, <3>1
    <3> QED BY <1>1, <1>6, <2>1, <2>6, <2>7, <3>2
  <2>8. CASE ~ (cur = l /\ r # Nil) /\ l # Nil
    <3>1. size' = rb_augment_f(own, l)
      BY <1>5, <1>8, <2>8
    <3>2. Fresh(tree, size', l) /\ \A y \in InTree(tree) : Fresh(tree, own, y) /\ y # p => Fresh(tree, size', y)
      BY <2>2, <2>5, <2>8, <3>1
    <3>3. x = l \/ x = cur \/ Fresh(tree, own, x)
      BY <2>1, <2>2, <2>4, <2>6, <2>8, Zenon
    <3> QED BY <1>1, <1>6, <2>1, <3>2, <3>3
  <2>9. CASE ~ (cur = l /\ r # Nil) /\ l = Nil
    <3>1. size' = own /\ cur = r
      BY <1>5, <1>8, <2>1, <2>4, <2>9
    <3>2. x = cur \/ Fresh(tree, own, x)
      BY <2>4, <2>6, <2>9, <3>1
    <3> QED BY <1>1, <1>6, <3>1, <3>2
  <2> QED BY <2>7, <2>8, <2>9
<1> QED BY <1>7, <1>8

\* The walk up meets all that is not fresh, until nothing is left.
LEMMA AugmentClimbs ==
    ASSUME NEW D, Shape(tree, D), size \in [Nodes -> Nat], AugmentUp, Covers(tree, size, D, cur)
    PROVE  IF tree.parent[cur] = Nil THEN AllFresh(tree, size') ELSE Covers(tree, size', D, tree.parent[cur])
<1>1. PICK p : p = tree.parent[cur]
  OBVIOUS
<1>2. cur \in InTree(tree) /\ \A x \in InTree(tree) : Fresh(tree, size, x) \/ OnPath(tree, D, x, cur)
  BY DEF Covers
<1>3. D[Nil] = {} /\ \A x \in InTree(tree) : tree.parent[x] = Nil \/ tree.parent[x] \in InTree(tree)
  <2>1. D[Nil] = {}
    BY DEF Shape, Ordered
  <2> QED BY <2>1, ParentFacts
<1>4. ASSUME NEW x \in InTree(tree), ~ Fresh(tree, size', x), x # p
      PROVE  p # Nil /\ OnPath(tree, D, x, p)
  <2>1. ~ Fresh(tree, size, x) /\ x # cur /\ (p # Nil => tree.parent[x] # p)
    BY <1>1, <1>2, <1>4, AugmentLevel
  <2>2. OnPath(tree, D, x, cur)
    BY <1>2, <2>1
  <2>3. CASE x = tree.root
    <3>1. cur # tree.root
      BY <2>1, <2>3
    <3>2. p # Nil
      BY <1>1, <1>2, <3>1, ParentFacts
    <3> QED BY <2>3, <3>2 DEF OnPath
  <2>4. CASE x # tree.root
    <3>1. PICK q : q = tree.parent[x]
      OBVIOUS
    <3>2. cur \in D[q] /\ cur # q
      BY <2>2, <2>4, <3>1 DEF OnPath
    <3>3. q \in InTree(tree)
      BY <1>3, <3>1, <3>2
    <3>4. p \in D[q] /\ p # Nil
      BY <1>1, <3>2, <3>3, Below
    <3> QED BY <2>1, <3>1, <3>4 DEF OnPath
  <2> QED BY <2>3, <2>4
<1>5. CASE p = Nil
  <2>1. \A x \in InTree(tree) : x # Nil
    BY NilAssumption DEF InTree
  <2> QED BY <1>1, <1>4, <1>5, <2>1 DEF AllFresh
<1>6. CASE p # Nil
  <2>1. p \in InTree(tree)
    BY <1>1, <1>2, <1>3, <1>6
  <2>2. OnPath(tree, D, p, p)
    <3>1. CASE p = tree.root
      BY <3>1 DEF OnPath
    <3>2. CASE p # tree.root
      <4>1. PICK q : q = tree.parent[p]
        OBVIOUS
      <4>2. PICK z : z = SideOf(tree, q, p)
        OBVIOUS
      <4>3. q # Nil
        BY <2>1, <3>2, <4>1, ParentFacts
      <4>4. q \in InTree(tree) /\ q # p /\ z \in Sides /\ tree.child[z][q] = p
        BY <2>1, <4>1, <4>2, <4>3, ParentFacts
      <4>5. p \in D[p] /\ D[p] \subseteq D[q]
        <5>1. p # Nil
          BY <1>6
        <5> QED BY <4>4, <5>1, NodeFacts
      <4> QED BY <4>1, <4>4, <4>5 DEF OnPath
    <3> QED BY <3>1, <3>2
  <2> QED BY <1>1, <1>4, <1>6, <2>1, <2>2 DEF Covers
<1> QED BY <1>5, <1>6


(* What a change of the tree makes stale.                                  *)

LEMMA LinkStale ==
    ASSUME NEW t, NEW D, Shape(t, D), NEW n \in Nodes, NEW p \in NodeOrNil, NEW s \in Sides,
           p # Nil => p \in InTree(t), NEW u, Links(t, u, n, p, s), InTree(u) = InTree(t) \cup {n},
           NEW E, E = LinkedBelow(D, n, p), NEW sz, AllFresh(t, sz)
    PROVE  StaleAbove(u, sz, E, n, {}) /\ n \in E[n]
<1>1. InTree(t) \subseteq Nodes
  BY DEF InTree
<1>2. n \in E[n]
  BY DEF LinkedBelow, NodeOrNil
<1>3. ASSUME NEW x \in InTree(t), x # n PROVE Fresh(u, sz, x) \/ n \in E[x]
  <2>1. CASE x = p
    <3>1. p \in D[p]
      BY <2>1, Below, SideFacts, NodeFacts
    <3> QED BY <1>1, <1>3, <2>1, <3>1 DEF LinkedBelow, NodeOrNil
  <2>2. CASE x # p
    <3>1. \A z \in Sides : u.child[z][x] = t.child[z][x]
      BY <1>1, <1>3, <2>2 DEF Links
    <3> QED BY <3>1, SameChildren DEF AllFresh
  <2> QED BY <2>1, <2>2
<1> QED BY <1>2, <1>3 DEF StaleAbove

\* The walk of rb_augment_erase_end starts from d, the node in the place of
\* the one that has left, or the parent when no node has taken that place.
Leaves(u, sz, E, c, q, d) ==
    IF d = Nil THEN InTree(u) = {}
    ELSE /\ d \in InTree(u)
         /\ StaleAbove(u, sz, E, d, {})
         /\ (d = q /\ c = Nil) \/ d \in E[c]

LEMMA RemoveStale ==
    ASSUME NEW t, NEW D, Shape(t, D), NEW e \in InTree(t), NEW s \in Sides,
           t.child[Opposite(s)][e] = Nil, NEW c, c = t.child[s][e],
           NEW u, Removes(t, u, e, c), InTree(u) = InTree(t) \ {e},
           NEW E, Without(D, e, E),
           NEW sz \in [Nodes -> Nat], AllFresh(t, sz), NEW rz, rz = [sz EXCEPT ![e] = 0],
           NEW d, d = IF c # Nil THEN c ELSE t.parent[e]
    PROVE  Leaves(u, rz, E, c, t.parent[e], d)
<1>1. PICK q : q = t.parent[e]
  OBVIOUS
<1>2. InTree(t) \subseteq Nodes /\ \A x \in InTree(t) : x # Nil
  BY NilAssumption DEF InTree
<1>3. \A x \in NodeOrNil : E[x] = D[x] \ {e}
  BY Zenon DEF Without
<1>4. /\ D[e] = {e} \cup D[c] /\ e \notin D[c] /\ D[Nil] = {}
      /\ c # Nil => c \in InTree(t) /\ c \in D[c] /\ c # e
  <2>1. D[e] = {e} \cup D[c] \cup D[Nil]
    BY NodeFacts
  <2> QED BY <2>1, NodeFacts
<1>5. q # Nil => q \in InTree(t) /\ q # e /\ D[e] \subseteq D[q] /\ q \in D[q]
  <2>1. ASSUME q # Nil PROVE q \in InTree(t) /\ q # e /\ D[e] \subseteq D[q] /\ q \in D[q]
    <3>1. PICK z : z = SideOf(t, q, e)
      OBVIOUS
    <3>2. q \in InTree(t) /\ q # e /\ z \in Sides /\ t.child[z][q] = e
      BY <1>1, <2>1, <3>1, ParentFacts
    <3> QED BY <3>2, NodeFacts
  <2> QED BY <2>1
<1>6. CASE d = Nil
  <2>1. c = Nil /\ q = Nil
    BY <1>1, <1>6
  <2>2. t.root = e
    <3>1. \A x \in InTree(t) : t.parent[x] = Nil => t.root = x
      BY ParentFacts
    <3> QED BY <1>1, <2>1, <3>1
  <2>3. D[e] = InTree(t)
    BY <2>2 DEF Shape, Ordered
  <2> QED BY <1>4, <1>6, <2>1, <2>3 DEF Leaves
<1>7. CASE d # Nil
  <2>1. d \in InTree(t) /\ d # e /\ (q # Nil => d \in D[q])
    BY <1>1, <1>4, <1>5, <1>7
  <2>2. (d = q /\ c = Nil) \/ d \in E[c]
    <3>1. ASSUME c # Nil PROVE d \in E[c]
      BY <1>2, <1>3, <1>4, <3>1 DEF NodeOrNil
    <3> QED BY <1>1, <3>1
  <2>3. ASSUME NEW x \in InTree(t), x # e, x # q PROVE Fresh(u, rz, x)
    <3>1. \A z \in Sides : t.child[z][x] # e
      BY <1>1, <1>2, <2>3, ParentFacts
    <3>2. \A z \in Sides : u.child[z][x] = t.child[z][x]
      BY <1>2, <2>3, <3>1 DEF Removes
    <3>3. \A z \in Sides : t.child[z][x] \in NodeOrNil
      BY <1>2, TreeTypes DEF Shape
    <3>4. \A y \in NodeOrNil : y # e => SizeOf(rz, y) = SizeOf(sz, y)
      BY DEF SizeOf, NodeOrNil
    <3>5. \A z \in Sides : SizeOf(rz, u.child[z][x]) = SizeOf(sz, t.child[z][x])
      BY <3>1, <3>2, <3>3, <3>4
    <3>6. rz[x] = sz[x]
      BY <1>2, <2>3
    <3> QED BY <3>5, <3>6, SameFresh DEF AllFresh
  <2>4. q \in InTree(t) => d \in E[q]
    BY <1>2, <1>3, <2>1 DEF NodeOrNil
  <2>5. StaleAbove(u, rz, E, d, {})
    BY <2>3, <2>4 DEF StaleAbove
  <2> QED BY <1>1, <1>7, <2>1, <2>2, <2>5, Zenon DEF Leaves
<1> QED BY <1>6, <1>7

Clears(sz, rz, e) == rz = [sz EXCEPT ![e] = 0]

LEMMA SuccessorStale ==
    ASSUME NEW t, NEW D, Shape(t, D), NEW e \in InTree(t), t.child[Left][e] # Nil,
           NEW y, IsSuccessor(t, D, e, y),
           NEW m, Removes(t, m, y, t.child[Right][y]), NEW u, Replaces(m, u, e, y),
           InTree(u) = InTree(t) \ {e},
           NEW Dm, Without(D, y, Dm), NEW E, E = ReplacedBelow(Dm, e, y),
           NEW sz \in [Nodes -> Nat], AllFresh(t, sz), NEW rz, Clears(sz, rz, e),
           NEW c, c = t.child[Right][y], NEW q, q = IF t.parent[y] = e THEN y ELSE t.parent[y],
           NEW d, d = IF c # Nil THEN c ELSE q
    PROVE  Leaves(u, rz, E, c, q, d)
<1>1. PICK p : p = t.parent[y]
  OBVIOUS
<1>2. PICK r : r = t.child[Right][e]
  OBVIOUS
<1>3. InTree(t) \subseteq Nodes /\ \A x \in InTree(t) : x # Nil
  BY NilAssumption DEF InTree
<1>4. /\ y \in InTree(t) /\ y # e
      /\ r \in InTree(t) /\ p \in InTree(t) /\ p # y
      /\ c \in NodeOrNil /\ c # e /\ c # y
      /\ c # Nil => c \in InTree(t)
  BY <1>1, <1>2, SuccessorNodes
<1>5. Left \in Sides /\ Right \in Sides /\ Opposite(Right) = Left /\ t.child[Left][y] = Nil
  BY Zenon DEF Sides, Opposite, Left, Right, IsSuccessor
<1>6. /\ D[e] = {e} \cup D[r] \cup D[t.child[Left][e]] /\ e \notin D[r] /\ D[r] \subseteq D[e]
  <2>1. D[e] = {e} \cup D[r] \cup D[t.child[Opposite(Right)][e]] /\ e \notin D[r]
    BY <1>2, <1>5, NodeFacts
  <2> QED BY <1>5, <2>1
<1>7. y \in D[r] /\ D[y] \subseteq D[r]
  <2>1. y \in D[r]
    BY <1>2 DEF IsSuccessor
  <2> QED BY <1>4, <2>1, Below
<1>8. c # Nil => c \in D[c] /\ D[c] \subseteq D[y] /\ y \notin D[c]
  <2>1. D[y] = {y} \cup D[c] \cup D[t.child[Opposite(Right)][y]] /\ y \notin D[c] /\ (c # Nil => c \in D[c])
    BY <1>4, <1>5, NodeFacts
  <2> QED BY <2>1
<1>9. p # e => p \in D[r] /\ D[p] \subseteq D[r] /\ D[y] \subseteq D[p] /\ p \in D[p]
  <2>1. p = e <=> y = r
    BY <1>1, <1>2, SuccessorNodes
  <2>2. p # e => p \in D[r]
    BY <1>1, <1>4, <1>7, <2>1, Below
  <2>3. PICK z : z = SideOf(t, p, y)
    OBVIOUS
  <2>4. z \in Sides /\ t.child[z][p] = y
    BY <1>1, <1>3, <1>4, <2>3, ParentFacts
  <2>5. D[y] \subseteq D[p] /\ p \in D[p]
    BY <1>3, <1>4, <2>4, NodeFacts
  <2> QED BY <1>4, <2>2, <2>5, Below, Zenon
<1>10. \A x \in NodeOrNil : Dm[x] = D[x] \ {y}
  BY DEF Without
<1>11. \A x \in NodeOrNil : \A w : w \in E[x] <=>
         LET o == IF x = y THEN e ELSE x
         IN (w \in Dm[o] /\ w # e) \/ (w = y /\ e \in Dm[o])
  BY SwappedNodes DEF ReplacedBelow
<1>12. e \in NodeOrNil /\ y \in NodeOrNil /\ p \in NodeOrNil
  BY <1>3, <1>4 DEF NodeOrNil
<1>13. d \in InTree(u) /\ d # Nil /\ d # e
  BY <1>1, <1>3, <1>4, Zenon
<1>14. d = y \/ (d # y /\ d \in D[r])
  BY <1>1, <1>4, <1>7, <1>8, <1>9
<1>15. d \in E[y]
  BY <1>4, <1>6, <1>10, <1>11, <1>12, <1>13, <1>14
<1>16. p # e => d \in E[p]
  <2> SUFFICES ASSUME p # e PROVE d \in E[p]
    OBVIOUS
  <2>1. d # y /\ d \in D[p]
    BY <1>1, <1>4, <1>8, <1>9
  <2> QED BY <1>4, <1>10, <1>11, <1>12, <1>13, <2>1
<1>17. ASSUME NEW x \in InTree(t), x # y, e \in D[x] PROVE d \in E[x]
  <2>1. D[e] \subseteq D[x] /\ x \in NodeOrNil
    BY <1>3, <1>17, Below DEF NodeOrNil
  <2> QED BY <1>4, <1>6, <1>10, <1>11, <1>13, <1>14, <1>17, <2>1
<1>18. (d = q /\ c = Nil) \/ d \in E[c]
  <2> SUFFICES ASSUME c # Nil PROVE d \in E[c]
    OBVIOUS
  <2>1. c \in D[c] /\ d = c
    BY <1>8
  <2> QED BY <1>4, <1>10, <1>11, <2>1
<1>19. ASSUME NEW x \in InTree(t), x # e, x # y, x # p, x # t.parent[e] PROVE Fresh(u, rz, x)
  <2>1. x \in Nodes /\ \A z \in Sides : t.child[z][x] # e /\ t.child[z][x] # y /\ t.child[z][x] \in NodeOrNil
    <3>1. \A z \in Sides : t.child[z][x] # e
      BY <1>3, <1>19, ParentFacts
    <3>2. \A z \in Sides : t.child[z][x] # y
      BY <1>1, <1>3, <1>4, <1>19, ParentFacts
    <3>3. \A z \in Sides : t.child[z][x] \in NodeOrNil
      BY <1>3, TreeTypes DEF Shape
    <3> QED BY <1>3, <3>1, <3>2, <3>3, Zenon
  <2>2. \A z \in Sides : m.child[z][x] = t.child[z][x]
    BY <1>19, <2>1 DEF Removes
  <2>3. \A z \in Sides : u.child[z][x] = t.child[z][x]
    BY <1>19, <2>1, <2>2 DEF Replaces
  <2>4. \A w \in NodeOrNil : w # e => SizeOf(rz, w) = SizeOf(sz, w)
    BY DEF Clears, SizeOf, NodeOrNil
  <2>5. \A z \in Sides : SizeOf(rz, u.child[z][x]) = SizeOf(sz, t.child[z][x])
    BY <2>1, <2>3, <2>4
  <2>6. rz[x] = sz[x]
    BY <1>19, <2>1 DEF Clears
  <2> QED BY <2>5, <2>6, SameFresh DEF AllFresh
<1>20. ASSUME NEW x \in InTree(t), x # y, x = t.parent[e] PROVE e \in D[x]
  <2>1. PICK z : z = SideOf(t, x, e)
    OBVIOUS
  <2>2. z \in Sides /\ t.child[z][x] = e
    BY <1>3, <1>20, <2>1, ParentFacts
  <2> QED BY <1>3, <2>2, NodeFacts
<1>21. StaleAbove(u, rz, E, d, {})
  <2> SUFFICES ASSUME NEW x \in InTree(t), x # e PROVE Fresh(u, rz, x) \/ d \in E[x]
    BY DEF StaleAbove
  <2>1. CASE x = y
    BY <1>15, <2>1
  <2>2. CASE x # y /\ x = p
    BY <1>16, <2>2
  <2>3. CASE x # y /\ x = t.parent[e]
    BY <1>17, <1>20, <2>3
  <2> QED BY <1>19, <2>1, <2>2, <2>3
<1> QED BY <1>13, <1>18, <1>21 DEF Leaves

\* The new element takes over the data of the old one.
Moves(sz, rz, v, n) == rz = [sz EXCEPT ![n] = sz[v], ![v] = 0]

LEMMA ReplaceFresh ==
    ASSUME NEW t, NEW D, Shape(t, D), NEW v \in InTree(t), NEW n \in Nodes, n \notin InTree(t),
           NEW u, Replaces(t, u, v, n), InTree(u) = (InTree(t) \ {v}) \cup {n},
           NEW sz \in [Nodes -> Nat], AllFresh(t, sz),
           NEW rz, Moves(sz, rz, v, n)
    PROVE  AllFresh(u, rz)
<1>1. InTree(t) \subseteq Nodes /\ v # n /\ \A x \in InTree(t) : x # Nil
  BY NilAssumption DEF InTree
<1>2. /\ rz[n] = sz[v] /\ \A x \in Nodes : x # n /\ x # v => rz[x] = sz[x]
  BY <1>1 DEF Moves
<1>3. n # Nil /\ v # Nil
  BY <1>1, NilAssumption
<1>4. SizeOf(rz, n) = SizeOf(sz, v) /\ \A x \in NodeOrNil : x # n /\ x # v => SizeOf(rz, x) = SizeOf(sz, x)
  BY <1>2, <1>3 DEF SizeOf, NodeOrNil
<1>5. \A x \in InTree(t) : \A z \in Sides : t.child[z][x] \in NodeOrNil /\ t.child[z][x] # n /\ t.child[z][x] # x
  BY <1>1, <1>3, NodeFacts DEF NodeOrNil
<1>6. Fresh(u, rz, n)
  <2>1. \A z \in Sides : u.child[z][n] = t.child[z][v]
    BY <1>1 DEF Replaces
  <2>2. \A z \in Sides : SizeOf(rz, u.child[z][n]) = SizeOf(sz, t.child[z][v])
    BY <1>4, <1>5, <2>1
  <2>3. Fresh(t, sz, v)
    BY DEF AllFresh
  <2> QED BY <1>2, <2>2, <2>3 DEF Fresh, Sides
<1>7. ASSUME NEW x \in InTree(t), x # v PROVE Fresh(u, rz, x)
  <2>1. x # n /\ x \in Nodes
    BY <1>1
  <2>2. \A z \in Sides : u.child[z][x] = IF t.child[z][x] = v THEN n ELSE t.child[z][x]
    BY <1>7, <2>1 DEF Replaces
  <2>3. \A z \in Sides : SizeOf(rz, u.child[z][x]) = SizeOf(sz, t.child[z][x])
    BY <1>4, <1>5, <2>2
  <2>4. rz[x] = sz[x] /\ Fresh(t, sz, x)
    BY <1>2, <1>7, <2>1 DEF AllFresh
  <2> QED BY <2>3, <2>4, SameFresh
<1> QED BY <1>6, <1>7 DEF AllFresh


(* The rotations of the rebalancing.                                       *)

\* Two nodes painted.
LEMMA TwoPaints ==
    ASSUME NEW t \in Trees, NEW a \in Nodes, NEW b \in Nodes, NEW c \in {Red, Black}, NEW d \in {Red, Black}
    PROVE  SamePointers(t, Paint(Paint(t, a, c), b, d))
<1>1. PICK m : m = Paint(t, a, c)
  OBVIOUS
<1>2. Paints(t, m, a, c)
  BY <1>1, PaintPoints
<1>3. m \in Trees /\ m.root = t.root /\ m.child = t.child /\ m.parent = t.parent
  BY <1>2 DEF Paints
<1>4. Paints(m, Paint(m, b, d), b, d)
  BY <1>3, PaintPoints
<1> QED BY <1>1, <1>3, <1>4 DEF Paints, SamePointers

LEMMA AugmentStart ==
    ASSUME NEW t, NEW D, Shape(t, D), NEW m \in InTree(t), NEW c, c = rb_augment_insert(t, m)
    PROVE  c \in D[m] /\ (t.child[Left][m] # Nil => c # m)
<1>1. Left \in Sides /\ Right \in Sides /\ Opposite(Left) = Right
  BY DEF Sides, Opposite
<1>2. D[m] = {m} \cup D[t.child[Left][m]] \cup D[t.child[Right][m]]
  BY <1>1, NodeFacts
<1>3. /\ t.child[Left][m] # Nil => t.child[Left][m] \in D[t.child[Left][m]] /\ t.child[Left][m] # m
      /\ t.child[Right][m] # Nil => t.child[Right][m] \in D[t.child[Right][m]]
  BY <1>1, NodeFacts
<1> QED BY <1>2, <1>3 DEF rb_augment_insert

\* The nodes that a rotation has put below top, above which m has stayed or
\* come, are siblings on the way up from m or from a child of m.
LEMMA BelowTop ==
    ASSUME NEW t, NEW D, Shape(t, D), NEW top \in InTree(t), NEW m \in D[top],
           m # top \/ t.child[Left][m] # Nil,
           NEW c, c = rb_augment_insert(t, m), NEW x, t.parent[x] = top
    PROVE  c \in D[m] /\ OnPath(t, D, x, c)
<1>1. m \in InTree(t) /\ D[m] \subseteq D[top] /\ (m # top => top \notin D[m])
  BY Below
<1>2. c \in D[m] /\ (t.child[Left][m] # Nil => c # m)
  BY <1>1, AugmentStart
<1> QED BY <1>1, <1>2 DEF OnPath

\* rb_insert_color: the nodes that go down are met on the way up.
LEMMA InsertRotatedStale ==
    ASSUME NEW t, NEW D, Shape(t, D), NEW n \in InTree(t), IsRed(t, t.parent[n]),
           \A x \in InTree(t) : x # n => RedAt(t, x),
           NEW u, u = InsertRotated(t, n),
           NEW sz, NEW m \in D[n], StaleAbove(t, sz, D, m, {})
    PROVE  InTree(u) = InTree(t) /\ \E E : Shape(u, E) /\ Covers(u, sz, E, rb_augment_insert(u, m))
<1>1. PICK p : p = t.parent[n]
  OBVIOUS
<1>2. PICK g : g = t.parent[p]
  OBVIOUS
<1>3. PICK s : s = SideOf(t, g, p)
  OBVIOUS
<1>4. PICK uncle : uncle = t.child[Opposite(s)][g]
  OBVIOUS
<1>5. /\ n \in Nodes /\ p \in Nodes /\ g \in Nodes /\ p \in InTree(t) /\ g \in InTree(t)
      /\ p # n /\ g # n /\ g # p /\ s \in Sides /\ t.child[s][g] = p
      /\ IsInner(t, n) <=> t.child[Opposite(s)][p] = n
      /\ ~ IsInner(t, n) => t.child[s][p] = n
  <2>1. Around(t, n, p, g, s, uncle)
    BY <1>1, <1>2, <1>3, <1>4, InsertNodes
  <2> QED BY <2>1 DEF Around
<1>6. /\ t \in Trees /\ Opposite(s) \in Sides /\ Opposite(Opposite(s)) = s /\ Opposite(s) # s
      /\ n # Nil /\ p # Nil /\ g # Nil
  BY <1>5, SideFacts, NilAssumption DEF Shape
<1>7. /\ m \in InTree(t) /\ D[n] \subseteq D[p] /\ D[p] \subseteq D[g] /\ p \notin D[n]
      /\ n \in D[p] /\ p \in D[g] /\ g \notin D[p]
  <2>1. t.child[s][p] = n \/ t.child[Opposite(s)][p] = n
    BY <1>5, Zenon
  <2>2. D[n] \subseteq D[p] /\ p \notin D[n] /\ n \in D[n]
    BY <1>5, <1>6, <2>1, NodeFacts
  <2>3. D[p] \subseteq D[g] /\ g \notin D[p] /\ p \in D[p]
    BY <1>5, <1>6, NodeFacts
  <2> QED BY <2>2, <2>3, Below
<1>8. PICK c : c = rb_augment_insert(u, m)
  OBVIOUS
<1>9. CASE ~ IsInner(t, n)
  <2>1. PICK w : w = Paint(Paint(t, p, Black), g, Red)
    OBVIOUS
  <2>2. u = rb_rotate(w, g, Opposite(s))
    BY <1>1, <1>2, <1>3, <1>9, <2>1 DEF InsertRotated
  <2>3. SamePointers(t, w)
    BY <1>5, <1>6, <2>1, TwoPaints DEF Red, Black
  <2>4. PICK E : E = RotatedBelow(t, D, g, Opposite(s))
    OBVIOUS
  <2>5. t.child[Opposite(Opposite(s))][g] = p
    BY <1>5, <1>6
  <2>6. /\ RotatedChildren(t, u, g, Opposite(s)) /\ RotatedParents(t, u, g, Opposite(s))
        /\ InTree(u) = InTree(t) /\ Shape(u, E)
    BY <1>5, <1>6, <2>2, <2>3, <2>4, <2>5, PaintedRotation
  <2>7. StaleAbove(u, sz, E, m, {} \cup {g, p})
    <3>1. m \in D[g]
      BY <1>7
    <3> QED BY <1>5, <1>6, <2>4, <2>5, <2>6, <3>1, RotateStale
  <2>8. m \in E[p]
    BY <1>5, <1>7, <2>4, <2>5 DEF RotatedBelow, NodeOrNil
  <2>9. u.parent[g] = p
    BY <1>5, <2>5, <2>6 DEF RotatedParents
  <2>10. m # p
    BY <1>7
  <2>11. p \in InTree(u) /\ m \in InTree(u)
    BY <1>5, <1>7, <2>6
  <2>12. c \in E[m] /\ OnPath(u, E, g, c)
    BY <1>8, <2>6, <2>8, <2>9, <2>10, <2>11, BelowTop
  <2>13. StaleAbove(u, sz, E, m, {g})
    <3>1. \A x \in {} \cup {g, p} : m \in E[x] \/ x \in {g}
      BY <2>8
    <3> QED BY <2>7, <3>1, StaleFewer
  <2>14. Covers(u, sz, E, c)
    BY <2>6, <2>11, <2>12, <2>13, StaleCovered
  <2> QED BY <1>8, <2>6, <2>14
<1>10. CASE IsInner(t, n)
  <2>1. PICK v : v = rb_rotate(t, p, s)
    OBVIOUS
  <2>2. PICK w : w = Paint(Paint(v, n, Black), g, Red)
    OBVIOUS
  <2>3. u = rb_rotate(w, g, Opposite(s))
    BY <1>1, <1>2, <1>3, <1>10, <2>1, <2>2 DEF InsertRotated
  <2>4. PICK F : F = RotatedBelow(t, D, p, s)
    OBVIOUS
  <2>5. t.child[Opposite(s)][p] = n
    BY <1>5, <1>10
  <2>6. SamePointers(t, t)
    BY <1>6 DEF SamePointers
  <2>7. /\ v \in Trees /\ RotatedChildren(t, v, p, s) /\ RotatedParents(t, v, p, s)
        /\ InTree(v) = InTree(t) /\ Shape(v, F)
    BY <1>5, <1>6, <2>1, <2>4, <2>5, <2>6, PaintedRotation
  <2>8. StaleAbove(v, sz, F, m, {} \cup {p, n})
    <3>1. m \in D[p]
      BY <1>7
    <3> QED BY <1>5, <1>6, <2>4, <2>5, <2>7, <3>1, RotateStale
  <2>9. m \in F[n] /\ F[n] = D[p] /\ F[g] = D[g]
    BY <1>5, <1>7, <2>4, <2>5 DEF RotatedBelow, NodeOrNil
  <2>10. StaleAbove(v, sz, F, m, {p})
    <3>1. \A x \in {} \cup {p, n} : m \in F[x] \/ x \in {p}
      BY <2>9
    <3> QED BY <2>8, <3>1, StaleFewer
  <2>11. v.child[s][g] = n /\ v.child[s][n] = p /\ v.parent[p] = n
    <3>1. v.child[s][g] = n /\ v.child[s][n] = p
      BY <1>5, <2>5, <2>7 DEF RotatedChildren
    <3>2. v.parent[p] = n
      BY <1>5, <2>5, <2>7 DEF RotatedParents
    <3> QED BY <3>1, <3>2
  <2>12. SamePointers(v, w)
    BY <1>5, <2>2, <2>7, TwoPaints DEF Red, Black
  <2>13. PICK E : E = RotatedBelow(v, F, g, Opposite(s))
    OBVIOUS
  <2>14. v.child[Opposite(Opposite(s))][g] = n
    BY <1>6, <2>11
  <2>15. g \in InTree(v) /\ n \in InTree(v) /\ p \in InTree(v)
    BY <1>5, <2>7
  <2>16. /\ RotatedChildren(v, u, g, Opposite(s)) /\ RotatedParents(v, u, g, Opposite(s))
         /\ InTree(u) = InTree(v) /\ Shape(u, E)
    BY <1>6, <2>3, <2>7, <2>12, <2>13, <2>14, <2>15, PaintedRotation
  <2>17. StaleAbove(u, sz, E, m, {p} \cup {g, n})
    <3>1. m \in F[g]
      BY <1>7, <2>9
    <3> QED BY <1>6, <2>7, <2>10, <2>13, <2>14, <2>15, <2>16, <3>1, RotateStale
  <2>18. m \in E[n]
    <3>1. E[n] = F[g]
      BY <1>5, <2>13, <2>14 DEF RotatedBelow, NodeOrNil
    <3> QED BY <1>7, <2>9, <3>1
  <2>19. u.parent[g] = n /\ u.parent[p] = n
    <3>1. v.child[Opposite(s)][n] # p
      BY <1>6, <1>5, <2>7, <2>11, <2>15, NodeFacts
    <3> QED BY <1>5, <2>11, <2>14, <2>16, <3>1 DEF RotatedParents
  <2>20. u.child[Left][n] # Nil
    <3>1. \A z \in Sides : u.child[z][n] = IF z = Opposite(s) THEN g ELSE v.child[z][n]
      BY <1>5, <2>14, <2>16 DEF RotatedChildren
    <3>2. \A z \in Sides : u.child[z][n] = g \/ u.child[z][n] = p
      BY <1>5, <2>11, <3>1, SideFacts
    <3> QED BY <1>6, <3>2 DEF Sides
  <2>21. m \in InTree(u) /\ n \in InTree(u)
    BY <1>7, <2>7, <2>15, <2>16
  <2>22. m # n \/ u.child[Left][m] # Nil
    BY <2>20
  <2>23. c \in E[m] /\ OnPath(u, E, g, c) /\ OnPath(u, E, p, c)
    BY <1>8, <2>16, <2>18, <2>19, <2>21, <2>22, BelowTop
  <2>24. StaleAbove(u, sz, E, m, {p, g})
    <3>1. \A x \in {p} \cup {g, n} : m \in E[x] \/ x \in {p, g}
      BY <2>18
    <3> QED BY <2>17, <3>1, StaleFewer
  <2>25. \A x \in {p, g} : OnPath(u, E, x, c)
    BY <2>23
  <2>26. Covers(u, sz, E, c)
    BY <2>16, <2>21, <2>23, <2>24, <2>25, StaleCovered
  <2> QED BY <1>8, <2>7, <2>16, <2>26
<1> QED BY <1>9, <1>10


\* __rb_erase_color: the red sibling that goes up is above the stale ones.
LEMMA BlackSiblingStale ==
    ASSUME NEW t, NEW D, Shape(t, D), NEW p \in InTree(t), NEW s \in Sides,
           t.child[Opposite(s)][p] # Nil, NEW u, u = BlackSibling(t, p, s),
           NEW sz, NEW d, d = p \/ d \in D[t.child[s][p]], StaleAbove(t, sz, D, d, {})
    PROVE  /\ InTree(u) = InTree(t)
           /\ \E E : Shape(u, E) /\ StaleAbove(u, sz, E, d, {}) /\ (d = p \/ d \in E[u.child[s][p]])
<1>1. PICK other : other = t.child[Opposite(s)][p]
  OBVIOUS
<1>2. PICK near : near = t.child[s][p]
  OBVIOUS
<1>3. /\ t \in Trees /\ p \in Nodes /\ near \in NodeOrNil /\ near # p /\ near # other
      /\ other \in Nodes /\ other # p /\ Opposite(s) \in Sides
  <2>1. t \in Trees /\ p \in Nodes /\ p # Nil /\ Opposite(s) \in Sides /\ Opposite(Opposite(s)) = s
    BY SideFacts, NodeFacts DEF Shape
  <2>2. other # Nil /\ other # p /\ other # t.child[Opposite(Opposite(s))][p]
    BY <1>1, <2>1, NodeFacts
  <2>3. near # p
    BY <1>2, <2>1, NodeFacts
  <2>4. other \in NodeOrNil /\ near \in NodeOrNil
    BY <1>1, <1>2, <2>1, TreeTypes
  <2> QED BY <1>2, <2>1, <2>2, <2>3, <2>4, Zenon DEF NodeOrNil
<1>4. CASE ~ IsRed(t, other)
  <2>1. u = t
    BY <1>1, <1>4 DEF BlackSibling
  <2> QED BY <2>1
<1>5. CASE IsRed(t, other)
  <2>1. PICK w : w = Paint(Paint(t, other, Black), p, Red)
    OBVIOUS
  <2>2. u = rb_rotate(w, p, s)
    BY <1>1, <1>5, <2>1 DEF BlackSibling
  <2>3. SamePointers(t, w)
    BY <1>3, <2>1, TwoPaints DEF Red, Black
  <2>4. PICK E : E = RotatedBelow(t, D, p, s)
    OBVIOUS
  <2>5. /\ RotatedChildren(t, u, p, s) /\ InTree(u) = InTree(t) /\ Shape(u, E)
    BY <2>2, <2>3, <2>4, PaintedRotation
  <2>6. d \in D[p]
    BY NodeFacts
  <2>7. StaleAbove(u, sz, E, d, {} \cup {p, other})
    <3>1. other # Nil
      BY <1>1, Zenon
    <3> QED BY <1>1, <2>4, <2>5, <2>6, <3>1, RotateStale, Zenon
  <2>8. E[other] = D[p] /\ E[near] = D[near] /\ p \in E[p] /\ D[near] \subseteq E[p]
    BY <1>1, <1>2, <1>3, <2>4 DEF RotatedBelow, NodeOrNil
  <2>9. StaleAbove(u, sz, E, d, {})
    <3>1. \A x \in {} \cup {p, other} : d \in E[x] \/ x \in {}
      BY <1>2, <2>6, <2>8
    <3> QED BY <2>7, <3>1, StaleFewer
  <2>10. u.child[s][p] = near
    BY <1>2, <1>3, <2>5 DEF RotatedChildren
  <2>11. d = p \/ d \in E[u.child[s][p]]
    BY <1>2, <2>8, <2>10
  <2> QED BY <2>5, <2>9, <2>11
<1> QED BY <1>4, <1>5


\* d is p, or on the side s of p.
OnSide(t, D, p, s, d) == d = p \/ d \in D[t.child[s][p]]

\* The last rotation of __rb_erase_color: of what it has put below top the
\* walk up meets f, and the others are above d.
LEMMA LastRotationStale ==
    ASSUME NEW t, NEW D, Shape(t, D), NEW p \in InTree(t), NEW s \in Sides,
           NEW top \in Nodes, top = t.child[Opposite(s)][p], NEW f \in Nodes, f = t.child[Opposite(s)][top],
           NEW u, Lifts(t, u, p, s, top, f), NEW sz, NEW d, OnSide(t, D, p, s, d),
           StaleAbove(t, sz, D, d, {f, top})
    PROVE  InTree(u) = InTree(t) /\ \E E : Shape(u, E) /\ Covers(u, sz, E, d)
<1>1. PICK near : near = t.child[s][p]
  BY Zenon
<1>2. /\ t \in Trees /\ p \in Nodes /\ p # Nil /\ top # Nil /\ f # Nil /\ t.color[p] \in {Red, Black}
      /\ Opposite(s) \in Sides /\ Opposite(Opposite(s)) = s
  <2>1. t \in Trees /\ p \in Nodes
    BY NodeFacts, Zenon DEF Shape
  <2> QED BY <2>1, TreeTypes, SideFacts, NilAssumption, Zenon
<1>3. /\ top \in InTree(t) /\ top # p /\ t.parent[top] = p /\ top \in D[top]
      /\ D[p] = {p} \cup D[near] \cup D[top] /\ D[near] \cap D[top] = {}
  <2>1. top \in InTree(t) /\ top # p /\ t.parent[top] = p /\ top \in D[top]
    BY <1>2, NodeFacts
  <2>2. D[p] = {p} \cup D[near] \cup D[top] /\ D[near] \cap D[top] = {}
    BY <1>1, NodeFacts
  <2> QED BY <2>1, <2>2, Zenon
<1>4. f \in InTree(t) /\ f # top /\ t.parent[f] = top /\ f # t.child[s][top]
  BY <1>2, <1>3, NodeFacts
<1>5. f # p
  <2>1. t.parent[t.parent[top]] # top
    BY <1>2, <1>3, ParentFacts
  <2> QED BY <1>3, <1>4, <2>1, Zenon
<1>6. d \in D[p] /\ d # top /\ d \in InTree(t) /\ D[p] \subseteq InTree(t)
  <2>1. d \in D[p] /\ d # top
    <3>1. d = p \/ d \in D[near]
      BY <1>1, Zenon DEF OnSide
    <3> QED BY <1>3, <3>1
  <2>2. p \in NodeOrNil
    BY <1>2, Zenon DEF NodeOrNil
  <2>3. D[p] \subseteq InTree(t)
    BY <2>2 DEF Shape, Ordered
  <2> QED BY <2>1, <2>3, Zenon
<1>7. PICK v : v = Paint(Paint(t, top, t.color[p]), p, Black)
  BY Zenon
<1>8. PICK w : w = Paint(v, f, Black)
  OBVIOUS
<1>9. u = rb_rotate(w, p, s)
  BY <1>7, <1>8, Zenon DEF Lifts
<1>10. SamePointers(t, w)
  <2>1. Black \in {Red, Black}
    BY Zenon
  <2>2. SamePointers(t, v)
    BY <1>2, <1>7, <2>1, TwoPaints, Zenon
  <2>3. v \in Trees
    BY <2>2, Zenon DEF SamePointers
  <2>4. Paints(v, w, f, Black)
    BY <1>8, <2>1, <2>3, PaintPoints, Zenon
  <2> QED BY <2>2, <2>4 DEF SamePointers, Paints
<1>11. PICK E : E = RotatedBelow(t, D, p, s)
  OBVIOUS
<1>12. /\ RotatedChildren(t, u, p, s) /\ RotatedParents(t, u, p, s)
       /\ InTree(u) = InTree(t) /\ Shape(u, E)
  BY <1>2, <1>9, <1>10, <1>11, PaintedRotation
<1>13. StaleAbove(u, sz, E, d, {f, top} \cup {p, top})
  <2>1. d \in D[t.parent[top]] /\ t.child[Opposite(s)][p] # Nil
    BY <1>2, <1>3, <1>6, Zenon
  <2> QED BY <1>2, <1>6, <1>11, <1>12, <2>1, RotateStale, Zenon
<1>14. d \in E[top] /\ d \in E[p]
  <2>1. d = p \/ d \in D[near]
    BY <1>1, Zenon DEF OnSide
  <2> QED BY <1>1, <1>2, <1>3, <1>6, <1>11, <2>1, Zenon DEF RotatedBelow, NodeOrNil
<1>15. StaleAbove(u, sz, E, d, {f})
  <2>1. \A x \in {f, top} \cup {p, top} : d \in E[x] \/ x \in {f}
    BY <1>14, Zenon
  <2> QED BY <1>13, <2>1, StaleFewer, Zenon
<1>16. u.parent[f] = top
  BY <1>4, <1>5 , <1>12, Zenon DEF RotatedParents
<1>17. OnPath(u, E, f, d)
  BY <1>6, <1>14, <1>16, Zenon DEF OnPath
<1>18. d \in InTree(u) /\ d \in E[d]
  <2>1. top \in InTree(u)
    BY <1>3, <1>12, Zenon
  <2> QED BY <1>12, <1>14, <2>1, Below, Zenon
<1>19. Covers(u, sz, E, d)
  BY <1>12, <1>15, <1>17, <1>18, StaleCovered
<1> QED BY <1>12, <1>19

LEMMA EraseRotatedStale ==
    ASSUME NEW t, NEW D, Shape(t, D), NEW p \in InTree(t), NEW s \in Sides,
           NEW w \in Nodes, w = t.child[Opposite(s)][p], \E z \in Sides : IsRed(t, t.child[z][w]),
           NEW u, u = EraseRotated(t, p, s),
           NEW sz, NEW d, OnSide(t, D, p, s, d), StaleAbove(t, sz, D, d, {})
    PROVE  InTree(u) = InTree(t) /\ \E E : Shape(u, E) /\ Covers(u, sz, E, d)
<1>1. PICK o : o = Opposite(s)
  OBVIOUS
<1>2. /\ o \in Sides /\ o # s /\ Opposite(o) = s /\ t \in Trees /\ p \in Nodes /\ p # Nil
      /\ \A z \in Sides : z = s \/ z = o
  <2>1. t \in Trees /\ p \in Nodes /\ p # Nil
    BY NodeFacts, Zenon DEF Shape
  <2> QED BY <1>1, <2>1, SideFacts, Zenon
<1>3. /\ w \in InTree(t) /\ w # p /\ w # Nil /\ t.parent[w] = p
  BY <1>1, <1>2, NilAssumption, NodeFacts
<1>4. CASE IsRed(t, t.child[o][w])
  <2>1. PICK f : f = t.child[o][w]
    OBVIOUS
  <2>2. f \in Nodes
    BY <1>2, <1>4, <2>1, TreeTypes DEF IsRed, NodeOrNil
  <2>3. Lifts(t, u, p, s, w, f)
    BY <1>1, <1>4, <2>1, Zenon DEF Lifts, EraseRotated
  <2>4. f = t.child[Opposite(s)][w]
    BY <1>1, <2>1
  <2>5. StaleAbove(t, sz, D, d, {f, w})
    BY StaleFewer
  <2> QED BY <2>2, <2>3, <2>4, <2>5, LastRotationStale
<1>5. CASE ~ IsRed(t, t.child[o][w])
  <2>1. PICK near : near = t.child[s][w]
    OBVIOUS
  <2>2. near \in Nodes /\ near # Nil
    BY <1>2, <1>5, <2>1, TreeTypes DEF IsRed, NodeOrNil
  <2>3. PICK v : v = Paint(Paint(t, near, Black), w, Red)
    OBVIOUS
  <2>4. PICK m : m = rb_rotate(v, w, o)
    OBVIOUS
  <2>5. SamePointers(t, v)
    BY <1>2, <2>2, <2>3, TwoPaints DEF Red, Black
  <2>6. PICK F : F = RotatedBelow(t, D, w, o)
    OBVIOUS
  <2>7. t.child[Opposite(o)][w] = near
    BY <1>2, <2>1, Zenon
  <2>8. /\ RotatedChildren(t, m, w, o) /\ InTree(m) = InTree(t) /\ Shape(m, F)
    BY <1>2, <1>3, <2>2, <2>4, <2>5, <2>6, <2>7, PaintedRotation
  <2>9. d \in D[t.parent[w]]
    <3>1. D[p] = {p} \cup D[t.child[s][p]] \cup D[t.child[o][p]]
      BY <1>1, NodeFacts
    <3> QED BY <1>3, <3>1 DEF OnSide
  <2>10. StaleAbove(m, sz, F, d, {w, near})
    <3>1. StaleAbove(m, sz, F, d, {} \cup {w, near})
      BY <1>2, <1>3, <2>2, <2>6, <2>7, <2>8, <2>9, RotateStale, Zenon
    <3> QED BY <3>1, StaleFewer
  <2>11. t.parent[near] = w /\ near # w /\ near # p
    <3>1. t.parent[near] = w /\ near # w
      BY <1>3, <2>1, <2>2, NodeFacts
    <3>2. t.parent[p] # w
      BY <1>2, <1>3, ParentFacts
    <3> QED BY <3>1, <3>2, Zenon
  <2>12. PICK c : c = t.child[s][p]
    OBVIOUS
  <2>13. c \in NodeOrNil /\ c # w /\ c # near
    <3>1. c \in NodeOrNil
      BY <1>2, <2>12, TreeTypes, Zenon
    <3>2. c # Nil => c # w /\ t.parent[c] = p
      BY <1>1, <2>12, NodeFacts
    <3> QED BY <1>3, <2>2, <2>11, <3>1, <3>2, Zenon
  <2>14. m.child[o][p] = near /\ m.child[s][p] = c
    BY <1>1, <1>2, <1>3, <2>7, <2>8, <2>11, <2>12, <2>13 DEF RotatedChildren
  <2>15. m.child[o][near] = w
    BY <2>2, <2>7, <2>8, <2>11, <1>2 DEF RotatedChildren
  <2>16. F[c] = D[c]
    BY <2>6, <2>7, <2>13 DEF RotatedBelow
  <2>17. u = rb_rotate(Paint(Paint(Paint(m, m.child[o][p], m.color[p]), p, Black),
                            m.child[o][m.child[o][p]], Black), p, s)
    BY <1>1, <1>5, <2>1, <2>3, <2>4, Zenon DEF EraseRotated
  <2>18. Lifts(m, u, p, s, near, w)
    BY <2>14, <2>15, <2>17, Zenon DEF Lifts
  <2>19. OnSide(m, F, p, s, d)
    BY <2>12, <2>14, <2>16, Zenon DEF OnSide
  <2>20. p \in InTree(m)
    BY <2>8, Zenon
  <2>21. near = m.child[Opposite(s)][p] /\ w = m.child[Opposite(s)][near] /\ Shape(m, F)
    BY <1>1, <2>8, <2>14, <2>15, Zenon
  <2>22. InTree(u) = InTree(m) /\ \E E : Shape(u, E) /\ Covers(u, sz, E, d)
    BY <2>2, <2>10, <2>18, <2>19, <2>20, <2>21, LastRotationStale
  <2> QED BY <2>8, <2>22, Zenon
<1> QED BY <1>4, <1>5


(* Where the stale nodes are while a call runs.                            *)

\* While the loop of rb_insert_color goes on, what is stale is above the new
\* node, and that is below the cursor.
InsertStale(D) ==
    IF InsertRebalances THEN call[2] \in D[cur] /\ StaleAbove(tree, size, D, call[2], {})
    ELSE Covers(tree, size, D, rb_augment_insert(tree, call[2]))

\* While the loop of __rb_erase_color goes on, what is stale is above the node
\* that rb_augment_erase_begin has found, and that is below the cursor.
EraseStale(D) ==
    IF deepest = Nil THEN InTree(tree) = {}
    ELSE IF cur = tree.root THEN Covers(tree, size, D, deepest)
    ELSE /\ deepest \in InTree(tree)
         /\ StaleAbove(tree, size, D, deepest, {})
         /\ (deepest = par /\ cur = Nil) \/ deepest \in D[cur]

Unfinished == {"insert_color", "erase_color", "erased", "augment"}

Augments(D) ==
    /\ pc = "insert_color" => InsertStale(D)
    /\ pc = "erase_color" => EraseStale(D)
    /\ pc = "erased" => IF deepest = Nil THEN AllFresh(tree, size) ELSE Covers(tree, size, D, deepest)
    /\ pc = "augment" => Covers(tree, size, D, cur)
    /\ pc \notin Unfinished => AllFresh(tree, size)

AugInv == \E D : Shape(tree, D) /\ Augments(D)

LEMMA AllCovered ==
    ASSUME NEW t, NEW D, Shape(t, D), NEW sz, NEW m \in InTree(t), StaleAbove(t, sz, D, m, {}), NEW c \in D[m]
    PROVE  Covers(t, sz, D, c)
<1>1. PICK S : S = {}
  OBVIOUS
<1>2. StaleAbove(t, sz, D, m, S) /\ \A x \in S : OnPath(t, D, x, c)
  BY <1>1
<1> QED BY <1>2, StaleCovered

LEMMA OwnBelow ==
    ASSUME NEW t, NEW D, Shape(t, D), NEW n \in InTree(t)
    PROVE  n \in D[n]
BY SideFacts, NodeFacts DEF Sides

LEMMA Calm == AugInv /\ pc \notin Unfinished => AllFresh(tree, size)
BY DEF AugInv, Augments

LEMMA Freshly ==
    ASSUME Inv', pc' \notin Unfinished, AllFresh(tree', size')
    PROVE  AugInv'
<1>1. PICK D : Shape(tree', D)
  BY DEF Inv, TreeInv
<1>2. Augments(D)'
  BY DEF Augments, Unfinished
<1> QED BY <1>1, <1>2 DEF AugInv

\* The steps before the tree changes, and after the walk up.
LEMMA AugmentedReads ==
    ASSUME AugInv, Inv', Client \/ SearchDown \/ SearchDone \/ InsertDown \/ InsertDuplicate
                         \/ SuccessorDown \/ Walking \/ Return,
           \A v, n \in Nodes : ~ rb_replace(v, n)
    PROVE  AugInv'
<1>1. /\ UNCHANGED <<tree, size>>
      /\ pc \in {"idle", "search", "insert", "erase", "successor", "down", "up", "nowhere", "return"}
      /\ pc' \in {"idle", "search", "insert", "erase", "successor", "down", "up", "nowhere", "return"}
  <2>1. CASE ClientReads
    BY <2>1 DEF ClientReads, myrbdemo_search, rb_next, rb_first, Begin
  <2>2. CASE ClientWrites
    BY <2>2 DEF ClientWrites, myrbdemo_insert, myrbdemo_delete, Begin
  <2>3. CASE SearchDown \/ SearchDone \/ InsertDown \/ InsertDuplicate \/ SuccessorDown
    BY <2>3 DEF SearchDown, SearchDone, InsertDown, InsertDuplicate, SuccessorDown, Answer
  <2>4. CASE Walking \/ Return
    BY <2>4 DEF Walking, WalkDown, WalkUp, WalkDone, Return, Answer
  <2> QED BY <2>1, <2>2, <2>3, <2>4 DEF Client
<1>2. AllFresh(tree', size')
  BY <1>1, Calm DEF Unfinished
<1> QED BY <1>1, <1>2, Freshly DEF Unfinished

LEMMA AugmentedReplace ==
    ASSUME AugInv, Inv, Inv', NEW v \in Nodes, NEW n \in Nodes, rb_replace(v, n)
    PROVE  AugInv'
<1>1. /\ pc = "idle" /\ pc' = "return" /\ v \in InTree(tree) /\ n \notin InTree(tree)
      /\ tree' = rb_init_node(rb_replace_node(tree, v, n), v)
      /\ size' = [size EXCEPT ![n] = size[v], ![v] = 0]
  BY DEF rb_replace
<1>2. PICK D : Shape(tree, D)
  BY DEF AugInv
<1>3. Replaces(tree, tree', v, n)
  BY <1>1, <1>2, ReplacePoints
<1>4. InTree(tree') = (InTree(tree) \ {v}) \cup {n} /\ size \in [Nodes -> Nat]
  BY StepReplace DEF Inv, TypeOK
<1>5. AllFresh(tree, size)
  BY <1>1, Calm DEF Unfinished
<1>6. AllFresh(tree', size')
  <2>1. PICK u : u = tree'
    OBVIOUS
  <2>2. PICK rz : Moves(size, rz, v, n)
    BY DEF Moves
  <2>3. v \in InTree(tree) /\ n \notin InTree(tree) /\ Replaces(tree, u, v, n) /\ size' = rz
        /\ InTree(u) = (InTree(tree) \ {v}) \cup {n}
    BY <1>1, <1>3, <1>4, <2>1, <2>2 DEF Moves
  <2>4. AllFresh(u, rz)
    BY <1>2, <1>4, <1>5, <2>2, <2>3, ReplaceFresh
  <2> QED BY <2>1, <2>3, <2>4
<1> QED BY <1>1, <1>6, Freshly DEF Unfinished

\* Inserting.
LEMMA AugmentedInsert ==
    ASSUME NEW E, Shape(tree', E), pc' = "insert_color",
           NEW m \in InTree(tree'), m = call'[2], m \in E[cur'], StaleAbove(tree', size', E, m, {})
    PROVE  AugInv'
<1>1. PICK c : c = rb_augment_insert(tree', m)
  OBVIOUS
<1>2. c \in E[m]
  BY <1>1, AugmentStart
<1>3. Covers(tree', size', E, c)
  BY <1>2, AllCovered
<1>4. rb_augment_insert(tree', call'[2]) = c
  BY <1>1
<1>5. InsertStale(E)'
  BY <1>3, <1>4 DEF InsertStale
<1>6. Augments(E)'
  BY <1>5 DEF Augments, Unfinished
<1> QED BY <1>6 DEF AugInv

LEMMA AugmentedLink ==
    ASSUME AugInv, Inv, InsertLink
    PROVE  AugInv'
<1>1. PICK n : n = call[2]
  OBVIOUS
<1>2. PICK s : s = IF par = Nil THEN Left ELSE SideFor(Key[n], par)
  OBVIOUS
<1>3. /\ pc = "insert" /\ pc' = "insert_color" /\ cur = Nil /\ cur' = n
      /\ tree' = rb_link_node(tree, n, par, s) /\ call'[2] = n
      /\ UNCHANGED <<size, call, par, deepest>>
  BY <1>1, <1>2 DEF InsertLink
<1>4. PICK D : Shape(tree, D) /\ InsertPlace(D)
  BY DEF Inv, TreeInv
<1>5. /\ n \in Nodes /\ n \notin InTree(tree)
      /\ par = Nil => tree.root = Nil
      /\ par # Nil => par \in InTree(tree) /\ Key[n] # Key[par] /\ tree.child[SideFor(Key[n], par)][par] = Nil
      /\ \A a \in InTree(tree) : \A z \in Sides : par \in D[tree.child[z][a]] => Beyond(z, n, a)
  BY <1>1, <1>3, <1>4 DEF InsertPlace
<1>6. s \in Sides /\ par \in NodeOrNil
  BY <1>2 DEF SideFor, Sides, Inv, TypeOK
<1>7. par # Nil => par \in InTree(tree) /\ tree.child[s][par] = Nil /\ Beyond(s, n, par)
  <2> SUFFICES ASSUME par # Nil PROVE par \in InTree(tree) /\ tree.child[s][par] = Nil /\ Beyond(s, n, par)
    OBVIOUS
  <2>1. par \in Nodes /\ Key[n] \in Int /\ Key[par] \in Int
    BY <1>5, KeyAssumption DEF InTree
  <2> QED BY <1>2, <1>5, <2>1 DEF SideFor, Beyond, Left, Right
<1>8. Links(tree, tree', n, par, s)
  <2>1. tree \in Trees /\ par # n
    BY <1>4, <1>5, NilAssumption DEF Shape
  <2> QED BY <1>3, <1>5, <1>6, <2>1, LinkPoints
<1>9. PICK E : E = LinkedBelow(D, n, par)
  OBVIOUS
<1>10. InTree(tree') = InTree(tree) \cup {n} /\ Shape(tree', E)
  BY <1>4, <1>5, <1>6, <1>7, <1>8, <1>9, LinkShape
<1>11. AllFresh(tree, size) /\ size' = size
  BY <1>3, Calm DEF Unfinished
<1>12. StaleAbove(tree', size', E, n, {}) /\ n \in E[n]
  BY <1>4, <1>5, <1>6, <1>8, <1>9, <1>10, <1>11, LinkStale
<1>13. n \in InTree(tree')
  BY <1>10
<1> QED BY <1>3, <1>10, <1>12, <1>13, AugmentedInsert

LEMMA AugmentedRecolor ==
    ASSUME AugInv, Inv, InsertRecolor
    PROVE  AugInv'
<1>1. /\ InsertRebalances /\ pc = "insert_color" /\ pc' = "insert_color"
      /\ IsRed(tree, tree.parent[cur]) /\ IsRed(tree, Uncle)
      /\ tree' = InsertRecolored(tree, cur) /\ cur' = tree.parent[tree.parent[cur]]
      /\ UNCHANGED <<size, call>>
  BY DEF InsertRecolor, InsertRebalances
<1>2. cur \in InTree(tree) /\ call[2] \in Nodes /\ \A x \in InTree(tree) : x # cur => RedAt(tree, x)
  BY <1>1, InsertState
<1>3. PICK D : Shape(tree, D) /\ InsertStale(D)
  BY <1>1 DEF AugInv, Augments
<1>4. PICK p : p = tree.parent[cur]
  OBVIOUS
<1>5. PICK g : g = tree.parent[p]
  OBVIOUS
<1>6. PICK s : s = SideOf(tree, g, p)
  OBVIOUS
<1>7. PICK uncle : uncle = tree.child[Opposite(s)][g]
  OBVIOUS
<1>8. /\ cur \in Nodes /\ p \in Nodes /\ g \in Nodes /\ p \in InTree(tree) /\ g \in InTree(tree)
      /\ s \in Sides /\ tree.child[s][g] = p /\ uncle \in NodeOrNil
  <2>1. Around(tree, cur, p, g, s, uncle)
    BY <1>1, <1>2, <1>3, <1>4, <1>5, <1>6, <1>7, InsertNodes
  <2> QED BY <2>1 DEF Around
<1>9. uncle \in Nodes
  <2>1. IsRed(tree, uncle)
    BY <1>1, <1>4, <1>5, <1>6, <1>7 DEF Uncle
  <2> QED BY <1>8, <2>1 DEF IsRed, NodeOrNil
<1>10. SamePointers(tree, tree')
  <2>1. PICK v : v = Paint(Paint(tree, uncle, Black), p, Black)
    OBVIOUS
  <2>2. tree' = Paint(v, g, Red)
    BY <1>1, <1>4, <1>5, <1>6, <1>7, <2>1, Zenon DEF InsertRecolored
  <2>3. tree \in Trees /\ Black \in {Red, Black} /\ Red \in {Red, Black}
    BY <1>3 DEF Shape
  <2>4. SamePointers(tree, v)
    BY <1>8, <1>9, <2>1, <2>3, TwoPaints
  <2>5. v \in Trees
    BY <2>4 DEF SamePointers
  <2>6. Paints(v, tree', g, Red)
    BY <1>8, <2>2, <2>3, <2>5, PaintPoints
  <2> QED BY <2>4, <2>6 DEF SamePointers, Paints
<1>11. PICK m : m = call[2]
  OBVIOUS
<1>12. m \in D[cur] /\ StaleAbove(tree, size, D, m, {})
  BY <1>1, <1>3, <1>11 DEF InsertStale
<1>13. m \in D[g] /\ m \in InTree(tree)
  <2>1. cur \in D[p]
    <3>1. SideOf(tree, p, cur) \in Sides /\ tree.child[SideOf(tree, p, cur)][p] = cur /\ cur # Nil
      <4>1. p # Nil
        BY <1>8, NilAssumption
      <4> QED BY <1>2, <1>3, <1>4, <1>8, <4>1, ParentFacts, NilAssumption
    <3> QED BY <1>3, <1>8, <3>1, NodeFacts
  <2>2. p \in D[g]
    BY <1>3, <1>8, NilAssumption, NodeFacts
  <2>3. D[cur] \subseteq D[p] /\ D[p] \subseteq D[g] /\ m \in InTree(tree)
    BY <1>2, <1>3, <1>8, <1>12, <2>1, <2>2, Below
  <2> QED BY <1>12, <2>3, Zenon
<1>14. InTree(tree') = InTree(tree) /\ Shape(tree', D)
  BY <1>3, <1>10, SameShape DEF SamePointers
<1>15. StaleAbove(tree', size', D, m, {})
  BY <1>1, <1>10, <1>12, StalePainted
<1>16. m \in InTree(tree') /\ m = call'[2] /\ m \in D[cur']
  BY <1>1, <1>4, <1>5, <1>11, <1>13, <1>14
<1> QED BY <1>1, <1>14, <1>15, <1>16, AugmentedInsert

LEMMA AugmentedRotate ==
    ASSUME AugInv, Inv, Inv', InsertRotate
    PROVE  AugInv'
<1>1. /\ InsertRebalances /\ pc = "insert_color" /\ pc' = "insert_color"
      /\ IsRed(tree, tree.parent[cur]) /\ IsBlack(tree, Uncle)
      /\ tree' = InsertRotated(tree, cur)
      /\ cur' = IF IsInner(tree, cur) THEN tree.parent[cur] ELSE cur
      /\ UNCHANGED <<size, call>>
  BY DEF InsertRotate, InsertRebalances
<1>2. /\ cur \in InTree(tree) /\ IsRed(tree, cur)
      /\ \A x \in InTree(tree) : x # cur => RedAt(tree, x)
      /\ \E D, h : Shape(tree, D) /\ Balanced(tree, h, {})
  BY <1>1, InsertState
<1>3. PICK D : Shape(tree, D) /\ InsertStale(D)
  BY <1>1 DEF AugInv, Augments
<1>4. PICK m : m = call[2]
  OBVIOUS
<1>5. m \in D[cur] /\ StaleAbove(tree, size, D, m, {})
  BY <1>1, <1>3, <1>4 DEF InsertStale
<1>6. PICK E : Shape(tree', E) /\ Covers(tree', size', E, rb_augment_insert(tree', m))
  BY <1>1, <1>2, <1>3, <1>5, InsertRotatedStale
<1>7. ~ InsertRebalances'
  <2>1. PICK F, h : Shape(tree, F) /\ Balanced(tree, h, {})
    BY <1>2
  <2>2. IsBlack(tree, UncleAt(tree, cur))
    <3>1. UncleAt(tree, cur) = Uncle
      BY Zenon DEF UncleAt, Uncle
    <3> QED BY <1>1, <3>1, Zenon
  <2>3. /\ cur' \in InTree(tree') /\ IsRed(tree', cur')
        /\ \A x \in InTree(tree') : RedAt(tree', x)
    BY <1>1, <1>2, <2>1, <2>2, InsertRotatedSound, Zenon
  <2>4. ~ IsRed(tree', tree'.parent[cur'])
    BY <2>3 DEF RedAt, IsBlack
  <2> QED BY <2>4 DEF InsertRebalances
<1>8. InsertStale(E)'
  BY <1>1, <1>4, <1>6, <1>7 DEF InsertStale
<1>9. Augments(E)'
  BY <1>1, <1>8 DEF Augments, Unfinished
<1> QED BY <1>6, <1>9 DEF AugInv

LEMMA AugmentedInsertDone ==
    ASSUME AugInv, Inv, InsertDone
    PROVE  AugInv'
<1>1. /\ ~ InsertRebalances /\ pc = "insert_color" /\ pc' = "augment"
      /\ tree' = Paint(tree, tree.root, Black) /\ cur' = rb_augment_insert(tree, call[2]) /\ size' = size
  BY DEF InsertDone
<1>2. PICK D : Shape(tree, D) /\ InsertStale(D)
  BY <1>1 DEF AugInv, Augments
<1>3. Covers(tree, size, D, cur')
  BY <1>1, <1>2 DEF InsertStale
<1>4. tree \in Trees /\ tree.root \in Nodes /\ Black \in {Red, Black}
  <2>1. cur \in InTree(tree)
    BY <1>1, InsertState
  <2> QED BY <1>2, <2>1, ParentFacts, Zenon DEF Shape, InTree
<1>5. SamePointers(tree, tree')
  <2>1. Paints(tree, tree', tree.root, Black)
    BY <1>1, <1>4, PaintPoints
  <2> QED BY <2>1 DEF SamePointers, Paints
<1>6. Shape(tree', D)
  BY <1>2, <1>5, SameShape DEF SamePointers
<1>7. Covers(tree', size', D, cur')
  BY <1>1, <1>3, <1>5, StalePainted
<1>8. Augments(D)'
  BY <1>1, <1>7 DEF Augments, Unfinished
<1> QED BY <1>6, <1>8 DEF AugInv


\* Erasing.
LEMMA FromLeaves ==
    ASSUME NEW u, NEW E, Shape(u, E), NEW sz, NEW c, NEW q, NEW d, Leaves(u, sz, E, c, q, d)
    PROVE  IF d = Nil THEN AllFresh(u, sz) ELSE Covers(u, sz, E, d)
<1>1. CASE d = Nil
  BY <1>1 DEF Leaves, AllFresh
<1>2. CASE d # Nil
  <2>1. d \in InTree(u) /\ StaleAbove(u, sz, E, d, {})
    BY <1>2 DEF Leaves
  <2>2. d \in E[d]
    BY <2>1, OwnBelow
  <2> QED BY <1>2, <2>1, <2>2, AllCovered
<1> QED BY <1>1, <1>2

LEMMA AugmentedLeave ==
    ASSUME NEW E, Shape(tree', E), Leaves(tree', size', E, cur', par', deepest'),
           pc' \in {"erase_color", "erased"}
    PROVE  AugInv'
<1>1. IF deepest' = Nil THEN AllFresh(tree', size') ELSE Covers(tree', size', E, deepest')
  BY FromLeaves
<1>2. EraseStale(E)'
  BY <1>1 DEF EraseStale, Leaves
<1>3. Augments(E)'
  BY <1>1, <1>2 DEF Augments, Unfinished
<1> QED BY <1>3 DEF AugInv

LEMMA AugmentedEraseNode ==
    ASSUME AugInv, Inv, EraseNode
    PROVE  AugInv'
<1>1. PICK e : e = call[2]
  OBVIOUS
<1>2. PICK c : c = IF tree.child[Left][e] = Nil THEN cur ELSE tree.child[Left][e]
  OBVIOUS
<1>3. /\ pc = "erase" /\ (tree.child[Left][e] = Nil \/ cur = Nil)
      /\ deepest' = rb_augment_erase_begin(tree, e, Nil)
      /\ Splice(SpliceOut(tree, e, c), e, e, c, tree.parent[e])
  BY <1>1, <1>2 DEF EraseNode
<1>4. PICK D : Shape(tree, D) /\ SuccessorPlace(D)
  BY DEF Inv, TreeInv
<1>5. e \in InTree(tree) /\ cur = tree.child[Right][e] /\ size \in [Nodes -> Nat]
  BY <1>1, <1>3, <1>4 DEF SuccessorPlace, Inv, TypeOK
<1>6. PICK s : s = IF tree.child[Left][e] = Nil THEN Right ELSE Left
  OBVIOUS
<1>7. s \in Sides /\ c = tree.child[s][e] /\ tree.child[Opposite(s)][e] = Nil
  BY <1>2, <1>3, <1>5, <1>6 DEF Sides, Opposite, Left, Right
<1>8. /\ tree' = rb_init_node(SpliceOut(tree, e, c), e) /\ cur' = c /\ par' = tree.parent[e]
      /\ pc' \in {"erase_color", "erased"}
      /\ size' = [size EXCEPT ![e] = 0]
  BY <1>3 DEF Splice
<1>9. Removes(tree, tree', e, c)
  BY <1>4, <1>5, <1>7, <1>8, RemovePoints
<1>10. PICK E : Without(D, e, E)
  BY DEF Without
<1>11. InTree(tree') = InTree(tree) \ {e} /\ Shape(tree', E)
  BY <1>4, <1>5, <1>7, <1>9, <1>10, RemoveShape DEF Without
<1>12. AllFresh(tree, size)
  BY <1>3, Calm DEF Unfinished
<1>13. deepest' = IF c # Nil THEN c ELSE tree.parent[e]
  BY <1>2, <1>3, <1>5 DEF rb_augment_erase_begin
<1>14. Leaves(tree', size', E, c, tree.parent[e], deepest')
  <2>1. PICK u : u = tree'
    OBVIOUS
  <2>2. PICK rz : rz = [size EXCEPT ![e] = 0]
    OBVIOUS
  <2>3. PICK d : d = IF c # Nil THEN c ELSE tree.parent[e]
    OBVIOUS
  <2>4. Removes(tree, u, e, c) /\ InTree(u) = InTree(tree) \ {e} /\ size' = rz /\ deepest' = d
    BY <1>8, <1>9, <1>11, <1>13, <2>1, <2>2, <2>3
  <2>5. Leaves(u, rz, E, c, tree.parent[e], d)
    BY <1>4, <1>5, <1>7, <1>10, <1>12, <2>2, <2>3, <2>4, RemoveStale
  <2> QED BY <2>1, <2>4, <2>5
<1>15. Leaves(tree', size', E, cur', par', deepest')
  BY <1>8, <1>14
<1> QED BY <1>8, <1>11, <1>15, AugmentedLeave

LEMMA AugmentedEraseSuccessor ==
    ASSUME AugInv, Inv, EraseSuccessor
    PROVE  AugInv'
<1>1. PICK e : e = call[2]
  OBVIOUS
<1>2. PICK p : p = tree.parent[cur]
  OBVIOUS
<1>3. PICK r : r = tree.child[Right][e]
  OBVIOUS
<1>4. /\ pc \in {"erase", "successor"} /\ cur # Nil /\ tree.child[Left][e] # Nil /\ tree.child[Left][cur] = Nil
      /\ deepest' = rb_augment_erase_begin(tree, e, cur)
      /\ Splice(SpliceSuccessor(tree, e, cur), e, cur, tree.child[Right][cur], IF p = e THEN cur ELSE p)
  BY <1>1, <1>2 DEF EraseSuccessor
<1>5. e \in InTree(tree) /\ r \in InTree(tree)
  BY <1>1, <1>3, <1>4, SearchState
<1>6. PICK D : /\ Shape(tree, D)
               /\ cur \in D[r] /\ cur \in InTree(tree)
               /\ cur # r => cur = tree.child[Left][tree.parent[cur]]
               /\ \A x \in D[r] : x \in D[cur] \/ Key[cur] < Key[x]
  BY <1>1, <1>3, <1>4, SearchState
<1>7. IsSuccessor(tree, D, e, cur)
  BY <1>3, <1>4, <1>6 DEF IsSuccessor
<1>8. \A x \in D[tree.child[Right][e]] : x = cur \/ Key[cur] < Key[x]
  <2>1. Left \in Sides /\ Opposite(Left) = Right /\ Right \in Sides
    BY DEF Sides, Opposite, Left, Right
  <2>2. D[cur] = {cur} \cup D[tree.child[Left][cur]] \cup D[tree.child[Right][cur]]
        /\ D[Nil] = {}
    BY <1>6, <2>1, NodeFacts
  <2>3. \A x \in D[tree.child[Right][cur]] : Beyond(Right, x, cur)
    BY <1>6, <2>1, NodeFacts
  <2>4. \A x \in D[cur] : x = cur \/ Key[cur] < Key[x]
    BY <1>4, <2>2, <2>3 DEF Beyond, Left, Right
  <2> QED BY <1>3, <1>6, <2>4
<1>9. PICK c : c = tree.child[Right][cur]
  OBVIOUS
<1>10. PICK q : q = IF p = e THEN cur ELSE p
  OBVIOUS
<1>11. /\ tree' = rb_init_node(SpliceSuccessor(tree, e, cur), e) /\ cur' = c /\ par' = q
       /\ pc' \in {"erase_color", "erased"} /\ size' = [size EXCEPT ![e] = 0]
  BY <1>4, <1>9, <1>10 DEF Splice
<1>12. PICK m : m = rb_init_node(SpliceOut(tree, cur, c), cur)
  OBVIOUS
<1>13. Removes(tree, m, cur, c)
  <2>1. Right \in Sides
    BY DEF Sides
  <2> QED BY <1>6, <1>9, <1>12, <2>1, RemovePoints
<1>14. Replaces(m, tree', e, cur)
  BY <1>4, <1>5, <1>6, <1>7, <1>9, <1>11, <1>13, SuccessorPoints
<1>15. PICK Dm : Without(D, cur, Dm)
  BY DEF Without
<1>16. PICK E : E = ReplacedBelow(Dm, e, cur)
  OBVIOUS
<1>17. InTree(tree') = InTree(tree) \ {e} /\ Shape(tree', E)
  <2>1. PICK u : u = tree'
    OBVIOUS
  <2>2. Removes(tree, m, cur, tree.child[Right][cur]) /\ Replaces(m, u, e, cur) /\ Shape(tree, D)
    BY <1>6, <1>9, <1>13, <1>14, <2>1
  <2>3. PICK y : y = cur
    OBVIOUS
  <2>4. /\ tree.child[Left][e] # Nil /\ IsSuccessor(tree, D, e, y) /\ Without(D, y, Dm)
        /\ \A x \in D[tree.child[Right][e]] : x = y \/ Key[y] < Key[x]
    BY <1>4, <1>7, <1>8, <1>15, <2>3
  <2>5. Removes(tree, m, y, tree.child[Right][y]) /\ Replaces(m, u, e, y) /\ Shape(tree, D)
    BY <2>2, <2>3
  <2>6. /\ InTree(m) = InTree(tree) \ {y} /\ InTree(u) = InTree(tree) \ {e}
        /\ Shape(m, Dm) /\ Shape(u, ReplacedBelow(Dm, e, y))
    BY <1>5, <2>4, <2>5, SuccessorShape, ZenonT(30)
  <2> QED BY <1>16, <2>1, <2>3, <2>6
<1>18. AllFresh(tree, size) /\ size \in [Nodes -> Nat]
  BY <1>4, Calm DEF Unfinished, Inv, TypeOK
<1>19. deepest' = IF c # Nil THEN c ELSE q
  <2>1. r # Nil
    BY <1>5, NilAssumption DEF InTree
  <2> QED BY <1>2, <1>3, <1>4, <1>9, <1>10, <2>1 DEF rb_augment_erase_begin
<1>20. Leaves(tree', size', E, c, q, deepest')
  <2>1. PICK u : u = tree'
    OBVIOUS
  <2>2. PICK rz : Clears(size, rz, e)
    BY DEF Clears
  <2>3. PICK d : d = IF c # Nil THEN c ELSE q
    OBVIOUS
  <2>4. Replaces(m, u, e, cur) /\ InTree(u) = InTree(tree) \ {e} /\ size' = rz /\ deepest' = d
    BY <1>11, <1>14, <1>17, <1>19, <2>1, <2>2, <2>3 DEF Clears
  <2>5. Removes(tree, m, cur, tree.child[Right][cur]) /\ q = IF tree.parent[cur] = e THEN cur ELSE tree.parent[cur]
    BY <1>2, <1>9, <1>10, <1>13
  <2>6. Shape(tree, D) /\ tree.child[Left][e] # Nil
    BY <1>4, <1>6
  <2>7. Leaves(u, rz, E, c, q, d)
    BY <1>5, <1>7, <1>9, <1>15, <1>16, <1>18, <2>2, <2>3, <2>4, <2>5, <2>6, SuccessorStale
  <2> QED BY <2>1, <2>4, <2>7
<1>21. Leaves(tree', size', E, cur', par', deepest')
  BY <1>11, <1>20
<1> QED BY <1>11, <1>17, <1>21, AugmentedLeave

\* What is stale once the sibling is black.
LEMMA BalancingStale ==
    ASSUME AugInv, Inv, EraseRebalances
    PROVE  /\ InTree(Balancing) = InTree(tree) /\ par \in InTree(tree)
           /\ \E E : /\ Shape(Balancing, E) /\ deepest \in InTree(tree)
                     /\ deepest = par \/ deepest \in E[Balancing.child[Short][par]]
                     /\ StaleAbove(Balancing, size, E, deepest, {})
<1>1. pc = "erase_color" /\ cur # tree.root
  BY DEF EraseRebalances
<1>2. /\ par \in InTree(tree) /\ Short \in Sides /\ tree.child[Short][par] = cur
      /\ \E D, h : Shape(tree, D) /\ Balanced(tree, h, {<<par, Short>>})
  BY BalancingState
<1>3. PICK D : Shape(tree, D) /\ EraseStale(D)
  BY <1>1 DEF AugInv, Augments
<1>4. tree.child[Opposite(Short)][par] # Nil
  BY <1>2, ShortSide
<1>5. /\ deepest \in InTree(tree) /\ StaleAbove(tree, size, D, deepest, {})
      /\ deepest = par \/ deepest \in D[tree.child[Short][par]]
  BY <1>1, <1>2, <1>3 DEF EraseStale
<1>6. PICK u : u = Balancing
  OBVIOUS
<1>7. u = BlackSibling(tree, par, Short)
  BY <1>6 DEF Balancing
<1>8. /\ InTree(u) = InTree(tree)
      /\ \E E : /\ Shape(u, E) /\ StaleAbove(u, size, E, deepest, {})
                /\ deepest = par \/ deepest \in E[u.child[Short][par]]
  BY <1>2, <1>3, <1>4, <1>5, <1>7, BlackSiblingStale
<1> QED BY <1>2, <1>5, <1>6, <1>8

LEMMA AugmentedErase ==
    ASSUME NEW E, Shape(tree', E), pc' = "erase_color", NEW d \in InTree(tree'), d = deepest',
           \/ cur' = tree'.root /\ Covers(tree', size', E, d)
           \/ d \in E[cur'] /\ StaleAbove(tree', size', E, d, {})
    PROVE  AugInv'
<1>1. d # Nil /\ d \in E[d]
  BY OwnBelow, NilAssumption DEF InTree
<1>2. Covers(tree', size', E, d)
  BY <1>1, AllCovered
<1>3. EraseStale(E)'
  BY <1>1, <1>2 DEF EraseStale
<1>4. Augments(E)'
  BY <1>3 DEF Augments, Unfinished
<1> QED BY <1>4 DEF AugInv

LEMMA AugmentedEraseRecolor ==
    ASSUME AugInv, Inv, EraseRecolor
    PROVE  AugInv'
<1>1. PICK m : m = Balancing
  OBVIOUS
<1>2. PICK s : s = Short
  OBVIOUS
<1>3. PICK w : w = Sibling
  OBVIOUS
<1>4. /\ EraseRebalances /\ pc' = "erase_color"
      /\ tree' = Paint(m, w, Red) /\ cur' = par /\ deepest' = deepest /\ size' = size
      /\ w = m.child[Opposite(s)][par]
  BY <1>1, <1>2, <1>3 DEF EraseRecolor, EraseRebalances, Sibling
<1>5. s \in Sides /\ Levels(tree, m, par, s)
  BY <1>1, <1>2, <1>4, BalancingState
<1>6. m \in Trees /\ w \in Nodes /\ Red \in {Red, Black}
  BY <1>4, <1>5 DEF Levels
<1>7. SamePointers(m, tree')
  <2>1. Paints(m, tree', w, Red)
    BY <1>4, <1>6, PaintPoints
  <2> QED BY <2>1 DEF SamePointers, Paints
<1>8. InTree(m) = InTree(tree) /\ par \in InTree(tree)
  BY <1>1, <1>4, BalancingStale
<1>9. PICK E : /\ Shape(m, E) /\ deepest \in InTree(tree)
               /\ deepest = par \/ deepest \in E[m.child[s][par]]
               /\ StaleAbove(m, size, E, deepest, {})
  BY <1>1, <1>2, <1>4, BalancingStale
<1>10. deepest \in E[par]
  BY <1>5, <1>8, <1>9, NodeFacts
<1>11. Shape(tree', E) /\ InTree(tree') = InTree(tree)
  BY <1>7, <1>8, <1>9, SameShape DEF SamePointers
<1>12. StaleAbove(tree', size', E, deepest, {})
  BY <1>4, <1>7, <1>9, StalePainted
<1>13. deepest \in InTree(tree') /\ deepest = deepest' /\ deepest \in E[cur']
  BY <1>4, <1>9, <1>10, <1>11
<1> QED BY <1>4, <1>11, <1>12, <1>13, AugmentedErase

LEMMA AugmentedEraseRotate ==
    ASSUME AugInv, Inv, EraseRotate
    PROVE  AugInv'
<1>1. PICK m : m = Balancing
  OBVIOUS
<1>2. PICK s : s = Short
  OBVIOUS
<1>3. PICK w : w = Sibling
  OBVIOUS
<1>4. /\ EraseRebalances /\ pc' = "erase_color"
      /\ tree' = EraseRotated(m, par, s) /\ cur' = tree'.root /\ size' = size /\ deepest' = deepest
      /\ w = m.child[Opposite(s)][par] /\ \E z \in Sides : IsRed(m, m.child[z][w])
  BY <1>1, <1>2, <1>3 DEF EraseRotate, EraseRebalances, RedNephew, Sibling
<1>5. s \in Sides /\ Levels(tree, m, par, s)
  BY <1>1, <1>2, <1>4, BalancingState, Zenon
<1>6. w \in Nodes
  BY <1>4, <1>5 DEF Levels
<1>7. InTree(m) = InTree(tree) /\ par \in InTree(tree)
  BY <1>1, <1>4, BalancingStale
<1>8. PICK F : /\ Shape(m, F) /\ deepest \in InTree(tree)
               /\ OnSide(m, F, par, s, deepest)
               /\ StaleAbove(m, size, F, deepest, {})
  BY <1>1, <1>2, <1>4, BalancingStale, Zenon DEF OnSide
<1>9. InTree(tree') = InTree(m) /\ \E E : Shape(tree', E) /\ Covers(tree', size, E, deepest)
  BY <1>4, <1>5, <1>6, <1>7, <1>8, EraseRotatedStale
<1>10. PICK E : Shape(tree', E) /\ Covers(tree', size', E, deepest)
  BY <1>4, <1>9
<1>11. deepest \in InTree(tree') /\ deepest = deepest'
  BY <1>4, <1>7, <1>8, <1>9
<1> QED BY <1>4, <1>10, <1>11, AugmentedErase

LEMMA AugmentedEraseDone ==
    ASSUME AugInv, Inv, EraseDone
    PROVE  AugInv'
<1>1. /\ pc = "erase_color" /\ pc' = "erased" /\ (IsRed(tree, cur) \/ cur = tree.root)
      /\ tree' = IF cur = Nil THEN tree ELSE Paint(tree, cur, Black)
      /\ UNCHANGED <<size, cur, par, deepest>>
  BY DEF EraseDone, EraseRebalances, IsBlack, locals
<1>2. PICK D : Shape(tree, D) /\ EraseStale(D)
  BY <1>1 DEF AugInv, Augments
<1>3. tree \in Trees /\ cur \in InTree(tree) \cup {Nil}
  BY <1>1, EraseState
<1>4. SamePointers(tree, tree')
  <2>1. CASE cur = Nil
    BY <1>1, <1>3, <2>1 DEF SamePointers
  <2>2. CASE cur # Nil
    <3>1. cur \in Nodes /\ Black \in {Red, Black}
      BY <1>3, <2>2 DEF InTree
    <3>2. Paints(tree, tree', cur, Black)
      BY <1>1, <1>3, <2>2, <3>1, PaintPoints
    <3> QED BY <3>2 DEF SamePointers, Paints
  <2> QED BY <2>1, <2>2
<1>5. Shape(tree', D) /\ InTree(tree') = InTree(tree)
  BY <1>2, <1>4, SameShape DEF SamePointers
<1>6. IF deepest = Nil THEN InTree(tree) = {} ELSE Covers(tree, size, D, deepest)
  <2>1. CASE deepest = Nil \/ cur = tree.root
    BY <1>2, <2>1 DEF EraseStale
  <2>2. CASE deepest # Nil /\ cur # tree.root
    <3>1. deepest \in InTree(tree) /\ StaleAbove(tree, size, D, deepest, {})
      BY <1>2, <2>2 DEF EraseStale
    <3>2. deepest \in D[deepest]
      BY <1>2, <3>1, OwnBelow
    <3> QED BY <1>2, <2>2, <3>1, <3>2, AllCovered
  <2> QED BY <2>1, <2>2
<1>7. IF deepest = Nil THEN AllFresh(tree', size') ELSE Covers(tree', size', D, deepest)
  <2>1. deepest # Nil => Covers(tree', size', D, deepest)
    BY <1>1, <1>4, <1>6, StalePainted
  <2>2. deepest = Nil => AllFresh(tree', size')
    BY <1>5, <1>6 DEF AllFresh
  <2> QED BY <2>1, <2>2
<1>8. Augments(D)'
  BY <1>1, <1>7 DEF Augments, Unfinished
<1> QED BY <1>5, <1>8 DEF AugInv

\* The walk up.
LEMMA AugmentedErased ==
    ASSUME AugInv, AugmentErased
    PROVE  AugInv'
<1>1. /\ pc = "erased" /\ pc' = IF deepest = Nil THEN "return" ELSE "augment"
      /\ cur' = deepest /\ UNCHANGED <<tree, size>>
  BY DEF AugmentErased
<1>2. PICK D : Shape(tree, D) /\ IF deepest = Nil THEN AllFresh(tree, size) ELSE Covers(tree, size, D, deepest)
  BY <1>1 DEF AugInv, Augments
<1>3. Augments(D)'
  BY <1>1, <1>2 DEF Augments, Unfinished
<1> QED BY <1>1, <1>2, <1>3 DEF AugInv

LEMMA AugmentedUp ==
    ASSUME AugInv, Inv, AugmentUp
    PROVE  AugInv'
<1>1. /\ pc = "augment" /\ cur' = tree.parent[cur] /\ tree' = tree
      /\ pc' = IF tree.parent[cur] = Nil THEN "return" ELSE "augment"
  BY DEF AugmentUp
<1>2. PICK D : Shape(tree, D) /\ Covers(tree, size, D, cur)
  BY <1>1 DEF AugInv, Augments
<1>3. size \in [Nodes -> Nat]
  BY DEF Inv, TypeOK
<1>4. IF tree.parent[cur] = Nil THEN AllFresh(tree, size') ELSE Covers(tree, size', D, tree.parent[cur])
  BY <1>2, <1>3, AugmentClimbs
<1>5. Augments(D)'
  BY <1>1, <1>4 DEF Augments, Unfinished
<1> QED BY <1>1, <1>2, <1>5 DEF AugInv

LEMMA AugmentedStutter == AugInv /\ UNCHANGED vars => AugInv'
<1> SUFFICES ASSUME AugInv, UNCHANGED vars PROVE AugInv'
  OBVIOUS
<1>1. /\ tree' = tree /\ size' = size /\ pc' = pc /\ call' = call /\ cur' = cur /\ par' = par
      /\ deepest' = deepest
  BY DEF vars
<1>2. PICK D : Shape(tree, D) /\ Augments(D)
  BY DEF AugInv
<1>3. InsertStale(D)' = InsertStale(D) /\ EraseStale(D)' = EraseStale(D)
  BY <1>1 DEF InsertStale, EraseStale, InsertRebalances
<1>4. Augments(D)'
  BY <1>1, <1>2, <1>3 DEF Augments
<1> QED BY <1>1, <1>2, <1>4 DEF AugInv

\* After every call of rb_insert, rb_erase and rb_replace_node the augmented
\* data is right in every node, for any set of elements and any keys: the walks
\* of rb_augment_insert and rb_augment_erase_end meet every node below which
\* the call and its rotations have changed anything.
THEOREM AugmentsAll == Spec => []Augmented
<1>1. Init => AugInv
  <2> SUFFICES ASSUME Init PROVE AugInv
    OBVIOUS
  <2>1. PICK D : Shape(tree, D)
    BY Initially DEF Inv, TreeInv
  <2>2. pc = "idle" /\ InTree(tree) = {}
    BY Zenon DEF Init, InTree
  <2>3. Augments(D)
    BY <2>2 DEF Augments, Unfinished, AllFresh
  <2> QED BY <2>1, <2>3 DEF AugInv
<1>2. AugInv /\ Inv /\ Inv' /\ [Next]_vars => AugInv'
  <2> SUFFICES ASSUME AugInv, Inv, Inv', [Next]_vars PROVE AugInv'
    OBVIOUS
  <2>1. CASE \E v, n \in Nodes : rb_replace(v, n)
    BY <2>1, AugmentedReplace
  <2>2. CASE /\ Client \/ SearchDown \/ SearchDone \/ InsertDown \/ InsertDuplicate
                \/ SuccessorDown \/ Walking \/ Return
             /\ \A v, n \in Nodes : ~ rb_replace(v, n)
    BY <2>2, AugmentedReads
  <2>3. CASE InsertLink \/ InsertRecolor \/ InsertRotate \/ InsertDone
    BY <2>3, AugmentedLink, AugmentedRecolor, AugmentedRotate, AugmentedInsertDone
  <2>4. CASE EraseNode \/ EraseSuccessor \/ EraseRecolor \/ EraseRotate \/ EraseDone
    BY <2>4, AugmentedEraseNode, AugmentedEraseSuccessor, AugmentedEraseRecolor, AugmentedEraseRotate,
       AugmentedEraseDone
  <2>5. CASE AugmentErased \/ AugmentUp
    BY <2>5, AugmentedErased, AugmentedUp
  <2>6. CASE UNCHANGED vars
    BY <2>6, AugmentedStutter
  <2> QED BY <2>1, <2>2, <2>3, <2>4, <2>5, <2>6 DEF Next, Library, Inserting, Erasing
<1>3. Inv /\ AugInv => Augmented
  <2> SUFFICES ASSUME Inv, AugInv, pc = "return", NEW n \in InTree(tree) PROVE rb_augment_f(size, n) = size
    BY DEF Augmented
  <2>1. Fresh(tree, size, n)
    BY Calm DEF Unfinished, AllFresh
  <2>2. size \in [Nodes -> Nat] /\ n \in Nodes
    BY DEF Inv, TypeOK, InTree
  <2>3. rb_augment_f(size, n) = [size EXCEPT ![n] = size[n]]
    BY <2>1 DEF rb_augment_f, Fresh, SizeOf
  <2> QED BY <2>2, <2>3
<1> QED BY <1>1, <1>2, <1>3, Invariance, PTL DEF Spec

=============================================================================
