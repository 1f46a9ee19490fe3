------------------------------ MODULE TreeNodes ------------------------------
(***************************************************************************)
(* The nodes of mylibrary/rbtree.h and what the functions of rbtree.c do   *)
(* to them.  A tree is a record: root, the rb_node of struct rb_root; and  *)
(* for every node its children by side, its parent and its colour.  What   *)
(* the code writes twice, for the left and for the right, is written once  *)
(* for a side s.                                                           *)
(***************************************************************************)
EXTENDS Integers

CONSTANTS
    Nodes,   \* the elements that embed a struct rb_node
    Nil,     \* NULL
    Key      \* Key[n]: the key the client keeps in element n

ASSUME NilAssumption == Nil \notin Nodes
ASSUME KeyAssumption == Key \in [Nodes -> Int]

Left == "left"
Right == "right"
Sides == {Left, Right}
Opposite(s) == IF s = Left THEN Right ELSE Left

Red == "red"
Black == "black"

NodeOrNil == Nodes \cup {Nil}

Trees == [root : NodeOrNil,
          child : [Sides -> [Nodes -> NodeOrNil]],
          parent : [Nodes -> NodeOrNil],
          color : [Nodes -> {Red, Black}]]

\* RB_EMPTY_NODE: a node that is in no tree is its own parent.
InTree(t) == {n \in Nodes : t.parent[n] # n}

IsRed(t, n) == n # Nil /\ t.color[n] = Red
IsBlack(t, n) == ~IsRed(t, n)

\* The child pointer of p that leads to n.  With p = n or no such pointer it
\* is the right one, as in every if of the code.
SideOf(t, p, n) == IF t.child[Left][p] = n THEN Left ELSE Right

\* The side on which the node of a key is searched below n.
SideFor(k, n) == IF k < Key[n] THEN Left ELSE Right

rb_init_node(t, n) ==
    [t EXCEPT !.parent[n] = n, !.color[n] = Red,
              !.child[Left][n] = Nil, !.child[Right][n] = Nil]

Paint(t, n, c) == [t EXCEPT !.color[n] = c]

SetParent(t, n, p) == IF n = Nil THEN t ELSE [t EXCEPT !.parent[n] = p]

\* The pointer from p that led to old, or the root, leads to new.
Redirect(t, p, old, new) ==
    IF p = Nil THEN [t EXCEPT !.root = new]
    ELSE [t EXCEPT !.child[SideOf(t, p, old)][p] = new]

rb_link_node(t, n, p, s) ==
    LET linked == [t EXCEPT !.parent[n] = p, !.color[n] = Red,
                            !.child[Left][n] = Nil, !.child[Right][n] = Nil]
    IN IF p = Nil THEN [linked EXCEPT !.root = n] ELSE [linked EXCEPT !.child[s][p] = n]

\* Mutant: the subtree that changes hands keeps its old parent.
rotate_orphan(t, n, s) ==
    LET up == t.child[Opposite(s)][n]
        turned == [t EXCEPT !.child[Opposite(s)][n] = t.child[s][up],
                            !.child[s][up] = n,
                            !.parent[up] = t.parent[n]]
    IN SetParent(Redirect(turned, t.parent[n], n, up), n, up)

\* __rb_rotate_left for s = Left, __rb_rotate_right for s = Right: n goes
\* down to the side s, and its other child takes its place.
rb_rotate(t, n, s) ==
    LET up == t.child[Opposite(s)][n]
        inner == t.child[s][up]
        turned == SetParent([t EXCEPT !.child[Opposite(s)][n] = inner,
                                      !.child[s][up] = n,
                                      !.parent[up] = t.parent[n]], inner, n)
    IN SetParent(Redirect(turned, t.parent[n], n, up), n, up)

\* rb_insert_color, a red uncle: the grandparent takes the red.
InsertRecolored(t, n) ==
    LET p == t.parent[n]
        g == t.parent[p]
        uncle == t.child[Opposite(SideOf(t, g, p))][g]
    IN Paint(Paint(Paint(t, uncle, Black), p, Black), g, Red)

\* The node is on the inner side of its parent.
IsInner(t, n) ==
    LET p == t.parent[n]
    IN t.child[Opposite(SideOf(t, t.parent[p], p))][p] = n

\* rb_insert_color, a black uncle: n comes to the outer side of its parent,
\* and the parent takes the place of the grandparent.
InsertRotated(t, n) ==
    LET p == t.parent[n]
        g == t.parent[p]
        s == SideOf(t, g, p)
        outer == IF IsInner(t, n) THEN rb_rotate(t, p, s) ELSE t
        top == IF IsInner(t, n) THEN n ELSE p
    IN rb_rotate(Paint(Paint(outer, top, Black), g, Red), g, Opposite(s))

\* __rb_erase_color, a red sibling: it goes above the parent.
BlackSibling(t, p, s) ==
    LET other == t.child[Opposite(s)][p]
    IN IF IsRed(t, other)
       THEN rb_rotate(Paint(Paint(t, other, Black), p, Red), p, s)
       ELSE t

\* Mutant: the sibling turns black where it takes the colour of the parent.
EraseRotated_black(t, p, s) ==
    LET far == Opposite(s)
        other == t.child[far][p]
        outer == IF IsRed(t, t.child[far][other]) THEN t
                 ELSE rb_rotate(Paint(Paint(t, t.child[s][other], Black), other, Red), other, far)
        top == outer.child[far][p]
    IN rb_rotate(Paint(Paint(Paint(outer, top, Black), p, Black), outer.child[far][top], Black), p, s)

\* __rb_erase_color, a red nephew: it comes to the far side, and the sibling
\* takes the place and the colour of the parent.
EraseRotated(t, p, s) ==
    LET far == Opposite(s)
        other == t.child[far][p]
        outer == IF IsRed(t, t.child[far][other]) THEN t
                 ELSE rb_rotate(Paint(Paint(t, t.child[s][other], Black), other, Red), other, far)
        top == outer.child[far][p]
        painted == Paint(Paint(Paint(outer, top, outer.color[p]), p, Black),
                         outer.child[far][top], Black)
    IN rb_rotate(painted, p, s)

\* rb_erase of a node that lacks a child: the other child takes its place.
SpliceOut(t, n, child) ==
    Redirect(SetParent(t, child, t.parent[n]), t.parent[n], n, child)

\* Mutant: the successor takes its place without the rest of the right subtree.
SpliceSuccessor_alone(t, n, y) ==
    [Redirect(t, t.parent[n], n, y)
        EXCEPT !.parent[y] = t.parent[n], !.color[y] = t.color[n],
               !.child[Left][y] = t.child[Left][n], !.parent[t.child[Left][n]] = y]

\* rb_erase of a node with two children: its successor y takes its place, and
\* the child of y the place of y.
SpliceSuccessor(t, n, y) ==
    LET child == t.child[Right][y]
        p == t.parent[y]
        placed == Redirect(t, t.parent[n], n, y)
        freed == IF p = n THEN placed
                 ELSE [SetParent(placed, child, p)
                         EXCEPT !.child[Left][p] = child,
                                !.child[Right][y] = t.child[Right][n],
                                !.parent[t.child[Right][n]] = y]
    IN [freed EXCEPT !.parent[y] = t.parent[n], !.color[y] = t.color[n],
                     !.child[Left][y] = t.child[Left][n],
                     !.parent[t.child[Left][n]] = y]

rb_replace_node(t, victim, new) ==
    LET p == t.parent[victim]
        l == t.child[Left][victim]
        r == t.child[Right][victim]
        around == SetParent(SetParent(Redirect(t, p, victim, new), l, new), r, new)
    IN [around EXCEPT !.parent[new] = around.parent[victim],
                      !.color[new] = around.color[victim],
                      !.child[Left][new] = l, !.child[Right][new] = r]

\* rb_augment_erase_begin: the deepest node on the path of the rebalancing
\* that stays in the tree; y is the successor of n when n has two children.
rb_augment_erase_begin(t, n, y) ==
    LET l == t.child[Left][n]
        r == t.child[Right][n]
    IN IF l = Nil /\ r = Nil THEN t.parent[n]
       ELSE IF r = Nil THEN l
       ELSE IF l = Nil THEN r
       ELSE IF t.child[Right][y] # Nil THEN t.child[Right][y]
       ELSE IF t.parent[y] # n THEN t.parent[y]
       ELSE y

\* Mutant: the path starts from the node itself, above a subtree that the
\* rotations have put below it.
rb_augment_insert_itself(t, n) == n

\* rb_augment_insert: the node the path starts from.
rb_augment_insert(t, n) ==
    IF t.child[Left][n] # Nil THEN t.child[Left][n]
    ELSE IF t.child[Right][n] # Nil THEN t.child[Right][n]
    ELSE n

=============================================================================
