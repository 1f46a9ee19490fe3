---------------------------- MODULE RedBlackTree ----------------------------
(***************************************************************************)
(* The red-black tree of mylibrary/rbtree.c under the client of            *)
(* demo/rbtree_demo.c, which also keeps augmented data: the size of every  *)
(* subtree.  One turn of a loop is one step, so that the properties speak  *)
(* of the tree between two rotations too.                                  *)
(***************************************************************************)
EXTENDS TreeNodes, Sequences

VARIABLES
    tree,    \* the nodes and the root
    size,    \* size[n]: the augmented data of n
    pc,      \* the loop that is running
    call,    \* the call that is running and its arguments
    cur,     \* the cursor of the loop: n, node, child
    par,     \* the variable parent
    deepest, \* what rb_augment_erase_begin returned
    reply    \* the call that was decided and its result, or <<>>

vars == <<tree, size, pc, call, cur, par, deepest, reply>>

locals == <<call, cur, par, deepest>>

Init ==
    /\ tree = [root |-> Nil,
               child |-> [s \in Sides |-> [n \in Nodes |-> Nil]],
               parent |-> [n \in Nodes |-> n],
               color |-> [n \in Nodes |-> Red]]
    /\ size = [n \in Nodes |-> 0]
    /\ pc = "idle"
    /\ call = <<>> /\ cur = Nil /\ par = Nil /\ deepest = Nil /\ reply = <<>>

\* A call begins.
Begin(loop, which, n) ==
    /\ pc = "idle"
    /\ pc' = loop /\ call' = which /\ cur' = n
    /\ UNCHANGED <<tree, size, par, deepest, reply>>

\* A call that changes nothing has its result.
Answer(value) ==
    /\ reply' = <<call, value>>
    /\ pc' = "return"
    /\ UNCHANGED <<tree, size, locals>>

Return ==
    /\ pc = "return"
    /\ pc' = "idle" /\ reply' = <<>>
    /\ call' = <<>> /\ cur' = Nil /\ par' = Nil /\ deepest' = Nil
    /\ UNCHANGED <<tree, size>>

(* Searching and inserting.                                                *)

myrbdemo_search(k) == Begin("search", <<"search", k>>, tree.root)

SearchDown ==
    /\ pc = "search" /\ cur # Nil /\ Key[cur] # call[2]
    /\ cur' = tree.child[SideFor(call[2], cur)][cur]
    /\ UNCHANGED <<tree, size, pc, call, par, deepest, reply>>

SearchDone ==
    /\ pc = "search" /\ (cur # Nil => Key[cur] = call[2])
    /\ Answer(cur)

myrbdemo_insert(n) == n \notin InTree(tree) /\ Begin("insert", <<"insert", n>>, tree.root)

InsertDown ==
    /\ pc = "insert" /\ cur # Nil /\ Key[cur] # Key[call[2]]
    /\ cur' = tree.child[SideFor(Key[call[2]], cur)][cur]
    /\ par' = cur
    /\ UNCHANGED <<tree, size, pc, call, deepest, reply>>

InsertDuplicate ==
    /\ pc = "insert" /\ cur # Nil /\ Key[cur] = Key[call[2]]
    /\ Answer(-1)

InsertLink ==
    LET n == call[2] IN
    /\ pc = "insert" /\ cur = Nil
    /\ tree' = rb_link_node(tree, n, par, IF par = Nil THEN Left ELSE SideFor(Key[n], par))
    /\ cur' = n
    /\ pc' = "insert_color"
    /\ reply' = <<call, 0>>
    /\ UNCHANGED <<size, call, par, deepest>>

InsertRebalances == pc = "insert_color" /\ IsRed(tree, tree.parent[cur])

\* The parent, and the other child of the grandparent.
Uncle ==
    LET p == tree.parent[cur]
        g == tree.parent[p]
    IN tree.child[Opposite(SideOf(tree, g, p))][g]

InsertRecolor ==
    /\ InsertRebalances /\ IsRed(tree, Uncle)
    /\ tree' = InsertRecolored(tree, cur)
    /\ cur' = tree.parent[tree.parent[cur]]
    /\ UNCHANGED <<size, pc, call, par, deepest, reply>>

InsertRotate ==
    LET p == tree.parent[cur] IN
    /\ InsertRebalances /\ IsBlack(tree, Uncle)
    /\ tree' = InsertRotated(tree, cur)
    /\ cur' = IF IsInner(tree, cur) THEN p ELSE cur
    /\ UNCHANGED <<size, pc, call, par, deepest, reply>>

\* Mutant: a red root stays red.
InsertDoneRed ==
    /\ pc = "insert_color" /\ ~InsertRebalances
    /\ cur' = rb_augment_insert(tree, call[2])
    /\ pc' = "augment"
    /\ UNCHANGED <<tree, size, call, par, deepest, reply>>

\* The root turns black, and rb_augment_insert starts on its path.
InsertDone ==
    /\ pc = "insert_color" /\ ~InsertRebalances
    /\ tree' = Paint(tree, tree.root, Black)
    /\ cur' = rb_augment_insert(tree, call[2])
    /\ pc' = "augment"
    /\ UNCHANGED <<size, call, par, deepest, reply>>

(* Erasing.                                                                *)

\* Mutant: the colour of the node that is erased, not that of the hole.
Splice_own_color(t, e, hole, child, p) ==
    /\ tree' = rb_init_node(t, e)
    /\ pc' = IF tree.color[e] = Black THEN "erase_color" ELSE "erased"
    /\ cur' = child /\ par' = p
    /\ size' = [size EXCEPT ![e] = 0]
    /\ reply' = <<call, Nil>>
    /\ UNCHANGED call

\* The node e leaves the tree, child takes the place at parent p that is left
\* empty, and a black place has to be made up for.
Splice(t, e, hole, child, p) ==
    /\ tree' = rb_init_node(t, e)
    /\ pc' = IF tree.color[hole] = Black THEN "erase_color" ELSE "erased"
    /\ cur' = child /\ par' = p
    /\ size' = [size EXCEPT ![e] = 0]
    /\ reply' = <<call, Nil>>
    /\ UNCHANGED call

myrbdemo_delete(e) ==
    /\ e \in InTree(tree)
    /\ Begin("erase", <<"erase", e>>, tree.child[Right][e])

\* One child at most.
EraseNode ==
    LET e == call[2]
        child == IF tree.child[Left][e] = Nil THEN cur ELSE tree.child[Left][e]
    IN /\ pc = "erase"
       /\ tree.child[Left][e] = Nil \/ cur = Nil
       /\ deepest' = rb_augment_erase_begin(tree, e, Nil)
       /\ Splice(SpliceOut(tree, e, child), e, e, child, tree.parent[e])

\* The search for the successor.
SuccessorDown ==
    /\ pc \in {"erase", "successor"}
    /\ cur # Nil /\ tree.child[Left][call[2]] # Nil /\ tree.child[Left][cur] # Nil
    /\ cur' = tree.child[Left][cur]
    /\ pc' = "successor"
    /\ UNCHANGED <<tree, size, call, par, deepest, reply>>

EraseSuccessor ==
    LET e == call[2]
        p == tree.parent[cur]
    IN /\ pc \in {"erase", "successor"}
       /\ cur # Nil /\ tree.child[Left][e] # Nil /\ tree.child[Left][cur] = Nil
       /\ deepest' = rb_augment_erase_begin(tree, e, cur)
       /\ Splice(SpliceSuccessor(tree, e, cur), e, cur, tree.child[Right][cur],
                 IF p = e THEN cur ELSE p)

EraseRebalances == pc = "erase_color" /\ IsBlack(tree, cur) /\ cur # tree.root

\* The side of the node in the loop, and the tree with a black sibling.
Short == SideOf(tree, par, cur)
Balancing == BlackSibling(tree, par, Short)
Sibling == Balancing.child[Opposite(Short)][par]
RedNephew == \E s \in Sides : IsRed(Balancing, Balancing.child[s][Sibling])

EraseRecolor ==
    /\ EraseRebalances /\ ~RedNephew
    /\ tree' = Paint(Balancing, Sibling, Red)
    /\ cur' = par /\ par' = Balancing.parent[par]
    /\ UNCHANGED <<size, pc, call, deepest, reply>>

EraseRotate ==
    /\ EraseRebalances /\ RedNephew
    /\ tree' = EraseRotated(Balancing, par, Short)
    /\ cur' = tree'.root
    /\ UNCHANGED <<size, pc, call, par, deepest, reply>>

EraseDone ==
    /\ pc = "erase_color" /\ ~EraseRebalances
    /\ tree' = IF cur = Nil THEN tree ELSE Paint(tree, cur, Black)
    /\ pc' = "erased"
    /\ UNCHANGED <<size, locals, reply>>

\* rb_augment_erase_end.
AugmentErased ==
    /\ pc = "erased"
    /\ pc' = IF deepest = Nil THEN "return" ELSE "augment"
    /\ cur' = deepest
    /\ UNCHANGED <<tree, size, call, par, deepest, reply>>

(* Augmented data.                                                         *)

\* The callback of the client: the size of n from those of its children.
rb_augment_f(sz, n) ==
    LET sizeOf(m) == IF m = Nil THEN 0 ELSE sz[m]
    IN [sz EXCEPT ![n] = 1 + sizeOf(tree.child[Left][n]) + sizeOf(tree.child[Right][n])]

\* Mutant: the loop goes on from the same node.
AugmentUpHere ==
    /\ pc = "augment"
    /\ size' = rb_augment_f(size, cur)
    /\ pc' = IF tree.parent[cur] = Nil THEN "return" ELSE "augment"
    /\ UNCHANGED <<tree, call, cur, par, deepest, reply>>

\* One level of rb_augment_path.
AugmentUp ==
    LET p == tree.parent[cur]
        l == tree.child[Left][p]
        r == tree.child[Right][p]
        own == rb_augment_f(size, cur)
    IN /\ pc = "augment"
       /\ size' = IF p = Nil THEN own
                  ELSE IF cur = l /\ r # Nil THEN rb_augment_f(own, r)
                  ELSE IF l # Nil THEN rb_augment_f(own, l)
                  ELSE own
       /\ cur' = p
       /\ pc' = IF p = Nil THEN "return" ELSE "augment"
       /\ UNCHANGED <<tree, call, par, deepest, reply>>

(* Walking and replacing.                                                  *)

\* rb_first for s = Left, rb_last for s = Right.
rb_first(s) == Begin("down", <<IF s = Left THEN "first" ELSE "last">>, tree.root)

\* rb_next for s = Right, rb_prev for s = Left.
rb_next(n, s) ==
    Begin(IF tree.parent[n] = n THEN "nowhere"
          ELSE IF tree.child[s][n] # Nil THEN "down" ELSE "up",
          <<IF s = Right THEN "next" ELSE "prev", n>>,
          IF tree.parent[n] # n /\ tree.child[s][n] # Nil THEN tree.child[s][n] ELSE n)

\* The side towards which a walk ends: the least node for first and next.
Towards == IF call[1] \in {"first", "next"} THEN Left ELSE Right

WalkDown ==
    /\ pc = "down" /\ cur # Nil /\ tree.child[Towards][cur] # Nil
    /\ cur' = tree.child[Towards][cur]
    /\ UNCHANGED <<tree, size, pc, call, par, deepest, reply>>

\* Mutant: up while the node is the near child of its parent.
NearChild == tree.parent[cur] # Nil /\ cur = tree.child[Towards][tree.parent[cur]]

\* Up while the node is the far child of its parent.
FarChild == tree.parent[cur] # Nil /\ cur = tree.child[Opposite(Towards)][tree.parent[cur]]

WalkUp ==
    /\ pc = "up" /\ FarChild
    /\ cur' = tree.parent[cur]
    /\ UNCHANGED <<tree, size, pc, call, par, deepest, reply>>

WalkDone ==
    \/ pc = "down" /\ (cur # Nil => tree.child[Towards][cur] = Nil) /\ Answer(cur)
    \/ pc = "up" /\ ~FarChild /\ Answer(tree.parent[cur])
    \/ pc = "nowhere" /\ Answer(Nil)

\* The new element has the key of the victim and takes over its data; the
\* victim is freed.
rb_replace(victim, new) ==
    /\ pc = "idle"
    /\ victim \in InTree(tree) /\ new \notin InTree(tree) /\ Key[victim] = Key[new]
    /\ tree' = rb_init_node(rb_replace_node(tree, victim, new), victim)
    /\ size' = [size EXCEPT ![new] = size[victim], ![victim] = 0]
    /\ reply' = <<<<"replace", victim, new>>, Nil>>
    /\ pc' = "return"
    /\ UNCHANGED locals

-----------------------------------------------------------------------------

ClientReads ==
    \/ \E n \in Nodes : myrbdemo_search(Key[n]) \/ \E s \in Sides : rb_next(n, s)
    \/ \E s \in Sides : rb_first(s)

ClientWrites ==
    \E n \in Nodes : \/ myrbdemo_insert(n) \/ myrbdemo_delete(n)
                     \/ \E v \in Nodes : rb_replace(v, n)

Client == ClientReads \/ ClientWrites

Inserting == InsertDown \/ InsertDuplicate \/ InsertLink \/ InsertRecolor \/ InsertRotate \/ InsertDone

Erasing == EraseNode \/ SuccessorDown \/ EraseSuccessor
           \/ EraseRecolor \/ EraseRotate \/ EraseDone \/ AugmentErased

Walking == WalkDown \/ WalkUp \/ WalkDone

Library == SearchDown \/ SearchDone \/ Inserting \/ Erasing \/ AugmentUp \/ Walking \/ Return

Next == Client \/ Library

Spec == Init /\ [][Next]_vars

\* The functions run to their ends: nothing outside them is waited for.
FairSpec == Spec /\ WF_vars(Library)

-----------------------------------------------------------------------------
(* Properties.                                                             *)

TypeOK ==
    /\ tree \in Trees
    /\ size \in [Nodes -> Nat]
    /\ cur \in NodeOrNil /\ par \in NodeOrNil /\ deepest \in NodeOrNil
    /\ pc \in {"idle", "search", "insert", "insert_color", "erase", "successor", "erase_color",
               "erased", "augment", "down", "up", "nowhere", "return"}

\* The elements from the least to the greatest as the child pointers give them.
InOrder ==
    LET below[n \in NodeOrNil] ==
            IF n = Nil THEN <<>>
            ELSE below[tree.child[Left][n]] \o <<n>> \o below[tree.child[Right][n]]
    IN below[tree.root]

\* Whatever has been inserted and erased, and between any two rotations, the
\* child pointers lead to every element of the tree in the order of the keys.
SearchTree ==
    LET order == InOrder IN
    /\ {order[i] : i \in DOMAIN order} = InTree(tree)
    /\ \A i \in 1..Len(order) - 1 : Key[order[i]] < Key[order[i + 1]]

\* The pointers up and down agree: a node is the child of its parent on just
\* one side, and the root has no parent.
Linked ==
    /\ tree.root # Nil => tree.root \in InTree(tree) /\ tree.parent[tree.root] = Nil
    /\ \A n \in InTree(tree) :
         /\ tree.parent[n] = Nil => tree.root = n
         /\ tree.parent[n] # Nil => tree.parent[n] \in InTree(tree)
                                    /\ \E s \in Sides : tree.child[s][tree.parent[n]] = n
         /\ \A s \in Sides : LET c == tree.child[s][n] IN
              c # Nil => c \in InTree(tree) /\ tree.parent[c] = n /\ c # tree.child[Opposite(s)][n]

\* No red node has a red parent and the root is black, but for what the loop
\* is about to mend: rb_insert_color the node that it has in hand, and
\* __rb_erase_color that one, which it paints black, and its children.
RedRule ==
    \A n \in InTree(tree) :
        LET p == tree.parent[n]
            mending == \/ pc \in {"insert_color", "erase_color"} /\ n = cur
                       \/ pc = "erase_color" /\ p = cur
        IN IsRed(tree, n) /\ ~mending => p # Nil /\ IsBlack(tree, p)

\* The place below par whose paths lack one black node.
Lacks(n, s) == pc = "erase_color" /\ cur # tree.root /\ n = par /\ s = Short

\* Every path down from a node meets the same number of black nodes, when the
\* one that __rb_erase_color is looking for is counted.
BlackBalanced ==
    LET blacks[n \in NodeOrNil] ==
            IF n = Nil THEN {0}
            ELSE {h + (IF IsBlack(tree, n) THEN 1 ELSE 0) :
                    h \in UNION {{b + (IF Lacks(n, s) THEN 1 ELSE 0) : b \in blacks[tree.child[s][n]]} : s \in Sides}}
    IN \A g, h \in blacks[tree.root] : g = h

\* What the loops read through is there: a red parent has a parent, and a node
\* that lacks a black one has a sibling, before and after the red one is moved.
NoNullAccess ==
    /\ InsertRebalances => tree.parent[tree.parent[cur]] # Nil
    /\ EraseRebalances => par # Nil /\ tree.child[Opposite(Short)][par] # Nil /\ Sibling # Nil

\* Between two calls the augmented data is right in every node: the paths of
\* rb_augment_insert and rb_augment_erase_end meet every node whose subtree
\* the call or its rotations changed.
Augmented ==
    pc = "return" => \A n \in InTree(tree) : rb_augment_f(size, n) = size

\* Every call returns.
CallsReturn == (pc # "idle") ~> (pc = "idle")

\* The tree implements the ordered set, call by call.
Abstract == INSTANCE OrderedSet WITH set <- InTree(tree)
ImplementsOrderedSet == Abstract!SetSpec

=============================================================================
