--------------------------- MODULE MCRedBlackTree ---------------------------
(* Instances of RedBlackTree for TLC. *)
EXTENDS RedBlackTree, FiniteSets

CONSTANTS
    NumSmall,  \* the keys of the trees that get every call in every order
    NumLarge,  \* the keys of the largest tree
    Holes      \* how many keys are erased from a tree with more than NumSmall

MCNodes == 1..NumLarge + 1

\* Distinct keys, but for the last node, which has the key of the second.
MCKey == [n \in MCNodes |-> IF n = NumLarge + 1 THEN 2 ELSE n]

SmallNodes == 1..NumSmall \cup {NumLarge + 1}
IsSmall == InTree(tree) \subseteq SmallNodes

\* What InTree still lacks of the tree that the keys up to its greatest make.
Missing == {m \in 1..NumLarge : m \notin InTree(tree) /\ \E n \in InTree(tree) \cap 1..NumLarge : m < n}

\* Small trees get every call; larger ones are loaded in ascending order, as
\* the demo loads its tree, and then lose some elements.
MCClient ==
    \/ \E n \in SmallNodes : IsSmall /\ myrbdemo_insert(n)
    \/ \E n \in 1..NumLarge : 1..n - 1 \subseteq InTree(tree) /\ myrbdemo_insert(n)
    \/ \E n \in Nodes : (IsSmall \/ Cardinality(Missing) < Holes) /\ myrbdemo_delete(n)
    \/ IsSmall /\ (ClientReads \/ \E v, n \in SmallNodes : rb_replace(v, n))

MCNext == MCClient \/ Library

MCSpec == Init /\ [][MCNext]_vars /\ WF_vars(Library)

=============================================================================
