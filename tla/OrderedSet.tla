----------------------------- MODULE OrderedSet -----------------------------
(***************************************************************************)
(* What the tree of mylibrary/rbtree.h promises its client: a set of       *)
(* elements with distinct keys, searched by key and walked in the order of *)
(* the keys.  A call is decided in one step and answered in another.       *)
(***************************************************************************)
EXTENDS Integers

CONSTANTS Nodes, Nil, Key

VARIABLES
    set,     \* the elements in the tree
    reply    \* the call that was decided and its result, or <<>>

vars == <<set, reply>>

SetInit == set = {} /\ reply = <<>>

\* The element of S nearest to the bound: the least or the greatest.
Least(S) == IF S = {} THEN Nil ELSE CHOOSE n \in S : \A m \in S : Key[n] <= Key[m]
Greatest(S) == IF S = {} THEN Nil ELSE CHOOSE n \in S : \A m \in S : Key[m] <= Key[n]

Find(k) == IF \E n \in set : Key[n] = k THEN CHOOSE n \in set : Key[n] = k ELSE Nil

\* What a call comes to: its result, and the set it leaves.
Decide(call, value, left) == reply' = <<call, value>> /\ set' = left

Insert(n) ==
    /\ n \notin set
    /\ IF Find(Key[n]) = Nil THEN Decide(<<"insert", n>>, 0, set \cup {n})
                              ELSE Decide(<<"insert", n>>, -1, set)

Erase(n) == n \in set /\ Decide(<<"erase", n>>, Nil, set \ {n})

Replace(v, n) ==
    /\ v \in set /\ n \notin set /\ Key[v] = Key[n]
    /\ Decide(<<"replace", v, n>>, Nil, (set \ {v}) \cup {n})

After(n) == IF n \in set THEN Least({m \in set : Key[m] > Key[n]}) ELSE Nil
Before(n) == IF n \in set THEN Greatest({m \in set : Key[m] < Key[n]}) ELSE Nil

\* The calls that only look.
Read ==
    \/ \E n \in Nodes : \/ Decide(<<"search", Key[n]>>, Find(Key[n]), set)
                        \/ Decide(<<"next", n>>, After(n), set)
                        \/ Decide(<<"prev", n>>, Before(n), set)
    \/ Decide(<<"first">>, Least(set), set)
    \/ Decide(<<"last">>, Greatest(set), set)

Call ==
    /\ reply = <<>>
    /\ \/ \E n \in Nodes : Insert(n) \/ Erase(n) \/ \E v \in Nodes : Replace(v, n)
       \/ Read

Return == reply # <<>> /\ reply' = <<>> /\ set' = set

SetNext == Call \/ Return

SetSpec == SetInit /\ [][SetNext]_vars

=============================================================================
