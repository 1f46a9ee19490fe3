------------------------------- MODULE KeyedMap -------------------------------
(***************************************************************************)
(* What the hash of mylibrary/hash.h promises: a map from keys to the      *)
(* client's elements.  HashTable.tla is shown to implement it.             *)
(***************************************************************************)
CONSTANTS
    Elems,   \* the client's elements
    NoElem,  \* NULL
    Keys     \* the keys

VARIABLES
    key,     \* key[e]: the key stored in element e
    map,     \* map[k]: the element with key k, or NoElem
    result   \* the last call, its argument and what it returned

vars == <<key, map, result>>

Init ==
    /\ key \in [Elems -> Keys]
    /\ map = [k \in Keys |-> NoElem]
    /\ result = <<"init", NoElem, 0>>

Add(e) ==
    /\ IF map[key[e]] = NoElem
       THEN map' = [map EXCEPT ![key[e]] = e] /\ result' = <<"add", e, 1>>
       ELSE map' = map /\ result' = <<"add", e, 0>>
    /\ UNCHANGED key

Lookup(k) ==
    /\ result' = <<"lookup", k, map[k]>>
    /\ UNCHANGED <<key, map>>

Delete(k) ==
    /\ map' = [map EXCEPT ![k] = NoElem]
    /\ result' = <<"delete", k, IF map[k] = NoElem THEN 0 ELSE 1>>
    /\ UNCHANGED key

\* The client gives an element that is not in the map another key.
Rename(e, k) ==
    /\ map[key[e]] # e
    /\ key' = [key EXCEPT ![e] = k]
    /\ UNCHANGED <<map, result>>

Next ==
    \/ \E e \in Elems : Add(e) \/ \E k \in Keys : Rename(e, k)
    \/ \E k \in Keys : Lookup(k) \/ Delete(k)

Spec == Init /\ [][Next]_vars

=============================================================================
