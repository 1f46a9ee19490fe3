----------------------------- MODULE MCHashTable -----------------------------
(* Instances of HashTable for TLC. *)
EXTENDS HashTable

CONSTANTS k1, k2, k3

\* Two keys share a bucket; the third has the other.
MCHashOf == (k1 :> 0) @@ (k2 :> 2) @@ (k3 :> 3)

Symmetry == Permutations(Elems)

=============================================================================
