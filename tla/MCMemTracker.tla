----------------------------- MODULE MCMemTracker -----------------------------
(* Instances of MemTracker for TLC. *)
EXTENDS MemTracker

CONSTANTS s1, s2  \* two call sites

\* Both sites in one bucket of two.
MCHashOf == (s1 :> 1) @@ (s2 :> 3)

Symmetry == Permutations(Blocks) \cup Permutations(Elems)

=============================================================================
