--------------------------- MODULE MCListPointers ---------------------------
(* Instances of ListPointers for TLC. *)
EXTENDS ListPointers, TLC

\* The entries are interchangeable, and so are the heads.
Symmetric == Permutations(Heads) \cup Permutations(Entries)

=============================================================================
