--------------------------- MODULE MCConfigUpdate ---------------------------
(* Instances of ConfigUpdate for TLC. *)
EXTENDS ConfigUpdate, TLC

\* The programs are interchangeable, and so are the values.
Symmetric == Permutations(Procs) \cup Permutations(Values)

=============================================================================
