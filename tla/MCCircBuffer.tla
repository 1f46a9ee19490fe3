----------------------------- MODULE MCCircBuffer -----------------------------
(* Instances of CircBuffer for TLC. *)
EXTENDS CircBuffer, TLC

\* No room at all, room for one byte, and room for a few.
MCSizes == {0, 1, 3, 4}

Symmetry == Permutations(Bytes)

=============================================================================
