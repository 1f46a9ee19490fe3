--------------------------- MODULE MCIoEventHistory ---------------------------
(* Instances of IoEventHistory for TLC. *)
EXTENDS IoEventHistory

=============================================================================
