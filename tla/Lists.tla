-------------------------------- MODULE Lists --------------------------------
(***************************************************************************)
(* The doubly linked lists of mylibrary/list.h as the other modules use    *)
(* them: a struct list_head is the sequence of the elements linked on it.  *)
(* list_add_tail is Append; taking list_first_entry off is Head and Tail.  *)
(***************************************************************************)
EXTENDS Integers, Sequences, SequencesExt

\* list_del and list_del_init of an element, from the list that holds it.
Unlink(s, e) ==
    IF e \in Range(s) THEN RemoveAt(s, CHOOSE i \in DOMAIN s : s[i] = e) ELSE s

=============================================================================
