----------------------------- MODULE ListPointers -----------------------------
(***************************************************************************)
(* The doubly linked lists of mylibrary/list.h down to their pointers, and *)
(* the loops over them.  The history variable lists holds what the         *)
(* comments of list.h say is on each list: the sequences that the other    *)
(* modules take a struct list_head to be.                                  *)
(***************************************************************************)
EXTENDS Lists, FiniteSets

CONSTANTS
    Heads,    \* the heads of lists
    Entries,  \* the struct list_head inside the elements
    Null

ASSUME NodesAssumption == Heads \cap Entries = {} /\ Null \notin Heads \cup Entries

Nodes == Heads \cup Entries
Links == [next : [Nodes -> Nodes \cup {Null}], prev : [Nodes -> Nodes \cup {Null}]]

VARIABLES
    link,    \* the pointers: link.next[n], link.prev[n]
    stray,   \* the nodes whose pointers mean nothing: never set, or left behind by a call
    lists,   \* history: the entries on each list
    walk     \* the loop that is running: see Walks

vars == <<link, stray, lists, walk>>

(* The functions, on the pointers.                                         *)

INIT_LIST_HEAD(l, n) == [l EXCEPT !.next[n] = n, !.prev[n] = n]

__list_add(l, new, before, after) ==
    [l EXCEPT !.prev[after] = new, !.next[new] = after, !.prev[new] = before, !.next[before] = new]

AddFirst(l, new, head) == __list_add(l, new, head, l.next[head])
AddLast(l, new, head) == __list_add(l, new, l.prev[head], head)

\* Mutant: the prev pointer of the entry behind is left alone.
__list_del_half(l, e) == [l EXCEPT !.next[l.prev[e]] = l.next[e]]

__list_del_entry(l, e) == [l EXCEPT !.prev[l.next[e]] = l.prev[e], !.next[l.prev[e]] = l.next[e]]

Replaced(l, old, new) ==
    LET after == [l EXCEPT !.next[new] = l.next[old], !.prev[l.next[old]] = new]
    IN [after EXCEPT !.prev[new] = after.prev[old], !.next[after.prev[old]] = new]

list_empty(l, h) == l.next[h] = h
list_is_singular(l, h) == ~list_empty(l, h) /\ l.next[h] = l.prev[h]

__list_cut_position(l, list, head, entry) ==
    [l EXCEPT !.next[list] = l.next[head], !.prev[l.next[head]] = list,
              !.prev[list] = entry, !.next[entry] = list,
              !.next[head] = l.next[entry], !.prev[l.next[entry]] = head]

\* The entries of list come between two neighbours.
__list_splice(l, list, before, after) ==
    [l EXCEPT !.prev[l.next[list]] = before, !.next[before] = l.next[list],
              !.next[l.prev[list]] = after, !.prev[after] = l.prev[list]]

(* Walks.                                                                  *)

NoWalk == [head |-> Null]

\* head and dir are those of the loop, safe says whether it is one that is
\* "safe against removal of list entry", pos and n are its cursors; seen and
\* due are histories: the entries it has come to, and those that it has to come
\* to, being ahead of it from the beginning and never off the list.
Walks == [head : Heads, dir : {"next", "prev"}, safe : BOOLEAN,
          pos : Nodes \cup {Null}, n : Nodes \cup {Null},
          seen : SUBSET Entries, due : SUBSET Entries]

Walking == walk # NoWalk

\* What the body of a loop must leave on its list: the entry the loop goes on from.
Pinned == IF ~Walking THEN {} ELSE IF walk.safe THEN {walk.n} ELSE {walk.pos}

Forget(e) == walk' = IF Walking THEN [walk EXCEPT !.due = @ \ {e}] ELSE walk

\* A list that no loop is running over.
Still(h) == h \notin stray /\ walk.head # h

Init ==
    /\ link = [next |-> [n \in Nodes |-> IF n \in Heads THEN n ELSE Null],
               prev |-> [n \in Nodes |-> IF n \in Heads THEN n ELSE Null]]
    /\ stray = Entries
    /\ lists = [h \in Heads |-> <<>>]
    /\ walk = NoWalk

\* An entry on no list: a new one, one that was removed, or one initialised.
Free(e) == e \in Entries /\ \A h \in Heads : e \notin Range(lists[h])

\* An entry that list_del may be given: not a stray one.
Set(e) == e \in Entries \ stray

Without(e) == [h \in Heads |-> Unlink(lists[h], e)]

(* Operations.                                                             *)

init(n) ==
    /\ n \in stray \/ (n \in Entries /\ Free(n))
    /\ link' = INIT_LIST_HEAD(link, n)
    /\ stray' = stray \ {n}
    /\ UNCHANGED <<lists, walk>>

list_add(e, h) ==
    /\ Free(e) /\ h \notin stray
    /\ link' = AddFirst(link, e, h)
    /\ stray' = stray \ {e}
    /\ lists' = [lists EXCEPT ![h] = <<e>> \o @]
    /\ UNCHANGED walk

list_add_tail(e, h) ==
    /\ Free(e) /\ h \notin stray
    /\ link' = AddLast(link, e, h)
    /\ stray' = stray \ {e}
    /\ lists' = [lists EXCEPT ![h] = Append(@, e)]
    /\ UNCHANGED walk

list_del(e) ==
    /\ Set(e) /\ e \notin Pinned
    /\ link' = [__list_del_entry(link, e) EXCEPT !.next[e] = Null, !.prev[e] = Null]
    /\ stray' = stray \cup {e}
    /\ lists' = Without(e)
    /\ Forget(e)

list_del_init(e) ==
    /\ Set(e) /\ e \notin Pinned
    /\ link' = INIT_LIST_HEAD(__list_del_entry(link, e), e)
    /\ lists' = Without(e)
    /\ Forget(e)
    /\ UNCHANGED stray

list_move(e, h) ==
    /\ Set(e) /\ e \notin Pinned /\ h \notin stray
    /\ link' = AddFirst(__list_del_entry(link, e), e, h)
    /\ lists' = [Without(e) EXCEPT ![h] = <<e>> \o @]
    /\ Forget(e)
    /\ UNCHANGED stray

list_move_tail(e, h) ==
    /\ Set(e) /\ e \notin Pinned /\ h \notin stray
    /\ link' = AddLast(__list_del_entry(link, e), e, h)
    /\ lists' = [Without(e) EXCEPT ![h] = Append(@, e)]
    /\ Forget(e)
    /\ UNCHANGED stray

\* The new entry in the place of the old one.
InPlace(old, new) ==
    [h \in Heads |-> [i \in DOMAIN lists[h] |-> IF lists[h][i] = old THEN new ELSE lists[h][i]]]

list_replace(old, new) ==
    /\ Set(old) /\ old \notin Pinned /\ Free(new) /\ new # old
    /\ link' = Replaced(link, old, new)
    /\ stray' = (stray \ {new}) \cup {old}
    /\ lists' = InPlace(old, new)
    /\ Forget(old)

list_replace_init(old, new) ==
    /\ Set(old) /\ old \notin Pinned /\ Free(new) /\ new # old
    /\ link' = INIT_LIST_HEAD(Replaced(link, old, new), old)
    /\ stray' = stray \ {new}
    /\ lists' = InPlace(old, new)
    /\ Forget(old)

list_rotate_left(h) ==
    LET first == link.next[h] IN
    /\ Still(h) /\ ~list_empty(link, h)
    /\ link' = AddLast(__list_del_entry(link, first), first, h)
    /\ lists' = [lists EXCEPT ![h] = Append(Tail(@), Head(@))]
    /\ UNCHANGED <<stray, walk>>

\* The entries of head up to entry, which is one of them or head itself, come to
\* an empty list.
list_cut_position(list, head, entry) ==
    LET k == IF entry = head THEN 0 ELSE CHOOSE i \in DOMAIN lists[head] : lists[head][i] = entry
    IN /\ list # head /\ Still(list) /\ Still(head)
       /\ lists[list] = <<>> /\ entry \in {head} \cup Range(lists[head])
       /\ ~list_empty(link, head)
       /\ ~(list_is_singular(link, head) /\ link.next[head] # entry /\ head # entry)
       /\ link' = IF entry = head THEN INIT_LIST_HEAD(link, list)
                  ELSE __list_cut_position(link, list, head, entry)
       /\ lists' = [lists EXCEPT ![list] = SubSeq(lists[head], 1, k),
                                 ![head] = SubSeq(@, k + 1, Len(@))]
       /\ UNCHANGED <<stray, walk>>

\* list_splice, list_splice_tail and, when the list is initialised again, the
\* functions with _init.
list_splice(list, head, atTail, initialised) ==
    LET joined == IF atTail THEN __list_splice(link, list, link.prev[head], head)
                  ELSE __list_splice(link, list, head, link.next[head])
    IN /\ list # head /\ Still(list) /\ Still(head) /\ ~list_empty(link, list)
       /\ link' = IF initialised THEN INIT_LIST_HEAD(joined, list) ELSE joined
       /\ stray' = IF initialised THEN stray ELSE stray \cup {list}
       /\ lists' = [lists EXCEPT ![list] = <<>>,
                                 ![head] = IF atTail THEN @ \o lists[list] ELSE lists[list] \o @]
       /\ UNCHANGED walk

(* Loops.                                                                  *)

\* The entries of the walk's list that are still ahead of a position.
Ahead(h, dir, from) ==
    LET s == IF dir = "next" THEN lists[h] ELSE Reverse(lists[h])
    IN {s[i] : i \in {j \in DOMAIN s : from = h \/ \E k \in 1..j - 1 : s[k] = from}}

\* list_for_each and its kin, which begin behind the head, and those with
\* _continue, which begin behind an entry.
list_for_each(h, dir, safe, from) ==
    LET pos == link[dir][from]
    IN /\ ~Walking /\ h \notin stray /\ from \in {h} \cup Range(lists[h])
       /\ walk' = [head |-> h, dir |-> dir, safe |-> safe,
                   pos |-> pos, n |-> IF safe THEN link[dir][pos] ELSE Null,
                   seen |-> {}, due |-> Ahead(h, dir, from)]
       /\ UNCHANGED <<link, stray, lists>>

\* Mutant: n is moved on before pos takes its place.
WalkOnSwapped ==
    LET onto == IF walk.safe THEN link[walk.dir][walk.n] ELSE link[walk.dir][walk.pos]
    IN /\ Walking /\ walk.pos # walk.head
       /\ walk' = [walk EXCEPT !.pos = onto, !.n = IF walk.safe THEN onto ELSE Null,
                               !.seen = @ \cup {walk.pos}]
       /\ UNCHANGED <<link, stray, lists>>

\* The body has run for pos.
WalkOn ==
    LET onto == IF walk.safe THEN walk.n ELSE link[walk.dir][walk.pos]
    IN /\ Walking /\ walk.pos # walk.head
       /\ walk' = [walk EXCEPT !.pos = onto, !.n = IF walk.safe THEN link[walk.dir][onto] ELSE Null,
                               !.seen = @ \cup {walk.pos}]
       /\ UNCHANGED <<link, stray, lists>>

WalkEnds ==
    /\ Walking /\ walk.pos = walk.head
    /\ walk' = NoWalk
    /\ UNCHANGED <<link, stray, lists>>

-----------------------------------------------------------------------------

Operation ==
    \/ \E n \in Nodes : init(n)
    \/ \E e \in Entries :
         \/ list_del(e) \/ list_del_init(e)
         \/ \E h \in Heads : \/ list_add(e, h) \/ list_add_tail(e, h)
                             \/ list_move(e, h) \/ list_move_tail(e, h)
         \/ \E new \in Entries : list_replace(e, new) \/ list_replace_init(e, new)
    \/ \E h \in Heads :
         \/ list_rotate_left(h)
         \/ \E list \in Heads :
              \/ \E entry \in Nodes : list_cut_position(list, h, entry)
              \/ \E atTail, initialised \in BOOLEAN : list_splice(list, h, atTail, initialised)

Loop ==
    \/ \E h \in Heads, dir \in {"next", "prev"}, safe \in BOOLEAN, from \in Nodes :
          list_for_each(h, dir, safe, from)
    \/ WalkOn
    \/ WalkEnds

Next == Operation \/ Loop

Spec == Init /\ [][Next]_vars

-----------------------------------------------------------------------------
(* Properties.                                                             *)

\* The k-th node of the ring of h: h itself, then its entries, then h again.
At(h, k) == IF k \in DOMAIN lists[h] THEN lists[h][k] ELSE h

\* Whatever calls are made, in a loop or outside, the next pointers lead through
\* every list in the order of its entries and back to its head, the prev pointers
\* the other way round, and no entry is on two lists or on one twice.
Represents ==
    /\ \A h \in Heads \ stray : \A k \in 0 .. Len(lists[h]) :
         link.next[At(h, k)] = At(h, k + 1) /\ link.prev[At(h, k + 1)] = At(h, k)
    /\ \A e \in Entries \ stray : Free(e) => link.next[e] = e /\ link.prev[e] = e
    /\ \A g, h \in Heads : \A i \in DOMAIN lists[g], j \in DOMAIN lists[h] :
         lists[g][i] = lists[h][j] => g = h /\ i = j
    /\ \A h \in Heads : Range(lists[h]) \subseteq Entries \ stray
    /\ \A h \in Heads \cap stray : lists[h] = <<>>

\* A loop comes to every entry that was ahead of it and stayed on the list, and to
\* none of them twice, although its body adds entries, removes and replaces them,
\* the current one too if the loop is safe against removal; and it ends at its head.
WalkSeesAll ==
    Walking =>
        /\ walk.pos # Null /\ (walk.safe => walk.n # Null)
        /\ walk.pos \in walk.due => walk.pos \notin walk.seen
        /\ walk.pos = walk.head => walk.due \subseteq walk.seen

=============================================================================
