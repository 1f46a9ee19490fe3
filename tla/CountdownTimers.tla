--------------------------- MODULE CountdownTimers ---------------------------
(***************************************************************************)
(* What the timer engine of mylibrary/timer.c promises, with no buckets,   *)
(* no absolute tick counter and no lists.  Every timer counts its own      *)
(* ticks down.  A tick moves the timers whose count is exhausted to the    *)
(* set of due timers; the callbacks of that set then run one at a time,    *)
(* and a callback may start and stop any timer, those of the set included. *)
(*                                                                         *)
(* Timer.tla is shown to implement this module.                            *)
(***************************************************************************)
EXTENDS Integers

CONSTANTS
    Elems,    \* the timers
    MaxLeft,  \* the largest number of ticks a timer can have to wait
    NoElem    \* "no callback is running"

Off == -1     \* the count of a timer that is not counting down

VARIABLES
    left,     \* left[e]: the ticks e lets pass before the one it is due at, or Off
    due,      \* the timers whose callback has yet to run in this tick
    firing    \* the timer whose callback is running, or NoElem

vars == <<left, due, firing>>

Init ==
    /\ left = [e \in Elems |-> Off]
    /\ due = {}
    /\ firing = NoElem

\* The program runs its own code: between two ticks, or inside a callback.
ClientRuns == firing # NoElem \/ due = {}

Stopped(e) == left[e] = Off /\ e \notin due

Start(e, d) ==
    /\ ClientRuns
    /\ Stopped(e)
    /\ left' = [left EXCEPT ![e] = d]
    /\ UNCHANGED <<due, firing>>

Stop(e) ==
    /\ ClientRuns
    /\ left' = [left EXCEPT ![e] = Off]
    /\ due' = due \ {e}
    /\ UNCHANGED firing

Tick ==
    /\ firing = NoElem
    /\ due = {}
    /\ due' = {e \in Elems : left[e] = 0}
    /\ left' = [e \in Elems |-> IF left[e] \in {Off, 0} THEN Off ELSE left[e] - 1]
    /\ UNCHANGED firing

Fire(e) ==
    /\ firing = NoElem
    /\ e \in due
    /\ due' = due \ {e}
    /\ firing' = e
    /\ UNCHANGED left

Return ==
    /\ firing # NoElem
    /\ firing' = NoElem
    /\ UNCHANGED <<left, due>>

Next ==
    \/ \E e \in Elems : \E d \in 0 .. MaxLeft : Start(e, d)
    \/ \E e \in Elems : Stop(e)
    \/ Tick
    \/ \E e \in Elems : Fire(e)
    \/ Return

Spec == Init /\ [][Next]_vars

=============================================================================
