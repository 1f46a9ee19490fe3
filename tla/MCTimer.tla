------------------------------- MODULE MCTimer -------------------------------
(* Instances of Timer for TLC. *)
EXTENDS Timer

\* A timeout below one tick, at one tick, between ticks and of more ticks than
\* the wheel has buckets; one that is already past, which wraps to the last
\* tick but one.
MCTimeouts == {-2, 0, 1, 2, 3, 6}

\* A clock that steps back; one that stands still; a second that ends between
\* the two readings (1 ms, the microsecond difference being negative); five
\* milliseconds, more than two ticks; and a jump beyond three ticks.
MCGaps == {<<-1, 500000>>, <<0, 999>>, <<1, -999500>>, <<0, 5200>>, <<2, 0>>}

Symmetry == Permutations(Elems)

=============================================================================
