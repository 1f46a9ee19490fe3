---------------------------- MODULE MCTimerHistory ----------------------------
(* Instances of TimerHistory for TLC. *)
EXTENDS TimerHistory

\* Below one tick, one tick, more, which is rounded up, and two, which may fire
\* earliest: in a callback with more than two ticks still to catch up with.
MCTimeouts == {1, 2, 3, 4}

MCGaps == {<<0, 0>>, <<1, -999500>>, <<0, 5200>>}

=============================================================================
