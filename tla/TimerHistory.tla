----------------------------- MODULE TimerHistory -----------------------------
(***************************************************************************)
(* Timer with history variables: what every running timer was started for, *)
(* how much time drive_timer has credited since, and the order the timers  *)
(* were started in.  They say when a timer expires in the client's terms,  *)
(* milliseconds and starts, which the engine's own state no longer holds.  *)
(***************************************************************************)
EXTENDS Timer

VARIABLES
    asked,      \* asked[e]: the timeout e was last started for
    waited,     \* waited[e]: the milliseconds credited while e was running
    nested,     \* nested[e]: e was last started inside a callback
    started     \* the running timers, in the order they were started

\* An int of milliseconds is fewer ticks than an unsigned int counts.
ASSUME TimeoutAssumption == \A ms \in Timeouts : ms <= (TickMod - 1) * TickRate

history == <<asked, waited, nested, started>>
hvars == <<vars, history>>

HInit ==
    /\ Init
    /\ asked = [e \in Elems |-> 0]
    /\ waited = [e \in Elems |-> 0]
    /\ nested = [e \in Elems |-> FALSE]
    /\ started = <<>>

\* A timer that stops or expires is forgotten.
Forget(e) ==
    /\ asked' = [asked EXCEPT ![e] = 0]
    /\ waited' = [waited EXCEPT ![e] = 0]
    /\ nested' = [nested EXCEPT ![e] = FALSE]
    /\ started' = Unlink(started, e)

HClient ==
    \/ \E e \in Elems :
         \/ \E ms \in Timeouts :
              /\ add_timer(e, ms)
              /\ asked' = [asked EXCEPT ![e] = ms]
              /\ nested' = [nested EXCEPT ![e] = (pc = "callback")]
              /\ started' = Append(started, e)
              /\ UNCHANGED waited
         \/ add_running_timer(e) /\ UNCHANGED history
         \/ del_timer(e) /\ Forget(e)
    \/ deinit_timer /\ UNCHANGED history

HDrive(gap) ==
    /\ drive_timer(gap)
    /\ waited' = [e \in Elems |->
           IF is_timer_running(e) THEN waited[e] + Guarded(mtime(gap)) ELSE waited[e]]
    /\ UNCHANGED <<asked, nested, started>>

HEngine ==
    \/ (DriveTick \/ DriveDone \/ ScanElem \/ ScanDone \/ TickDone) /\ UNCHANGED history
    \/ Fire /\ Forget(Head(timeout_list))

HReturn == CallbackReturns /\ UNCHANGED history

HNext ==
    \/ HClient
    \/ \E gap \in Gaps : HDrive(gap)
    \/ HEngine
    \/ HReturn

HSpec == HInit /\ [][HNext]_hvars

\* The fairness of FairSpec: the engine runs to completion, callbacks return,
\* and the program keeps calling drive_timer, which time and again finds some
\* time elapsed.
HFairSpec ==
    /\ HSpec
    /\ WF_hvars(HEngine)
    /\ WF_hvars(HReturn)
    /\ SF_hvars(\E gap \in Gaps : Guarded(mtime(gap)) > 0 /\ HDrive(gap))

-----------------------------------------------------------------------------
(* Properties.                                                             *)

\* A timer of one tick or more never expires before the time it was started
\* for has been credited.  Started inside a callback, it may expire early by
\* what drive_timer has still to catch up with: less than two ticks.
NotEarly ==
    pc = "expire" =>
        \A e \in Range(timeout_list) :
            asked[e] >= TickRate =>
                waited[e] + (IF nested[e] THEN 2 * TickRate - 1 ELSE 0) >= asked[e]

\* When drive_timer has returned no timer is overdue: each waits less than a
\* tick more than its timeout in ticks.  No backlog of ticks is left behind,
\* and no timer is missed for a whole turn of the wheel or of the tick counter.
NoOverdue ==
    pc = "idle" =>
        \A e \in Range(started) :
            waited[e] < (get_tick_from_milsec(asked[e]) + 1) * TickRate

\* Timers that expire at the same tick run their callbacks in the order they
\* were started, whatever their timeouts and whatever was stopped meanwhile.
ExpiryOrder ==
    \A i, j \in DOMAIN timeout_list :
        i < j => \E k, l \in DOMAIN started :
                    k < l /\ started[k] = timeout_list[i] /\ started[l] = timeout_list[j]

\* A running timer expires or is stopped, unless the program ends first.
RunningTimerSettles ==
    \A e \in Elems :
        is_timer_running(e) ~> (~is_timer_running(e) \/ pc \in {"crashed", "freed"})

\* drive_timer returns, however often callbacks restart their timers.
DriveReturns == pc = "drive" ~> pc \in {"idle", "crashed"}

=============================================================================
