-------------------------------- MODULE Timer --------------------------------
(***************************************************************************)
(* The timer engine of mylibrary/timer.c and timer.h: a wheel of           *)
(* num_buckets lists indexed by the absolute tick a timer expires at.      *)
(*                                                                         *)
(* drive_timer is cut at the points where the program's own code can run,  *)
(* that is around every callback; pc says where it stands:                 *)
(*   "idle"      no engine code on the stack, the client runs              *)
(*   "drive"     at the head of the while loop of drive_timer              *)
(*   "scan"      in the bucket loop of timer_tick                          *)
(*   "expire"    at the head of the timeout loop of timer_tick             *)
(*   "callback"  inside p->cb(p), the client runs                          *)
(*   "crashed"   add_timer wrote through NULL on purpose                   *)
(*   "freed"     deinit_timer has freed the buckets                        *)
(*                                                                         *)
(* A struct list_head is the sequence of the elements linked on it; an     *)
(* element is linked (is_timer_running) when it is on one of the lists.    *)
(***************************************************************************)
EXTENDS Lists

CONSTANTS
    Elems,       \* the TimerElem blocks of the client
    NoElem,      \* no callback is running
    NumBuckets,  \* num_buckets
    TickRate,    \* tick_rate, in milliseconds
    TickMod,     \* the number of values of an unsigned int
    Timeouts,    \* the timeouts, in milliseconds, the client asks for
    Gaps         \* the <<tv_sec, tv_usec>> differences drive_timer may find
                 \* between the time it read last and now

ASSUME ElemAssumption == NoElem \notin Elems
ASSUME WheelAssumption ==
    /\ NumBuckets \in Nat \ {0}
    /\ TickRate \in Nat \ {0}
    /\ TickMod \in Nat \ {0, 1}
ASSUME InputAssumption == Timeouts \subseteq Int /\ Gaps \subseteq Int \X Int

VARIABLES
    pc,           \* where the engine stands
    tick,         \* timer->tick, the next tick to process
    buckets,      \* timer->buckets
    elemTick,     \* elemTick[e]: e->tick
    accumulated,  \* timer->accumulated
    pos,          \* the position of p in the bucket timer_tick scans
    timeout_list, \* the local list of timer_tick
    firing        \* the element whose callback runs, or NoElem

vars == <<pc, tick, buckets, elemTick, accumulated, pos, timeout_list, firing>>

Buckets == 0 .. NumBuckets - 1
Ticks == 0 .. TickMod - 1
Phases == {"idle", "drive", "scan", "expire", "callback", "crashed", "freed"}

-----------------------------------------------------------------------------
(* Lists.                                                                  *)

InWheel(e) == \E b \in Buckets : e \in Range(buckets[b])

is_timer_running(e) == InWheel(e) \/ e \in Range(timeout_list)

-----------------------------------------------------------------------------
(* Ticks.                                                                  *)

\* The division of C, which rounds towards zero.
CDiv(a, b) == IF a >= 0 THEN a \div b ELSE -((-a) \div b)

\* Mutant: rounded down.
get_tick_rounded_down(ms) == CDiv(ms, TickRate) % TickMod

\* Rounded up, except below one tick_rate, where it is zero; stored unsigned.
get_tick_from_milsec(ms) ==
    (CDiv(ms, TickRate)
        + (IF ms % TickRate # 0 /\ ms >= TickRate THEN 1 ELSE 0)) % TickMod

\* The milliseconds of a gap: the quotient of the microseconds, which may be
\* negative, is a double that the assignment to a long cuts towards zero.
mtime(gap) == gap[1] * 1000 + CDiv(gap[2], 1000)

\* The guards of drive_timer against a clock that jumps.
Guarded(ms) ==
    IF ms < 0 THEN 0 ELSE IF ms >= 3 * TickRate THEN TickRate ELSE ms

-----------------------------------------------------------------------------
Init ==
    /\ pc = "idle"
    /\ tick = 0
    /\ buckets = [b \in Buckets |-> <<>>]
    /\ elemTick = [e \in Elems |-> 0]
    /\ accumulated = TickRate
    /\ pos = 1
    /\ timeout_list = <<>>
    /\ firing = NoElem

ClientRuns == pc \in {"idle", "callback"}

\* Mutants: no check that e is stopped; the bucket of the delay, not of the
\* tick; list_add for list_add_tail; a timer due at once joins the expired ones.
add_timer_unchecked(e, ms) ==
    /\ ClientRuns
    /\ elemTick' = [elemTick EXCEPT ![e] = (tick + get_tick_from_milsec(ms)) % TickMod]
    /\ buckets' = [buckets EXCEPT ![elemTick'[e] % NumBuckets] = Append(@, e)]
    /\ UNCHANGED <<pc, tick, accumulated, pos, timeout_list, firing>>

add_timer_in_front(e, ms) ==
    /\ ClientRuns
    /\ ~is_timer_running(e)
    /\ elemTick' = [elemTick EXCEPT ![e] = (tick + get_tick_from_milsec(ms)) % TickMod]
    /\ buckets' = [buckets EXCEPT ![elemTick'[e] % NumBuckets] = <<e>> \o @]
    /\ UNCHANGED <<pc, tick, accumulated, pos, timeout_list, firing>>

add_timer_at_once(e, ms) ==
    /\ ClientRuns
    /\ ~is_timer_running(e)
    /\ elemTick' = [elemTick EXCEPT ![e] = (tick + get_tick_from_milsec(ms)) % TickMod]
    /\ IF get_tick_from_milsec(ms) = 0
       THEN timeout_list' = Append(timeout_list, e) /\ UNCHANGED buckets
       ELSE /\ buckets' = [buckets EXCEPT ![elemTick'[e] % NumBuckets] = Append(@, e)]
            /\ UNCHANGED timeout_list
    /\ UNCHANGED <<pc, tick, accumulated, pos, firing>>

add_timer(e, ms) ==
    /\ ClientRuns
    /\ ~is_timer_running(e)
    /\ elemTick' = [elemTick EXCEPT ![e] = (tick + get_tick_from_milsec(ms)) % TickMod]
    /\ buckets' = [buckets EXCEPT ![elemTick'[e] % NumBuckets] = Append(@, e)]
    /\ UNCHANGED <<pc, tick, accumulated, pos, timeout_list, firing>>

\* add_timer on a running element crashes on purpose.
add_running_timer(e) ==
    /\ ClientRuns
    /\ is_timer_running(e)
    /\ pc' = "crashed"
    /\ UNCHANGED <<tick, buckets, elemTick, accumulated, pos, timeout_list, firing>>

\* list_del_init works on whatever list the element is on, timeout_list included.
del_timer(e) ==
    /\ ClientRuns
    /\ is_timer_running(e)
    /\ buckets' = [b \in Buckets |-> Unlink(buckets[b], e)]
    /\ timeout_list' = Unlink(timeout_list, e)
    /\ UNCHANGED <<pc, tick, elemTick, accumulated, pos, firing>>

\* The buckets go; whatever is still running stays linked to freed memory.
deinit_timer ==
    /\ pc = "idle"
    /\ pc' = "freed"
    /\ UNCHANGED <<tick, buckets, elemTick, accumulated, pos, timeout_list, firing>>

drive_timer(gap) ==
    /\ pc = "idle"
    /\ accumulated' = accumulated + Guarded(mtime(gap))
    /\ pc' = "drive"
    /\ UNCHANGED <<tick, buckets, elemTick, pos, timeout_list, firing>>

\* Mutant: the loop subtracts nothing.
DriveTickForever ==
    /\ pc = "drive"
    /\ accumulated >= TickRate
    /\ pos' = 1
    /\ timeout_list' = <<>>
    /\ pc' = "scan"
    /\ UNCHANGED <<tick, buckets, elemTick, accumulated, firing>>

\* while(timer->accumulated >= timer->tick_rate), entering timer_tick.
DriveTick ==
    /\ pc = "drive"
    /\ accumulated >= TickRate
    /\ accumulated' = accumulated - TickRate
    /\ pos' = 1
    /\ timeout_list' = <<>>
    /\ pc' = "scan"
    /\ UNCHANGED <<tick, buckets, elemTick, firing>>

DriveDone ==
    /\ pc = "drive"
    /\ accumulated < TickRate
    /\ pc' = "idle"
    /\ UNCHANGED <<tick, buckets, elemTick, accumulated, pos, timeout_list, firing>>

Current == tick % NumBuckets

\* Mutant: p->tick <= timer->tick.
ScanElemOrdered ==
    /\ pc = "scan"
    /\ pos <= Len(buckets[Current])
    /\ LET p == buckets[Current][pos] IN
         \/ /\ elemTick[p] <= tick
            /\ buckets' = [buckets EXCEPT ![Current] = RemoveAt(@, pos)]
            /\ timeout_list' = Append(timeout_list, p)
            /\ UNCHANGED pos
         \/ /\ elemTick[p] > tick
            /\ pos' = pos + 1
            /\ UNCHANGED <<buckets, timeout_list>>
    /\ UNCHANGED <<pc, tick, elemTick, accumulated, firing>>

\* One element of the bucket: moved when it expires at this very tick, or
\* left for a later turn of the wheel.
ScanElem ==
    /\ pc = "scan"
    /\ pos <= Len(buckets[Current])
    /\ LET p == buckets[Current][pos] IN
         \/ /\ elemTick[p] = tick
            /\ buckets' = [buckets EXCEPT ![Current] = RemoveAt(@, pos)]
            /\ timeout_list' = Append(timeout_list, p)
            /\ UNCHANGED pos
         \/ /\ elemTick[p] # tick
            /\ pos' = pos + 1
            /\ UNCHANGED <<buckets, timeout_list>>
    /\ UNCHANGED <<pc, tick, elemTick, accumulated, firing>>

\* The bucket is exhausted: timer->tick++ before any callback runs.
ScanDone ==
    /\ pc = "scan"
    /\ pos > Len(buckets[Current])
    /\ tick' = (tick + 1) % TickMod
    /\ pos' = 1
    /\ pc' = "expire"
    /\ UNCHANGED <<buckets, elemTick, accumulated, timeout_list, firing>>

\* Mutant: the callback runs without list_del_init.
FireLinked ==
    /\ pc = "expire"
    /\ timeout_list # <<>>
    /\ firing' = Head(timeout_list)
    /\ pc' = "callback"
    /\ UNCHANGED <<tick, buckets, elemTick, accumulated, pos, timeout_list>>

\* list_first_entry, list_del_init, p->cb(p).
Fire ==
    /\ pc = "expire"
    /\ timeout_list # <<>>
    /\ firing' = Head(timeout_list)
    /\ timeout_list' = Tail(timeout_list)
    /\ pc' = "callback"
    /\ UNCHANGED <<tick, buckets, elemTick, accumulated, pos>>

CallbackReturns ==
    /\ pc = "callback"
    /\ firing' = NoElem
    /\ pc' = "expire"
    /\ UNCHANGED <<tick, buckets, elemTick, accumulated, pos, timeout_list>>

\* Mutant: if for while in drive_timer, as built with NO_TICK_LOSS_COMPENSATION.
TickDoneOnce ==
    /\ pc = "expire"
    /\ timeout_list = <<>>
    /\ pc' = "idle"
    /\ UNCHANGED <<tick, buckets, elemTick, accumulated, pos, timeout_list, firing>>

TickDone ==
    /\ pc = "expire"
    /\ timeout_list = <<>>
    /\ pc' = "drive"
    /\ UNCHANGED <<tick, buckets, elemTick, accumulated, pos, timeout_list, firing>>

Client ==
    \/ \E e \in Elems :
         \/ \E ms \in Timeouts : add_timer(e, ms)
         \/ add_running_timer(e)
         \/ del_timer(e)
    \/ deinit_timer

Engine == DriveTick \/ DriveDone \/ ScanElem \/ ScanDone \/ Fire \/ TickDone

Next ==
    \/ Client
    \/ \E gap \in Gaps : drive_timer(gap)
    \/ Engine
    \/ CallbackReturns

Spec == Init /\ [][Next]_vars

-----------------------------------------------------------------------------
(* Properties.                                                             *)

\* Type correctness of the engine's state.
TypeOK ==
    /\ pc \in Phases
    /\ tick \in Ticks
    /\ buckets \in [Buckets -> Seq(Elems)]
    /\ elemTick \in [Elems -> Ticks]
    /\ accumulated \in Nat
    /\ pos \in Nat \ {0}
    /\ timeout_list \in Seq(Elems)
    /\ firing \in Elems \cup {NoElem}

\* The tick e still has to wait for, counted across the wrap of timer->tick.
TicksLeft(e) == (elemTick[e] - tick) % TickMod

\* Every element of the wheel is in the bucket its tick selects: the only
\* one timer_tick looks at when that tick comes.
Placed ==
    \A b \in Buckets : \A e \in Range(buckets[b]) : elemTick[e] % NumBuckets = b

\* An element is linked at most once, over all the buckets and timeout_list:
\* callbacks that stop and restart timers never leave one on two lists.
LinkedOnce ==
    /\ \A b \in Buckets : IsInjective(buckets[b])
    /\ IsInjective(timeout_list)
    /\ \A b \in Buckets : Range(buckets[b]) \cap Range(timeout_list) = {}
    /\ \A b, c \in Buckets : b # c => Range(buckets[b]) \cap Range(buckets[c]) = {}

\* What the bucket loop has established so far: what it moved expires at this
\* tick, what it passed does not.
Scanned ==
    pc = "scan" =>
        /\ \A e \in Range(timeout_list) : elemTick[e] = tick
        /\ \A i \in 1 .. Len(buckets[Current]) :
             i < pos => elemTick[buckets[Current][i]] # tick

\* Timers only wait for their callback while timer_tick runs, and a callback
\* runs on an element that was unlinked first.
PhaseOK ==
    /\ timeout_list # <<>> => pc \in {"scan", "expire", "callback", "crashed"}
    /\ pc = "callback" => firing # NoElem
    /\ firing # NoElem => pc \in {"callback", "crashed"}

IInv == TypeOK /\ Placed /\ LinkedOnce /\ Scanned /\ PhaseOK

\* The wheel implements the countdown timers: with the lists, the absolute
\* ticks and their wrap-around forgotten, every timer runs its callback in
\* exactly the tick it was started for, and never after it was stopped.
OnTimeoutList(e) == e \in Range(timeout_list)

Left ==
    [e \in Elems |->
        IF InWheel(e) \/ (pc = "scan" /\ OnTimeoutList(e)) THEN TicksLeft(e) ELSE -1]

Due == IF pc = "scan" THEN {} ELSE Range(timeout_list)

Countdown == INSTANCE CountdownTimers WITH
    left <- Left, due <- Due, MaxLeft <- TickMod - 1

ImplementsCountdown == Countdown!Spec

\* Once the callbacks of a tick have begun nothing joins timeout_list: a
\* callback that restarts timers, itself included, cannot keep timer_tick busy.
ExpiryStep ==
    pc \in {"expire", "callback"} => Range(timeout_list') \subseteq Range(timeout_list)

ExpiryShrinks == [][ExpiryStep]_vars

=============================================================================
