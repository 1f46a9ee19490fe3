---------------------------- MODULE IoEventDriver ----------------------------
(***************************************************************************)
(* The I/O event driver of mylibrary/io_event_driver.c: select over the    *)
(* registered file descriptors, then a callback for each one reported.     *)
(*                                                                         *)
(* drive_io_event is cut where select or the program's own code runs:      *)
(*   "idle"      no driver code on the stack, the client runs              *)
(*   "select"    at the select call                                        *)
(*   "scan"      in the first loop of check_select for the current type    *)
(*   "dispatch"  at the head of the second loop of check_select            *)
(*   "callback"  inside p->cb(...), the client runs                        *)
(*   "measure"   past the three calls of check_select                      *)
(*   "crashed"   crash() wrote through NULL: select failed                 *)
(*                                                                         *)
(* An element of a list is the descriptor it is registered for; that no    *)
(* list holds two elements of one descriptor is a property, not an         *)
(* assumption.  The callback and its argument are not modelled, so         *)
(* listen_io_event on a registered descriptor, which replaces them, and a  *)
(* failed malloc, which changes nothing, are stuttering steps.             *)
(***************************************************************************)
EXTENDS Lists

CONSTANTS
    Fds,       \* the file descriptors
    NoFd,      \* no callback is running
    NumTypes,  \* the I/O types: RX, TX and ERROR, checked in this order
    Interval,  \* poll_interval in microseconds
    Grain,     \* the 30 microseconds below which drive_io_event gives up
    MaxStep    \* bound: the time between two gettimeofday calls

ASSUME FdAssumption == NoFd \notin Fds
ASSUME TypesAssumption == NumTypes \in Nat \ {0}
ASSUME TimeAssumption == Interval \in Nat /\ Grain \in Nat \ {0} /\ MaxStep \in Nat

VARIABLES
    pc,           \* where drive_io_event stands
    io_set,       \* driver->io_set
    working_set,  \* driver->working_set
    fdset,        \* rset, tset and eset, as select left them
    type,         \* the type check_select works on
    pos,          \* the position of p in the list check_select scans
    firing,       \* the descriptor whose callback runs, or NoFd
    remain,       \* remain, in microseconds
    elapsed       \* now - start at the last gettimeofday

vars == <<pc, io_set, working_set, fdset, type, pos, firing, remain, elapsed>>

Types == 1 .. NumTypes
Phases == {"idle", "select", "scan", "dispatch", "callback", "measure", "crashed"}

Init ==
    /\ pc = "idle"
    /\ io_set = [t \in Types |-> <<>>]
    /\ working_set = [t \in Types |-> <<>>]
    /\ fdset = [t \in Types |-> {}]
    /\ type = 1
    /\ pos = 1
    /\ firing = NoFd
    /\ remain = 0
    /\ elapsed = 0

-----------------------------------------------------------------------------
(* The client: between two calls of drive_io_event, or inside a callback.  *)

ClientRuns == pc \in {"idle", "callback"}

\* Mutant: only io_set is searched.
RegisteredInIoSet(t, fd) == fd \in Range(io_set[t])

\* get_io_event_element # NULL: it looks in both lists of the type.
Registered(t, fd) == fd \in Range(io_set[t]) \/ fd \in Range(working_set[t])

\* Mutant: a registration made in a callback joins the events being delivered.
listen_working(t, fd) ==
    /\ ClientRuns
    /\ ~Registered(t, fd)
    /\ IF pc = "callback"
       THEN working_set' = [working_set EXCEPT ![t] = Append(@, fd)] /\ UNCHANGED io_set
       ELSE io_set' = [io_set EXCEPT ![t] = Append(@, fd)] /\ UNCHANGED working_set
    /\ UNCHANGED <<pc, fdset, type, pos, firing, remain, elapsed>>

listen_io_event(t, fd) ==
    /\ ClientRuns
    /\ ~Registered(t, fd)
    /\ io_set' = [io_set EXCEPT ![t] = Append(@, fd)]
    /\ UNCHANGED <<pc, working_set, fdset, type, pos, firing, remain, elapsed>>

\* The element found is the first one of io_set, then of working_set.
unlisten_io_event(t, fd) ==
    /\ ClientRuns
    /\ Registered(t, fd)
    /\ IF fd \in Range(io_set[t])
       THEN io_set' = [io_set EXCEPT ![t] = Unlink(@, fd)] /\ UNCHANGED working_set
       ELSE working_set' = [working_set EXCEPT ![t] = Unlink(@, fd)] /\ UNCHANGED io_set
    /\ UNCHANGED <<pc, fdset, type, pos, firing, remain, elapsed>>

deinit_io_event_driver ==
    /\ ClientRuns
    /\ io_set' = [t \in Types |-> <<>>]
    /\ working_set' = [t \in Types |-> <<>>]
    /\ UNCHANGED <<pc, fdset, type, pos, firing, remain, elapsed>>

-----------------------------------------------------------------------------
(* drive_io_event.                                                         *)

drive_io_event ==
    /\ pc = "idle"
    /\ remain' = Interval
    /\ elapsed' = 0
    /\ pc' = "select"
    /\ UNCHANGED <<io_set, working_set, fdset, type, pos, firing>>

\* select timed out, or a signal interrupted it.
SelectNothing ==
    /\ pc = "select"
    /\ pc' = "idle"
    /\ UNCHANGED <<io_set, working_set, fdset, type, pos, firing, remain, elapsed>>

SelectFails ==
    /\ pc = "select"
    /\ pc' = "crashed"
    /\ UNCHANGED <<io_set, working_set, fdset, type, pos, firing, remain, elapsed>>

\* select reports some of the descriptors add_to_select_set has set.
SelectReady(ready) ==
    /\ pc = "select"
    /\ \A t \in Types : ready[t] \subseteq Range(io_set[t])
    /\ \E t \in Types : ready[t] # {}
    /\ fdset' = ready
    /\ type' = 1
    /\ pos' = 1
    /\ pc' = "scan"
    /\ UNCHANGED <<io_set, working_set, firing, remain, elapsed>>

\* Mutant: the loop goes on from the element that was moved.
ScanElemUnsafe ==
    /\ pc = "scan"
    /\ pos <= Len(io_set[type])
    /\ LET p == io_set[type][pos] IN
         IF p \in fdset[type]
         THEN /\ io_set' = [io_set EXCEPT ![type] = RemoveAt(@, pos)]
              /\ working_set' = [working_set EXCEPT ![type] = Append(@, p)]
         ELSE UNCHANGED <<io_set, working_set>>
    /\ pos' = pos + 1
    /\ UNCHANGED <<pc, fdset, type, firing, remain, elapsed>>

\* One element of io_set: moved to working_set when its bit is set.
ScanElem ==
    /\ pc = "scan"
    /\ pos <= Len(io_set[type])
    /\ LET p == io_set[type][pos] IN
         \/ /\ p \in fdset[type]
            /\ io_set' = [io_set EXCEPT ![type] = RemoveAt(@, pos)]
            /\ working_set' = [working_set EXCEPT ![type] = Append(@, p)]
            /\ UNCHANGED pos
         \/ /\ p \notin fdset[type]
            /\ pos' = pos + 1
            /\ UNCHANGED <<io_set, working_set>>
    /\ UNCHANGED <<pc, fdset, type, firing, remain, elapsed>>

ScanDone ==
    /\ pc = "scan"
    /\ pos > Len(io_set[type])
    /\ pos' = 1
    /\ pc' = "dispatch"
    /\ UNCHANGED <<io_set, working_set, fdset, type, firing, remain, elapsed>>

\* Mutant: the callback runs before the element is moved back.
DispatchFirst ==
    /\ pc = "dispatch"
    /\ working_set[type] # <<>>
    /\ firing' = Head(working_set[type])
    /\ pc' = "callback"
    /\ UNCHANGED <<io_set, working_set, fdset, type, pos, remain, elapsed>>

\* The element is back at the end of io_set before its callback runs.
Dispatch ==
    /\ pc = "dispatch"
    /\ working_set[type] # <<>>
    /\ firing' = Head(working_set[type])
    /\ working_set' = [working_set EXCEPT ![type] = Tail(@)]
    /\ io_set' = [io_set EXCEPT ![type] = Append(@, firing')]
    /\ pc' = "callback"
    /\ UNCHANGED <<fdset, type, pos, remain, elapsed>>

CallbackReturns ==
    /\ pc = "callback"
    /\ firing' = NoFd
    /\ pc' = "dispatch"
    /\ UNCHANGED <<io_set, working_set, fdset, type, pos, remain, elapsed>>

\* Mutants: if for while in check_select; one type too many.
TypeDoneEarly ==
    /\ pc = "dispatch"
    /\ \/ type < NumTypes /\ type' = type + 1 /\ pc' = "scan"
       \/ type = NumTypes /\ type' = 1 /\ pc' = "measure"
    /\ UNCHANGED <<io_set, working_set, fdset, pos, firing, remain, elapsed>>

\* check_select returns: on to the next type, or to the clock.
TypeDone ==
    /\ pc = "dispatch"
    /\ working_set[type] = <<>>
    /\ \/ type < NumTypes /\ type' = type + 1 /\ pc' = "scan"
       \/ type = NumTypes /\ type' = 1 /\ pc' = "measure"
    /\ UNCHANGED <<io_set, working_set, fdset, pos, firing, remain, elapsed>>

\* Mutants: every round gets the whole interval; and start is moved, too.
MeasureWhole(step) ==
    /\ pc = "measure"
    /\ elapsed' = elapsed + step
    /\ remain' = Interval
    /\ pc' = "select"
    /\ UNCHANGED <<io_set, working_set, fdset, type, pos, firing>>

MeasureAnew(step) ==
    /\ pc = "measure"
    /\ elapsed' = step
    /\ remain' = Interval - step
    /\ pc' = IF remain' > Interval \/ remain' < Grain THEN "idle" ELSE "select"
    /\ UNCHANGED <<io_set, working_set, fdset, type, pos, firing>>

\* start is never moved, so remain loses the whole time since start in every
\* round; the clock of the model does not step back.
Measure(step) ==
    /\ pc = "measure"
    /\ elapsed' = elapsed + step
    /\ remain' = remain - elapsed'
    /\ pc' = IF remain' > Interval \/ remain' < Grain THEN "idle" ELSE "select"
    /\ UNCHANGED <<io_set, working_set, fdset, type, pos, firing>>

Client ==
    \/ \E t \in Types, fd \in Fds : listen_io_event(t, fd) \/ unlisten_io_event(t, fd)
    \/ deinit_io_event_driver

Select ==
    \/ SelectNothing
    \/ SelectFails
    \/ \E ready \in [Types -> SUBSET Fds] : SelectReady(ready)

CheckSelect == ScanElem \/ ScanDone \/ Dispatch \/ TypeDone

Next ==
    \/ Client
    \/ drive_io_event
    \/ Select
    \/ CheckSelect
    \/ CallbackReturns
    \/ \E step \in 0 .. MaxStep : Measure(step)

Spec == Init /\ [][Next]_vars

-----------------------------------------------------------------------------
(* Properties.                                                             *)

\* Type correctness of the driver's state.
TypeOK ==
    /\ pc \in Phases
    /\ io_set \in [Types -> Seq(Fds)]
    /\ working_set \in [Types -> Seq(Fds)]
    /\ fdset \in [Types -> SUBSET Fds]
    /\ type \in Types
    /\ pos \in Nat \ {0}
    /\ firing \in Fds \cup {NoFd}
    /\ remain \in Int
    /\ elapsed \in Nat

\* A descriptor has one element per type at most, over both lists: whatever
\* callbacks register, remove and register again, no event is delivered twice
\* and unlisten_io_event leaves no second element behind.
OneElementPerFd ==
    \A t \in Types :
        /\ IsInjective(io_set[t])
        /\ IsInjective(working_set[t])
        /\ Range(io_set[t]) \cap Range(working_set[t]) = {}

\* The working sets are empty whenever select runs or drive_io_event has
\* returned: add_to_select_set, which reads io_set alone, misses no descriptor.
NothingLeftWorking ==
    /\ pc \in {"idle", "select", "measure"} => \A t \in Types : working_set[t] = <<>>
    /\ \A t \in Types : t # type => working_set[t] = <<>>

\* No call of select may sleep beyond poll_interval: what remains is never
\* more than the interval less the time already spent.
SelectWithinInterval == pc = "select" => remain <= Interval - elapsed

\* Once the callbacks of a type have begun, nothing joins its working set: a
\* callback that registers descriptors, its own included, cannot keep
\* check_select busy.
DispatchStep ==
    pc \in {"dispatch", "callback"} /\ pc' \in {"dispatch", "callback"} =>
        Range(working_set'[type]) \subseteq Range(working_set[type])

DispatchShrinks == [][DispatchStep]_vars

=============================================================================
