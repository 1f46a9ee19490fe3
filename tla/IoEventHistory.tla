---------------------------- MODULE IoEventHistory ----------------------------
(***************************************************************************)
(* IoEventDriver with history variables about the round since the last     *)
(* return of select: what it reported, which callbacks have run, and which *)
(* registrations callbacks have removed or made since.  An event is a pair *)
(* of a type and a descriptor.                                             *)
(***************************************************************************)
EXTENDS IoEventDriver

VARIABLES
    reported,  \* the events select reported
    served,    \* the events a callback was called for
    removed,   \* the registrations unlisten_io_event or deinit took away
    made       \* the registrations listen_io_event made

history == <<reported, served, removed, made>>
hvars == <<vars, history>>

Events == Types \X Fds

HInit ==
    /\ Init
    /\ reported = {}
    /\ served = {}
    /\ removed = {}
    /\ made = {}

HListen(t, fd) ==
    /\ listen_io_event(t, fd)
    /\ made' = made \cup {<<t, fd>>}
    /\ UNCHANGED <<reported, served, removed>>

HUnlisten(t, fd) ==
    /\ unlisten_io_event(t, fd)
    /\ removed' = removed \cup {<<t, fd>>}
    /\ UNCHANGED <<reported, served, made>>

HDeinit ==
    /\ deinit_io_event_driver
    /\ removed' = Events
    /\ UNCHANGED <<reported, served, made>>

\* A new round begins; between rounds nothing is remembered.
HSelectReady(ready) ==
    /\ SelectReady(ready)
    /\ reported' = {ev \in Events : ev[2] \in ready[ev[1]]}
    /\ served' = {}
    /\ removed' = {}
    /\ made' = {}

HDispatch ==
    /\ Dispatch
    /\ served' = served \cup {<<type, firing'>>}
    /\ UNCHANGED <<reported, removed, made>>

HMeasure(step) ==
    /\ Measure(step)
    /\ reported' = {}
    /\ served' = {}
    /\ removed' = {}
    /\ made' = {}

\* Outside a round the history stays empty.
HIdleClient ==
    /\ pc = "idle"
    /\ Client
    /\ UNCHANGED history

HCallback ==
    /\ pc = "callback"
    /\ \/ \E t \in Types, fd \in Fds : HListen(t, fd) \/ HUnlisten(t, fd)
       \/ HDeinit

HCheckSelect ==
    \/ (ScanElem \/ ScanDone \/ TypeDone) /\ UNCHANGED history
    \/ HDispatch

HReturn == CallbackReturns /\ UNCHANGED history

HSelect ==
    \/ (SelectNothing \/ SelectFails) /\ UNCHANGED history
    \/ \E ready \in [Types -> SUBSET Fds] : HSelectReady(ready)

HNext ==
    \/ HIdleClient
    \/ HCallback
    \/ drive_io_event /\ UNCHANGED history
    \/ HSelect
    \/ HCheckSelect
    \/ HReturn
    \/ \E step \in 0 .. MaxStep : HMeasure(step)

HSpec == HInit /\ [][HNext]_hvars

\* check_select runs to completion, callbacks return, select returns (it has a
\* timeout), and the clock moves on: again and again time passes in a round.
HFairSpec ==
    /\ HSpec
    /\ WF_hvars(HCheckSelect)
    /\ WF_hvars(HReturn)
    /\ WF_hvars(HSelect)
    /\ SF_hvars(\E step \in 1 .. MaxStep : HMeasure(step))

-----------------------------------------------------------------------------
(* Properties.                                                             *)

\* No event select reported is lost: when the round is over its callback has
\* run, unless some callback removed the registration meanwhile.
NoEventLost ==
    pc = "measure" => reported \ removed \subseteq served

\* No event is delivered twice in a round, even to a descriptor its callback
\* removes and registers again.
ServeStep == pc = "dispatch" /\ pc' = "callback" => <<type, firing'>> \notin served

ServedOnce == [][ServeStep]_hvars

\* drive_io_event returns, however often descriptors are ready and whatever
\* the callbacks register.
DriveReturns == pc = "select" ~> pc \in {"idle", "crashed"}

\* The parameter cb of listen_io_event is documented as the "call back function
\* when the target IO type occurs on the fd": a registration is not called for
\* an event that select reported before it was made.
ListenStep == pc = "dispatch" /\ pc' = "callback" => <<type, firing'>> \notin made

EventAfterListen == [][ListenStep]_hvars

=============================================================================
