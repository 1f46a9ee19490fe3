---------------------------- MODULE IoEventProofs ----------------------------
(***************************************************************************)
(* Proofs about IoEventDriver and IoEventHistory, for any descriptors,     *)
(* number of I/O types, interval and clock.                                *)
(*                                                                         *)
(* IInv is inductive.  That no descriptor has two elements of a type rests *)
(* on get_io_event_element looking in both lists; that the working sets    *)
(* are empty around select rests on check_select emptying one before it    *)
(* goes on to the next type.  Budget strengthens SelectWithinInterval to   *)
(* the whole round, where remain is what the next select starts from.      *)
(*                                                                         *)
(* HInv is about one round: an event that select reported and no callback  *)
(* removed is awaited on its lists until it is served.                     *)
(***************************************************************************)
EXTENDS IoEventHistory, ListLemmas

Budget == pc # "idle" => remain <= Interval - elapsed

IInv == TypeOK /\ OneElementPerFd /\ NothingLeftWorking /\ Budget

\* A step that changes the two lists of one type keeps the other types.
LEMMA UpdateLemma ==
    ASSUME io_set \in [Types -> Seq(Fds)], working_set \in [Types -> Seq(Fds)], OneElementPerFd,
           NEW t \in Types, NEW a \in Seq(Fds), NEW b \in Seq(Fds),
           IsInjective(a), IsInjective(b), Range(a) \cap Range(b) = {},
           io_set' = [io_set EXCEPT ![t] = a], working_set' = [working_set EXCEPT ![t] = b]
    PROVE  /\ io_set' \in [Types -> Seq(Fds)] /\ working_set' \in [Types -> Seq(Fds)]
           /\ OneElementPerFd'
           /\ working_set'[t] = b
           /\ \A u \in Types : u # t => working_set'[u] = working_set[u]
<1>1. /\ io_set'[t] = a /\ working_set'[t] = b
      /\ \A u \in Types : u # t => io_set'[u] = io_set[u] /\ working_set'[u] = working_set[u]
  OBVIOUS
<1>2. OneElementPerFd'
  <2> SUFFICES ASSUME NEW u \in Types
               PROVE  /\ IsInjective(io_set'[u]) /\ IsInjective(working_set'[u])
                      /\ Range(io_set'[u]) \cap Range(working_set'[u]) = {}
    BY DEF OneElementPerFd
  <2>1. CASE u = t
    BY <1>1, <2>1
  <2>2. CASE u # t
    BY <1>1, <2>2 DEF OneElementPerFd
  <2> QED BY <2>1, <2>2
<1> QED BY <1>1, <1>2

\* What IInv says of the lists of one type.
LEMMA ListsOf ==
    ASSUME IInv, NEW t \in Types
    PROVE  /\ io_set \in [Types -> Seq(Fds)] /\ working_set \in [Types -> Seq(Fds)]
           /\ OneElementPerFd
           /\ io_set[t] \in Seq(Fds) /\ working_set[t] \in Seq(Fds)
           /\ IsInjective(io_set[t]) /\ IsInjective(working_set[t])
           /\ Range(io_set[t]) \cap Range(working_set[t]) = {}
           /\ io_set = [io_set EXCEPT ![t] = io_set[t]]
           /\ working_set = [working_set EXCEPT ![t] = working_set[t]]
BY DEF IInv, TypeOK, OneElementPerFd

\* What an empty list is.
LEMMA EmptyLemma == <<>> \in Seq(Fds) /\ Range(<<>>) = {} /\ IsInjective(<<>>)
BY EmptySeq DEF Range, IsInjective

\* init_io_event_driver establishes the invariant.
LEMMA InitIInv == Init => IInv
<1> SUFFICES ASSUME Init PROVE IInv
  OBVIOUS
<1>1. \A t \in Types : io_set[t] = <<>> /\ working_set[t] = <<>>
  BY DEF Init
<1>2. TypeOK
  BY EmptyLemma, TypesAssumption DEF Init, TypeOK, Phases, Types
<1>3. OneElementPerFd
  BY <1>1, EmptyLemma DEF OneElementPerFd
<1>4. NothingLeftWorking
  BY <1>1 DEF NothingLeftWorking
<1>5. Budget
  BY DEF Init, Budget
<1> QED BY <1>2, <1>3, <1>4, <1>5 DEF IInv

\* The steps that leave the lists alone and run no clock.
LEMMA KeepIInv ==
    ASSUME IInv, UNCHANGED <<io_set, working_set>>,
           pc' \in Phases, fdset' \in [Types -> SUBSET Fds], type' \in Types,
           pos' \in Nat \ {0}, firing' \in Fds \cup {NoFd}, remain' \in Int, elapsed' \in Nat,
           pc' \in {"idle", "select", "measure"} \/ type' # type =>
               \A t \in Types : working_set[t] = <<>>,
           pc' # "idle" => remain' <= Interval - elapsed'
    PROVE  IInv'
BY DEF IInv, TypeOK, OneElementPerFd, NothingLeftWorking, Budget

\* The steps that change the lists and nothing else that matters: between
\* rounds, and in the callbacks, the working sets only shrink.
LEMMA ListsIInv ==
    ASSUME IInv, io_set' \in [Types -> Seq(Fds)], working_set' \in [Types -> Seq(Fds)],
           OneElementPerFd',
           UNCHANGED <<pc, fdset, type, pos, firing, remain, elapsed>>,
           \A t \in Types : working_set[t] = <<>> => working_set'[t] = <<>>
    PROVE  IInv'
BY DEF IInv, TypeOK, NothingLeftWorking, Budget

\* listen_io_event keeps the invariant: it looked in both lists.
LEMMA ListenIInv ==
    ASSUME IInv, NEW t \in Types, NEW fd \in Fds, listen_io_event(t, fd)
    PROVE  IInv'
<1>1. /\ io_set \in [Types -> Seq(Fds)] /\ working_set \in [Types -> Seq(Fds)] /\ OneElementPerFd
      /\ io_set[t] \in Seq(Fds) /\ working_set[t] \in Seq(Fds)
      /\ IsInjective(io_set[t]) /\ IsInjective(working_set[t])
      /\ Range(io_set[t]) \cap Range(working_set[t]) = {}
      /\ working_set = [working_set EXCEPT ![t] = working_set[t]]
  BY ListsOf
<1>2. fd \notin Range(io_set[t]) /\ fd \notin Range(working_set[t])
  BY DEF listen_io_event, Registered
<1> DEFINE a == Append(io_set[t], fd)
<1>3. /\ a \in Seq(Fds) /\ IsInjective(a) /\ Range(a) \cap Range(working_set[t]) = {}
  BY <1>1, <1>2, AppendLemma
<1>4. /\ io_set' = [io_set EXCEPT ![t] = a]
      /\ working_set' = [working_set EXCEPT ![t] = working_set[t]]
      /\ UNCHANGED <<working_set, pc, fdset, type, pos, firing, remain, elapsed>>
  BY <1>1 DEF listen_io_event
<1> HIDE DEF a
<1>5. io_set' \in [Types -> Seq(Fds)] /\ working_set' \in [Types -> Seq(Fds)] /\ OneElementPerFd'
  BY <1>1, <1>3, <1>4, UpdateLemma
<1> QED BY <1>4, <1>5, ListsIInv

\* unlisten_io_event keeps the invariant, in a callback too.
LEMMA UnlistenIInv ==
    ASSUME IInv, NEW t \in Types, NEW fd \in Fds, unlisten_io_event(t, fd)
    PROVE  IInv'
<1>1. /\ io_set \in [Types -> Seq(Fds)] /\ working_set \in [Types -> Seq(Fds)] /\ OneElementPerFd
      /\ io_set[t] \in Seq(Fds) /\ working_set[t] \in Seq(Fds)
      /\ IsInjective(io_set[t]) /\ IsInjective(working_set[t])
      /\ Range(io_set[t]) \cap Range(working_set[t]) = {}
      /\ io_set = [io_set EXCEPT ![t] = io_set[t]]
      /\ working_set = [working_set EXCEPT ![t] = working_set[t]]
  BY ListsOf
<1>2. UNCHANGED <<pc, fdset, type, pos, firing, remain, elapsed>>
  BY DEF unlisten_io_event
<1>3. CASE fd \in Range(io_set[t])
  <2> DEFINE a == Unlink(io_set[t], fd)
  <2>1. a \in Seq(Fds) /\ IsInjective(a) /\ Range(a) \cap Range(working_set[t]) = {}
    BY <1>1, UnlinkLemma
  <2>2. /\ io_set' = [io_set EXCEPT ![t] = a]
        /\ working_set' = [working_set EXCEPT ![t] = working_set[t]] /\ UNCHANGED working_set
    BY <1>1, <1>3 DEF unlisten_io_event
  <2> HIDE DEF a
  <2>3. io_set' \in [Types -> Seq(Fds)] /\ working_set' \in [Types -> Seq(Fds)] /\ OneElementPerFd'
    BY <1>1, <2>1, <2>2, UpdateLemma
  <2> QED BY <1>2, <2>2, <2>3, ListsIInv
<1>4. CASE fd \notin Range(io_set[t])
  <2> DEFINE b == Unlink(working_set[t], fd)
  <2>1. b \in Seq(Fds) /\ IsInjective(b) /\ Range(io_set[t]) \cap Range(b) = {}
    BY <1>1, UnlinkLemma
  <2>2. /\ io_set' = [io_set EXCEPT ![t] = io_set[t]]
        /\ working_set' = [working_set EXCEPT ![t] = b]
    BY <1>1, <1>4 DEF unlisten_io_event
  <2>3. fd \in Range(working_set[t])
    BY <1>4 DEF unlisten_io_event, Registered
  <2> HIDE DEF b
  <2>4. /\ io_set' \in [Types -> Seq(Fds)] /\ working_set' \in [Types -> Seq(Fds)] /\ OneElementPerFd'
        /\ \A u \in Types : u # t => working_set'[u] = working_set[u]
    BY <1>1, <2>1, <2>2, UpdateLemma
  <2>5. working_set[t] # <<>>
    BY <2>3, EmptyLemma
  <2>6. \A u \in Types : working_set[u] = <<>> => working_set'[u] = <<>>
    BY <2>4, <2>5
  <2> QED BY <1>2, <2>4, <2>6, ListsIInv
<1> QED BY <1>3, <1>4

\* deinit_io_event_driver keeps the invariant: both lists are empty.
LEMMA DeinitIInv ==
    ASSUME IInv, deinit_io_event_driver
    PROVE  IInv'
<1>1. /\ io_set' = [t \in Types |-> <<>>] /\ working_set' = [t \in Types |-> <<>>]
      /\ UNCHANGED <<pc, fdset, type, pos, firing, remain, elapsed>>
  BY DEF deinit_io_event_driver
<1>2. OneElementPerFd'
  BY <1>1, EmptyLemma DEF OneElementPerFd
<1>3. io_set' \in [Types -> Seq(Fds)] /\ working_set' \in [Types -> Seq(Fds)]
  BY <1>1, EmptyLemma
<1> QED BY <1>1, <1>2, <1>3, ListsIInv

\* The first loop of check_select keeps the invariant: the element moves.
LEMMA ScanIInv ==
    ASSUME IInv, ScanElem
    PROVE  IInv'
<1>1. /\ pc = "scan" /\ type \in Types /\ pos \in Nat \ {0}
      /\ pos <= Len(io_set[type])
      /\ UNCHANGED <<pc, fdset, type, firing, remain, elapsed>>
  BY DEF ScanElem, IInv, TypeOK
<1>2. /\ io_set \in [Types -> Seq(Fds)] /\ working_set \in [Types -> Seq(Fds)] /\ OneElementPerFd
      /\ io_set[type] \in Seq(Fds) /\ working_set[type] \in Seq(Fds)
      /\ IsInjective(io_set[type]) /\ IsInjective(working_set[type])
      /\ Range(io_set[type]) \cap Range(working_set[type]) = {}
  BY <1>1, ListsOf
<1> DEFINE p == io_set[type][pos]
<1>3. p \in Fds /\ pos \in 1 .. Len(io_set[type]) /\ p \in Range(io_set[type])
  BY <1>1, <1>2, RangeSeq, ElementOfSeq
<1>4. CASE p \in fdset[type]
  <2> DEFINE a == RemoveAt(io_set[type], pos)
             b == Append(working_set[type], p)
  <2>1. /\ a \in Seq(Fds) /\ IsInjective(a) /\ Range(a) = Range(io_set[type]) \ {p}
        /\ b \in Seq(Fds) /\ IsInjective(b) /\ Range(b) = Range(working_set[type]) \cup {p}
    <3>1. p \notin Range(working_set[type])
      BY <1>2, <1>3
    <3>2. a \in Seq(Fds) /\ IsInjective(a) /\ Range(a) = Range(io_set[type]) \ {p}
      BY <1>2, <1>3, RemoveAtLemma
    <3> HIDE DEF p
    <3>3. b \in Seq(Fds) /\ IsInjective(b) /\ Range(b) = Range(working_set[type]) \cup {p}
      BY <1>2, <1>3, <3>1, AppendLemma
    <3> QED BY <3>2, <3>3
  <2>2. /\ io_set' = [io_set EXCEPT ![type] = a] /\ working_set' = [working_set EXCEPT ![type] = b]
        /\ pos' = pos
    BY <1>4 DEF ScanElem
  <2>3. Range(a) \cap Range(b) = {}
    BY <1>2, <2>1
  <2> HIDE DEF a, b
  <2>4. /\ io_set' \in [Types -> Seq(Fds)] /\ working_set' \in [Types -> Seq(Fds)] /\ OneElementPerFd'
        /\ \A u \in Types : u # type => working_set'[u] = working_set[u]
    BY <1>1, <1>2, <2>1, <2>2, <2>3, UpdateLemma
  <2> QED BY <1>1, <2>2, <2>4 DEF IInv, TypeOK, NothingLeftWorking, Budget
<1>5. CASE p \notin fdset[type]
  <2>1. pos' = pos + 1 /\ pos' \in Nat \ {0} /\ UNCHANGED <<io_set, working_set>>
    BY <1>1, <1>5 DEF ScanElem
  <2> QED BY <1>1, <2>1, KeepIInv DEF IInv, TypeOK, Budget
<1> QED BY <1>4, <1>5

\* The second loop of check_select keeps the invariant: the element moves back.
LEMMA DispatchIInv ==
    ASSUME IInv, Dispatch
    PROVE  /\ IInv'
           /\ type' = type
           /\ Range(working_set'[type]) \subseteq Range(working_set[type])
<1>1. /\ pc = "dispatch" /\ type \in Types /\ working_set[type] # <<>>
      /\ UNCHANGED <<fdset, type, pos, remain, elapsed>> /\ pc' = "callback"
  BY DEF Dispatch, IInv, TypeOK
<1>2. /\ io_set \in [Types -> Seq(Fds)] /\ working_set \in [Types -> Seq(Fds)] /\ OneElementPerFd
      /\ io_set[type] \in Seq(Fds) /\ working_set[type] \in Seq(Fds)
      /\ IsInjective(io_set[type]) /\ IsInjective(working_set[type])
      /\ Range(io_set[type]) \cap Range(working_set[type]) = {}
  BY <1>1, ListsOf
<1> DEFINE p == Head(working_set[type])
           a == Append(io_set[type], p)
           b == Tail(working_set[type])
<1>3. /\ b \in Seq(Fds) /\ IsInjective(b) /\ Range(b) = Range(working_set[type]) \ {p}
      /\ p \in Range(working_set[type])
  BY <1>1, <1>2, HeadTailLemma
<1>4. p \in Fds /\ p \notin Range(io_set[type])
  BY <1>2, <1>3, RangeSeq
<1>5. /\ firing' = p /\ working_set' = [working_set EXCEPT ![type] = b]
      /\ io_set' = [io_set EXCEPT ![type] = a]
  BY DEF Dispatch
<1> HIDE DEF p
<1>6. a \in Seq(Fds) /\ IsInjective(a) /\ Range(a) = Range(io_set[type]) \cup {p}
  BY <1>2, <1>4, AppendLemma
<1>7. Range(a) \cap Range(b) = {}
  BY <1>2, <1>3, <1>6
<1> HIDE DEF a, b
<1>8. /\ io_set' \in [Types -> Seq(Fds)] /\ working_set' \in [Types -> Seq(Fds)] /\ OneElementPerFd'
      /\ working_set'[type] = b
      /\ \A u \in Types : u # type => working_set'[u] = working_set[u]
  BY <1>1, <1>2, <1>3, <1>5, <1>6, <1>7, UpdateLemma
<1>9. IInv'
  BY <1>1, <1>4, <1>5, <1>8 DEF IInv, TypeOK, Phases, NothingLeftWorking, Budget
<1> QED BY <1>1, <1>3, <1>8, <1>9

\* check_select leaves a type with its working set empty.
LEMMA TypeDoneIInv ==
    ASSUME IInv, TypeDone
    PROVE  IInv'
<1>1. \A t \in Types : working_set[t] = <<>>
  BY DEF TypeDone, IInv, NothingLeftWorking
<1>2. type' \in Types
  <2>1. type \in 1 .. NumTypes /\ NumTypes \in Nat \ {0}
    BY TypesAssumption DEF IInv, TypeOK, Types
  <2>2. (type < NumTypes /\ type' = type + 1) \/ type' = 1
    BY DEF TypeDone
  <2> QED BY <2>1, <2>2 DEF Types
<1>3. /\ pc = "dispatch" /\ pc' \in {"scan", "measure"}
      /\ UNCHANGED <<io_set, working_set, fdset, pos, firing, remain, elapsed>>
  BY DEF TypeDone
<1> QED BY <1>1, <1>2, <1>3, KeepIInv DEF IInv, TypeOK, Phases, Budget

\* The clock arithmetic keeps remain below what is left of the interval.
LEMMA MeasureIInv ==
    ASSUME IInv, NEW step \in 0 .. MaxStep, Measure(step)
    PROVE  IInv'
<1>1. /\ step \in Nat /\ elapsed \in Nat /\ remain \in Int /\ Interval \in Nat /\ Grain \in Nat
      /\ remain <= Interval - elapsed
  BY TimeAssumption DEF Measure, IInv, TypeOK, Budget
<1>2. /\ elapsed' = elapsed + step /\ remain' = remain - elapsed' /\ pc' \in {"idle", "select"}
      /\ UNCHANGED <<io_set, working_set, fdset, type, pos, firing>> /\ pc = "measure"
  BY DEF Measure
<1>3. elapsed' \in Nat /\ remain' \in Int /\ remain' <= Interval - elapsed'
  BY <1>1, <1>2
<1>4. \A t \in Types : working_set[t] = <<>>
  BY <1>2 DEF IInv, NothingLeftWorking
<1> QED BY <1>2, <1>3, <1>4, KeepIInv DEF IInv, TypeOK, Phases

\* Every step of the driver and of its client keeps the invariant.
LEMMA NextIInv == IInv /\ [Next]_vars => IInv'
<1> SUFFICES ASSUME IInv, [Next]_vars PROVE IInv'
  OBVIOUS
<1>1. /\ TypeOK /\ Budget
      /\ pc \in {"idle", "select", "measure"} => \A t \in Types : working_set[t] = <<>>
  BY DEF IInv, NothingLeftWorking
<1>2. Interval \in Nat /\ 0 \in Nat /\ 1 \in Types
  BY TimeAssumption, TypesAssumption DEF Types
<1>3. ASSUME drive_io_event
      PROVE  IInv'
  <2>1. /\ pc' = "select" /\ remain' = Interval /\ elapsed' = 0 /\ pc = "idle"
        /\ UNCHANGED <<io_set, working_set, fdset, type, pos, firing>>
    BY <1>3 DEF drive_io_event
  <2>2. remain' <= Interval - elapsed'
    BY <1>2, <2>1
  <2> QED BY <1>1, <1>2, <2>1, <2>2, KeepIInv DEF TypeOK, Phases
<1>4. ASSUME SelectNothing \/ SelectFails
      PROVE  IInv'
  BY <1>1, <1>4, KeepIInv DEF SelectNothing, SelectFails, TypeOK, Phases, Budget
<1>5. ASSUME NEW ready \in [Types -> SUBSET Fds], SelectReady(ready)
      PROVE  IInv'
  BY <1>1, <1>2, <1>5, KeepIInv DEF SelectReady, TypeOK, Phases, Budget
<1>6. ASSUME ScanDone
      PROVE  IInv'
  BY <1>1, <1>6, KeepIInv DEF ScanDone, TypeOK, Phases, Budget
<1>7. ASSUME CallbackReturns
      PROVE  IInv'
  BY <1>1, <1>7, KeepIInv DEF CallbackReturns, TypeOK, Phases, Budget
<1>8. ASSUME UNCHANGED vars
      PROVE  IInv'
  BY <1>1, <1>8, KeepIInv DEF vars, TypeOK, Budget
<1>9. ASSUME Client
      PROVE  IInv'
  BY <1>9, ListenIInv, UnlistenIInv, DeinitIInv DEF Client
<1>10. ASSUME CheckSelect
       PROVE  IInv'
  BY <1>6, <1>10, ScanIInv, DispatchIInv, TypeDoneIInv DEF CheckSelect
<1>11. ASSUME NEW step \in 0 .. MaxStep, Measure(step)
       PROVE  IInv'
  BY <1>11, MeasureIInv
<1> QED BY <1>3, <1>4, <1>5, <1>7, <1>8, <1>9, <1>10, <1>11 DEF Next, Select

\* The inductive invariant holds in every state the driver reaches.
THEOREM Invariance == Spec => []IInv
<1>1. IInv /\ [Next]_vars => IInv'
  BY NextIInv
<1> QED BY <1>1, InitIInv, PTL DEF Spec

\* Every variable has its type.
THEOREM TypeCorrect == Spec => []TypeOK
BY Invariance, PTL DEF IInv

\* A descriptor never has two elements of one type, on either list.
THEOREM NeverTwoElements == Spec => []OneElementPerFd
BY Invariance, PTL DEF IInv

\* Whenever select is called, every registered descriptor is on io_set.
THEOREM NothingMissed == Spec => []NothingLeftWorking
BY Invariance, PTL DEF IInv

\* No call of select sleeps beyond poll_interval.
THEOREM SleepsWithinInterval == Spec => []SelectWithinInterval
<1>1. IInv => SelectWithinInterval
  BY DEF IInv, Budget, SelectWithinInterval
<1> QED BY <1>1, Invariance, PTL

\* While the callbacks of a type run its working set only shrinks, by the
\* element whose turn it is or by one that a callback removed.
THEOREM DispatchOnlyShrinks == Spec => DispatchShrinks
<1>1. ASSUME IInv, [Next]_vars
      PROVE  DispatchStep
  <2> SUFFICES ASSUME pc \in {"dispatch", "callback"}, pc' \in {"dispatch", "callback"}
               PROVE  Range(working_set'[type]) \subseteq Range(working_set[type])
    BY DEF DispatchStep
  <2>1. type \in Types /\ working_set \in [Types -> Seq(Fds)]
    BY <1>1 DEF IInv, TypeOK
  <2>2. ASSUME UNCHANGED working_set
        PROVE  Range(working_set'[type]) \subseteq Range(working_set[type])
    BY <2>2
  <2>3. ASSUME NEW t \in Types, NEW fd \in Fds, unlisten_io_event(t, fd)
        PROVE  Range(working_set'[type]) \subseteq Range(working_set[type])
    <3>1. CASE UNCHANGED working_set
      BY <2>2, <3>1
    <3>2. CASE working_set' = [working_set EXCEPT ![t] = Unlink(working_set[t], fd)]
      <4>1. /\ working_set[t] \in Seq(Fds) /\ IsInjective(working_set[t])
        BY <1>1, ListsOf
      <4>2. Range(Unlink(working_set[t], fd)) \subseteq Range(working_set[t])
        BY <4>1, UnlinkLemma
      <4> QED BY <2>1, <3>2, <4>2
    <3> QED BY <2>3, <3>1, <3>2 DEF unlisten_io_event
  <2>4. ASSUME deinit_io_event_driver
        PROVE  Range(working_set'[type]) \subseteq Range(working_set[type])
    BY <2>1, <2>4, EmptyLemma DEF deinit_io_event_driver
  <2>5. ASSUME Client
        PROVE  Range(working_set'[type]) \subseteq Range(working_set[type])
    BY <2>2, <2>3, <2>4, <2>5 DEF Client, listen_io_event
  <2>6. ASSUME CheckSelect
        PROVE  Range(working_set'[type]) \subseteq Range(working_set[type])
    BY <1>1, <2>2, <2>6, DispatchIInv DEF CheckSelect, ScanElem, ScanDone, TypeDone
  <2> QED BY <1>1, <2>2, <2>5, <2>6
          DEF Next, Select, SelectNothing, SelectFails, SelectReady, drive_io_event,
              CallbackReturns, Measure, vars
<1> QED BY <1>1, Invariance, PTL DEF Spec, DispatchShrinks


-----------------------------------------------------------------------------
(* What becomes of the events of a round.                                  *)

\* The event of t and fd still has its turn before it: it waits for the type to
\* come, for the first loop to reach its element, or for its callback.
Awaited(t, fd) ==
    \/ t > type /\ fd \in Range(io_set[t])
    \/ t = type /\ fd \in Range(working_set[t])
    \/ t = type /\ pc = "scan" /\ \E i \in pos .. Len(io_set[t]) : io_set[t][i] = fd

\* In a round what select reported is what the sets still say, and the history
\* is about events; the first loop of a type starts at the first element.
Remembered ==
    /\ reported \subseteq Events /\ served \subseteq Events
    /\ pc \in {"dispatch", "callback"} => pos = 1
    /\ pc \in {"scan", "dispatch", "callback"} =>
         \A t \in Types, fd \in Fds : <<t, fd>> \in reported <=> fd \in fdset[t]

\* Until the last type is done every event that was reported is awaited, served
\* or removed.
Owed ==
    pc \in {"scan", "dispatch", "callback"} =>
        \A t \in Types, fd \in Fds :
            <<t, fd>> \in reported \ (removed \cup served) => Awaited(t, fd)

\* What was served is not of a type to come, and does not wait to be served again.
Past ==
    pc \in {"scan", "dispatch", "callback"} =>
        \A t \in Types, fd \in Fds :
            <<t, fd>> \in served =>
                t <= type /\ (t = type => pc # "scan" /\ fd \notin Range(working_set[t]))

\* The inductive invariant of the history.
HInv == IInv /\ Remembered /\ Owed /\ Past /\ NoEventLost

\* Every step of the history is a step of the driver.
LEMMA HNextNext == [HNext]_hvars => [Next]_vars
BY DEF HNext, HIdleClient, HCallback, HListen, HUnlisten, HDeinit, HSelect, HSelectReady,
       HCheckSelect, HDispatch, HReturn, HMeasure, hvars, Next, Client, Select, CheckSelect

\* The history starts empty.
LEMMA InitHInv == HInit => HInv
<1>1. HInit => IInv
  BY InitIInv DEF HInit
<1>2. HInit => pc = "idle" /\ reported = {} /\ served = {}
  BY DEF HInit, Init
<1> QED BY <1>1, <1>2 DEF HInv, Remembered, Owed, Past, NoEventLost

\* An event that nothing has removed or served keeps waiting when its descriptor
\* stays on its lists.
LEMMA KeepsWaiting ==
    ASSUME HInv, IInv', pc \in {"dispatch", "callback"},
           UNCHANGED <<reported, type, pos, fdset>>, pc' \in {"dispatch", "callback"},
           removed \subseteq removed', served' \subseteq Events, served \subseteq served',
           \A t \in Types, fd \in Fds :
               /\ <<t, fd>> \notin removed' =>
                    /\ fd \in Range(io_set[t]) => fd \in Range(io_set'[t])
                    /\ fd \in Range(working_set[t]) /\ <<t, fd>> \notin served' =>
                         fd \in Range(working_set'[t])
               /\ fd \in Range(working_set'[t]) => fd \in Range(working_set[t])
               /\ <<t, fd>> \in served' \ served => t = type /\ fd \notin Range(working_set'[t])
    PROVE  HInv'
<1>1. type \in Types /\ \A t \in Types : t \in Int
  BY TypesAssumption DEF HInv, IInv, TypeOK, Types
<1>2. Remembered'
  BY DEF HInv, Remembered
<1>3. Owed'
  <2> SUFFICES ASSUME NEW t \in Types, NEW fd \in Fds,
                      <<t, fd>> \in reported' \ (removed' \cup served')
               PROVE  Awaited(t, fd)'
    BY DEF Owed
  <2>1. Awaited(t, fd)
    BY DEF HInv, Owed
  <2> QED BY <2>1 DEF Awaited
<1>4. Past'
  <2> SUFFICES ASSUME NEW t \in Types, NEW fd \in Fds, <<t, fd>> \in served'
               PROVE  t <= type /\ (t = type => fd \notin Range(working_set'[t]))
    BY DEF Past
  <2>1. CASE <<t, fd>> \in served
    BY <2>1 DEF HInv, Past
  <2>2. CASE <<t, fd>> \notin served
    BY <1>1, <2>2
  <2> QED BY <2>1, <2>2
<1>5. NoEventLost'
  BY DEF NoEventLost
<1> QED BY <1>2, <1>3, <1>4, <1>5 DEF HInv

\* What a callback registers does not disturb the events that wait.
LEMMA HListenHInv ==
    ASSUME HInv, IInv', pc = "callback", NEW t \in Types, NEW fd \in Fds, HListen(t, fd)
    PROVE  HInv'
<1>1. /\ io_set \in [Types -> Seq(Fds)] /\ io_set[t] \in Seq(Fds)
  BY ListsOf DEF HInv
<1>2. /\ io_set' = [io_set EXCEPT ![t] = Append(@, fd)]
      /\ UNCHANGED <<reported, served, removed, pc, working_set, fdset, type, pos>>
  BY DEF HListen, listen_io_event
<1>3. Range(Append(io_set[t], fd)) = Range(io_set[t]) \cup {fd}
  BY <1>1, AppendLemma
<1>4. \A u \in Types : Range(io_set[u]) \subseteq Range(io_set'[u])
  BY <1>1, <1>2, <1>3
<1>5. served \subseteq Events
  BY DEF HInv, Remembered
<1> QED BY <1>2, <1>4, <1>5, KeepsWaiting

\* What a callback removes is remembered as removed.
LEMMA HUnlistenHInv ==
    ASSUME HInv, IInv', pc = "callback", NEW t \in Types, NEW fd \in Fds, HUnlisten(t, fd)
    PROVE  HInv'
<1>1. /\ io_set \in [Types -> Seq(Fds)] /\ io_set[t] \in Seq(Fds) /\ IsInjective(io_set[t])
      /\ working_set \in [Types -> Seq(Fds)] /\ working_set[t] \in Seq(Fds)
      /\ IsInjective(working_set[t])
  BY ListsOf DEF HInv
<1>2. /\ \/ io_set' = [io_set EXCEPT ![t] = Unlink(@, fd)] /\ UNCHANGED working_set
         \/ working_set' = [working_set EXCEPT ![t] = Unlink(@, fd)] /\ UNCHANGED io_set
      /\ removed' = removed \cup {<<t, fd>>}
      /\ UNCHANGED <<reported, served, pc, fdset, type, pos>>
  BY DEF HUnlisten, unlisten_io_event
<1>3. /\ Range(Unlink(io_set[t], fd)) = Range(io_set[t]) \ {fd}
      /\ Range(Unlink(working_set[t], fd)) = Range(working_set[t]) \ {fd}
  BY <1>1, UnlinkLemma
<1>4. \A u \in Types, f \in Fds :
        /\ <<u, f>> # <<t, fd>> => /\ f \in Range(io_set[u]) <=> f \in Range(io_set'[u])
                                   /\ f \in Range(working_set[u]) <=> f \in Range(working_set'[u])
        /\ f \in Range(working_set'[u]) => f \in Range(working_set[u])
  BY <1>1, <1>2, <1>3
<1>5. served \subseteq Events
  BY DEF HInv, Remembered
<1> QED BY <1>2, <1>4, <1>5, KeepsWaiting

\* deinit removes every registration.
LEMMA HDeinitHInv ==
    ASSUME HInv, IInv', pc = "callback", HDeinit
    PROVE  HInv'
<1>1. /\ working_set' = [u \in Types |-> <<>>]
      /\ removed' = Types \X Fds
      /\ UNCHANGED <<reported, served, pc, fdset, type, pos>>
  BY DEF HDeinit, deinit_io_event_driver, Events
<1>2. Remembered'
  BY <1>1 DEF HInv, Remembered
<1>3. Owed'
  BY <1>1 DEF Owed
<1>4. Past'
  BY <1>1, EmptyLemma DEF HInv, Past
<1>5. NoEventLost'
  BY <1>1 DEF NoEventLost
<1> QED BY <1>2, <1>3, <1>4, <1>5 DEF HInv

\* The element whose callback is called is the one that was served.
LEMMA HDispatchHInv ==
    ASSUME HInv, IInv', HDispatch
    PROVE  HInv' /\ ServeStep
<1>1. /\ pc = "dispatch" /\ pc' = "callback" /\ type \in Types /\ working_set[type] # <<>>
      /\ firing' = Head(working_set[type])
      /\ working_set' = [working_set EXCEPT ![type] = Tail(@)]
      /\ io_set' = [io_set EXCEPT ![type] = Append(@, firing')]
      /\ served' = served \cup {<<type, firing'>>}
      /\ UNCHANGED <<fdset, type, pos, reported, removed>>
  BY DEF HDispatch, Dispatch, HInv, IInv, TypeOK
<1>2. /\ io_set \in [Types -> Seq(Fds)] /\ io_set[type] \in Seq(Fds)
      /\ working_set \in [Types -> Seq(Fds)] /\ working_set[type] \in Seq(Fds)
      /\ IsInjective(working_set[type])
  BY <1>1, ListsOf DEF HInv
<1>3. /\ firing' \in Range(working_set[type]) /\ firing' \in Fds
      /\ Range(Tail(working_set[type])) = Range(working_set[type]) \ {firing'}
  BY <1>1, <1>2, HeadTailLemma, RangeSeq
<1>4. Range(Append(io_set[type], firing')) = Range(io_set[type]) \cup {firing'}
  BY <1>2, <1>3, AppendLemma
<1>5. \A u \in Types :
        /\ Range(io_set[u]) \subseteq Range(io_set'[u])
        /\ Range(working_set'[u]) = IF u = type THEN Range(working_set[u]) \ {firing'}
                                                ELSE Range(working_set[u])
  BY <1>1, <1>2, <1>3, <1>4
<1>6. <<type, firing'>> \notin served
  BY <1>1, <1>3 DEF HInv, Past
<1>7. served' \subseteq Events
  BY <1>1, <1>3 DEF HInv, Remembered, Events
<1>8. HInv'
  BY <1>1, <1>3, <1>5, <1>7, KeepsWaiting
<1> QED BY <1>6, <1>8 DEF ServeStep

\* The first loop of check_select passes by no element that was reported.
LEMMA HScanHInv ==
    ASSUME HInv, IInv', ScanElem, UNCHANGED history
    PROVE  HInv'
<1>1. /\ pc = "scan" /\ type \in Types /\ pos \in Nat \ {0} /\ pos <= Len(io_set[type])
      /\ UNCHANGED <<pc, fdset, type, reported, served, removed>>
  BY DEF ScanElem, HInv, IInv, TypeOK, history
<1>2. /\ io_set \in [Types -> Seq(Fds)] /\ working_set \in [Types -> Seq(Fds)]
      /\ io_set[type] \in Seq(Fds) /\ working_set[type] \in Seq(Fds)
  BY <1>1, ListsOf DEF HInv
<1> DEFINE s == io_set[type]
           p == s[pos]
<1>3. pos \in 1 .. Len(s) /\ Len(s) \in Nat /\ p \in Fds
  BY <1>1, <1>2, RangeSeq, ElementOfSeq
<1>4. Remembered' /\ NoEventLost'
  BY <1>1 DEF HInv, Remembered, NoEventLost
<1>5. Past'
  <2> SUFFICES ASSUME NEW t \in Types, NEW fd \in Fds, <<t, fd>> \in served'
               PROVE  t <= type' /\ t # type'
    BY <1>1 DEF Past
  <2> QED BY <1>1 DEF HInv, Past
<1>6. Owed'
  <2> SUFFICES ASSUME NEW t \in Types, NEW fd \in Fds,
                      <<t, fd>> \in reported' \ (removed' \cup served')
               PROVE  Awaited(t, fd)'
    BY DEF Owed
  <2>1. Awaited(t, fd) /\ (fd \in fdset[t])
    BY <1>1 DEF HInv, Owed, Remembered
  <2>2. CASE p \in fdset[type]
    <3> DEFINE r == RemoveAt(s, pos)
               w == Append(working_set[type], p)
    <3>1. /\ io_set' = [io_set EXCEPT ![type] = r] /\ working_set' = [working_set EXCEPT ![type] = w]
          /\ pos' = pos
      BY <2>2 DEF ScanElem
    <3>2. /\ Len(r) = Len(s) - 1
          /\ \A i \in 1 .. Len(s) - 1 : r[i] = IF i < pos THEN s[i] ELSE s[i + 1]
      BY <1>2, <1>3, RemoveAtSeq
    <3> HIDE DEF p
    <3>3. Range(w) = Range(working_set[type]) \cup {p}
      BY <1>2, <1>3, AppendLemma
    <3> HIDE DEF r, w
    <3>4. CASE t # type
      BY <1>1, <1>2, <2>1, <3>1, <3>4 DEF Awaited
    <3>5. CASE t = type /\ fd \in Range(working_set[t])
      BY <1>1, <1>2, <3>1, <3>3, <3>5 DEF Awaited
    <3>6. CASE t = type /\ \E i \in pos .. Len(s) : s[i] = fd
      <4>1. PICK i \in pos .. Len(s) : s[i] = fd
        BY <3>6
      <4>2. CASE i = pos
        BY <1>1, <1>2, <3>1, <3>3, <3>6, <4>1, <4>2 DEF Awaited, p
      <4>3. CASE i # pos
        <5>1. /\ i - 1 \in pos .. Len(r) /\ r[i - 1] = fd
          BY <1>3, <3>2, <4>1, <4>3
        <5>2. io_set'[t] = r
          BY <1>2, <3>1, <3>6
        <5> QED BY <1>1, <3>1, <3>6, <5>1, <5>2 DEF Awaited
      <4> QED BY <4>2, <4>3
    <3> QED BY <1>1, <2>1, <3>4, <3>5, <3>6, TypesAssumption DEF Awaited, Types
  <2>3. CASE p \notin fdset[type]
    <3>1. pos' = pos + 1 /\ UNCHANGED <<io_set, working_set>>
      BY <2>3 DEF ScanElem
    <3>2. ASSUME t = type, NEW i \in pos .. Len(s), s[i] = fd
          PROVE  i \in pos' .. Len(s)
      <4>1. i # pos
        BY <2>1, <2>3, <3>2
      <4> QED BY <1>3, <3>1, <4>1
    <3> QED BY <1>1, <2>1, <3>1, <3>2 DEF Awaited
  <2> QED BY <2>2, <2>3
<1> QED BY <1>4, <1>5, <1>6 DEF HInv

\* When the first loop is over whatever was reported is in the working set.
LEMMA HScanDoneHInv ==
    ASSUME HInv, IInv', ScanDone, UNCHANGED history
    PROVE  HInv'
<1>1. /\ pc = "scan" /\ pc' = "dispatch" /\ pos' = 1 /\ pos > Len(io_set[type])
      /\ type \in Types /\ pos \in Nat
      /\ UNCHANGED <<io_set, working_set, fdset, type, reported, served, removed>>
  BY DEF ScanDone, HInv, IInv, TypeOK, history
<1>2. Len(io_set[type]) \in Nat
  BY <1>1, ListsOf, RangeSeq DEF HInv
<1>3. Remembered' /\ NoEventLost'
  BY <1>1 DEF HInv, Remembered, NoEventLost
<1>4. Past'
  BY <1>1 DEF HInv, Past
<1>5. Owed'
  <2> SUFFICES ASSUME NEW t \in Types, NEW fd \in Fds,
                      <<t, fd>> \in reported \ (removed \cup served)
               PROVE  Awaited(t, fd)'
    BY <1>1 DEF Owed
  <2>1. Awaited(t, fd)
    BY <1>1 DEF HInv, Owed
  <2>2. pos .. Len(io_set[type]) = {}
    BY <1>1, <1>2
  <2> QED BY <1>1, <2>1, <2>2 DEF Awaited
<1> QED BY <1>3, <1>4, <1>5 DEF HInv

\* When a type is done nothing of it is owed any more.
LEMMA HTypeDoneHInv ==
    ASSUME HInv, IInv', TypeDone, UNCHANGED history
    PROVE  HInv'
<1>1. /\ pc = "dispatch" /\ working_set[type] = <<>> /\ type \in Types /\ pos = 1
      /\ \/ type < NumTypes /\ type' = type + 1 /\ pc' = "scan"
         \/ type = NumTypes /\ type' = 1 /\ pc' = "measure"
      /\ UNCHANGED <<io_set, working_set, fdset, pos, reported, served, removed>>
      /\ type' \in Types
  BY DEF TypeDone, HInv, IInv, TypeOK, Remembered, history
<1>2. NumTypes \in Nat /\ \A t \in Types : t \in Nat /\ t <= NumTypes
  BY TypesAssumption DEF Types
<1>3. ASSUME NEW t \in Types, NEW fd \in Fds, <<t, fd>> \in reported \ (removed \cup served)
      PROVE  t > type /\ fd \in Range(io_set[t])
  <2>1. Awaited(t, fd)
    BY <1>1, <1>3 DEF HInv, Owed
  <2> QED BY <1>1, <2>1, EmptyLemma DEF Awaited
<1>4. Remembered'
  BY <1>1 DEF HInv, Remembered
<1>5. Owed'
  <2> SUFFICES ASSUME pc' = "scan", NEW t \in Types, NEW fd \in Fds,
                      <<t, fd>> \in reported \ (removed \cup served)
               PROVE  Awaited(t, fd)'
    BY <1>1 DEF Owed
  <2>1. t > type /\ fd \in Range(io_set[t])
    BY <1>3
  <2>2. io_set[t] \in Seq(Fds)
    BY ListsOf DEF HInv
  <2>3. PICK i \in 1 .. Len(io_set[t]) : io_set[t][i] = fd
    BY <2>1, <2>2, RangeSeq
  <2>4. t > type' \/ t = type'
    BY <1>1, <1>2, <2>1
  <2> QED BY <1>1, <2>1, <2>3, <2>4 DEF Awaited
<1>6. Past'
  <2> SUFFICES ASSUME pc' = "scan", NEW t \in Types, NEW fd \in Fds, <<t, fd>> \in served
               PROVE  t <= type' /\ t # type'
    BY <1>1 DEF Past
  <2>1. t <= type
    BY <1>1 DEF HInv, Past
  <2> QED BY <1>1, <1>2, <2>1
<1>7. NoEventLost'
  <2> SUFFICES ASSUME pc' = "measure", NEW ev \in reported \ removed PROVE ev \in served
    BY <1>1 DEF NoEventLost
  <2>1. PICK t \in Types, fd \in Fds : ev = <<t, fd>>
    BY DEF HInv, Remembered, Events
  <2> QED BY <1>1, <1>2, <1>3, <2>1
<1> QED BY <1>4, <1>5, <1>6, <1>7 DEF HInv

\* A round begins: every event that select reports is awaited.
LEMMA HSelectHInv ==
    ASSUME HInv, IInv', NEW ready \in [Types -> SUBSET Fds], HSelectReady(ready)
    PROVE  HInv'
<1>1. /\ pc' = "scan" /\ type' = 1 /\ pos' = 1 /\ fdset' = ready
      /\ \A t \in Types : ready[t] \subseteq Range(io_set[t])
      /\ reported' = {ev \in Events : ev[2] \in ready[ev[1]]}
      /\ served' = {} /\ UNCHANGED io_set
  BY DEF HSelectReady, SelectReady
<1>2. \A t \in Types, fd \in Fds : <<t, fd>> \in reported' <=> fd \in ready[t]
  BY <1>1 DEF Events
<1>3. Remembered'
  BY <1>1, <1>2 DEF Remembered
<1>4. Owed'
  <2> SUFFICES ASSUME NEW t \in Types, NEW fd \in Fds, fd \in ready[t]
               PROVE  Awaited(t, fd)'
    BY <1>2 DEF Owed
  <2>1. fd \in Range(io_set[t]) /\ io_set[t] \in Seq(Fds)
    BY <1>1, ListsOf DEF HInv
  <2>2. PICK i \in 1 .. Len(io_set[t]) : io_set[t][i] = fd
    BY <2>1, RangeSeq
  <2>3. t > 1 \/ t = 1
    BY TypesAssumption DEF Types
  <2> QED BY <1>1, <2>1, <2>2, <2>3 DEF Awaited
<1>5. Past' /\ NoEventLost'
  BY <1>1 DEF Past, NoEventLost
<1> QED BY <1>3, <1>4, <1>5 DEF HInv

\* Every step keeps the history right, and serves no event again.
LEMMA NextHInv == HInv /\ [HNext]_hvars => HInv' /\ ServeStep
<1> SUFFICES ASSUME HInv, [HNext]_hvars PROVE HInv' /\ ServeStep
  OBVIOUS
<1>1. IInv'
  BY HNextNext, NextIInv DEF HInv
<1>2. CASE HCallback
  <2>1. pc = "callback"
    BY <1>2 DEF HCallback
  <2> QED BY <1>1, <1>2, <2>1, HListenHInv, HUnlistenHInv, HDeinitHInv DEF HCallback, ServeStep
<1>3. CASE HCheckSelect
  <2>1. ASSUME ScanElem \/ ScanDone \/ TypeDone
        PROVE  ServeStep
    BY <2>1 DEF ScanElem, ScanDone, TypeDone, ServeStep
  <2> QED BY <1>1, <1>3, <2>1, HDispatchHInv, HScanHInv, HScanDoneHInv, HTypeDoneHInv DEF HCheckSelect
<1>4. ASSUME NEW ready \in [Types -> SUBSET Fds], HSelectReady(ready)
      PROVE  HInv' /\ ServeStep
  BY <1>1, <1>4, HSelectHInv DEF HSelectReady, SelectReady, ServeStep
<1>5. CASE HReturn
  BY <1>1, <1>5
     DEF HReturn, CallbackReturns, history, HInv, Remembered, Owed, Past, NoEventLost, Awaited, ServeStep
<1>6. ASSUME NEW step \in 0 .. MaxStep, HMeasure(step)
      PROVE  HInv' /\ ServeStep
  <2>1. /\ pc' \in {"idle", "select"} /\ pc = "measure" /\ reported' = {} /\ served' = {}
    BY <1>6 DEF HMeasure, Measure
  <2> QED BY <1>1, <2>1 DEF HInv, Remembered, Owed, Past, NoEventLost, ServeStep
<1>7. ASSUME UNCHANGED history, pc' \in {"idle", "select", "crashed"}, pc # "dispatch"
      PROVE  HInv' /\ ServeStep
  BY <1>1, <1>7 DEF history, HInv, Remembered, Owed, Past, NoEventLost, ServeStep
<1>8. CASE HIdleClient
  BY <1>7, <1>8 DEF HIdleClient, Client, listen_io_event, unlisten_io_event, deinit_io_event_driver
<1>9. CASE (drive_io_event \/ SelectNothing \/ SelectFails) /\ UNCHANGED history
  BY <1>7, <1>9 DEF drive_io_event, SelectNothing, SelectFails
<1>10. CASE UNCHANGED hvars
  BY <1>1, <1>10
     DEF hvars, vars, history, HInv, Remembered, Owed, Past, NoEventLost, Awaited, ServeStep
<1> QED BY <1>2, <1>3, <1>4, <1>5, <1>6, <1>8, <1>9, <1>10 DEF HNext, HSelect

\* The history is right in every state.
THEOREM HistoryInvariance == HSpec => []HInv
BY InitHInv, NextHInv, PTL DEF HSpec

\* Whatever the callbacks register and remove, when the round is over every
\* event select reported was served, unless its registration was removed.
THEOREM NothingLost == HSpec => []NoEventLost
BY HistoryInvariance, PTL DEF HInv

\* No event is delivered twice in a round.
THEOREM NeverServedTwice == HSpec => ServedOnce
BY HistoryInvariance, NextHInv, PTL DEF HSpec, ServedOnce

=============================================================================
