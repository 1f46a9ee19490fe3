----------------------------- MODULE TimerProofs -----------------------------
(***************************************************************************)
(* Proofs about Timer and TimerHistory, for any number of timers and       *)
(* buckets, any tick rate, any width of the tick counter and any clock.    *)
(*                                                                         *)
(* IInv is inductive: each action keeps each of its parts, and Scanned and *)
(* Placed together are what timer_tick needs to miss no timer.  From IInv  *)
(* follow the safety invariants and the step simulation of                 *)
(* CountdownTimers.                                                        *)
(*                                                                         *)
(* HInv is about when a timer expires, in milliseconds, and in which       *)
(* order.  The argument is that drive_timer loses no time: what was        *)
(* credited to a running timer is the ticks it has been through, with what *)
(* has accumulated since, less what had when it was started.               *)
(***************************************************************************)
EXTENDS TimerHistory, ListLemmas

(* Arithmetic.                                                             *)

\* A tick count fits the tick counter, for a negative timeout too.
LEMMA TickType ==
    ASSUME NEW ms \in Int
    PROVE  get_tick_from_milsec(ms) \in Ticks
<1>1. CDiv(ms, TickRate) \in Int
  BY WheelAssumption DEF CDiv
<1> DEFINE up == IF ms % TickRate # 0 /\ ms >= TickRate THEN 1 ELSE 0
<1>2. up \in Int
  OBVIOUS
<1>3. get_tick_from_milsec(ms) = (CDiv(ms, TickRate) + up) % TickMod
  BY DEF get_tick_from_milsec
<1> HIDE DEF up
<1> QED BY <1>1, <1>2, <1>3, WheelAssumption DEF Ticks

\* The guards of drive_timer bound what one call credits.
LEMMA GuardedType ==
    ASSUME NEW gap \in Gaps
    PROVE  /\ mtime(gap) \in Int
           /\ Guarded(mtime(gap)) \in 0 .. 3 * TickRate - 1
<1>1. gap[1] \in Int /\ gap[2] \in Int
  BY InputAssumption
<1>2. CDiv(gap[2], 1000) \in Int
  BY <1>1 DEF CDiv
<1>3. mtime(gap) \in Int
  BY <1>1, <1>2 DEF mtime
<1> QED BY <1>3, WheelAssumption DEF Guarded

\* The conversion of drive_timer is off by less than a millisecond in a call,
\* and either way: it loses a part of a millisecond when the microseconds grow
\* and gains one when they wrap at the end of a second.
THEOREM DriftBound ==
    ASSUME NEW sec \in Int, NEW usec \in Int
    PROVE  LET real == sec * 1000000 + usec
               credited == mtime(<<sec, usec>>) * 1000
           IN  real - 1000 < credited /\ credited < real + 1000
<1>1. mtime(<<sec, usec>>) = sec * 1000 + CDiv(usec, 1000)
  BY DEF mtime
<1>2. CDiv(usec, 1000) \in Int
      /\ usec - 1000 < CDiv(usec, 1000) * 1000
      /\ CDiv(usec, 1000) * 1000 < usec + 1000
  BY DEF CDiv
<1> QED BY <1>1, <1>2

\* A tick later there is one tick less to wait for.
LEMMA TicksLeftStep ==
    ASSUME NEW a \in Ticks, NEW t \in Ticks
    PROVE  /\ (a - t) % TickMod \in Ticks
           /\ (a - t) % TickMod = 0 <=> a = t
           /\ (t + 1) % TickMod \in Ticks
           /\ a # t => (a - ((t + 1) % TickMod)) % TickMod = ((a - t) % TickMod) - 1
<1>1. \A d \in Int : d >= -TickMod /\ d < TickMod =>
                       d % TickMod = IF d < 0 THEN d + TickMod ELSE d
  BY WheelAssumption
<1>2. (t + 1) % TickMod = IF t + 1 = TickMod THEN 0 ELSE t + 1
  BY WheelAssumption DEF Ticks
<1>3. (a - t) % TickMod = IF a < t THEN a - t + TickMod ELSE a - t
  BY <1>1, WheelAssumption DEF Ticks
<1>4. (t + 1) % TickMod \in Ticks
  BY <1>2, WheelAssumption DEF Ticks
<1>5. ASSUME a # t
      PROVE  (a - ((t + 1) % TickMod)) % TickMod = ((a - t) % TickMod) - 1
  <2>1. CASE t + 1 = TickMod
    <3>1. (a - 0) % TickMod = a
      BY <1>1, WheelAssumption DEF Ticks
    <3> QED BY <1>2, <1>3, <1>5, <2>1, <3>1, WheelAssumption DEF Ticks
  <2>2. CASE t + 1 # TickMod
    <3>1. (a - (t + 1)) % TickMod = IF a < t + 1 THEN a - (t + 1) + TickMod ELSE a - (t + 1)
      BY <1>1, <2>2, WheelAssumption DEF Ticks
    <3> QED BY <1>2, <1>3, <1>5, <2>2, <3>1, WheelAssumption DEF Ticks
  <2> QED BY <2>1, <2>2
<1> QED BY <1>3, <1>4, <1>5, WheelAssumption DEF Ticks

-----------------------------------------------------------------------------
(* The inductive invariant.                                                *)

\* Buckets, and the bucket of every tick.
LEMMA BucketOfTick ==
    ASSUME NEW t \in Ticks
    PROVE  t % NumBuckets \in Buckets
BY WheelAssumption DEF Ticks, Buckets

\* init_timer establishes the invariant.
LEMMA InitIInv == Init => IInv
<1> SUFFICES ASSUME Init PROVE IInv
  OBVIOUS
<1>1. \A b \in Buckets : buckets[b] = <<>>
  BY DEF Init
<1>2. Range(<<>>) = {} /\ IsInjective(<<>>)
  BY DEF Range, IsInjective
<1>3. TypeOK
  BY WheelAssumption DEF Init, TypeOK, Phases, Ticks
<1>4. Placed /\ LinkedOnce
  BY <1>1, <1>2 DEF Init, Placed, LinkedOnce
<1>5. Scanned /\ PhaseOK
  BY DEF Init, Scanned, PhaseOK
<1> QED BY <1>3, <1>4, <1>5 DEF IInv

\* add_timer links the element on the bucket of its tick, where nothing else
\* is linked on it.
LEMMA AddIInv ==
    ASSUME IInv, NEW e \in Elems, NEW ms \in Timeouts, add_timer(e, ms)
    PROVE  IInv'
<1> DEFINE n == (tick + get_tick_from_milsec(ms)) % TickMod
           t == n % NumBuckets
<1>1. n \in Ticks /\ t \in Buckets
  <2>1. ms \in Int
    BY InputAssumption
  <2>2. get_tick_from_milsec(ms) \in Ticks /\ tick \in Ticks
    BY <2>1, TickType DEF IInv, TypeOK
  <2>3. n \in Ticks
    BY <2>2, WheelAssumption DEF Ticks
  <2> QED BY <2>3, BucketOfTick
<1>2. elemTick' = [elemTick EXCEPT ![e] = n] /\ elemTick'[e] = n
  BY DEF add_timer, IInv, TypeOK
<1>3. buckets' = [buckets EXCEPT ![t] = Append(buckets[t], e)]
  BY <1>2 DEF add_timer
<1> HIDE DEF n, t
<1>4. \A b \in Buckets : buckets[b] \in Seq(Elems) /\ IsInjective(buckets[b])
  BY DEF IInv, TypeOK, LinkedOnce
<1>5. /\ \A b \in Buckets : e \notin Range(buckets[b])
      /\ e \notin Range(timeout_list)
  BY DEF add_timer, is_timer_running, InWheel
<1>6. /\ Append(buckets[t], e) \in Seq(Elems)
      /\ Range(Append(buckets[t], e)) = Range(buckets[t]) \cup {e}
      /\ IsInjective(Append(buckets[t], e))
  BY <1>1, <1>4, <1>5, AppendLemma
<1>7. buckets' \in [Buckets -> Seq(Elems)]
  BY <1>1, <1>3, <1>6 DEF IInv, TypeOK
<1>8. \A b \in Buckets :
        /\ IsInjective(buckets'[b])
        /\ Range(buckets'[b]) = IF b = t THEN Range(buckets[b]) \cup {e} ELSE Range(buckets[b])
  BY <1>1, <1>3, <1>4, <1>6 DEF IInv, TypeOK
<1>9. UNCHANGED <<pc, tick, accumulated, pos, timeout_list, firing>> /\ pc # "scan"
  BY DEF add_timer, ClientRuns
<1>10. TypeOK'
  BY <1>1, <1>2, <1>7, <1>9 DEF IInv, TypeOK
<1>11. Placed'
  <2> SUFFICES ASSUME NEW b \in Buckets, NEW f \in Range(buckets'[b])
               PROVE  elemTick'[f] % NumBuckets = b
    BY DEF Placed
  <2>1. CASE f = e
    <3>1. b = t
      BY <1>5, <1>8, <2>1
    <3>2. elemTick'[f] = n
      BY <1>2, <2>1
    <3> QED BY <3>1, <3>2 DEF t
  <2>2. CASE f # e
    <3>1. f \in Range(buckets[b])
      BY <1>8, <2>2
    <3>2. f \in Elems
      BY <1>4, <3>1, RangeSeq
    <3>3. elemTick'[f] = elemTick[f]
      BY <1>2, <2>2, <3>2 DEF IInv, TypeOK
    <3> QED BY <3>1, <3>3 DEF IInv, Placed
  <2> QED BY <2>1, <2>2
<1>12. LinkedOnce'
  BY <1>5, <1>8, <1>9 DEF IInv, LinkedOnce
<1>13. Scanned' /\ PhaseOK'
  BY <1>9 DEF IInv, Scanned, PhaseOK
<1> QED BY <1>10, <1>11, <1>12, <1>13 DEF IInv

\* del_timer takes the element off whichever list it is on.
LEMMA DelIInv ==
    ASSUME IInv, NEW e \in Elems, del_timer(e)
    PROVE  IInv'
<1>1. \A b \in Buckets : buckets[b] \in Seq(Elems) /\ IsInjective(buckets[b])
  BY DEF IInv, TypeOK, LinkedOnce
<1>2. timeout_list \in Seq(Elems) /\ IsInjective(timeout_list)
  BY DEF IInv, TypeOK, LinkedOnce
<1>3. \A b \in Buckets :
        /\ buckets'[b] \in Seq(Elems)
        /\ IsInjective(buckets'[b])
        /\ Range(buckets'[b]) = Range(buckets[b]) \ {e}
  BY <1>1, UnlinkLemma DEF del_timer
<1>4. /\ timeout_list' \in Seq(Elems)
      /\ IsInjective(timeout_list')
      /\ Range(timeout_list') = Range(timeout_list) \ {e}
  BY <1>2, UnlinkLemma DEF del_timer
<1>5. UNCHANGED <<pc, tick, elemTick, accumulated, pos, firing>> /\ pc # "scan"
  BY DEF del_timer, ClientRuns
<1>6. TypeOK'
  <2>1. buckets' \in [Buckets -> Seq(Elems)]
    BY <1>3 DEF del_timer
  <2> QED BY <1>4, <1>5, <2>1 DEF IInv, TypeOK
<1>7. Placed' /\ LinkedOnce'
  BY <1>3, <1>4, <1>5 DEF IInv, Placed, LinkedOnce
<1>8. Scanned'
  BY <1>5 DEF Scanned
<1>9. PhaseOK'
  <2>1. timeout_list' # <<>> => timeout_list # <<>>
    BY DEF del_timer, Unlink, Range
  <2> QED BY <1>5, <2>1 DEF IInv, PhaseOK
<1> QED BY <1>6, <1>7, <1>8, <1>9 DEF IInv

\* The bucket loop of timer_tick: an element that expires now moves to the
\* timeout list, any other is passed for good.
LEMMA ScanIInv ==
    ASSUME IInv, ScanElem
    PROVE  IInv'
<1> DEFINE p == buckets[Current][pos]
<1>1. Current \in Buckets /\ Current' = Current
  BY BucketOfTick DEF IInv, TypeOK, Current, ScanElem
<1>2. \A b \in Buckets : buckets[b] \in Seq(Elems) /\ IsInjective(buckets[b])
  BY DEF IInv, TypeOK, LinkedOnce
<1>3. Len(buckets[Current]) \in Nat
  BY <1>1, <1>2, LenProperties
<1>4. pos \in 1 .. Len(buckets[Current])
  BY <1>3 DEF IInv, TypeOK, ScanElem
<1>5. p \in Elems /\ p \in Range(buckets[Current])
  BY <1>1, <1>2, <1>4, RangeSeq
<1>6. pc = "scan" /\ UNCHANGED <<pc, tick, elemTick, accumulated, firing>>
  BY DEF ScanElem
<1>7. CASE elemTick[p] = tick
  <2>1. /\ buckets' = [buckets EXCEPT ![Current] = RemoveAt(buckets[Current], pos)]
        /\ timeout_list' = Append(timeout_list, p)
        /\ pos' = pos
    BY <1>7 DEF ScanElem
  <2> DEFINE s == RemoveAt(buckets[Current], pos)
  <2>2. /\ s \in Seq(Elems)
        /\ IsInjective(s)
        /\ Range(s) = Range(buckets[Current]) \ {p}
    BY <1>1, <1>2, <1>4, RemoveAtLemma
  <2>3. /\ Len(s) = Len(buckets[Current]) - 1
        /\ \A i \in 1 .. Len(buckets[Current]) - 1 :
             s[i] = IF i < pos THEN buckets[Current][i] ELSE buckets[Current][i + 1]
    BY <1>1, <1>2, <1>4, RemoveAtSeq
  <2> HIDE DEF s, p
  <2>4. buckets' \in [Buckets -> Seq(Elems)] /\ buckets'[Current] = s
    BY <1>1, <2>1, <2>2 DEF IInv, TypeOK, s
  <2>5. \A b \in Buckets :
          /\ IsInjective(buckets'[b])
          /\ Range(buckets'[b]) = IF b = Current THEN Range(buckets[b]) \ {p} ELSE Range(buckets[b])
    BY <1>1, <1>2, <2>1, <2>2, <2>4 DEF IInv, TypeOK
  <2>6. p \notin Range(timeout_list)
    BY <1>1, <1>5 DEF IInv, LinkedOnce
  <2>7. /\ timeout_list' \in Seq(Elems)
        /\ Range(timeout_list') = Range(timeout_list) \cup {p}
        /\ IsInjective(timeout_list')
    BY <1>5, <2>1, <2>6, AppendLemma DEF IInv, TypeOK, LinkedOnce
  <2>8. TypeOK'
    BY <1>6, <2>1, <2>4, <2>7 DEF IInv, TypeOK
  <2>9. Placed'
    BY <1>6, <2>5 DEF IInv, Placed
  <2>10. \A b \in Buckets : b # Current => p \notin Range(buckets[b])
    BY <1>1, <1>5 DEF IInv, LinkedOnce
  <2>11. LinkedOnce'
    <3>1. \A b \in Buckets : p \notin Range(buckets'[b])
      BY <2>5, <2>10
    <3>2. \A b \in Buckets : Range(buckets'[b]) \subseteq Range(buckets[b])
      BY <2>5
    <3>3. LinkedOnce
      BY DEF IInv
    <3>4. \A b \in Buckets : Range(buckets'[b]) \cap Range(timeout_list') = {}
      <4> SUFFICES ASSUME NEW b \in Buckets, NEW e \in Range(buckets'[b])
                   PROVE  e \notin Range(timeout_list')
        OBVIOUS
      <4>1. e # p /\ e \in Range(buckets[b])
        BY <3>1, <3>2
      <4>2. e \notin Range(timeout_list)
        BY <3>3, <4>1 DEF LinkedOnce
      <4> QED BY <2>7, <4>1, <4>2
    <3>5. \A b, c \in Buckets : b # c => Range(buckets'[b]) \cap Range(buckets'[c]) = {}
      <4> SUFFICES ASSUME NEW b \in Buckets, NEW c \in Buckets, b # c
                   PROVE  Range(buckets'[b]) \cap Range(buckets'[c]) = {}
        OBVIOUS
      <4>1. Range(buckets[b]) \cap Range(buckets[c]) = {}
        BY <3>3 DEF LinkedOnce
      <4> QED BY <3>2, <4>1
    <3> QED BY <2>5, <2>7, <3>4, <3>5 DEF LinkedOnce
  <2>12. Scanned'
    <3>1. \A e \in Range(timeout_list') : elemTick'[e] = tick'
      BY <1>6, <1>7, <2>7 DEF IInv, Scanned, p
    <3>2. ASSUME NEW i \in 1 .. Len(s), i < pos
          PROVE  elemTick[s[i]] # tick
      <4>1. i \in 1 .. Len(buckets[Current]) - 1 /\ i \in 1 .. Len(buckets[Current])
        BY <1>3, <2>3
      <4>2. s[i] = buckets[Current][i]
        BY <2>3, <3>2, <4>1
      <4> QED BY <1>6, <3>2, <4>1, <4>2 DEF IInv, Scanned
    <3> QED BY <1>1, <1>6, <2>1, <2>4, <3>1, <3>2 DEF Scanned
  <2>13. PhaseOK'
    BY <1>6 DEF IInv, PhaseOK
  <2> QED BY <2>8, <2>9, <2>11, <2>12, <2>13 DEF IInv
<1>8. CASE elemTick[p] # tick
  <2>1. pos' = pos + 1 /\ UNCHANGED <<buckets, timeout_list>>
    BY <1>8 DEF ScanElem
  <2>2. TypeOK'
    BY <1>6, <2>1 DEF IInv, TypeOK
  <2>3. Placed' /\ LinkedOnce' /\ PhaseOK'
    BY <1>6, <2>1 DEF IInv, Placed, LinkedOnce, PhaseOK
  <2>4. \A i \in 1 .. Len(buckets[Current]) : i < pos + 1 => i < pos \/ i = pos
    BY <1>3, <1>4
  <2>5. Scanned'
    BY <1>1, <1>6, <1>8, <2>1, <2>4 DEF IInv, Scanned
  <2> QED BY <2>2, <2>3, <2>5 DEF IInv
<1> QED BY <1>7, <1>8

\* The other actions of the engine move the program counter along and at most
\* one other variable.
LEMMA DriveIInv ==
    ASSUME IInv,
           (\E gap \in Gaps : drive_timer(gap)) \/ DriveTick \/ DriveDone
    PROVE  IInv'
<1>1. accumulated' \in Nat
  <2>1. ASSUME NEW gap \in Gaps, drive_timer(gap)
        PROVE  accumulated' \in Nat
    BY <2>1, GuardedType, WheelAssumption DEF drive_timer, IInv, TypeOK
  <2>2. DriveTick \/ DriveDone => accumulated' \in Nat
    BY WheelAssumption DEF DriveTick, DriveDone, IInv, TypeOK
  <2> QED BY <2>1, <2>2
<1>2. UNCHANGED <<tick, buckets, elemTick, timeout_list, firing>>
  <2>1. timeout_list = <<>> \/ ~DriveTick
    BY DEF DriveTick, IInv, PhaseOK
  <2> QED BY <2>1 DEF drive_timer, DriveTick, DriveDone
<1>3. /\ pc \in {"idle", "drive"} /\ pc' \in {"idle", "drive", "scan"}
      /\ pos' \in {1, pos} /\ (pc' = "scan" => pos' = 1)
  BY DEF drive_timer, DriveTick, DriveDone
<1>4. TypeOK'
  BY <1>1, <1>2, <1>3 DEF IInv, TypeOK, Phases
<1>5. Placed' /\ LinkedOnce'
  BY <1>2 DEF IInv, Placed, LinkedOnce
<1>6. timeout_list = <<>> /\ firing = NoElem
  BY <1>3 DEF IInv, TypeOK, PhaseOK
<1>7. PhaseOK'
  BY <1>2, <1>3, <1>6 DEF PhaseOK
<1>8. Scanned'
  <2>1. \A e \in Range(timeout_list') : FALSE
    BY <1>2, <1>6 DEF Range
  <2> QED BY <1>3, <2>1 DEF Scanned
<1> QED BY <1>4, <1>5, <1>7, <1>8 DEF IInv

\* timer->tick++ keeps the invariant: the expired timers are off the wheel.
LEMMA ScanDoneIInv ==
    ASSUME IInv, ScanDone
    PROVE  IInv'
<1>1. tick' \in Ticks
  BY TicksLeftStep DEF ScanDone, IInv, TypeOK
<1>2. TypeOK'
  BY <1>1 DEF ScanDone, IInv, TypeOK, Phases
<1>3. Placed' /\ LinkedOnce'
  BY DEF ScanDone, IInv, Placed, LinkedOnce
<1>4. Scanned' /\ PhaseOK'
  BY DEF ScanDone, IInv, Scanned, PhaseOK
<1> QED BY <1>2, <1>3, <1>4 DEF IInv

\* Taking a timer off the timeout list for its callback keeps the invariant.
LEMMA FireIInv ==
    ASSUME IInv, Fire
    PROVE  IInv'
<1>1. timeout_list \in Seq(Elems) /\ IsInjective(timeout_list) /\ timeout_list # <<>>
  BY DEF Fire, IInv, TypeOK, LinkedOnce
<1>2. /\ Head(timeout_list) \in Elems
      /\ timeout_list' \in Seq(Elems)
      /\ IsInjective(timeout_list')
      /\ Range(timeout_list') \subseteq Range(timeout_list)
  BY <1>1, HeadTailLemma, HeadTailProperties DEF Fire
<1>3. TypeOK'
  BY <1>2 DEF Fire, IInv, TypeOK, Phases
<1>4. Placed' /\ LinkedOnce'
  BY <1>2 DEF Fire, IInv, Placed, LinkedOnce
<1>5. Scanned'
  BY DEF Fire, Scanned
<1>6. PhaseOK'
  BY <1>2, ElemAssumption DEF Fire, PhaseOK
<1> QED BY <1>3, <1>4, <1>5, <1>6 DEF IInv

\* Steps that leave the lists and the ticks alone.
LEMMA PhaseIInv ==
    ASSUME IInv,
           \/ CallbackReturns \/ TickDone \/ deinit_timer
           \/ \E e \in Elems : add_running_timer(e)
           \/ UNCHANGED vars
    PROVE  IInv'
<1>1. UNCHANGED <<tick, buckets, elemTick, accumulated, pos, timeout_list>>
  BY DEF CallbackReturns, TickDone, deinit_timer, add_running_timer, vars
<1>2. CASE UNCHANGED vars
  BY <1>2 DEF vars, IInv, TypeOK, Placed, LinkedOnce, Scanned, Current, PhaseOK
<1>3. CASE ~UNCHANGED vars
  <2>1. /\ pc' \in Phases /\ pc' # "scan" /\ pc' # "callback"
        /\ firing' \in {firing, NoElem}
    BY <1>3 DEF CallbackReturns, TickDone, deinit_timer, add_running_timer, Phases, vars
  <2>2. TypeOK'
    BY <1>1, <2>1 DEF IInv, TypeOK
  <2>3. Placed' /\ LinkedOnce'
    BY <1>1 DEF IInv, Placed, LinkedOnce
  <2>4. Scanned'
    BY <2>1 DEF Scanned
  <2>5. PhaseOK'
    BY <1>3 DEF CallbackReturns, TickDone, deinit_timer, add_running_timer, ClientRuns,
                vars, IInv, PhaseOK, TypeOK
  <2> QED BY <2>2, <2>3, <2>4, <2>5 DEF IInv
<1> QED BY <1>2, <1>3

\* Every step of the engine and of its client keeps the invariant.
LEMMA NextIInv == IInv /\ [Next]_vars => IInv'
<1> SUFFICES ASSUME IInv, [Next]_vars
             PROVE  IInv'
  OBVIOUS
<1>1. ASSUME NEW e \in Elems, NEW ms \in Timeouts, add_timer(e, ms)
      PROVE  IInv'
  BY <1>1, AddIInv
<1>2. ASSUME NEW e \in Elems, del_timer(e)
      PROVE  IInv'
  BY <1>2, DelIInv
<1>3. ASSUME (\E gap \in Gaps : drive_timer(gap)) \/ DriveTick \/ DriveDone
      PROVE  IInv'
  BY <1>3, DriveIInv
<1>4. CASE ScanElem
  BY <1>4, ScanIInv
<1>5. CASE ScanDone
  BY <1>5, ScanDoneIInv
<1>6. CASE Fire
  BY <1>6, FireIInv
<1>7. ASSUME \/ CallbackReturns \/ TickDone \/ deinit_timer
             \/ \E e \in Elems : add_running_timer(e)
             \/ UNCHANGED vars
      PROVE  IInv'
  BY <1>7, PhaseIInv
<1> QED BY <1>1, <1>2, <1>3, <1>4, <1>5, <1>6, <1>7 DEF Next, Client, Engine

\* IInv holds in every reachable state of the engine.
THEOREM Invariance == Spec => []IInv
BY InitIInv, NextIInv, PTL DEF Spec

\* The engine's state keeps its type: the counters wrap within their width and
\* the accumulated time never goes below zero.
THEOREM TypeCorrect == Spec => []TypeOK
<1>1. IInv => TypeOK
  BY DEF IInv
<1> QED BY <1>1, Invariance, PTL

\* No interleaving of starts, stops, ticks and callbacks links a timer twice.
THEOREM NeverLinkedTwice == Spec => []LinkedOnce
<1>1. IInv => LinkedOnce
  BY DEF IInv
<1> QED BY <1>1, Invariance, PTL

\* Nothing joins the timeout list once the callbacks of a tick have begun.
THEOREM ExpiryOnlyShrinks == Spec => ExpiryShrinks
<1>1. IInv /\ [Next]_vars => [ExpiryStep]_vars
  <2> SUFFICES ASSUME IInv, [Next]_vars, pc \in {"expire", "callback"}
               PROVE  Range(timeout_list') \subseteq Range(timeout_list)
    BY DEF ExpiryStep
  <2>1. timeout_list \in Seq(Elems) /\ IsInjective(timeout_list)
    BY DEF IInv, TypeOK, LinkedOnce
  <2>2. CASE Fire
    BY <2>1, <2>2, HeadTailLemma DEF Fire
  <2>3. ASSUME NEW e \in Elems, del_timer(e)
        PROVE  Range(timeout_list') \subseteq Range(timeout_list)
    BY <2>1, <2>3, UnlinkLemma DEF del_timer
  <2>4. ASSUME ~Fire, ~\E e \in Elems : del_timer(e)
        PROVE  timeout_list' = timeout_list
    BY <2>4 DEF Next, Client, Engine, vars, add_timer, add_running_timer, deinit_timer,
                drive_timer, DriveTick, DriveDone, ScanElem, ScanDone, CallbackReturns, TickDone
  <2> QED BY <2>2, <2>3, <2>4
<1> QED BY <1>1, Invariance, PTL DEF Spec, ExpiryShrinks

-----------------------------------------------------------------------------
(* Where the timers are after a step.                                      *)

\* add_timer puts its timer on the wheel and leaves the others where they are.
LEMMA AddMoves ==
    ASSUME IInv, NEW e \in Elems, NEW ms \in Timeouts, add_timer(e, ms)
    PROVE  /\ \A f \in Elems : InWheel(f)' <=> InWheel(f) \/ f = e
           /\ \A f \in Elems : f # e => TicksLeft(f)' = TicksLeft(f)
           /\ TicksLeft(e)' \in Ticks
<1>1. IInv'
  BY AddIInv
<1> DEFINE t == elemTick'[e] % NumBuckets
<1>2. elemTick'[e] \in Ticks /\ tick' \in Ticks /\ t \in Buckets
  BY <1>1, BucketOfTick DEF IInv, TypeOK
<1>3. TicksLeft(e)' \in 0 .. TickMod - 1
  BY <1>2, TicksLeftStep DEF TicksLeft, Ticks
<1>4. \A b \in Buckets : buckets'[b] = IF b = t THEN Append(buckets[b], e) ELSE buckets[b]
  BY <1>2 DEF add_timer, IInv, TypeOK
<1> HIDE DEF t
<1>5. \A b \in Buckets :
        Range(buckets'[b]) = IF b = t THEN Range(buckets[b]) \cup {e} ELSE Range(buckets[b])
  <2>1. Range(Append(buckets[t], e)) = Range(buckets[t]) \cup {e}
    BY <1>2, AppendLemma DEF IInv, TypeOK
  <2> QED BY <1>4, <2>1
<1>6. \A f \in Elems : InWheel(f)' <=> InWheel(f) \/ f = e
  BY <1>2, <1>5 DEF InWheel
<1>7. \A f \in Elems : f # e => TicksLeft(f)' = TicksLeft(f)
  BY DEF add_timer, TicksLeft, IInv, TypeOK
<1> QED BY <1>3, <1>6, <1>7 DEF Ticks

\* del_timer takes its timer off, and leaves the others where they are.
LEMMA DelMoves ==
    ASSUME IInv, NEW e \in Elems, del_timer(e)
    PROVE  /\ \A f \in Elems : InWheel(f)' <=> InWheel(f) /\ f # e
           /\ Range(timeout_list') = Range(timeout_list) \ {e}
<1>1. \A b \in Buckets : Range(buckets'[b]) = Range(buckets[b]) \ {e}
  BY UnlinkLemma DEF del_timer, IInv, TypeOK, LinkedOnce
<1>2. Range(timeout_list') = Range(timeout_list) \ {e}
  BY UnlinkLemma DEF del_timer, IInv, TypeOK, LinkedOnce
<1> QED BY <1>1, <1>2 DEF InWheel

\* The bucket loop moves timers from the wheel to the timeout list only.
LEMMA ScanMoves ==
    ASSUME IInv, ScanElem
    PROVE  \A f \in Elems : (InWheel(f) \/ OnTimeoutList(f))' <=> (InWheel(f) \/ OnTimeoutList(f))
<1> DEFINE p == buckets[Current][pos]
<1>1. Current \in Buckets
  BY BucketOfTick DEF IInv, TypeOK, Current
<1>2. buckets[Current] \in Seq(Elems) /\ IsInjective(buckets[Current])
  BY <1>1 DEF IInv, TypeOK, LinkedOnce
<1>3. pos \in 1 .. Len(buckets[Current])
  BY <1>2, LenProperties DEF IInv, TypeOK, ScanElem
<1>4. p \in Elems /\ p \in Range(buckets[Current])
  BY <1>2, <1>3, RangeSeq
<1>5. \A f \in Elems : (InWheel(f) \/ OnTimeoutList(f))' <=> (InWheel(f) \/ OnTimeoutList(f))
  <2>1. CASE elemTick[p] = tick
    <3>1. /\ buckets' = [buckets EXCEPT ![Current] = RemoveAt(buckets[Current], pos)]
          /\ timeout_list' = Append(timeout_list, p)
      BY <2>1 DEF ScanElem
    <3>2. Range(RemoveAt(buckets[Current], pos)) = Range(buckets[Current]) \ {p}
      BY <1>2, <1>3, RemoveAtLemma
    <3>3. Range(timeout_list') = Range(timeout_list) \cup {p}
      BY <1>4, <3>1, AppendLemma DEF IInv, TypeOK
    <3> HIDE DEF p
    <3>4. \A b \in Buckets :
            Range(buckets'[b]) = IF b = Current THEN Range(buckets[b]) \ {p} ELSE Range(buckets[b])
      BY <1>1, <3>1, <3>2 DEF IInv, TypeOK
    <3>5. ASSUME NEW f \in Elems, f # p
          PROVE  (InWheel(f)' <=> InWheel(f)) /\ (OnTimeoutList(f)' <=> OnTimeoutList(f))
      BY <3>3, <3>4, <3>5 DEF InWheel, OnTimeoutList
    <3>6. ASSUME NEW f \in Elems, f = p
          PROVE  InWheel(f) /\ OnTimeoutList(f)'
      BY <1>1, <1>4, <3>3, <3>6 DEF InWheel, OnTimeoutList
    <3> QED BY <3>5, <3>6
  <2>2. CASE elemTick[p] # tick
    BY <2>2 DEF ScanElem, InWheel, OnTimeoutList
  <2> QED BY <2>1, <2>2
<1> QED BY <1>5

\* When the bucket loop is done no timer of this tick is left on the wheel.
LEMMA NoneDueLeft ==
    ASSUME IInv, ScanDone
    PROVE  \A f \in Elems : InWheel(f) => elemTick[f] # tick
<1>1. Current \in Buckets /\ buckets[Current] \in Seq(Elems)
  BY BucketOfTick DEF IInv, TypeOK, Current
<1>2. pc = "scan"
  BY DEF ScanDone
<1>3. ASSUME NEW f \in Elems, InWheel(f)
      PROVE  elemTick[f] # tick
  <2>1. PICK b \in Buckets : f \in Range(buckets[b])
    BY <1>3 DEF InWheel
  <2>2. CASE b = Current
    <3>1. PICK i \in 1 .. Len(buckets[Current]) : buckets[Current][i] = f
      BY <1>1, <2>1, <2>2, RangeSeq
    <3>2. i < pos
      BY <1>1, <3>1, LenProperties DEF ScanDone, IInv, TypeOK
    <3> QED BY <1>2, <3>1, <3>2 DEF IInv, Scanned
  <2>3. CASE b # Current
    BY <2>1, <2>3 DEF IInv, Placed, Current
  <2> QED BY <2>2, <2>3
<1> QED BY <1>3

-----------------------------------------------------------------------------
(* The wheel implements the countdown timers.                              *)

\* The wheel starts with no timer counting down.
LEMMA InitRefines == Init => Countdown!Init
<1> SUFFICES ASSUME Init PROVE Countdown!Init
  OBVIOUS
<1>1. Range(<<>>) = {}
  BY DEF Range
<1>2. \A e \in Elems : ~InWheel(e) /\ ~OnTimeoutList(e)
  BY <1>1 DEF Init, InWheel, OnTimeoutList
<1> QED BY <1>1, <1>2 DEF Init, Countdown!Init, Countdown!Off, Left, Due

\* The client runs in the same states of both.
LEMMA ClientRefines ==
    ASSUME IInv, ClientRuns
    PROVE  Countdown!ClientRuns
<1>1. Range(<<>>) = {}
  BY DEF Range
<1> QED BY <1>1 DEF ClientRuns, IInv, PhaseOK, Due, Countdown!ClientRuns

\* add_timer starts a countdown of the same number of ticks.
LEMMA AddRefines ==
    ASSUME IInv, NEW e \in Elems, NEW ms \in Timeouts, add_timer(e, ms)
    PROVE  Countdown!Next
<1>1. Countdown!ClientRuns
  BY ClientRefines DEF add_timer
<1>2. Countdown!Stopped(e)
  BY DEF add_timer, ClientRuns, is_timer_running, Left, Due, OnTimeoutList,
         Countdown!Stopped, Countdown!Off
<1>3. /\ \A f \in Elems : InWheel(f)' <=> InWheel(f) \/ f = e
      /\ \A f \in Elems : f # e => TicksLeft(f)' = TicksLeft(f)
      /\ TicksLeft(e)' \in 0 .. TickMod - 1
  BY AddMoves DEF Ticks
<1>4. UNCHANGED <<pc, timeout_list, firing>>
  BY DEF add_timer
<1>5. Left' = [Left EXCEPT ![e] = TicksLeft(e)']
  <2>1. \A f \in Elems : Left'[f] = IF f = e THEN TicksLeft(e)' ELSE Left[f]
    BY <1>3, <1>4 DEF Left, OnTimeoutList
  <2> QED BY <2>1 DEF Left
<1>6. Countdown!Start(e, TicksLeft(e)')
  BY <1>1, <1>2, <1>4, <1>5 DEF Countdown!Start, Due
<1> QED BY <1>3, <1>6 DEF Countdown!Next

\* del_timer stops the countdown, or takes the timer out of the due ones.
LEMMA DelRefines ==
    ASSUME IInv, NEW e \in Elems, del_timer(e)
    PROVE  Countdown!Next
<1>1. Countdown!ClientRuns
  BY ClientRefines DEF del_timer
<1>2. /\ \A f \in Elems : InWheel(f)' <=> InWheel(f) /\ f # e
      /\ Range(timeout_list') = Range(timeout_list) \ {e}
  BY DelMoves
<1>3. UNCHANGED <<pc, tick, elemTick, firing>> /\ pc # "scan"
  BY DEF del_timer, ClientRuns
<1>4. Left' = [Left EXCEPT ![e] = -1]
  <2>1. \A f \in Elems : Left'[f] = IF f = e THEN -1 ELSE Left[f]
    BY <1>2, <1>3 DEF Left, TicksLeft
  <2> QED BY <2>1 DEF Left
<1>5. Countdown!Stop(e)
  BY <1>1, <1>2, <1>3, <1>4 DEF Countdown!Stop, Countdown!Off, Due
<1> QED BY <1>5 DEF Countdown!Next

\* Moving a timer from its bucket to the timeout list is not visible yet.
LEMMA ScanRefines ==
    ASSUME IInv, ScanElem
    PROVE  UNCHANGED Countdown!vars
<1>1. pc = "scan" /\ UNCHANGED <<pc, tick, elemTick, firing>>
  BY DEF ScanElem
<1>2. Left' = Left /\ Due' = Due
  BY <1>1, ScanMoves DEF Left, Due, TicksLeft
<1> QED BY <1>1, <1>2 DEF Countdown!vars

\* The bucket loop has moved every timer that is due, and no other: what is
\* left on the wheel has a tick less to wait for.
LEMMA TickRefines ==
    ASSUME IInv, ScanDone
    PROVE  Countdown!Next
<1>1. tick \in Ticks
  BY DEF IInv, TypeOK
<1>2. /\ pc = "scan" /\ pc' = "expire" /\ tick' = (tick + 1) % TickMod
      /\ UNCHANGED <<buckets, elemTick, timeout_list, firing>>
  BY DEF ScanDone
<1>3. \A f \in Elems : InWheel(f) => elemTick[f] # tick
  BY NoneDueLeft
<1>4. \A f \in Elems : OnTimeoutList(f) => elemTick[f] = tick
  BY <1>2 DEF IInv, Scanned, OnTimeoutList
<1>5. \A f \in Elems : elemTick[f] \in Ticks
  BY DEF IInv, TypeOK
<1>6. \A f \in Elems :
        /\ TicksLeft(f) \in Ticks
        /\ TicksLeft(f) = 0 <=> elemTick[f] = tick
        /\ elemTick[f] # tick => TicksLeft(f)' = TicksLeft(f) - 1
  <2> SUFFICES ASSUME NEW f \in Elems
               PROVE  /\ TicksLeft(f) \in Ticks
                      /\ TicksLeft(f) = 0 <=> elemTick[f] = tick
                      /\ elemTick[f] # tick => TicksLeft(f)' = TicksLeft(f) - 1
    OBVIOUS
  <2>1. elemTick[f] \in Ticks /\ tick \in Ticks
    BY <1>1, <1>5
  <2>2. TicksLeft(f) = (elemTick[f] - tick) % TickMod
        /\ TicksLeft(f)' = (elemTick[f] - ((tick + 1) % TickMod)) % TickMod
    BY <1>2 DEF TicksLeft
  <2> QED BY <2>1, <2>2, TicksLeftStep
<1>7. \A f \in Elems : InWheel(f)' <=> InWheel(f)
  BY <1>2 DEF InWheel
<1>8. -1 \notin Ticks /\ Countdown!Off = -1
  BY DEF Ticks, Countdown!Off
<1>9. \A f \in Elems :
         /\ Left[f] = 0 <=> OnTimeoutList(f)
         /\ Left'[f] = IF Left[f] \in {-1, 0} THEN -1 ELSE Left[f] - 1
  <2> SUFFICES ASSUME NEW f \in Elems
               PROVE  /\ Left[f] = 0 <=> OnTimeoutList(f)
                      /\ Left'[f] = IF Left[f] \in {-1, 0} THEN -1 ELSE Left[f] - 1
    OBVIOUS
  <2>1. Left[f] = IF InWheel(f) \/ OnTimeoutList(f) THEN TicksLeft(f) ELSE -1
    BY <1>2 DEF Left
  <2>2. Left'[f] = IF InWheel(f) THEN TicksLeft(f)' ELSE -1
    BY <1>2, <1>7 DEF Left
  <2>3. InWheel(f) => ~OnTimeoutList(f)
    BY <1>3, <1>4
  <2>4. CASE InWheel(f)
    BY <1>3, <1>6, <1>8, <2>1, <2>2, <2>3, <2>4
  <2>5. CASE OnTimeoutList(f)
    BY <1>4, <1>6, <2>1, <2>2, <2>3, <2>5
  <2>6. CASE ~InWheel(f) /\ ~OnTimeoutList(f)
    BY <2>1, <2>2, <2>6
  <2> QED BY <2>4, <2>5, <2>6
<1>10. Left' = [f \in Elems |-> IF Left[f] \in {Countdown!Off, 0}
                                 THEN Countdown!Off ELSE Left[f] - 1]
  BY <1>8, <1>9 DEF Left
<1>11. Due = {} /\ Due' = {f \in Elems : Left[f] = 0}
  <2>1. timeout_list \in Seq(Elems) /\ Range(timeout_list) \subseteq Elems
    BY RangeSeq DEF IInv, TypeOK
  <2>2. Due = {} /\ Due' = Range(timeout_list)
    BY <1>2 DEF Due
  <2> QED BY <1>9, <2>1, <2>2 DEF OnTimeoutList
<1>12. firing = NoElem /\ firing' = firing
  BY <1>2 DEF IInv, PhaseOK
<1>13. Countdown!Tick
  BY <1>10, <1>11, <1>12 DEF Countdown!Tick
<1> QED BY <1>13 DEF Countdown!Next

\* The callback of the first expired timer is the callback of a due one.
LEMMA FireRefines ==
    ASSUME IInv, Fire
    PROVE  Countdown!Next
<1>1. timeout_list \in Seq(Elems) /\ IsInjective(timeout_list) /\ timeout_list # <<>>
  BY DEF Fire, IInv, TypeOK, LinkedOnce
<1>2. /\ Head(timeout_list) \in Range(timeout_list)
      /\ Head(timeout_list) \in Elems
      /\ Range(timeout_list') = Range(timeout_list) \ {Head(timeout_list)}
  BY <1>1, HeadTailLemma, HeadTailProperties DEF Fire
<1>3. pc = "expire" /\ pc' = "callback" /\ firing = NoElem
      /\ UNCHANGED <<tick, buckets, elemTick>>
  BY DEF Fire, IInv, PhaseOK
<1>4. Left' = Left
  BY <1>3 DEF Left, InWheel, TicksLeft
<1>5. Countdown!Fire(Head(timeout_list))
  BY <1>2, <1>3, <1>4 DEF Fire, Countdown!Fire, Due
<1> QED BY <1>2, <1>5 DEF Countdown!Next

\* What only moves the program counter is not visible, but for the return of a
\* callback.
LEMMA PhaseRefines ==
    ASSUME IInv,
           \/ \E gap \in Gaps : drive_timer(gap)
           \/ DriveTick \/ DriveDone \/ TickDone \/ CallbackReturns \/ deinit_timer
           \/ \E e \in Elems : add_running_timer(e)
           \/ UNCHANGED vars
    PROVE  Countdown!Next \/ UNCHANGED Countdown!vars
<1>1. UNCHANGED <<tick, buckets, elemTick, timeout_list>>
  BY DEF drive_timer, DriveTick, DriveDone, TickDone, CallbackReturns, deinit_timer,
         add_running_timer, vars, IInv, PhaseOK
<1>2. \/ pc # "scan" /\ pc' # "scan"
      \/ pc = "scan" /\ pc' = "scan"
      \/ timeout_list = <<>>
  BY DEF drive_timer, DriveTick, DriveDone, TickDone, CallbackReturns, deinit_timer,
         add_running_timer, ClientRuns, vars, IInv, PhaseOK
<1>3. Range(<<>>) = {}
  BY DEF Range
<1>4. Left' = Left /\ Due' = Due
  BY <1>1, <1>2, <1>3 DEF Left, Due, InWheel, OnTimeoutList, TicksLeft
<1>5. CASE CallbackReturns
  <2>1. Countdown!Return
    BY <1>4, <1>5 DEF CallbackReturns, IInv, PhaseOK, Countdown!Return
  <2> QED BY <2>1 DEF Countdown!Next
<1>6. CASE ~CallbackReturns
  <2>1. UNCHANGED firing
    BY <1>6 DEF drive_timer, DriveTick, DriveDone, TickDone, deinit_timer,
                add_running_timer, vars
  <2> QED BY <1>4, <2>1 DEF Countdown!vars
<1> QED BY <1>5, <1>6

\* Every behaviour of the wheel is one of the countdown timers: a timer's
\* callback runs in the tick it was started for, once, and not after a stop.
THEOREM Refinement == Spec => ImplementsCountdown
<1>1. IInv /\ [Next]_vars => [Countdown!Next]_(Countdown!vars)
  <2> SUFFICES ASSUME IInv, [Next]_vars
               PROVE  Countdown!Next \/ UNCHANGED Countdown!vars
    OBVIOUS
  <2>1. ASSUME NEW e \in Elems, NEW ms \in Timeouts, add_timer(e, ms)
        PROVE  Countdown!Next
    BY <2>1, AddRefines
  <2>2. ASSUME NEW e \in Elems, del_timer(e)
        PROVE  Countdown!Next
    BY <2>2, DelRefines
  <2>3. CASE ScanElem
    BY <2>3, ScanRefines
  <2>4. CASE ScanDone
    BY <2>4, TickRefines
  <2>5. CASE Fire
    BY <2>5, FireRefines
  <2>6. ASSUME \/ \E gap \in Gaps : drive_timer(gap)
               \/ DriveTick \/ DriveDone \/ TickDone \/ CallbackReturns \/ deinit_timer
               \/ \E e \in Elems : add_running_timer(e)
               \/ UNCHANGED vars
        PROVE  Countdown!Next \/ UNCHANGED Countdown!vars
    BY <2>6, PhaseRefines
  <2> QED BY <2>1, <2>2, <2>3, <2>4, <2>5, <2>6 DEF Next, Client, Engine
<1> QED BY <1>1, InitRefines, Invariance, PTL DEF Spec, ImplementsCountdown, Countdown!Spec

-----------------------------------------------------------------------------
(* The inductive invariant.                                                *)

\* The history goes with the engine: the started timers are the running ones,
\* and a timer that does not run is credited nothing.
HTypeOK ==
    /\ asked \in [Elems -> Timeouts \cup {0}]
    /\ waited \in [Elems -> Nat]
    /\ nested \in [Elems -> BOOLEAN]
    /\ started \in Seq(Elems) /\ IsInjective(started)
    /\ Range(started) = {e \in Elems : is_timer_running(e)}
    /\ \A e \in Elems : ~is_timer_running(e) => waited[e] = 0

\* How much time has accumulated.  Only at the start, before any is credited,
\* is there a full tick outside drive_timer.
Backlog ==
    /\ pc = "idle" => \/ accumulated < TickRate
                      \/ accumulated = TickRate /\ \A e \in Elems : waited[e] = 0
    /\ pc = "drive" => accumulated < 4 * TickRate
    /\ pc \in {"scan", "expire", "callback"} => accumulated < 3 * TickRate

\* The ticks e was started for.
AskedTicks(e) == get_tick_from_milsec(asked[e])

\* The most that may have accumulated when e was started.
AtStart(e) == IF nested[e] THEN 3 * TickRate - 1 ELSE TickRate

\* e was credited n ticks and what has accumulated, less what had at its start.
Credited(e, n) ==
    /\ waited[e] <= n * TickRate + accumulated
    /\ waited[e] >= n * TickRate + accumulated - AtStart(e)

\* No time is lost: the ticks e has been through are those it was started for
\* less those it still waits for; in timer_tick and for an expired timer the
\* tick that began counts too.
Account ==
    /\ pc \in {"idle", "drive", "expire", "callback"} =>
         \A e \in Elems : InWheel(e) => Credited(e, AskedTicks(e) - TicksLeft(e))
    /\ pc = "scan" =>
         \A e \in Elems :
             InWheel(e) \/ OnTimeoutList(e) => Credited(e, AskedTicks(e) - TicksLeft(e) + 1)
    /\ pc \in {"expire", "callback"} =>
         \A e \in Elems : OnTimeoutList(e) => Credited(e, AskedTicks(e) + 1)

\* The buckets and the timeout list are in the order of the starts, and so are
\* the expired timers with those the bucket loop has still to come to.
Ordered ==
    /\ \A b \in Buckets : \A x, y : Prec(buckets[b], x, y) => Prec(started, x, y)
    /\ \A x, y : Prec(timeout_list, x, y) => Prec(started, x, y)
    /\ pc = "scan" =>
         \A x \in Range(timeout_list) : \A i \in 1 .. Len(buckets[Current]) :
             i >= pos => Prec(started, x, buckets[Current][i])

\* The inductive invariant.
HInv == IInv /\ HTypeOK /\ Backlog /\ Account /\ Ordered

-----------------------------------------------------------------------------
(* Arithmetic.                                                             *)

\* One tick more.
LEMMA TickMore ==
    ASSUME NEW n \in Int
    PROVE  n * TickRate \in Int /\ (n + 1) * TickRate = n * TickRate + TickRate
<1>1. TickRate \in Int
  BY WheelAssumption
<1> QED BY <1>1

\* A timer waits for the ticks it was started for.
LEMMA StartTicks ==
    ASSUME NEW t \in Ticks, NEW g \in Ticks
    PROVE  (((t + g) % TickMod) - t) % TickMod = g
<1>1. t \in 0 .. TickMod - 1 /\ g \in 0 .. TickMod - 1 /\ TickMod \in Nat \ {0}
  BY WheelAssumption DEF Ticks
<1>2. \A d \in Int : d >= -TickMod /\ d < TickMod =>
                       d % TickMod = IF d < 0 THEN d + TickMod ELSE d
  BY <1>1
<1>3. (t + g) % TickMod = IF t + g < TickMod THEN t + g ELSE t + g - TickMod
  BY <1>1
<1>4. CASE t + g < TickMod
  BY <1>1, <1>2, <1>3, <1>4
<1>5. CASE ~(t + g < TickMod)
  <2>1. ((t + g) % TickMod) - t = g - TickMod
    BY <1>1, <1>3, <1>5
  <2> QED BY <1>1, <1>2, <2>1
<1> QED BY <1>4, <1>5

\* A timeout of one tick or more is rounded up to ticks: they last no shorter.
LEMMA TicksLast ==
    ASSUME NEW ms \in Timeouts, ms >= TickRate
    PROVE  get_tick_from_milsec(ms) * TickRate >= ms
<1> DEFINE q == ms \div TickRate
           up == IF ms % TickRate # 0 THEN 1 ELSE 0
<1>1. ms \in Int /\ TickRate \in Nat \ {0} /\ TickMod \in Nat \ {0}
  BY InputAssumption, WheelAssumption
<1>2. CDiv(ms, TickRate) = q
  BY <1>1 DEF CDiv
<1>3. get_tick_from_milsec(ms) = (q + up) % TickMod
  BY <1>1, <1>2 DEF get_tick_from_milsec
<1>4. /\ q \in Nat /\ (ms % TickRate) \in 0 .. TickRate - 1
      /\ ms = q * TickRate + (ms % TickRate)
  BY <1>1
<1>5. up \in {0, 1} /\ (up = 0 => ms = q * TickRate)
  BY <1>1, <1>4
<1>6. ms <= (TickMod - 1) * TickRate
  BY TimeoutAssumption
<1> DEFINE n == q + up
<1>7. n \in Nat /\ n * TickRate >= ms /\ (n - 1) * TickRate < ms
  <2>1. CASE up = 0
    <3>1. n = q /\ q * TickRate = ms
      BY <1>4, <1>5, <2>1
    <3>2. (q - 1) * TickRate = q * TickRate - TickRate
      BY <1>1, <1>4
    <3> QED BY <1>1, <1>4, <3>1, <3>2
  <2>2. CASE up = 1
    <3>1. n = q + 1 /\ ms % TickRate # 0
      BY <2>2
    <3>2. (q + 1) * TickRate = q * TickRate + TickRate /\ n - 1 = q
      BY <1>1, <1>4, <3>1
    <3> QED BY <1>1, <1>4, <3>1, <3>2
  <2> QED BY <1>5, <2>1, <2>2
<1> HIDE DEF q, up, n
<1>8. n \in Nat /\ n # 0
  <2>1. 0 * TickRate = 0
    BY <1>1
  <2> QED BY <1>1, <1>7, <2>1
<1>9. n * TickRate >= ms /\ (n - 1) * TickRate < ms
  BY <1>7
<1>10. n < TickMod
  <2> SUFFICES ASSUME n - 1 >= TickMod - 1 PROVE FALSE
    BY <1>1, <1>8
  <2>1. (n - 1) * TickRate >= (TickMod - 1) * TickRate
    BY <1>1, <1>8
  <2>2. (n - 1) * TickRate \in Int /\ (TickMod - 1) * TickRate \in Int
    BY <1>1, <1>8
  <2> QED BY <1>1, <1>6, <1>9, <2>1, <2>2
<1>11. n % TickMod = n
  BY <1>1, <1>8, <1>10
<1> QED BY <1>3, <1>9, <1>11 DEF n

\* The ticks of a timeout fit the counter.
LEMMA HistoryTypes ==
    ASSUME HInv
    PROVE  /\ \A e \in Elems : asked[e] \in Int /\ AskedTicks(e) \in Ticks /\ TicksLeft(e) \in Ticks
           /\ \A e \in Elems : AtStart(e) \in Nat /\ waited[e] \in Nat
           /\ accumulated \in Nat /\ TickRate \in Nat \ {0}
<1>1. TickRate \in Nat \ {0} /\ TickMod \in Nat \ {0}
  BY WheelAssumption
<1>2. \A e \in Elems : asked[e] \in Int
  <2>1. \A ms \in Timeouts \cup {0} : ms \in Int
    BY InputAssumption
  <2>2. asked \in [Elems -> Timeouts \cup {0}]
    BY DEF HInv, HTypeOK
  <2> HIDE DEF HInv
  <2> QED BY <2>1, <2>2
<1>3. \A e \in Elems : AskedTicks(e) \in Ticks
  BY <1>2, TickType DEF AskedTicks
<1>4. \A e \in Elems : TicksLeft(e) \in Ticks
  BY TicksLeftStep DEF HInv, IInv, TypeOK, TicksLeft
<1>5. \A e \in Elems : AtStart(e) \in Nat
  BY <1>1 DEF AtStart
<1> QED BY <1>1, <1>2, <1>3, <1>4, <1>5 DEF HInv, HTypeOK, IInv, TypeOK

-----------------------------------------------------------------------------
(* The steps.                                                              *)

\* The wheel and the timeout list are where timers run.
LEMMA Runs ==
    /\ \A e : is_timer_running(e) <=> InWheel(e) \/ OnTimeoutList(e)
    /\ \A e : is_timer_running(e)' <=> InWheel(e)' \/ OnTimeoutList(e)'
BY DEF is_timer_running, InWheel, OnTimeoutList

\* A timer that is started waits for all its ticks, and joins the end of its
\* bucket and of the started timers.
LEMMA AddHInv ==
    ASSUME HInv, NEW e \in Elems, NEW ms \in Timeouts, add_timer(e, ms),
           asked' = [asked EXCEPT ![e] = ms], nested' = [nested EXCEPT ![e] = (pc = "callback")],
           started' = Append(started, e), waited' = waited
    PROVE  HTypeOK' /\ Backlog' /\ Account' /\ Ordered'
<1>1. IInv /\ HTypeOK /\ Backlog /\ Account /\ Ordered
  BY DEF HInv
<1>2. /\ pc \in {"idle", "callback"} /\ ~is_timer_running(e)
      /\ UNCHANGED <<pc, tick, accumulated, timeout_list, waited>>
  BY DEF add_timer, ClientRuns
<1>3. /\ \A f \in Elems : InWheel(f)' <=> InWheel(f) \/ f = e
      /\ \A f \in Elems : OnTimeoutList(f)' <=> OnTimeoutList(f)
      /\ \A f \in Elems : f # e => TicksLeft(f)' = TicksLeft(f)
  BY <1>1, <1>2, AddMoves DEF OnTimeoutList
<1>4. TicksLeft(e)' = get_tick_from_milsec(ms)
  <2>1. get_tick_from_milsec(ms) \in Ticks /\ tick \in Ticks
    BY <1>1, TickType, InputAssumption DEF IInv, TypeOK
  <2>2. elemTick'[e] = (tick + get_tick_from_milsec(ms)) % TickMod
    BY <1>1 DEF add_timer, IInv, TypeOK
  <2> QED BY <1>2, <2>1, <2>2, StartTicks DEF TicksLeft
<1>5. /\ asked'[e] = ms /\ nested'[e] = (pc = "callback")
      /\ \A f \in Elems : f # e => asked'[f] = asked[f] /\ nested'[f] = nested[f]
  BY <1>1 DEF HTypeOK
<1>6. waited[e] = 0 /\ e \notin Range(started)
  BY <1>1, <1>2 DEF HTypeOK
<1>7. HTypeOK'
  <2>1. /\ started' \in Seq(Elems) /\ IsInjective(started')
        /\ Range(started') = Range(started) \cup {e}
    BY <1>1, <1>6, AppendLemma DEF HTypeOK
  <2>2. \A f \in Elems : is_timer_running(f)' <=> is_timer_running(f) \/ f = e
    BY <1>3, Runs
  <2>3. asked' \in [Elems -> Timeouts \cup {0}] /\ nested' \in [Elems -> BOOLEAN]
    BY <1>1 DEF HTypeOK
  <2>4. Range(started') = {f \in Elems : is_timer_running(f)'}
    BY <1>1, <2>1, <2>2 DEF HTypeOK
  <2>5. \A f \in Elems : ~is_timer_running(f)' => waited'[f] = 0
    BY <1>1, <1>2, <2>2 DEF HTypeOK
  <2> QED BY <1>1, <1>2, <2>1, <2>3, <2>4, <2>5 DEF HTypeOK
<1>8. Backlog'
  BY <1>1, <1>2 DEF Backlog
<1>9. Account'
  <2>1. ASSUME NEW f \in Elems, InWheel(f)'
        PROVE  Credited(f, AskedTicks(f) - TicksLeft(f))'
    <3>1. CASE f = e
      <4>1. AskedTicks(e)' = get_tick_from_milsec(ms) /\ get_tick_from_milsec(ms) \in Int
        BY <1>5, TickType, InputAssumption DEF AskedTicks, Ticks
      <4>2. AskedTicks(e)' - TicksLeft(e)' = 0
        BY <1>4, <4>1
      <4>3. AtStart(e)' = IF pc = "callback" THEN 3 * TickRate - 1 ELSE TickRate
        BY <1>5 DEF AtStart
      <4>4. 0 <= accumulated /\ accumulated <= AtStart(e)'
        <5>1. accumulated \in Nat /\ TickRate \in Nat \ {0}
          BY HistoryTypes
        <5>2. accumulated <= IF pc = "callback" THEN 3 * TickRate - 1 ELSE TickRate
          BY <1>1, <1>2, <5>1 DEF Backlog
        <5> QED BY <4>3, <5>1, <5>2
      <4>5. 0 * TickRate = 0 /\ TickRate \in Nat \ {0} /\ accumulated \in Nat
        BY HistoryTypes
      <4>6. AtStart(e)' \in Nat
        BY <4>3, <4>5
      <4>7. waited'[e] = 0 /\ accumulated' = accumulated
        BY <1>2, <1>6
      <4> QED BY <3>1, <4>2, <4>4, <4>5, <4>6, <4>7 DEF Credited
    <3>2. CASE f # e
      <4>1. InWheel(f) /\ Credited(f, AskedTicks(f) - TicksLeft(f))
        BY <1>1, <1>2, <1>3, <2>1, <3>2 DEF Account
      <4>2. AskedTicks(f)' = AskedTicks(f) /\ AtStart(f)' = AtStart(f) /\ TicksLeft(f)' = TicksLeft(f)
        BY <1>3, <1>5, <3>2 DEF AskedTicks, AtStart
      <4> QED BY <1>2, <4>1, <4>2 DEF Credited
    <3> QED BY <3>1, <3>2
  <2>2. ASSUME NEW f \in Elems, OnTimeoutList(f)', pc = "callback"
        PROVE  Credited(f, AskedTicks(f) + 1)'
    <3>1. f # e /\ Credited(f, AskedTicks(f) + 1)
      BY <1>1, <1>2, <1>3, <2>2, Runs DEF Account
    <3>2. AskedTicks(f)' = AskedTicks(f) /\ AtStart(f)' = AtStart(f)
      BY <1>5, <3>1 DEF AskedTicks, AtStart
    <3> QED BY <1>2, <3>1, <3>2 DEF Credited
  <2> QED BY <1>2, <2>1, <2>2 DEF Account
<1>10. Ordered'
  <2>1. \A x, y : Prec(started, x, y) => Prec(started', x, y)
    BY <1>1, AppendOrder DEF HTypeOK
  <2>2. \A x : x \in Range(started) => Prec(started', x, e)
    BY <1>1, AppendOrder DEF HTypeOK
  <2>3. PICK t \in Buckets : buckets' = [buckets EXCEPT ![t] = Append(buckets[t], e)]
    <3> DEFINE t == elemTick'[e] % NumBuckets
    <3>1. elemTick'[e] \in Ticks
      BY <1>1, AddIInv DEF IInv, TypeOK
    <3>2. t \in Buckets
      BY <3>1, BucketOfTick
    <3> QED BY <3>2 DEF add_timer
  <2>4. ASSUME NEW b \in Buckets, NEW x, NEW y, Prec(buckets'[b], x, y)
        PROVE  Prec(started', x, y)
    <3>1. CASE b = t
      <4>1. buckets[t] \in Seq(Elems) /\ buckets'[b] = Append(buckets[t], e)
        BY <1>1, <2>3, <3>1 DEF IInv, TypeOK
      <4>2. Prec(buckets[t], x, y) \/ (x \in Range(buckets[t]) /\ y = e)
        BY <2>4, <4>1, AppendOrder
      <4>3. CASE Prec(buckets[t], x, y)
        BY <1>1, <2>1, <4>3 DEF Ordered
      <4>4. CASE x \in Range(buckets[t]) /\ y = e
        <5>1. x \in Elems /\ InWheel(x)
          BY <4>1, <4>4, RangeSeq DEF InWheel
        <5>2. x \in Range(started)
          BY <1>1, <5>1, Runs DEF HTypeOK
        <5> QED BY <2>2, <4>4, <5>2
      <4> QED BY <4>2, <4>3, <4>4
    <3>2. CASE b # t
      <4>1. buckets'[b] = buckets[b]
        BY <1>1, <2>3, <3>2 DEF IInv, TypeOK
      <4> QED BY <1>1, <2>1, <2>4, <4>1 DEF Ordered
    <3> QED BY <3>1, <3>2
  <2>5. \A x, y : Prec(timeout_list', x, y) => Prec(started', x, y)
    BY <1>1, <1>2, <2>1 DEF Ordered
  <2> QED BY <1>2, <2>4, <2>5 DEF Ordered
<1> QED BY <1>7, <1>8, <1>9, <1>10

\* What Forget does: the timer is no longer among the started ones, the others
\* are as they were and in their order.
LEMMA ForgetFacts ==
    ASSUME HInv, NEW e \in Elems, Forget(e)
    PROVE  /\ asked' \in [Elems -> Timeouts \cup {0}] /\ waited' \in [Elems -> Nat]
           /\ nested' \in [Elems -> BOOLEAN]
           /\ started' \in Seq(Elems) /\ IsInjective(started') /\ Range(started') = Range(started) \ {e}
           /\ waited'[e] = 0
           /\ \A f \in Elems : f # e => /\ asked'[f] = asked[f] /\ waited'[f] = waited[f]
                                        /\ nested'[f] = nested[f]
           /\ \A x, y : x # e /\ y # e /\ Prec(started, x, y) => Prec(started', x, y)
<1>1. HTypeOK
  BY DEF HInv
<1>2. /\ asked' \in [Elems -> Timeouts \cup {0}] /\ waited' \in [Elems -> Nat]
      /\ nested' \in [Elems -> BOOLEAN] /\ waited'[e] = 0
      /\ \A f \in Elems : f # e => /\ asked'[f] = asked[f] /\ waited'[f] = waited[f]
                                   /\ nested'[f] = nested[f]
  BY <1>1 DEF Forget, HTypeOK
<1>3. started' \in Seq(Elems) /\ IsInjective(started') /\ Range(started') = Range(started) \ {e}
  BY <1>1, UnlinkLemma DEF Forget, HTypeOK
<1>4. ASSUME NEW x, NEW y, x # e, y # e, Prec(started, x, y)
      PROVE  Prec(started', x, y)
  <2>1. started \in Seq(Elems) /\ started' = Unlink(started, e)
    BY <1>1 DEF Forget, HTypeOK
  <2>2. Keeps(started, Unlink(started, e), {x, y})
    BY <1>4, <2>1, KeepsOthers
  <2> QED BY <1>4, <2>1, <2>2 DEF Keeps
<1> QED BY <1>2, <1>3, <1>4

\* Stopping a timer takes it out of every account.
LEMMA DelHInv ==
    ASSUME HInv, NEW e \in Elems, del_timer(e), Forget(e)
    PROVE  HTypeOK' /\ Backlog' /\ Account' /\ Ordered'
<1>1. IInv /\ HTypeOK /\ Backlog /\ Account /\ Ordered
  BY DEF HInv
<1>2. pc \in {"idle", "callback"} /\ UNCHANGED <<pc, tick, elemTick, accumulated>>
  BY DEF del_timer, ClientRuns
<1>3. /\ \A f \in Elems : InWheel(f)' <=> InWheel(f) /\ f # e
      /\ \A f \in Elems : OnTimeoutList(f)' <=> OnTimeoutList(f) /\ f # e
  BY <1>1, DelMoves DEF OnTimeoutList
<1>4. HTypeOK'
  <2>1. \A f \in Elems : is_timer_running(f)' <=> is_timer_running(f) /\ f # e
    BY <1>3, Runs
  <2>2. Range(started') = {f \in Elems : is_timer_running(f)'}
    BY <1>1, <2>1, ForgetFacts DEF HTypeOK
  <2>3. \A f \in Elems : ~is_timer_running(f)' => waited'[f] = 0
    BY <1>1, <2>1, ForgetFacts DEF HTypeOK
  <2> QED BY <2>2, <2>3, ForgetFacts DEF HTypeOK
<1>5. Backlog'
  <2>1. \A f \in Elems : waited[f] = 0 => waited'[f] = 0
    BY ForgetFacts
  <2> QED BY <1>1, <1>2, <2>1 DEF Backlog
<1>6. Account'
  <2>1. \A f \in Elems : f # e => /\ AskedTicks(f)' = AskedTicks(f) /\ AtStart(f)' = AtStart(f)
                                  /\ waited'[f] = waited[f] /\ TicksLeft(f)' = TicksLeft(f)
    BY <1>2, ForgetFacts DEF AskedTicks, AtStart, TicksLeft
  <2>2. ASSUME NEW f \in Elems, InWheel(f)'
        PROVE  Credited(f, AskedTicks(f) - TicksLeft(f))'
    <3>1. f # e /\ Credited(f, AskedTicks(f) - TicksLeft(f))
      BY <1>1, <1>2, <1>3, <2>2 DEF Account
    <3> QED BY <1>2, <2>1, <3>1 DEF Credited
  <2>3. ASSUME NEW f \in Elems, OnTimeoutList(f)', pc = "callback"
        PROVE  Credited(f, AskedTicks(f) + 1)'
    <3>1. f # e /\ Credited(f, AskedTicks(f) + 1)
      BY <1>1, <1>3, <2>3 DEF Account
    <3> QED BY <1>2, <2>1, <3>1 DEF Credited
  <2> QED BY <1>2, <2>2, <2>3 DEF Account
<1>7. Ordered'
  <2>1. ASSUME NEW s \in Seq(Elems), IsInjective(s), NEW x, NEW y, Prec(Unlink(s, e), x, y)
        PROVE  Prec(s, x, y) /\ x # e /\ y # e
    <3>1. Unlink(s, e) \in Seq(Elems) /\ Range(Unlink(s, e)) = Range(s) \ {e}
      BY <2>1, UnlinkLemma
    <3>2. x \in Range(Unlink(s, e)) /\ y \in Range(Unlink(s, e))
      BY <2>1 DEF Prec, Range
    <3>3. Prec(s, x, y)
      BY <2>1, UnlinkOrder
    <3> QED BY <3>1, <3>2, <3>3
  <2>2. ASSUME NEW b \in Buckets, NEW x, NEW y, Prec(buckets'[b], x, y)
        PROVE  Prec(started', x, y)
    <3>1. buckets[b] \in Seq(Elems) /\ IsInjective(buckets[b]) /\ buckets'[b] = Unlink(buckets[b], e)
      BY <1>1 DEF IInv, TypeOK, LinkedOnce, del_timer
    <3>2. Prec(buckets[b], x, y) /\ x # e /\ y # e
      BY <2>1, <2>2, <3>1
    <3> QED BY <1>1, <3>2, ForgetFacts DEF Ordered
  <2>3. ASSUME NEW x, NEW y, Prec(timeout_list', x, y)
        PROVE  Prec(started', x, y)
    <3>1. /\ timeout_list \in Seq(Elems) /\ IsInjective(timeout_list)
          /\ timeout_list' = Unlink(timeout_list, e)
      BY <1>1 DEF IInv, TypeOK, LinkedOnce, del_timer
    <3>2. Prec(timeout_list, x, y) /\ x # e /\ y # e
      BY <2>1, <2>3, <3>1
    <3> QED BY <1>1, <3>2, ForgetFacts DEF Ordered
  <2> QED BY <1>2, <2>2, <2>3 DEF Ordered
<1> QED BY <1>4, <1>5, <1>6, <1>7

\* Taking an expired timer off for its callback takes it out of every account.
LEMMA FireHInv ==
    ASSUME HInv, Fire, Forget(Head(timeout_list))
    PROVE  HTypeOK' /\ Backlog' /\ Account' /\ Ordered'
<1> DEFINE e == Head(timeout_list)
<1>1. IInv /\ HTypeOK /\ Backlog /\ Account /\ Ordered
  BY DEF HInv
<1>2. timeout_list \in Seq(Elems) /\ IsInjective(timeout_list) /\ timeout_list # <<>>
  BY <1>1 DEF Fire, IInv, TypeOK, LinkedOnce
<1>3. /\ e \in Elems /\ e \in Range(timeout_list)
      /\ Range(timeout_list') = Range(timeout_list) \ {e}
  BY <1>2, HeadTailLemma, HeadTailProperties DEF Fire
<1>4. /\ pc = "expire" /\ pc' = "callback"
      /\ UNCHANGED <<tick, elemTick, buckets, accumulated>> /\ timeout_list' = Tail(timeout_list)
  BY DEF Fire
<1>5. Forget(e)
  OBVIOUS
<1> HIDE DEF e
<1>6. \A b \in Buckets : e \notin Range(buckets[b])
  BY <1>1, <1>3 DEF IInv, LinkedOnce
<1>7. /\ \A f \in Elems : InWheel(f)' <=> InWheel(f) /\ f # e
      /\ \A f \in Elems : OnTimeoutList(f)' <=> OnTimeoutList(f) /\ f # e
  BY <1>3, <1>4, <1>6 DEF InWheel, OnTimeoutList
<1>8. HTypeOK'
  <2>1. \A f \in Elems : is_timer_running(f)' <=> is_timer_running(f) /\ f # e
    BY <1>7, Runs
  <2>2. Range(started') = {f \in Elems : is_timer_running(f)'}
    BY <1>1, <1>3, <1>5, <2>1, ForgetFacts DEF HTypeOK
  <2>3. \A f \in Elems : ~is_timer_running(f)' => waited'[f] = 0
    BY <1>1, <1>3, <1>5, <2>1, ForgetFacts DEF HTypeOK
  <2> QED BY <1>3, <1>5, <2>2, <2>3, ForgetFacts DEF HTypeOK
<1>9. Backlog'
  BY <1>1, <1>4 DEF Backlog
<1>10. Account'
  <2>1. \A f \in Elems : f # e => /\ AskedTicks(f)' = AskedTicks(f) /\ AtStart(f)' = AtStart(f)
                                  /\ waited'[f] = waited[f] /\ TicksLeft(f)' = TicksLeft(f)
    BY <1>3, <1>4, <1>5, ForgetFacts DEF AskedTicks, AtStart, TicksLeft
  <2>2. ASSUME NEW f \in Elems, InWheel(f)'
        PROVE  Credited(f, AskedTicks(f) - TicksLeft(f))'
    <3>1. f # e /\ Credited(f, AskedTicks(f) - TicksLeft(f))
      BY <1>1, <1>4, <1>7, <2>2 DEF Account
    <3> QED BY <1>4, <2>1, <3>1 DEF Credited
  <2>3. ASSUME NEW f \in Elems, OnTimeoutList(f)'
        PROVE  Credited(f, AskedTicks(f) + 1)'
    <3>1. f # e /\ Credited(f, AskedTicks(f) + 1)
      BY <1>1, <1>4, <1>7, <2>3 DEF Account
    <3> QED BY <1>4, <2>1, <3>1 DEF Credited
  <2> QED BY <1>4, <2>2, <2>3 DEF Account
<1>11. Ordered'
  <2>1. ASSUME NEW b \in Buckets, NEW x, NEW y, Prec(buckets'[b], x, y)
        PROVE  Prec(started', x, y)
    <3>1. buckets'[b] = buckets[b] /\ buckets[b] \in Seq(Elems)
      BY <1>1, <1>4 DEF IInv, TypeOK
    <3>2. Prec(buckets[b], x, y) /\ x \in Range(buckets[b]) /\ y \in Range(buckets[b])
      BY <2>1, <3>1, PrecOrder
    <3>3. Prec(started, x, y) /\ x # e /\ y # e
      BY <1>1, <1>6, <3>2 DEF Ordered
    <3> QED BY <1>3, <1>5, <3>3, ForgetFacts
  <2>2. ASSUME NEW x, NEW y, Prec(timeout_list', x, y)
        PROVE  Prec(started', x, y)
    <3>1. Prec(timeout_list, x, y)
      BY <1>2, <1>4, <2>2, TailOrder
    <3>2. x \in Range(timeout_list') /\ y \in Range(timeout_list')
      BY <2>2 DEF Prec, Range
    <3>3. Prec(started, x, y) /\ x # e /\ y # e
      BY <1>1, <1>3, <3>1, <3>2 DEF Ordered
    <3> QED BY <1>3, <1>5, <3>3, ForgetFacts
  <2> QED BY <1>4, <2>1, <2>2 DEF Ordered
<1> QED BY <1>8, <1>9, <1>10, <1>11

\* drive_timer credits to every running timer what it lets accumulate.
LEMMA DriveHInv ==
    ASSUME HInv, NEW gap \in Gaps, HDrive(gap)
    PROVE  HTypeOK' /\ Backlog' /\ Account' /\ Ordered'
<1> DEFINE ms == Guarded(mtime(gap))
<1>1. IInv /\ HTypeOK /\ Backlog /\ Account /\ Ordered
  BY DEF HInv
<1>2. ms \in Nat /\ ms < 3 * TickRate /\ accumulated \in Nat /\ TickRate \in Nat \ {0}
  BY GuardedType, HistoryTypes
<1>3. /\ pc = "idle" /\ pc' = "drive" /\ accumulated' = accumulated + ms
      /\ UNCHANGED <<tick, buckets, elemTick, pos, timeout_list, asked, nested, started>>
      /\ waited' = [f \in Elems |-> IF is_timer_running(f) THEN waited[f] + ms ELSE waited[f]]
  BY DEF HDrive, drive_timer
<1> HIDE DEF ms
<1>4. /\ \A f \in Elems : InWheel(f)' <=> InWheel(f)
      /\ \A f \in Elems : OnTimeoutList(f)' <=> OnTimeoutList(f)
      /\ \A f \in Elems : is_timer_running(f)' <=> is_timer_running(f)
  BY <1>3 DEF InWheel, OnTimeoutList, is_timer_running
<1>5. HTypeOK'
  <2>1. waited' \in [Elems -> Nat] /\ \A f \in Elems : ~is_timer_running(f)' => waited'[f] = 0
    BY <1>1, <1>2, <1>3, <1>4 DEF HTypeOK
  <2> QED BY <1>1, <1>3, <1>4, <2>1 DEF HTypeOK
<1>6. Backlog'
  <2>1. accumulated' < 4 * TickRate
    BY <1>1, <1>2, <1>3 DEF Backlog
  <2> QED BY <1>3, <2>1 DEF Backlog
<1>7. Account'
  <2> SUFFICES ASSUME NEW f \in Elems, InWheel(f)
               PROVE  Credited(f, AskedTicks(f) - TicksLeft(f))'
    BY <1>3, <1>4 DEF Account
  <2>1. Credited(f, AskedTicks(f) - TicksLeft(f))
    BY <1>1, <1>3 DEF Account
  <2>2. waited'[f] = waited[f] + ms
    BY <1>3, Runs
  <2>3. AskedTicks(f)' = AskedTicks(f) /\ AtStart(f)' = AtStart(f) /\ TicksLeft(f)' = TicksLeft(f)
    BY <1>3 DEF AskedTicks, AtStart, TicksLeft
  <2>4. /\ (AskedTicks(f) - TicksLeft(f)) * TickRate \in Int
        /\ waited[f] \in Nat /\ AtStart(f) \in Nat
    <3>1. AskedTicks(f) - TicksLeft(f) \in Int
      BY HistoryTypes DEF Ticks
    <3> QED BY <3>1, TickMore, HistoryTypes
  <2> QED BY <1>2, <1>3, <2>1, <2>2, <2>3, <2>4 DEF Credited
<1>8. Ordered'
  BY <1>1, <1>3 DEF Ordered
<1> QED BY <1>5, <1>6, <1>7, <1>8

\* The steps that neither start, stop nor credit a timer leave the history alone.
LEMMA SameHistory ==
    ASSUME HInv, UNCHANGED history, \A f \in Elems : is_timer_running(f)' <=> is_timer_running(f)
    PROVE  HTypeOK'
BY DEF HInv, HTypeOK, history

\* A tick is taken out of what has accumulated, and counts as begun.
LEMMA DriveTickHInv ==
    ASSUME HInv, DriveTick, UNCHANGED history
    PROVE  HTypeOK' /\ Backlog' /\ Account' /\ Ordered'
<1>1. IInv /\ HTypeOK /\ Backlog /\ Account /\ Ordered
  BY DEF HInv
<1>2. /\ pc = "drive" /\ pc' = "scan" /\ accumulated' = accumulated - TickRate
      /\ timeout_list = <<>> /\ UNCHANGED <<tick, buckets, elemTick, timeout_list, history>>
  BY <1>1 DEF DriveTick, IInv, PhaseOK
<1>3. Range(<<>>) = {}
  BY DEF Range
<1>4. /\ \A f \in Elems : InWheel(f)' <=> InWheel(f)
      /\ \A f \in Elems : ~OnTimeoutList(f) /\ ~OnTimeoutList(f)'
  BY <1>2, <1>3 DEF InWheel, OnTimeoutList
<1>5. HTypeOK'
  BY <1>2, <1>4, Runs, SameHistory
<1>6. Backlog'
  BY <1>1, <1>2, HistoryTypes DEF Backlog
<1>7. Account'
  <2> SUFFICES ASSUME NEW f \in Elems, InWheel(f)
               PROVE  Credited(f, AskedTicks(f) - TicksLeft(f) + 1)'
    BY <1>2, <1>4 DEF Account
  <2>1. Credited(f, AskedTicks(f) - TicksLeft(f))
    BY <1>1, <1>2 DEF Account
  <2>2. AskedTicks(f)' = AskedTicks(f) /\ AtStart(f)' = AtStart(f) /\ TicksLeft(f)' = TicksLeft(f)
        /\ waited' = waited
    BY <1>2 DEF AskedTicks, AtStart, TicksLeft, history
  <2>3. AskedTicks(f) - TicksLeft(f) \in Int
    BY HistoryTypes DEF Ticks
  <2> DEFINE n == AskedTicks(f) - TicksLeft(f)
  <2>4. /\ n * TickRate \in Int /\ (n + 1) * TickRate = n * TickRate + TickRate
        /\ waited[f] \in Nat /\ AtStart(f) \in Nat /\ accumulated \in Nat /\ TickRate \in Nat
    BY <2>3, TickMore, HistoryTypes
  <2>5. Credited(f, n)
    BY <2>1
  <2>6. n' = n
    BY <2>2
  <2> HIDE DEF n
  <2>7. Credited(f, n + 1)'
    BY <1>2, <2>2, <2>4, <2>5, <2>6 DEF Credited
  <2> QED BY <2>7 DEF n
<1>8. Ordered'
  BY <1>1, <1>2, <1>3 DEF Ordered, history
<1> QED BY <1>5, <1>6, <1>7, <1>8

\* What only moves the program counter keeps the accounts.
LEMMA PhaseHInv ==
    ASSUME HInv, UNCHANGED history,
           \/ DriveDone \/ TickDone \/ CallbackReturns \/ deinit_timer
           \/ \E e \in Elems : add_running_timer(e)
           \/ UNCHANGED vars
    PROVE  HTypeOK' /\ Backlog' /\ Account' /\ Ordered'
<1>1. IInv /\ HTypeOK /\ Backlog /\ Account /\ Ordered
  BY DEF HInv
<1>2. UNCHANGED <<tick, buckets, elemTick, accumulated, pos, timeout_list, history>>
  BY DEF DriveDone, TickDone, CallbackReturns, deinit_timer, add_running_timer, vars
<1>3. /\ \A f \in Elems : InWheel(f)' <=> InWheel(f)
      /\ \A f \in Elems : OnTimeoutList(f)' <=> OnTimeoutList(f)
      /\ \A f \in Elems : is_timer_running(f)' <=> is_timer_running(f)
  BY <1>2 DEF InWheel, OnTimeoutList, is_timer_running
<1>4. HTypeOK'
  BY <1>2, <1>3, SameHistory
<1>5. \/ pc' = pc \/ pc' \in {"crashed", "freed"}
      \/ pc = "drive" /\ pc' = "idle" /\ accumulated < TickRate
      \/ pc = "expire" /\ pc' = "drive" /\ timeout_list = <<>>
      \/ pc = "callback" /\ pc' = "expire"
  BY DEF DriveDone, TickDone, CallbackReturns, deinit_timer, add_running_timer, vars
<1>6. Backlog'
  <2>1. accumulated \in Nat /\ TickRate \in Nat \ {0} /\ waited' = waited
    BY <1>2, HistoryTypes DEF history
  <2> QED BY <1>1, <1>2, <1>5, <2>1 DEF Backlog
<1>7. Account'
  <2>1. \A f \in Elems : /\ AskedTicks(f)' = AskedTicks(f) /\ AtStart(f)' = AtStart(f)
                         /\ TicksLeft(f)' = TicksLeft(f)
    BY <1>2 DEF AskedTicks, AtStart, TicksLeft, history
  <2>2. \A f \in Elems :
          /\ Credited(f, AskedTicks(f) - TicksLeft(f))' <=> Credited(f, AskedTicks(f) - TicksLeft(f))
          /\ Credited(f, AskedTicks(f) - TicksLeft(f) + 1)' <=>
               Credited(f, AskedTicks(f) - TicksLeft(f) + 1)
          /\ Credited(f, AskedTicks(f) + 1)' <=> Credited(f, AskedTicks(f) + 1)
    BY <1>2, <2>1 DEF Credited, history
  <2> QED BY <1>1, <1>3, <1>5, <2>2 DEF Account
<1>8. Ordered'
  <2>1. pc' = "scan" => pc = "scan"
    BY <1>5
  <2>2. Current' = Current
    BY <1>2 DEF Current
  <2> QED BY <1>1, <1>2, <2>1, <2>2 DEF Ordered, history
<1> QED BY <1>4, <1>6, <1>7, <1>8

\* The bucket loop keeps the accounts, a timer it moves being due, and the
\* order: those it moves are ahead of those it has still to come to.
LEMMA ScanHInv ==
    ASSUME HInv, ScanElem, UNCHANGED history
    PROVE  HTypeOK' /\ Backlog' /\ Account' /\ Ordered'
<1> DEFINE p == buckets[Current][pos]
           s == buckets[Current]
<1>1. IInv /\ HTypeOK /\ Backlog /\ Account /\ Ordered
  BY DEF HInv
<1>2. /\ pc = "scan" /\ pos <= Len(s)
      /\ UNCHANGED <<pc, tick, elemTick, accumulated, history>>
  BY DEF ScanElem
<1>3. \A f \in Elems : (InWheel(f) \/ OnTimeoutList(f))' <=> (InWheel(f) \/ OnTimeoutList(f))
  BY <1>1, ScanMoves
<1>4. HTypeOK'
  BY <1>2, <1>3, Runs, SameHistory
<1>5. Backlog'
  BY <1>1, <1>2 DEF Backlog, history
<1>6. Account'
  <2>1. \A f \in Elems : /\ AskedTicks(f)' = AskedTicks(f) /\ AtStart(f)' = AtStart(f)
                         /\ TicksLeft(f)' = TicksLeft(f)
    BY <1>2 DEF AskedTicks, AtStart, TicksLeft, history
  <2>2. \A f \in Elems :
          Credited(f, AskedTicks(f) - TicksLeft(f) + 1)' <=>
            Credited(f, AskedTicks(f) - TicksLeft(f) + 1)
    BY <1>2, <2>1 DEF Credited, history
  <2> QED BY <1>1, <1>2, <1>3, <2>2 DEF Account
<1>7. Current \in Buckets /\ s \in Seq(Elems) /\ Current' = Current /\ started' = started
  BY <1>1, <1>2, BucketOfTick DEF IInv, TypeOK, Current, history
<1>8. Len(s) \in Nat /\ pos \in 1 .. Len(s)
  <2>1. Len(s) \in Nat
    BY <1>7, LenProperties
  <2> QED BY <1>1, <1>2, <2>1 DEF IInv, TypeOK
<1>9. /\ \A b \in Buckets : \A x, y : Prec(buckets[b], x, y) => Prec(started, x, y)
      /\ \A x, y : Prec(timeout_list, x, y) => Prec(started, x, y)
      /\ \A x \in Range(timeout_list) : \A i \in 1 .. Len(s) : i >= pos => Prec(started, x, s[i])
  BY <1>1, <1>2 DEF Ordered
<1>10. p \in Elems /\ buckets \in [Buckets -> Seq(Elems)] /\ timeout_list \in Seq(Elems)
  BY <1>1, <1>7, <1>8, ElementOfSeq DEF IInv, TypeOK
<1>11. CASE elemTick[p] = tick
  <2> DEFINE u == RemoveAt(s, pos)
  <2>1. /\ buckets' = [buckets EXCEPT ![Current] = u]
        /\ timeout_list' = Append(timeout_list, p) /\ pos' = pos
    BY <1>11 DEF ScanElem
  <2>2. /\ u \in Seq(Elems) /\ Len(u) = Len(s) - 1
        /\ \A i \in 1 .. Len(s) - 1 : u[i] = IF i < pos THEN s[i] ELSE s[i + 1]
    BY <1>7, <1>8, RemoveAtSeq
  <2>3. \A x, y : Prec(u, x, y) => Prec(s, x, y)
    BY <1>7, <1>8, RemoveAtOrder
  <2>4. \A x, y : Prec(Append(timeout_list, p), x, y) <=>
                    Prec(timeout_list, x, y) \/ (x \in Range(timeout_list) /\ y = p)
    BY <1>10, AppendOrder
  <2>5. Range(timeout_list') = Range(timeout_list) \cup {p}
    BY <1>10, <2>1, AppendLemma
  <2>6. s[pos] = p /\ pos >= pos
    BY <1>8
  <2>7. DOMAIN s = 1 .. Len(s)
    BY <1>7, LenProperties
  <2> HIDE DEF u, p
  <2>8. ASSUME NEW x, NEW y, Prec(timeout_list', x, y) PROVE Prec(started', x, y)
    BY <1>7, <1>8, <1>9, <2>1, <2>4, <2>6, <2>8
  <2>9. ASSUME NEW b \in Buckets, NEW x, NEW y, Prec(buckets'[b], x, y)
        PROVE  Prec(started', x, y)
    <3>1. buckets'[b] = IF b = Current THEN u ELSE buckets[b]
      BY <1>10, <2>1
    <3>2. Prec(buckets[b], x, y)
      BY <2>3, <2>9, <3>1
    <3> QED BY <1>7, <1>9, <3>2
  <2>10. ASSUME NEW x \in Range(timeout_list'), NEW i \in 1 .. Len(u), i >= pos
         PROVE  Prec(started', x, u[i])
    <3>1. i \in 1 .. Len(s) - 1 /\ i + 1 \in 1 .. Len(s) /\ i + 1 >= pos /\ pos < i + 1 /\ ~(i < pos)
      BY <1>8, <2>2, <2>10
    <3>2. u[i] = s[i + 1]
      BY <2>2, <3>1
    <3>3. CASE x \in Range(timeout_list)
      BY <1>7, <1>9, <3>1, <3>2, <3>3
    <3>4. CASE x = p
      <4>1. Prec(s, p, s[i + 1])
        BY <1>8, <2>6, <2>7, <3>1 DEF Prec
      <4> QED BY <1>7, <1>9, <3>2, <3>4, <4>1
    <3> QED BY <2>5, <2>10, <3>3, <3>4
  <2>11. buckets'[Current'] = u
    BY <1>7, <1>10, <2>1
  <2> QED BY <1>4, <1>5, <1>6, <2>1, <2>8, <2>9, <2>10, <2>11 DEF Ordered
<1>12. CASE elemTick[p] # tick
  <2>1. pos' = pos + 1 /\ UNCHANGED <<buckets, timeout_list>>
    BY <1>12 DEF ScanElem
  <2>2. \A i \in 1 .. Len(s) : i >= pos + 1 => i >= pos
    BY <1>8
  <2>3. Ordered'
    BY <1>7, <1>9, <2>1, <2>2 DEF Ordered
  <2> QED BY <1>4, <1>5, <1>6, <2>3
<1> QED BY <1>11, <1>12

\* timer->tick++: a timer on the wheel has one tick less to wait for, and the
\* expired ones were due in the tick that is over.
LEMMA ScanDoneHInv ==
    ASSUME HInv, ScanDone, UNCHANGED history
    PROVE  HTypeOK' /\ Backlog' /\ Account' /\ Ordered'
<1>1. IInv /\ HTypeOK /\ Backlog /\ Account /\ Ordered
  BY DEF HInv
<1>2. /\ pc = "scan" /\ pc' = "expire" /\ tick' = (tick + 1) % TickMod
      /\ UNCHANGED <<buckets, elemTick, accumulated, timeout_list, history>>
  BY DEF ScanDone
<1>3. /\ \A f \in Elems : InWheel(f)' <=> InWheel(f)
      /\ \A f \in Elems : OnTimeoutList(f)' <=> OnTimeoutList(f)
  BY <1>2 DEF InWheel, OnTimeoutList
<1>4. HTypeOK'
  BY <1>2, <1>3, Runs, SameHistory
<1>5. Backlog'
  BY <1>1, <1>2 DEF Backlog, history
<1>6. \A f \in Elems : elemTick[f] \in Ticks /\ tick \in Ticks
  BY <1>1 DEF IInv, TypeOK
<1>7. \A f \in Elems : AskedTicks(f)' = AskedTicks(f) /\ AtStart(f)' = AtStart(f)
  BY <1>2 DEF AskedTicks, AtStart, history
<1>8. ASSUME NEW f \in Elems, InWheel(f)
      PROVE  Credited(f, AskedTicks(f) - TicksLeft(f))'
  <2>1. Credited(f, AskedTicks(f) - TicksLeft(f) + 1)
    BY <1>1, <1>2, <1>8 DEF Account
  <2>2. TicksLeft(f)' = TicksLeft(f) - 1
    <3>1. elemTick[f] # tick
      BY <1>1, <1>8, NoneDueLeft
    <3> QED BY <1>2, <1>6, <3>1, TicksLeftStep DEF TicksLeft
  <2>3. AskedTicks(f) \in Int /\ TicksLeft(f) \in Int
    BY HistoryTypes DEF Ticks
  <2>4. AskedTicks(f)' - TicksLeft(f)' = AskedTicks(f) - TicksLeft(f) + 1
    BY <1>7, <2>2, <2>3
  <2> QED BY <1>2, <1>7, <2>1, <2>4 DEF Credited, history
<1>9. ASSUME NEW f \in Elems, OnTimeoutList(f)
      PROVE  Credited(f, AskedTicks(f) + 1)'
  <2>1. Credited(f, AskedTicks(f) - TicksLeft(f) + 1)
    BY <1>1, <1>2, <1>9 DEF Account
  <2>2. TicksLeft(f) = 0
    <3>1. elemTick[f] = tick
      BY <1>1, <1>2, <1>9 DEF IInv, Scanned, OnTimeoutList
    <3> QED BY <1>6, <3>1, TicksLeftStep DEF TicksLeft
  <2>3. AskedTicks(f) \in Int
    BY HistoryTypes DEF Ticks
  <2>4. AskedTicks(f)' + 1 = AskedTicks(f) - TicksLeft(f) + 1
    BY <1>7, <2>2, <2>3
  <2> QED BY <1>2, <1>7, <2>1, <2>4 DEF Credited, history
<1>10. Account'
  BY <1>2, <1>3, <1>8, <1>9 DEF Account
<1>11. Ordered'
  BY <1>1, <1>2 DEF Ordered, history
<1> QED BY <1>4, <1>5, <1>10, <1>11

-----------------------------------------------------------------------------
(* The theorems.                                                           *)

\* The history only watches: a step with it is a step of the engine.
LEMMA HistoryWatches == [HNext]_hvars => [Next]_vars
BY DEF HNext, HClient, HDrive, HEngine, HReturn, Next, Client, Engine, hvars

\* init_timer, when nothing was started yet.
LEMMA InitHInv == HInit => HInv
<1> SUFFICES ASSUME HInit PROVE HInv
  OBVIOUS
<1>1. Init /\ IInv
  BY InitIInv DEF HInit
<1>2. Range(<<>>) = {} /\ IsInjective(<<>>) /\ <<>> \in Seq(Elems) /\ \A x, y : ~Prec(<<>>, x, y)
  BY DEF Range, IsInjective, Prec
<1>3. \A f \in Elems : ~InWheel(f) /\ ~OnTimeoutList(f)
  BY <1>1, <1>2 DEF Init, InWheel, OnTimeoutList
<1>4. HTypeOK
  BY <1>2, <1>3, Runs DEF HInit, HTypeOK
<1>5. Backlog
  BY <1>1 DEF HInit, Init, Backlog
<1>6. Account
  BY <1>1, <1>3 DEF Init, Account
<1>7. Ordered
  BY <1>1, <1>2 DEF Init, Ordered
<1> QED BY <1>1, <1>4, <1>5, <1>6, <1>7 DEF HInv

\* Every step of the engine and of its client keeps the accounts and the order.
LEMMA NextHInv == HInv /\ [HNext]_hvars => HInv'
<1> SUFFICES ASSUME HInv, [HNext]_hvars
             PROVE  HTypeOK' /\ Backlog' /\ Account' /\ Ordered'
  <2>1. HInv /\ [HNext]_hvars => IInv'
    BY HistoryWatches, NextIInv DEF HInv
  <2> QED BY <2>1 DEF HInv
<1>1. ASSUME NEW e \in Elems, NEW ms \in Timeouts, add_timer(e, ms),
             asked' = [asked EXCEPT ![e] = ms], nested' = [nested EXCEPT ![e] = (pc = "callback")],
             started' = Append(started, e), UNCHANGED waited
      PROVE  HTypeOK' /\ Backlog' /\ Account' /\ Ordered'
  BY <1>1, AddHInv
<1>2. ASSUME NEW e \in Elems, del_timer(e), Forget(e)
      PROVE  HTypeOK' /\ Backlog' /\ Account' /\ Ordered'
  BY <1>2, DelHInv
<1>3. ASSUME NEW gap \in Gaps, HDrive(gap)
      PROVE  HTypeOK' /\ Backlog' /\ Account' /\ Ordered'
  BY <1>3, DriveHInv
<1>4. CASE Fire /\ Forget(Head(timeout_list))
  BY <1>4, FireHInv
<1>5. CASE DriveTick /\ UNCHANGED history
  BY <1>5, DriveTickHInv
<1>6. CASE ScanElem /\ UNCHANGED history
  BY <1>6, ScanHInv
<1>7. CASE ScanDone /\ UNCHANGED history
  BY <1>7, ScanDoneHInv
<1>8. CASE /\ UNCHANGED history
           /\ \/ DriveDone \/ TickDone \/ CallbackReturns \/ deinit_timer
              \/ \E e \in Elems : add_running_timer(e)
              \/ UNCHANGED vars
  BY <1>8, PhaseHInv
<1> QED BY <1>1, <1>2, <1>3, <1>4, <1>5, <1>6, <1>7, <1>8
        DEF HNext, HClient, HEngine, HReturn, hvars

\* The accounts and the order hold in every reachable state.
THEOREM HistoryInvariance == HSpec => []HInv
BY InitHInv, NextHInv, PTL DEF HSpec

\* No timer of a tick or more expires before its time was credited, but for
\* what was still to be caught up with when a callback started it.
THEOREM NeverEarly == HSpec => []NotEarly
<1>1. HInv => NotEarly
  <2> SUFFICES ASSUME HInv, pc = "expire", NEW e \in Range(timeout_list), asked[e] >= TickRate
               PROVE  waited[e] + (IF nested[e] THEN 2 * TickRate - 1 ELSE 0) >= asked[e]
    BY DEF NotEarly
  <2>1. e \in Elems /\ OnTimeoutList(e)
    BY RangeSeq DEF HInv, IInv, TypeOK, OnTimeoutList
  <2>2. Credited(e, AskedTicks(e) + 1)
    BY <2>1 DEF HInv, Account
  <2>3. /\ AskedTicks(e) \in Int /\ TickRate \in Nat \ {0} /\ accumulated \in Nat
        /\ asked[e] \in Int /\ waited[e] \in Nat /\ AtStart(e) \in Nat
    BY <2>1, HistoryTypes DEF Ticks
  <2>4. AskedTicks(e) * TickRate >= asked[e]
    <3>1. asked[e] \in Timeouts \cup {0}
      BY <2>1 DEF HInv, HTypeOK
    <3>2. asked[e] \in Timeouts
      BY <2>3, <3>1
    <3> QED BY <3>2, TicksLast DEF AskedTicks
  <2>5. /\ AskedTicks(e) * TickRate \in Int
        /\ (AskedTicks(e) + 1) * TickRate = AskedTicks(e) * TickRate + TickRate
    BY <2>3, TickMore
  <2>6. waited[e] >= AskedTicks(e) * TickRate + TickRate + accumulated - AtStart(e)
    BY <2>2, <2>5 DEF Credited
  <2>7. waited[e] + (AtStart(e) - TickRate) >= asked[e]
    BY <2>3, <2>4, <2>5, <2>6
  <2>8. AtStart(e) - TickRate = IF nested[e] THEN 2 * TickRate - 1 ELSE 0
    BY <2>3 DEF AtStart
  <2> QED BY <2>7, <2>8
<1> QED BY <1>1, HistoryInvariance, PTL

\* drive_timer leaves no timer overdue.
THEOREM NeverOverdue == HSpec => []NoOverdue
<1>1. HInv => NoOverdue
  <2> SUFFICES ASSUME HInv, pc = "idle", NEW e \in Range(started)
               PROVE  waited[e] < (AskedTicks(e) + 1) * TickRate
    BY DEF NoOverdue, AskedTicks
  <2>1. e \in Elems /\ is_timer_running(e)
    BY DEF HInv, HTypeOK
  <2>2. InWheel(e)
    <3>1. timeout_list = <<>> /\ Range(<<>>) = {}
      BY DEF HInv, IInv, PhaseOK, Range
    <3> QED BY <2>1, <3>1 DEF is_timer_running, InWheel
  <2>3. Credited(e, AskedTicks(e) - TicksLeft(e))
    BY <2>1, <2>2 DEF HInv, Account
  <2>4. /\ AskedTicks(e) \in Nat /\ TicksLeft(e) \in Nat /\ TickRate \in Nat \ {0}
        /\ accumulated \in Nat /\ waited[e] \in Nat
    BY <2>1, HistoryTypes DEF Ticks
  <2> DEFINE a == AskedTicks(e)
             l == TicksLeft(e)
  <2>5. waited[e] <= (a - l) * TickRate + accumulated
    BY <2>3 DEF Credited
  <2>6. accumulated < TickRate \/ waited[e] = 0
    BY <2>1 DEF HInv, Backlog
  <2>7. a \in Nat /\ l \in Nat
    BY <2>4
  <2> HIDE DEF a, l
  <2>8. /\ (a - l) * TickRate \in Int /\ a * TickRate \in Nat
        /\ (a - l) * TickRate <= a * TickRate
        /\ (a + 1) * TickRate = a * TickRate + TickRate
    BY <2>4, <2>7
  <2>9. waited[e] < (a + 1) * TickRate
    BY <2>4, <2>5, <2>6, <2>8
  <2> QED BY <2>9 DEF a
<1> QED BY <1>1, HistoryInvariance, PTL

\* Timers of one tick expire in the order of their starts.
THEOREM ExpiresInOrder == HSpec => []ExpiryOrder
<1>1. HInv => ExpiryOrder
  <2> SUFFICES ASSUME HInv, NEW i \in DOMAIN timeout_list, NEW j \in DOMAIN timeout_list, i < j
               PROVE  Prec(started, timeout_list[i], timeout_list[j])
    BY DEF ExpiryOrder, Prec
  <2>1. Prec(timeout_list, timeout_list[i], timeout_list[j])
    BY DEF Prec
  <2> QED BY <2>1 DEF HInv, Ordered
<1> QED BY <1>1, HistoryInvariance, PTL

=============================================================================
