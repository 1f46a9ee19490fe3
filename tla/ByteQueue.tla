------------------------------ MODULE ByteQueue ------------------------------
(***************************************************************************)
(* What the circular buffer of mylibrary/circ_buffer.h promises: a bounded *)
(* queue of bytes whose operations take the whole size asked for, or fail  *)
(* and leave the queue alone.  CircBuffer.tla is shown to implement it.    *)
(***************************************************************************)
EXTENDS Integers, Sequences

CONSTANTS
    Bytes,    \* the values of a byte
    Sizes,    \* the capacities a queue may be opened with
    MaxBytes  \* bound: the largest size an operation is asked for

VARIABLES
    queue,     \* the bytes in the queue, the oldest first
    capacity,  \* how many it can hold
    result,    \* what the last operation returned: 0 or -1
    copied     \* the bytes it copied to the user

vars == <<queue, capacity, result, copied>>

Init ==
    /\ queue = <<>>
    /\ capacity = 0
    /\ result = 0
    /\ copied = <<>>

\* A queue is opened empty; a queue that cannot be opened holds nothing.
Open(n) ==
    /\ queue' = <<>>
    /\ \/ capacity' = n /\ result' = 0
       \/ capacity' = 0 /\ result' = -1
    /\ copied' = <<>>

Put(data) ==
    /\ IF Len(queue) + Len(data) <= capacity
       THEN queue' = queue \o data /\ result' = 0
       ELSE queue' = queue /\ result' = -1
    /\ copied' = <<>>
    /\ UNCHANGED capacity

\* The oldest bytes go to the user.
Get(n) ==
    /\ IF n <= Len(queue)
       THEN /\ copied' = SubSeq(queue, 1, n)
            /\ queue' = SubSeq(queue, n + 1, Len(queue))
            /\ result' = 0
       ELSE copied' = <<>> /\ queue' = queue /\ result' = -1
    /\ UNCHANGED capacity

\* The oldest bytes are dropped.
Skip(n) ==
    /\ IF n <= Len(queue)
       THEN queue' = SubSeq(queue, n + 1, Len(queue)) /\ result' = 0
       ELSE queue' = queue /\ result' = -1
    /\ copied' = <<>>
    /\ UNCHANGED capacity

\* The oldest bytes go to the user, and stay.
Peek(n) ==
    /\ IF n <= Len(queue)
       THEN copied' = SubSeq(queue, 1, n) /\ result' = 0
       ELSE copied' = <<>> /\ result' = -1
    /\ UNCHANGED <<queue, capacity>>

Reset ==
    /\ queue' = <<>>
    /\ copied' = <<>>
    /\ UNCHANGED <<capacity, result>>

Next ==
    \/ \E n \in Sizes : Open(n)
    \/ \E n \in 0 .. MaxBytes :
         \/ \E data \in [1 .. n -> Bytes] : Put(data)
         \/ Get(n)
         \/ Skip(n)
         \/ Peek(n)
    \/ Reset

Spec == Init /\ [][Next]_vars

=============================================================================
