------------------------------ MODULE CircBuffer ------------------------------
(***************************************************************************)
(* The circular buffer of mylibrary/circ_buffer.c and circ_buffer.h.       *)
(*                                                                         *)
(* Every function runs to completion, so each is one action.  phase says   *)
(* whether the structure may be used: "open" between init_circ_buffer,     *)
(* successful or not, and deinit_circ_buffer, "closed" otherwise, and      *)
(* "crashed" after a division by zero.                                     *)
(*                                                                         *)
(* Sizes are not negative and too small for cb->data_size + size and       *)
(* cb->end + size to overflow an int, which the caller has to see to.      *)
(***************************************************************************)
EXTENDS Integers, Sequences

CONSTANTS
    Bytes,     \* the values of a byte
    Junk,      \* what malloc leaves in the buffer
    Sizes,     \* the sizes init_circ_buffer is called with
    MaxBytes   \* bound: the largest size the other functions are called with

\* Junk is a byte that was never written, told apart from every byte that was.
ASSUME BytesAssumption == Junk \notin Bytes
ASSUME SizesAssumption == Sizes \subseteq Nat /\ MaxBytes \in Nat

VARIABLES
    phase,      \* see above
    buffer,     \* cb->buffer, an array of cb->size bytes
    size,       \* cb->size
    begin,      \* cb->begin
    end,        \* cb->end
    data_size,  \* cb->data_size
    result,     \* what the last function returned
    copied      \* what it copied to the user's buffer

vars == <<phase, buffer, size, begin, end, data_size, result, copied>>

Array(n) == [0 .. n - 1 -> Bytes \cup {Junk}]

Init ==
    /\ phase = "closed"
    /\ buffer = [k \in 0 .. -1 |-> Junk]
    /\ size = 0
    /\ begin = 0
    /\ end = 0
    /\ data_size = 0
    /\ result = 0
    /\ copied = <<>>

\* memcpy(&dst[at], src, Len(src)).
CopyTo(dst, at, src) ==
    [k \in DOMAIN dst |-> IF k - at \in 0 .. Len(src) - 1 THEN src[k - at + 1] ELSE dst[k]]

\* memcpy(..., &src[at], n).
CopyFrom(src, at, n) == [i \in 1 .. n |-> src[at + i - 1]]

init_circ_buffer(n) ==
    /\ phase = "closed"
    /\ phase' = "open"
    /\ begin' = 0
    /\ end' = 0
    /\ data_size' = 0
    /\ \/ /\ buffer' = [k \in 0 .. n - 1 |-> Junk]
          /\ size' = n
          /\ result' = 0
       \/ /\ buffer' = [k \in 0 .. -1 |-> Junk]   \* malloc failed
          /\ size' = 0
          /\ result' = -1
    /\ copied' = <<>>

\* Only the buffer goes: the sizes and indices stay as they are.
deinit_circ_buffer ==
    /\ phase = "open"
    /\ phase' = "closed"
    /\ UNCHANGED <<buffer, size, begin, end, data_size, result, copied>>

\* The early return of the functions that find too little room or data.
Refuse ==
    /\ result' = -1
    /\ copied' = <<>>
    /\ UNCHANGED <<phase, buffer, size, begin, end, data_size>>

\* % cb->size of a buffer of no bytes.
DivideByZero ==
    /\ size = 0
    /\ phase' = "crashed"
    /\ UNCHANGED <<buffer, size, begin, end, data_size, result, copied>>

\* The array after put_circ_buffer, in two pieces when the end of it is in the way.
Stored(data) ==
    LET begin_len == size - end IN
    IF end + Len(data) > size
    THEN CopyTo(CopyTo(buffer, end, SubSeq(data, 1, begin_len)),
                0, SubSeq(data, begin_len + 1, Len(data)))
    ELSE CopyTo(buffer, end, data)

\* Mutant: the second piece is not taken from the start of the array.
FetchedApart(n) ==
    LET begin_len == size - begin IN
    IF begin + n <= size
    THEN CopyFrom(buffer, begin, n)
    ELSE CopyFrom(buffer, begin, begin_len) \o CopyFrom(buffer, begin_len, n - begin_len)

\* The bytes get and peek copy, in two pieces likewise.
Fetched(n) ==
    LET begin_len == size - begin IN
    IF begin + n <= size
    THEN CopyFrom(buffer, begin, n)
    ELSE CopyFrom(buffer, begin, begin_len) \o CopyFrom(buffer, 0, n - begin_len)

put_circ_buffer(data) ==
    /\ phase = "open"
    /\ \/ data_size + Len(data) > size /\ Refuse
       \/ data_size + Len(data) <= size /\ DivideByZero
       \/ /\ data_size + Len(data) <= size
          /\ size # 0
          /\ buffer' = Stored(data)
          /\ end' = (end + Len(data)) % size
          /\ data_size' = data_size + Len(data)
          /\ result' = 0
          /\ copied' = <<>>
          /\ UNCHANGED <<phase, size, begin>>

\* What get_circ_buffer and get_circ_buffer_no_copy do with the indices.
Consume(n) ==
    /\ begin' = (begin + n) % size
    /\ data_size' = data_size - n
    /\ result' = 0
    /\ UNCHANGED <<phase, buffer, size, end>>

get_circ_buffer(n) ==
    /\ phase = "open"
    /\ \/ data_size - n < 0 /\ Refuse
       \/ data_size - n >= 0 /\ DivideByZero
       \/ data_size - n >= 0 /\ size # 0 /\ copied' = Fetched(n) /\ Consume(n)

get_circ_buffer_no_copy(n) ==
    /\ phase = "open"
    /\ \/ data_size - n < 0 /\ Refuse
       \/ data_size - n >= 0 /\ DivideByZero
       \/ data_size - n >= 0 /\ size # 0 /\ copied' = <<>> /\ Consume(n)

peek_circ_buffer(n) ==
    /\ phase = "open"
    /\ \/ data_size - n < 0 /\ Refuse
       \/ /\ data_size - n >= 0
          /\ copied' = Fetched(n)
          /\ result' = 0
          /\ UNCHANGED <<phase, buffer, size, begin, end, data_size>>

\* Mutant: end stays.
reset_begin ==
    /\ phase = "open"
    /\ begin' = 0
    /\ data_size' = 0
    /\ copied' = <<>>
    /\ UNCHANGED <<phase, buffer, size, end, result>>

reset_circ_buffer ==
    /\ phase = "open"
    /\ begin' = 0
    /\ end' = 0
    /\ data_size' = 0
    /\ copied' = <<>>
    /\ UNCHANGED <<phase, buffer, size, result>>

Next ==
    \/ \E n \in Sizes : init_circ_buffer(n)
    \/ deinit_circ_buffer
    \/ \E n \in 0 .. MaxBytes :
         \/ \E data \in [1 .. n -> Bytes] : put_circ_buffer(data)
         \/ get_circ_buffer(n)
         \/ get_circ_buffer_no_copy(n)
         \/ peek_circ_buffer(n)
    \/ reset_circ_buffer

Spec == Init /\ [][Next]_vars

is_circ_buffer_full == data_size = size
is_circ_buffer_empty == data_size = 0

-----------------------------------------------------------------------------
(* Properties.                                                             *)

\* Type correctness of the buffer's state.
TypeOK ==
    /\ phase \in {"closed", "open", "crashed"}
    /\ size \in Nat
    /\ buffer \in Array(size)
    /\ begin \in Nat
    /\ end \in Nat
    /\ data_size \in Nat
    /\ result \in {0, -1}
    /\ copied \in Seq(Bytes)

\* The three numbers agree and stay in bounds: end is where data_size bytes from
\* begin end, so begin and end meet in a full or an empty buffer and no other.
IndicesAgree ==
    /\ data_size <= size
    /\ size = 0 => begin = 0 /\ end = 0
    /\ size > 0 => begin < size /\ end = (begin + data_size) % size
    /\ begin = end <=> is_circ_buffer_full \/ is_circ_buffer_empty

\* What is between begin and end was put there: no byte of fresh memory is ever
\* handed to the user, even after the buffer has wrapped.
NoJunk ==
    \A i \in 0 .. data_size - 1 : buffer[(begin + i) % size] # Junk

\* The buffer implements the bounded queue of bytes: the bytes come out in the
\* order they went in, whole or not at all.
Contents == [i \in 1 .. data_size |-> buffer[(begin + i - 1) % size]]

Queue == INSTANCE ByteQueue WITH queue <- Contents, capacity <- size

ImplementsQueue == Queue!Spec

=============================================================================
