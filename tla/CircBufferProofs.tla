--------------------------- MODULE CircBufferProofs ---------------------------
(***************************************************************************)
(* Proofs about CircBuffer, for any set of bytes and any sizes.            *)
(*                                                                         *)
(* IInv is inductive: the indices agree with the count of bytes, so that   *)
(* the two-piece copies of put, get and peek meet exactly the bytes of the *)
(* queue (StoredLemma and FetchedLemma), and therefore never Junk.  From   *)
(* these two lemmas follows the step simulation of ByteQueue.              *)
(***************************************************************************)
EXTENDS CircBuffer, ListLemmas

IInv == TypeOK /\ IndicesAgree /\ NoJunk

(* Arithmetic and copies.                                                  *)

\* The remainder of a number of less than two turns.
LEMMA ModTurn ==
    ASSUME NEW m \in Nat \ {0}
    PROVE  \A a \in Nat : a < 2 * m =>
               /\ a % m = IF a < m THEN a ELSE a - m
               /\ a % m \in 0 .. m - 1
OBVIOUS

\* A function on 1 .. n is a sequence.
LEMMA FunIsSeq ==
    ASSUME NEW S, NEW n \in Nat, NEW s \in [1 .. n -> S]
    PROVE  s \in Seq(S) /\ Len(s) = n
OBVIOUS

\* memcpy into an array: the bytes at its target are those of src, the others stay.
LEMMA CopyToLemma ==
    ASSUME NEW m \in Nat, NEW dst \in Array(m), NEW at \in Nat, NEW src \in Seq(Bytes)
    PROVE  /\ CopyTo(dst, at, src) \in Array(m)
           /\ \A k \in 0 .. m - 1 :
                CopyTo(dst, at, src)[k] =
                    IF at <= k /\ k < at + Len(src) THEN src[k - at + 1] ELSE dst[k]
<1>1. Len(src) \in Nat
  BY LenProperties
<1>2. DOMAIN dst = 0 .. m - 1
  BY DEF Array
<1>3. ASSUME NEW k \in 0 .. m - 1
      PROVE  /\ CopyTo(dst, at, src)[k] =
                  IF at <= k /\ k < at + Len(src) THEN src[k - at + 1] ELSE dst[k]
             /\ CopyTo(dst, at, src)[k] \in Bytes \cup {Junk}
  <2>1. CopyTo(dst, at, src)[k] = IF k - at \in 0 .. Len(src) - 1 THEN src[k - at + 1] ELSE dst[k]
    BY <1>2 DEF CopyTo
  <2>2. k - at \in 0 .. Len(src) - 1 <=> at <= k /\ k < at + Len(src)
    BY <1>1
  <2>3. at <= k /\ k < at + Len(src) => k - at + 1 \in 1 .. Len(src)
    BY <1>1
  <2>4. \A i \in 1 .. Len(src) : src[i] \in Bytes
    BY ElementOfSeq
  <2>5. dst[k] \in Bytes \cup {Junk}
    BY DEF Array
  <2> QED BY <2>1, <2>2, <2>3, <2>4, <2>5
<1>4. CopyTo(dst, at, src) = [k \in 0 .. m - 1 |-> CopyTo(dst, at, src)[k]]
  BY <1>2 DEF CopyTo
<1> QED BY <1>3, <1>4 DEF Array

\* What put_circ_buffer stores: the new bytes lie behind the old ones, counted
\* from begin around the end of the array, and no old byte is overwritten.
LEMMA StoredLemma ==
    ASSUME IInv, size > 0, NEW data \in Seq(Bytes), data_size + Len(data) <= size
    PROVE  /\ Stored(data) \in Array(size)
           /\ \A i \in 0 .. data_size + Len(data) - 1 :
                Stored(data)[(begin + i) % size] =
                    IF i < data_size THEN buffer[(begin + i) % size] ELSE data[i - data_size + 1]
<1> DEFINE L == Len(data)
           first == size - end
           D(k) == IF k >= end THEN k - end ELSE k - end + size
<1>1. /\ L \in Nat /\ size \in Nat \ {0} /\ begin \in Nat /\ begin < size
      /\ data_size \in Nat /\ data_size + L <= size
      /\ end = (begin + data_size) % size
      /\ buffer \in Array(size)
      /\ \A i \in 1 .. L : data[i] \in Bytes
  BY LenProperties, ElementOfSeq DEF IInv, TypeOK, IndicesAgree
<1>2. /\ end = IF begin + data_size < size THEN begin + data_size ELSE begin + data_size - size
      /\ end \in 0 .. size - 1
      /\ first = size - end /\ first \in 1 .. size
  <2>1. begin + data_size \in Nat /\ begin + data_size < 2 * size
    BY <1>1
  <2>2. \A a \in Nat : a < 2 * size =>
            a % size = IF a < size THEN a ELSE a - size
    BY <1>1, ModTurn
  <2>3. end = IF begin + data_size < size THEN begin + data_size ELSE begin + data_size - size
    BY <1>1, <2>1, <2>2
  <2> QED BY <1>1, <2>1, <2>3
<1> HIDE DEF L, first
<1>bounds. /\ L \in Nat /\ size \in Nat /\ end \in Nat /\ end < size
           /\ first \in Nat /\ first = size - end
  BY <1>1, <1>2
<1>3. /\ Stored(data) \in Array(size)
      /\ \A k \in 0 .. size - 1 : Stored(data)[k] = IF D(k) < L THEN data[D(k) + 1] ELSE buffer[k]
  <2>1. CASE end + L > size
    <3> DEFINE a == SubSeq(data, 1, first)
               b == SubSeq(data, first + 1, L)
    <3>1. /\ a \in Seq(Bytes)
          /\ Len(a) = first
          /\ \A i \in 1 .. first : a[i] = data[i]
      <4>1. first \in 0 .. L
        BY <1>1, <1>2, <2>1
      <4> QED BY <4>1, SubSeqPrefix DEF L
    <3>2. /\ b \in Seq(Bytes)
          /\ Len(b) = L - first
          /\ \A i \in 1 .. L - first : b[i] = data[first + i]
      <4>1. first \in 0 .. L
        BY <1>1, <1>2, <2>1
      <4> QED BY <4>1, SubSeqSuffix DEF L
    <3>3. Stored(data) = CopyTo(CopyTo(buffer, end, a), 0, b)
      BY <2>1 DEF Stored, L, first
    <3> DEFINE c == CopyTo(buffer, end, a)
    <3> HIDE DEF a, b
    <3>4. /\ c \in Array(size)
          /\ \A k \in 0 .. size - 1 :
               c[k] = IF end <= k /\ k < end + Len(a) THEN a[k - end + 1] ELSE buffer[k]
      <4>1. size \in Nat /\ end \in Nat /\ buffer \in Array(size) /\ a \in Seq(Bytes)
        BY <1>1, <1>2, <3>1
      <4> QED BY <4>1, CopyToLemma
    <3> HIDE DEF c
    <3>5. /\ CopyTo(c, 0, b) \in Array(size)
          /\ \A k \in 0 .. size - 1 :
               CopyTo(c, 0, b)[k] = IF k < Len(b) THEN b[k + 1] ELSE c[k]
      <4>1. size \in Nat /\ 0 \in Nat /\ c \in Array(size) /\ b \in Seq(Bytes)
        BY <1>1, <3>2, <3>4
      <4>2. /\ CopyTo(c, 0, b) \in Array(size)
            /\ \A k \in 0 .. size - 1 :
                 CopyTo(c, 0, b)[k] = IF 0 <= k /\ k < 0 + Len(b) THEN b[k - 0 + 1] ELSE c[k]
        BY <4>1, CopyToLemma
      <4>3. Len(b) \in Int /\ \A k \in 0 .. size - 1 : 0 <= k /\ k - 0 + 1 = k + 1
        BY <1>1, <1>2, <3>2
      <4> QED BY <4>2, <4>3
    <3>6. ASSUME NEW k \in 0 .. size - 1
          PROVE  CopyTo(c, 0, b)[k] = IF D(k) < L THEN data[D(k) + 1] ELSE buffer[k]
      <4>1. CASE k >= end
        <5>1. ~(k < Len(b)) /\ k - end + 1 \in 1 .. first /\ k < end + Len(a)
          <6>1. Len(b) = L - (size - end) /\ Len(a) = size - end
            BY <1>bounds, <3>1, <3>2
          <6>2. L <= size
            BY <1>1
          <6> QED BY <1>bounds, <4>1, <6>1, <6>2
        <5>2. CopyTo(c, 0, b)[k] = data[k - end + 1]
          BY <1>2, <3>1, <3>4, <3>5, <4>1, <5>1
        <5>3. D(k) = k - end /\ D(k) < L
          BY <1>bounds, <2>1, <4>1
        <5> QED BY <5>2, <5>3
      <4>2. CASE k < end
        <5>1. D(k) = k - end + size /\ D(k) = first + k /\ (D(k) < L <=> k < Len(b))
          <6>1. Len(b) = L - first
            BY <3>2
          <6> QED BY <1>bounds, <4>2, <6>1
        <5>2. c[k] = buffer[k]
          BY <1>2, <3>4, <4>2
        <5>3. k < Len(b) => k + 1 \in 1 .. L - first /\ first + (k + 1) = D(k) + 1
          <6>1. Len(b) = L - first
            BY <3>2
          <6> QED BY <1>bounds, <5>1, <6>1
        <5> QED BY <3>2, <3>5, <5>1, <5>2, <5>3
      <4> QED BY <1>2, <4>1, <4>2
    <3> QED BY <3>3, <3>5, <3>6 DEF c
  <2>2. CASE end + L <= size
    <3>1. Stored(data) = CopyTo(buffer, end, data)
      BY <1>1, <1>2, <2>2 DEF Stored, L
    <3>2. /\ Stored(data) \in Array(size)
          /\ \A k \in 0 .. size - 1 :
               Stored(data)[k] = IF end <= k /\ k < end + L THEN data[k - end + 1] ELSE buffer[k]
      <4>1. size \in Nat /\ end \in Nat /\ buffer \in Array(size)
        BY <1>1, <1>2
      <4> QED BY <3>1, <4>1, CopyToLemma DEF L
    <3>3. ASSUME NEW k \in 0 .. size - 1
          PROVE  Stored(data)[k] = IF D(k) < L THEN data[D(k) + 1] ELSE buffer[k]
      <4>1. D(k) < L <=> end <= k /\ k < end + L
        BY <1>bounds, <2>2
      <4>2. end <= k => D(k) + 1 = k - end + 1
        BY <1>bounds
      <4> QED BY <3>2, <4>1, <4>2
    <3> QED BY <3>2, <3>3
  <2> QED BY <1>1, <1>2, <2>1, <2>2
<1>4. ASSUME NEW i \in 0 .. data_size + L - 1
      PROVE  Stored(data)[(begin + i) % size] =
                 IF i < data_size THEN buffer[(begin + i) % size] ELSE data[i - data_size + 1]
  <2> DEFINE k == (begin + i) % size
  <2>1. k = (IF begin + i < size THEN begin + i ELSE begin + i - size) /\ k \in 0 .. size - 1
    <3>1. begin + i \in Nat /\ begin + i < 2 * size
      BY <1>1
    <3>2. \A a \in Nat : a < 2 * size =>
              a % size = IF a < size THEN a ELSE a - size
      BY <1>1, ModTurn
    <3>3. k = IF begin + i < size THEN begin + i ELSE begin + i - size
      BY <1>1, <3>1, <3>2
    <3> HIDE DEF k
    <3> QED BY <1>1, <3>1, <3>3
  <2> HIDE DEF k
  <2>2. CASE i < data_size
    <3>1. ~(D(k) < L)
      BY <1>1, <1>2, <2>1, <2>2
    <3> QED BY <1>3, <2>1, <2>2, <3>1 DEF k
  <2>3. CASE ~(i < data_size)
    <3>1. D(k) = i - data_size /\ D(k) < L
      BY <1>1, <1>2, <2>1, <2>3
    <3> QED BY <1>3, <2>1, <2>3, <3>1 DEF k
  <2> QED BY <2>2, <2>3
<1> QED BY <1>3, <1>4 DEF L

\* memcpy out of an array: the bytes from at on.
LEMMA CopyFromLemma ==
    ASSUME NEW src, NEW at \in Nat, NEW n \in Nat,
           \A i \in 1 .. n : src[at + i - 1] \in Bytes
    PROVE  /\ CopyFrom(src, at, n) \in Seq(Bytes)
           /\ Len(CopyFrom(src, at, n)) = n
           /\ \A i \in 1 .. n : CopyFrom(src, at, n)[i] = src[at + i - 1]
<1>1. CopyFrom(src, at, n) \in [1 .. n -> Bytes]
  BY DEF CopyFrom
<1> QED BY <1>1, FunIsSeq DEF CopyFrom

\* The bytes of the queue are bytes the user put there.
LEMMA QueuedBytes ==
    ASSUME IInv, NEW i \in Nat, i < data_size
    PROVE  /\ size \in Nat \ {0}
           /\ (begin + i) % size = IF begin + i < size THEN begin + i ELSE begin + i - size
           /\ buffer[(begin + i) % size] \in Bytes
<1>1. /\ size \in Nat \ {0} /\ begin \in Nat /\ begin < size
      /\ data_size \in Nat /\ data_size <= size
      /\ i \in 0 .. data_size - 1
  BY DEF IInv, TypeOK, IndicesAgree
<1>2. begin + i \in Nat /\ begin + i < 2 * size
  BY <1>1
<1>3. \A a \in Nat : a < 2 * size =>
          a % size = (IF a < size THEN a ELSE a - size) /\ a % size \in 0 .. size - 1
  BY <1>1, ModTurn
<1>4. (begin + i) % size \in 0 .. size - 1
  BY <1>2, <1>3
<1>5. buffer[(begin + i) % size] # Junk
  BY <1>1 DEF IInv, NoJunk
<1>6. buffer[(begin + i) % size] \in Bytes \cup {Junk}
  BY <1>4 DEF IInv, TypeOK, Array
<1>7. (begin + i) % size = IF begin + i < size THEN begin + i ELSE begin + i - size
  <2>1. \A a \in Nat : a < 2 * size => a % size = IF a < size THEN a ELSE a - size
    BY <1>1, ModTurn
  <2> QED BY <1>1, <1>2, <2>1
<1> QED BY <1>1, <1>5, <1>6, <1>7

\* What get and peek copy: the oldest bytes, in order.
LEMMA FetchedLemma ==
    ASSUME IInv, NEW n \in Nat, n <= data_size
    PROVE  /\ Fetched(n) \in Seq(Bytes)
           /\ Len(Fetched(n)) = n
           /\ \A i \in 1 .. n : Fetched(n)[i] = buffer[(begin + i - 1) % size]
<1> DEFINE first == size - begin
<1>1. /\ size \in Nat /\ begin \in Nat /\ begin <= size
      /\ data_size \in Nat /\ data_size <= size
  BY DEF IInv, TypeOK, IndicesAgree
<1>2. ASSUME NEW i \in 1 .. n
      PROVE  /\ buffer[(begin + i - 1) % size] \in Bytes
             /\ (begin + i - 1) % size =
                    IF begin + i - 1 < size THEN begin + i - 1 ELSE begin + i - 1 - size
  <2>1. i - 1 \in Nat /\ i - 1 < data_size
    BY <1>1
  <2>2. begin + (i - 1) = begin + i - 1
    BY <1>1
  <2> QED BY <2>1, <2>2, QueuedBytes
<1>3. CASE begin + n <= size
  <2>1. \A i \in 1 .. n : (begin + i - 1) % size = begin + i - 1
    BY <1>1, <1>2, <1>3
  <2>2. \A i \in 1 .. n : buffer[begin + i - 1] \in Bytes
    BY <1>2, <2>1
  <2>3. Fetched(n) = CopyFrom(buffer, begin, n)
    BY <1>3 DEF Fetched
  <2>4. /\ Fetched(n) \in Seq(Bytes) /\ Len(Fetched(n)) = n
        /\ \A i \in 1 .. n : Fetched(n)[i] = buffer[begin + i - 1]
    <3>1. begin \in Nat
      BY <1>1
    <3>2. /\ CopyFrom(buffer, begin, n) \in Seq(Bytes) /\ Len(CopyFrom(buffer, begin, n)) = n
          /\ \A i \in 1 .. n : CopyFrom(buffer, begin, n)[i] = buffer[begin + i - 1]
      BY <2>2, <3>1, CopyFromLemma
    <3> QED BY <2>3, <3>2
  <2> QED BY <2>1, <2>4
<1>4. CASE begin + n > size
  <2>1. /\ first \in Nat /\ n - first \in Nat
        /\ \A i \in 1 .. first : i \in 1 .. n /\ (begin + i - 1) % size = begin + i - 1
        /\ \A i \in 1 .. n - first :
             /\ first + i \in 1 .. n
             /\ begin + (first + i) - 1 >= size
             /\ begin + (first + i) - 1 - size = 0 + i - 1
    BY <1>1, <1>2, <1>4
  <2>2. \A i \in 1 .. first : buffer[begin + i - 1] \in Bytes
    BY <1>2, <2>1
  <2>3. \A i \in 1 .. n - first : (begin + (first + i) - 1) % size = 0 + i - 1
    BY <1>1, <1>2, <2>1
  <2>4. \A i \in 1 .. n - first : buffer[0 + i - 1] \in Bytes
    BY <1>2, <2>1, <2>3
  <2> DEFINE a == CopyFrom(buffer, begin, first)
             b == CopyFrom(buffer, 0, n - first)
  <2>5. Fetched(n) = a \o b
    BY <1>1, <1>4 DEF Fetched
  <2>6. /\ a \in Seq(Bytes) /\ Len(a) = first
        /\ \A i \in 1 .. first : a[i] = buffer[begin + i - 1]
    <3>1. first \in Nat /\ begin \in Nat
      BY <1>1, <2>1
    <3> HIDE DEF first
    <3> QED BY <2>2, <3>1, CopyFromLemma
  <2>7. /\ b \in Seq(Bytes) /\ Len(b) = n - first
        /\ \A i \in 1 .. n - first : b[i] = buffer[0 + i - 1]
    <3>1. 0 \in Nat /\ n - first \in Nat
      BY <2>1
    <3> HIDE DEF first
    <3> QED BY <2>4, <3>1, CopyFromLemma
  <2> HIDE DEF a, b
  <2>8. /\ a \o b \in Seq(Bytes)
        /\ Len(a \o b) = Len(a) + Len(b)
        /\ \A i \in 1 .. Len(a) + Len(b) : (a \o b)[i] = IF i <= Len(a) THEN a[i] ELSE b[i - Len(a)]
    BY <2>6, <2>7, ConcatProperties
  <2>9. Len(a) + Len(b) = n
    BY <1>1, <2>6, <2>7
  <2>10. ASSUME NEW i \in 1 .. n
         PROVE  (a \o b)[i] = buffer[(begin + i - 1) % size]
    <3>1. CASE i <= first
      <4>1. i \in 1 .. first
        BY <2>1, <3>1
      <4> QED BY <2>1, <2>6, <2>8, <2>9, <3>1, <4>1
    <3>2. CASE ~(i <= first)
      <4>1. i - first \in 1 .. n - first /\ first + (i - first) = i
        BY <2>1, <3>2
      <4>2. (a \o b)[i] = buffer[0 + (i - first) - 1]
        BY <2>6, <2>7, <2>8, <2>9, <3>2, <4>1
      <4> QED BY <2>3, <4>1, <4>2
    <3> QED BY <3>1, <3>2
  <2> QED BY <2>5, <2>8, <2>9, <2>10
<1> QED BY <1>1, <1>3, <1>4

\* Going on from a position that has been wrapped.
LEMMA ModShift ==
    ASSUME NEW m \in Nat \ {0}, NEW a \in 0 .. m - 1, NEW x \in Nat, NEW y \in Nat, x + y <= m
    PROVE  /\ (a + x) % m \in 0 .. m - 1
           /\ (((a + x) % m) + y) % m = (a + x + y) % m
<1>1. \A c \in Nat : c < 2 * m => c % m = IF c < m THEN c ELSE c - m
  BY ModTurn
<1>2. /\ a + x \in Nat /\ a + x < 2 * m
      /\ a + x + y \in Nat /\ a + x + y < 2 * m
  OBVIOUS
<1>3. (a + x) % m = IF a + x < m THEN a + x ELSE a + x - m
  BY <1>1, <1>2
<1>4. (a + x + y) % m = IF a + x + y < m THEN a + x + y ELSE a + x + y - m
  BY <1>1, <1>2
<1>5. CASE a + x < m
  BY <1>2, <1>3, <1>5
<1>6. CASE ~(a + x < m)
  <2>1. a + x - m + y \in Nat /\ a + x - m + y < m /\ a + x - m + y < 2 * m
    BY <1>6
  <2>2. (a + x - m + y) % m = a + x - m + y
    BY <1>1, <2>1
  <2>3. (a + x + y) % m = a + x - m + y
    BY <1>4, <1>6
  <2> QED BY <1>3, <1>6, <2>1, <2>2, <2>3
<1> QED BY <1>2, <1>5, <1>6

\* begin and end meet in a full or an empty buffer.
LEMMA Meet ==
    ASSUME NEW m \in Nat \ {0}, NEW a \in 0 .. m - 1, NEW d \in 0 .. m
    PROVE  a = (a + d) % m <=> d = m \/ d = 0
<1>1. \A c \in Nat : c < 2 * m => c % m = IF c < m THEN c ELSE c - m
  BY ModTurn
<1>2. a + d \in Nat /\ a + d < 2 * m
  OBVIOUS
<1> QED BY <1>1, <1>2

(* The invariant.                                                          *)

\* The invariant holds before init_circ_buffer is first called.
LEMMA InitIInv == Init => IInv
<1> SUFFICES ASSUME Init PROVE IInv
  OBVIOUS
<1>1. copied \in Seq(Bytes)
  BY EmptySeq DEF Init
<1>2. buffer \in Array(size)
  BY DEF Init, Array
<1> QED BY <1>1, <1>2 DEF Init, IInv, TypeOK, IndicesAgree, NoJunk, is_circ_buffer_full, is_circ_buffer_empty

\* The steps that leave the structure alone.
LEMMA KeepIInv ==
    ASSUME IInv, UNCHANGED <<buffer, size, begin, end, data_size>>,
           phase' \in {"closed", "open", "crashed"}, result' \in {0, -1}, copied' \in Seq(Bytes)
    PROVE  IInv'
BY DEF IInv, TypeOK, Array, IndicesAgree, NoJunk, is_circ_buffer_full, is_circ_buffer_empty

\* The steps that leave an empty buffer with both indices at 0.
LEMMA ClearIInv ==
    ASSUME NEW n \in Nat, begin' = 0, end' = 0, data_size' = 0, size' = n, buffer' \in Array(n),
           phase' \in {"closed", "open", "crashed"}, result' \in {0, -1}, copied' \in Seq(Bytes)
    PROVE  IInv'
<1>1. n > 0 => (0 + 0) % n = 0
  <2> SUFFICES ASSUME n > 0 PROVE 0 % n = 0
    OBVIOUS
  <2>1. n \in Nat \ {0} /\ 0 \in Nat /\ 0 < 2 * n
    OBVIOUS
  <2>2. \A a \in Nat : a < 2 * n => a % n = IF a < n THEN a ELSE a - n
    BY <2>1, ModTurn
  <2> QED BY <2>1, <2>2
<1>2. TypeOK'
  BY DEF TypeOK
<1>3. IndicesAgree'
  BY <1>1 DEF IndicesAgree, is_circ_buffer_full, is_circ_buffer_empty
<1>4. NoJunk'
  BY DEF NoJunk
<1> QED BY <1>2, <1>3, <1>4 DEF IInv

\* put_circ_buffer: the end moves on, over bytes that are not Junk any more.
LEMMA PutIInv ==
    ASSUME IInv, NEW data \in Seq(Bytes), data_size + Len(data) <= size, size # 0,
           buffer' = Stored(data), end' = (end + Len(data)) % size,
           data_size' = data_size + Len(data), result' = 0, copied' = <<>>,
           UNCHANGED <<phase, size, begin>>
    PROVE  IInv'
<1> DEFINE L == Len(data)
<1>1. /\ L \in Nat /\ size \in Nat \ {0} /\ size > 0 /\ begin \in 0 .. size - 1
      /\ data_size \in Nat /\ data_size + L <= size /\ data_size + L \in 0 .. size
      /\ end = (begin + data_size) % size
  BY LenProperties DEF IInv, TypeOK, IndicesAgree
<1>2. /\ buffer' \in Array(size)
      /\ \A i \in 0 .. data_size + L - 1 :
           buffer'[(begin + i) % size] =
               IF i < data_size THEN buffer[(begin + i) % size] ELSE data[i - data_size + 1]
  BY <1>1, StoredLemma
<1>3. \A i \in 1 .. L : data[i] \in Bytes
  BY ElementOfSeq
<1> HIDE DEF L
<1>4. end' = (begin + (data_size + L)) % size
  <2>1. (((begin + data_size) % size) + L) % size = (begin + data_size + L) % size
    BY <1>1, ModShift
  <2>2. begin + data_size + L = begin + (data_size + L)
    BY <1>1
  <2> QED BY <1>1, <2>1, <2>2 DEF L
<1>5. end' \in Nat
  <2>1. begin + (data_size + L) \in Nat
    BY <1>1
  <2> QED BY <1>1, <1>4, <2>1
<1>6. TypeOK'
  BY <1>1, <1>2, <1>5, EmptySeq DEF IInv, TypeOK, Array, L
<1>7. begin = end' <=> data_size + L = size \/ data_size + L = 0
  <2>1. begin = (begin + (data_size + L)) % size <=> data_size + L = size \/ data_size + L = 0
    BY <1>1, Meet
  <2> QED BY <1>4, <2>1
<1>8. IndicesAgree'
  BY <1>1, <1>4, <1>7 DEF IndicesAgree, is_circ_buffer_full, is_circ_buffer_empty, L
<1>9. NoJunk'
  <2>1. ASSUME NEW i \in 0 .. data_size + L - 1
        PROVE  buffer'[(begin + i) % size] # Junk
    <3>1. CASE i < data_size
      <4>1. i \in 0 .. data_size - 1
        BY <1>1, <3>1
      <4>2. buffer[(begin + i) % size] # Junk
        BY <4>1 DEF IInv, NoJunk
      <4> QED BY <1>2, <3>1, <4>2
    <3>2. CASE ~(i < data_size)
      <4>1. i - data_size + 1 \in 1 .. L
        BY <1>1, <3>2
      <4>2. data[i - data_size + 1] \in Bytes
        BY <1>3, <4>1
      <4> QED BY <1>2, <3>2, <4>2, BytesAssumption
    <3> QED BY <3>1, <3>2
  <2>2. data_size' = data_size + L /\ begin' = begin /\ size' = size
    BY DEF L
  <2>3. ASSUME NEW i \in 0 .. data_size' - 1
        PROVE  buffer'[(begin' + i) % size'] # Junk
    <3>1. i \in 0 .. data_size + L - 1
      BY <1>1, <2>2
    <3>2. (begin' + i) % size' = (begin + i) % size
      BY <2>2
    <3> QED BY <2>1, <3>1, <3>2
  <2> QED BY <2>3 DEF NoJunk
<1> QED BY <1>6, <1>8, <1>9 DEF IInv

\* get_circ_buffer and get_circ_buffer_no_copy: begin moves on.
LEMMA ConsumeIInv ==
    ASSUME IInv, NEW n \in Nat, data_size - n >= 0, size # 0, Consume(n), copied' \in Seq(Bytes)
    PROVE  IInv'
<1> DEFINE d == data_size - n
           be == (begin + n) % size
<1>1. /\ size \in Nat \ {0} /\ size > 0 /\ begin \in 0 .. size - 1
      /\ data_size \in Nat /\ data_size <= size /\ d \in 0 .. size /\ d \in Nat /\ n + d = data_size
  BY DEF IInv, TypeOK, IndicesAgree
<1>end. end = (begin + data_size) % size /\ end \in Nat
  BY <1>1 DEF IInv, TypeOK, IndicesAgree
<1>2. /\ begin' = be /\ data_size' = d
      /\ UNCHANGED <<phase, buffer, size, end>> /\ result' = 0
  BY DEF Consume
<1>3. be \in 0 .. size - 1 /\ end = (be + d) % size
  <2>1. /\ (begin + n) % size \in 0 .. size - 1
        /\ (((begin + n) % size) + d) % size = (begin + n + d) % size
    <3>1. n + d <= size
      BY <1>1
    <3> HIDE DEF d
    <3> QED BY <1>1, <3>1, ModShift
  <2>2. begin + n + d = begin + data_size
    BY <1>1
  <2> QED BY <1>1, <1>end, <2>1, <2>2
<1>4. ASSUME NEW i \in 0 .. d - 1
      PROVE  buffer[(be + i) % size] # Junk
  <2>1. n + i \in 0 .. data_size - 1 /\ n + i <= size /\ i \in Nat
    BY <1>1
  <2>2. (((begin + n) % size) + i) % size = (begin + n + i) % size
    BY <1>1, <2>1, ModShift
  <2>3. begin + n + i = begin + (n + i)
    BY <1>1, <2>1
  <2>4. buffer[(begin + (n + i)) % size] # Junk
    BY <2>1 DEF IInv, NoJunk
  <2> QED BY <2>2, <2>3, <2>4
<1> HIDE DEF d, be
<1>5. TypeOK'
  BY <1>1, <1>2, <1>3, <1>end DEF IInv, TypeOK, Array
<1>6. be = end <=> d = size \/ d = 0
  <2>1. be = (be + d) % size <=> d = size \/ d = 0
    BY <1>1, <1>3, Meet
  <2> QED BY <1>3, <2>1
<1>7. IndicesAgree'
  BY <1>1, <1>2, <1>3, <1>6, <1>end DEF IndicesAgree, is_circ_buffer_full, is_circ_buffer_empty
<1>8. NoJunk'
  BY <1>2, <1>4 DEF NoJunk
<1> QED BY <1>5, <1>7, <1>8 DEF IInv

\* Every function keeps the invariant.
LEMMA NextIInv == IInv /\ [Next]_vars => IInv'
<1> SUFFICES ASSUME IInv, [Next]_vars PROVE IInv'
  OBVIOUS
<1>1. /\ phase \in {"closed", "open", "crashed"} /\ result \in {0, -1} /\ copied \in Seq(Bytes)
      /\ size \in Nat /\ data_size \in Nat /\ buffer \in Array(size)
  BY DEF IInv, TypeOK
<1>2. <<>> \in Seq(Bytes)
  BY EmptySeq
<1>3. Refuse => IInv'
  BY <1>1, <1>2, KeepIInv DEF Refuse
<1>4. DivideByZero => IInv'
  BY <1>1, KeepIInv DEF DivideByZero
<1>5. ASSUME NEW n \in Sizes, init_circ_buffer(n)
      PROVE  IInv'
  <2>1. n \in Nat /\ 0 \in Nat
    BY SizesAssumption
  <2>2. [k \in 0 .. n - 1 |-> Junk] \in Array(n) /\ [k \in 0 .. -1 |-> Junk] \in Array(0)
    BY DEF Array
  <2>3. /\ begin' = 0 /\ end' = 0 /\ data_size' = 0 /\ phase' = "open" /\ copied' = <<>>
        /\ \/ size' = n /\ buffer' \in Array(n) /\ result' = 0
           \/ size' = 0 /\ buffer' \in Array(0) /\ result' = -1
    BY <1>5, <2>2 DEF init_circ_buffer
  <2> QED BY <1>2, <2>1, <2>3, ClearIInv
<1>6. ASSUME deinit_circ_buffer
      PROVE  IInv'
  BY <1>1, <1>6, KeepIInv DEF deinit_circ_buffer
<1>7. ASSUME NEW n \in 0 .. MaxBytes, NEW data \in [1 .. n -> Bytes], put_circ_buffer(data)
      PROVE  IInv'
  <2>1. data \in Seq(Bytes)
    <3>1. n \in Nat
      BY SizesAssumption
    <3> QED BY <3>1, FunIsSeq
  <2> QED BY <1>3, <1>4, <1>7, <2>1, PutIInv DEF put_circ_buffer
<1>8. ASSUME NEW n \in 0 .. MaxBytes, get_circ_buffer(n)
      PROVE  IInv'
  <2>1. n \in Nat /\ (data_size - n >= 0 => n <= data_size)
    BY <1>1, SizesAssumption
  <2>2. data_size - n >= 0 => Fetched(n) \in Seq(Bytes)
    BY <2>1, FetchedLemma
  <2> QED BY <1>3, <1>4, <1>8, <2>1, <2>2, ConsumeIInv DEF get_circ_buffer
<1>9. ASSUME NEW n \in 0 .. MaxBytes, get_circ_buffer_no_copy(n)
      PROVE  IInv'
  <2>1. n \in Nat
    BY SizesAssumption
  <2> QED BY <1>2, <1>3, <1>4, <1>9, <2>1, ConsumeIInv DEF get_circ_buffer_no_copy
<1>10. ASSUME NEW n \in 0 .. MaxBytes, peek_circ_buffer(n)
       PROVE  IInv'
  <2>1. n \in Nat /\ (data_size - n >= 0 => n <= data_size)
    BY <1>1, SizesAssumption
  <2>2. data_size - n >= 0 => Fetched(n) \in Seq(Bytes)
    BY <2>1, FetchedLemma
  <2> QED BY <1>1, <1>3, <1>10, <2>2, KeepIInv DEF peek_circ_buffer
<1>11. ASSUME reset_circ_buffer
       PROVE  IInv'
  BY <1>1, <1>2, <1>11, ClearIInv DEF reset_circ_buffer
<1>12. ASSUME UNCHANGED vars
       PROVE  IInv'
  BY <1>1, <1>12, KeepIInv DEF vars
<1> QED BY <1>5, <1>6, <1>7, <1>8, <1>9, <1>10, <1>11, <1>12 DEF Next

\* In every state the buffer reaches, the indices and the count agree, and the
\* bytes between begin and end were put there.
THEOREM Invariance == Spec => []IInv
<1>1. Init => IInv
  BY InitIInv
<1>2. IInv /\ [Next]_vars => IInv'
  BY NextIInv
<1> QED BY <1>1, <1>2, PTL DEF Spec

\* Every variable has its type; no index leaves the array.
THEOREM TypeCorrect == Spec => []TypeOK
BY Invariance, PTL DEF IInv

\* begin, end and data_size always say the same, and begin and end meet in a
\* full or an empty buffer only.
THEOREM IndicesAlwaysAgree == Spec => []IndicesAgree
BY Invariance, PTL DEF IInv

\* No byte of fresh memory is between begin and end.
THEOREM NeverJunk == Spec => []NoJunk
BY Invariance, PTL DEF IInv

(* The refinement.                                                         *)

\* Contents is a sequence of the bytes from begin on.
LEMMA ContentsLemma ==
    ASSUME IInv
    PROVE  /\ Contents \in Seq(Bytes)
           /\ Len(Contents) = data_size
           /\ \A i \in 1 .. data_size : Contents[i] = buffer[(begin + i - 1) % size]
           /\ data_size \in Nat /\ size \in Nat /\ begin \in Nat /\ data_size <= size
<1>1. data_size \in Nat /\ size \in Nat /\ begin \in Nat /\ data_size <= size
  BY DEF IInv, TypeOK, IndicesAgree
<1>2. ASSUME NEW i \in 1 .. data_size
      PROVE  buffer[(begin + i - 1) % size] \in Bytes
  <2>1. i - 1 \in Nat /\ i - 1 < data_size /\ begin + (i - 1) = begin + i - 1
    BY <1>1
  <2> QED BY <2>1, QueuedBytes
<1>3. Contents \in [1 .. data_size -> Bytes]
  BY <1>2 DEF Contents
<1> QED BY <1>1, <1>3, FunIsSeq DEF Contents

\* The same of the next state, for a step whose successor is known.
LEMMA NextContents ==
    ASSUME NEW n \in Nat, NEW t \in Seq(Bytes), Len(t) = n, data_size' = n,
           \A i \in 1 .. n : buffer'[(begin' + i - 1) % size'] = t[i]
    PROVE  Contents' = t
<1>1. Contents' = [i \in 1 .. n |-> buffer'[(begin' + i - 1) % size']]
  BY DEF Contents
<1>2. \A i \in 1 .. n : t[i] \in Bytes
  BY ElementOfSeq
<1>3. [i \in 1 .. n |-> buffer'[(begin' + i - 1) % size']] = [i \in 1 .. n |-> t[i]]
  OBVIOUS
<1> DEFINE s == [i \in 1 .. n |-> t[i]]
<1>4. s \in Seq(Bytes) /\ Len(s) = n /\ \A i \in 1 .. n : s[i] = t[i]
  <2>1. s \in [1 .. n -> Bytes]
    BY <1>2
  <2> QED BY <2>1, FunIsSeq
<1> HIDE DEF s
<1>5. s = t
  BY <1>4, SeqEqual
<1> QED BY <1>1, <1>3, <1>5 DEF s

\* A buffer of no bytes stands for the empty queue.
LEMMA EmptyContents == data_size' = 0 => Contents' = <<>>
<1> SUFFICES ASSUME data_size' = 0 PROVE Contents' = <<>>
  OBVIOUS
<1>1. <<>> \in Seq(Bytes) /\ Len(<<>>) = 0 /\ 0 \in Nat
  BY EmptySeq
<1>2. \A i \in 1 .. 0 : buffer'[(begin' + i - 1) % size'] = <<>>[i]
  OBVIOUS
<1> QED BY <1>1, <1>2, NextContents

\* put_circ_buffer appends.
LEMMA PutContents ==
    ASSUME IInv, NEW data \in Seq(Bytes), data_size + Len(data) <= size, size # 0,
           buffer' = Stored(data), data_size' = data_size + Len(data), UNCHANGED <<size, begin>>
    PROVE  Contents' = Contents \o data
<1> DEFINE L == Len(data)
           t == Contents \o data
<1>1. L \in Nat /\ size > 0
  BY LenProperties DEF IInv, TypeOK
<1>2. /\ Contents \in Seq(Bytes) /\ Len(Contents) = data_size
      /\ \A i \in 1 .. data_size : Contents[i] = buffer[(begin + i - 1) % size]
      /\ data_size \in Nat /\ size \in Nat /\ begin \in Nat
  BY ContentsLemma
<1>3. \A i \in 0 .. data_size + L - 1 :
          buffer'[(begin + i) % size] =
              IF i < data_size THEN buffer[(begin + i) % size] ELSE data[i - data_size + 1]
  BY <1>1, StoredLemma
<1>4. /\ t \in Seq(Bytes) /\ Len(t) = data_size + L
      /\ \A i \in 1 .. data_size + L : t[i] = IF i <= data_size THEN Contents[i] ELSE data[i - data_size]
  BY <1>2, ConcatProperties
<1> HIDE DEF L, t
<1>5. ASSUME NEW i \in 1 .. data_size + L
      PROVE  buffer'[(begin' + i - 1) % size'] = t[i]
  <2> DEFINE j == i - 1
  <2>1. /\ j \in 0 .. data_size + L - 1 /\ begin + j = begin + i - 1
        /\ j - data_size + 1 = i - data_size
        /\ (j < data_size <=> i <= data_size)
        /\ (j < data_size => i \in 1 .. data_size)
    BY <1>1, <1>2
  <2>2. (begin' + i - 1) % size' = (begin + j) % size
    BY <2>1
  <2> HIDE DEF j
  <2>3. buffer'[(begin + j) % size] =
            IF j < data_size THEN buffer[(begin + j) % size] ELSE data[j - data_size + 1]
    BY <1>3, <2>1
  <2>4. CASE j < data_size
    BY <1>2, <1>4, <2>1, <2>2, <2>3, <2>4
  <2>5. CASE ~(j < data_size)
    BY <1>4, <2>1, <2>2, <2>3, <2>5
  <2> QED BY <2>4, <2>5
<1>6. data_size + L \in Nat /\ data_size' = data_size + L
  BY <1>1, <1>2 DEF L
<1>7. Contents' = t
  BY <1>4, <1>5, <1>6, NextContents
<1> QED BY <1>7 DEF t

\* get_circ_buffer and get_circ_buffer_no_copy take the oldest bytes off.
LEMMA ConsumeContents ==
    ASSUME IInv, NEW n \in Nat, n <= data_size, size # 0, Consume(n)
    PROVE  Contents' = SubSeq(Contents, n + 1, Len(Contents))
<1> DEFINE t == SubSeq(Contents, n + 1, Len(Contents))
<1>1. /\ Contents \in Seq(Bytes) /\ Len(Contents) = data_size
      /\ \A i \in 1 .. data_size : Contents[i] = buffer[(begin + i - 1) % size]
      /\ data_size \in Nat /\ size \in Nat \ {0} /\ begin \in 0 .. size - 1 /\ data_size <= size
      /\ n \in 0 .. Len(Contents)
  BY ContentsLemma DEF IInv, TypeOK, IndicesAgree
<1>2. /\ t \in Seq(Bytes) /\ Len(t) = data_size - n
      /\ \A i \in 1 .. data_size - n : t[i] = Contents[n + i]
  BY <1>1, SubSeqSuffix
<1> HIDE DEF t
<1>3. /\ begin' = (begin + n) % size /\ data_size' = data_size - n
      /\ buffer' = buffer /\ size' = size /\ data_size - n \in Nat
  BY <1>1 DEF Consume
<1>4. ASSUME NEW i \in 1 .. data_size - n
      PROVE  buffer'[(begin' + i - 1) % size'] = t[i]
  <2>1. i - 1 \in Nat /\ n + (i - 1) <= size /\ n + i \in 1 .. data_size
    BY <1>1
  <2>2. /\ (begin + n) % size \in 0 .. size - 1
        /\ (((begin + n) % size) + (i - 1)) % size = (begin + n + (i - 1)) % size
    BY <1>1, <2>1, ModShift
  <2>3. /\ ((begin + n) % size) + (i - 1) = ((begin + n) % size) + i - 1
        /\ begin + n + (i - 1) = begin + (n + i) - 1
    BY <1>1, <2>2
  <2>4. (begin' + i - 1) % size' = (begin + (n + i) - 1) % size
    BY <1>3, <2>2, <2>3
  <2>5. t[i] = buffer[(begin + (n + i) - 1) % size]
    BY <1>1, <1>2, <2>1
  <2> QED BY <1>3, <2>4, <2>5
<1>5. Contents' = t
  BY <1>2, <1>3, <1>4, NextContents
<1> QED BY <1>5 DEF t

\* What get and peek hand out is the front of the queue.
LEMMA FetchedContents ==
    ASSUME IInv, NEW n \in Nat, n <= data_size
    PROVE  Fetched(n) = SubSeq(Contents, 1, n)
<1> DEFINE t == SubSeq(Contents, 1, n)
<1>1. /\ Contents \in Seq(Bytes) /\ Len(Contents) = data_size
      /\ \A i \in 1 .. data_size : Contents[i] = buffer[(begin + i - 1) % size]
      /\ data_size \in Nat
  BY ContentsLemma
<1>2. n \in 0 .. Len(Contents) /\ \A i \in 1 .. n : i \in 1 .. data_size
  BY <1>1
<1>3. t \in Seq(Bytes) /\ Len(t) = n /\ \A i \in 1 .. n : t[i] = Contents[i]
  BY <1>1, <1>2, SubSeqPrefix
<1>4. /\ Fetched(n) \in Seq(Bytes) /\ Len(Fetched(n)) = n
      /\ \A i \in 1 .. n : Fetched(n)[i] = buffer[(begin + i - 1) % size]
  BY FetchedLemma
<1> HIDE DEF t
<1>5. \A i \in 1 .. n : Fetched(n)[i] = t[i]
  BY <1>1, <1>2, <1>3, <1>4
<1>6. Fetched(n) = t
  BY <1>3, <1>4, <1>5, SeqEqual
<1> QED BY <1>6 DEF t

\* A step that changes nothing the queue is made of.
LEMMA KeepContents ==
    ASSUME UNCHANGED <<buffer, size, begin, data_size>>
    PROVE  Contents' = Contents
BY DEF Contents

\* Every step of the buffer is a step of the queue, or leaves it alone.
LEMMA NextQueue == IInv /\ [Next]_vars => [Queue!Next]_(Queue!vars)
<1> SUFFICES ASSUME IInv, [Next]_vars PROVE [Queue!Next]_(Queue!vars)
  OBVIOUS
<1>1. /\ size \in Nat /\ data_size \in Nat /\ Contents \in Seq(Bytes) /\ Len(Contents) = data_size
  BY ContentsLemma
<1>2. DivideByZero => UNCHANGED Queue!vars
  BY KeepContents DEF DivideByZero, Queue!vars
<1>3. ASSUME NEW n \in Sizes, init_circ_buffer(n)
      PROVE  Queue!Next
  <2>1. Queue!Open(n)
    BY <1>3, EmptyContents DEF init_circ_buffer, Queue!Open
  <2> QED BY <2>1 DEF Queue!Next
<1>4. ASSUME deinit_circ_buffer
      PROVE  UNCHANGED Queue!vars
  BY <1>4, KeepContents DEF deinit_circ_buffer, Queue!vars
<1>5. ASSUME NEW n \in 0 .. MaxBytes, NEW data \in [1 .. n -> Bytes], put_circ_buffer(data)
      PROVE  [Queue!Next]_(Queue!vars)
  <2>1. data \in Seq(Bytes)
    <3>1. n \in Nat
      BY SizesAssumption
    <3> QED BY <3>1, FunIsSeq
  <2>2. CASE DivideByZero
    BY <1>2, <2>2
  <2>3. CASE ~DivideByZero
    <3>1. Queue!Put(data)
      <4>1. Len(data) \in Nat
        BY <2>1, LenProperties
      <4>2. CASE data_size + Len(data) > size /\ Refuse
        <5>1. ~(Len(Contents) + Len(data) <= size)
          BY <1>1, <4>1, <4>2
        <5> QED BY <4>2, <5>1, KeepContents DEF Refuse, Queue!Put
      <4>3. CASE ~(data_size + Len(data) > size /\ Refuse)
        BY <1>1, <1>5, <2>1, <2>3, <4>3, PutContents DEF put_circ_buffer, Queue!Put
      <4> QED BY <4>2, <4>3
    <3> QED BY <3>1 DEF Queue!Next
  <2> QED BY <2>2, <2>3
<1>6. ASSUME NEW n \in 0 .. MaxBytes
      PROVE  /\ n \in Nat
             /\ data_size - n < 0 <=> ~(n <= Len(Contents))
             /\ data_size - n >= 0 <=> n <= data_size
  BY <1>1, SizesAssumption
<1>7. ASSUME NEW n \in 0 .. MaxBytes, get_circ_buffer(n)
      PROVE  [Queue!Next]_(Queue!vars)
  <2>1. CASE DivideByZero
    BY <1>2, <2>1
  <2>2. CASE data_size - n < 0 /\ Refuse
    <3>1. Queue!Get(n)
      BY <1>6, <2>2, KeepContents DEF Refuse, Queue!Get
    <3> QED BY <3>1 DEF Queue!Next
  <2>3. CASE data_size - n >= 0 /\ size # 0 /\ copied' = Fetched(n) /\ Consume(n)
    <3>1. Contents' = SubSeq(Contents, n + 1, Len(Contents)) /\ copied' = SubSeq(Contents, 1, n)
      BY <1>6, <2>3, ConsumeContents, FetchedContents
    <3>2. Queue!Get(n)
      BY <1>1, <1>6, <2>3, <3>1 DEF Consume, Queue!Get
    <3> QED BY <3>2 DEF Queue!Next
  <2> QED BY <1>7, <2>1, <2>2, <2>3 DEF get_circ_buffer
<1>8. ASSUME NEW n \in 0 .. MaxBytes, get_circ_buffer_no_copy(n)
      PROVE  [Queue!Next]_(Queue!vars)
  <2>1. CASE DivideByZero
    BY <1>2, <2>1
  <2>2. CASE data_size - n < 0 /\ Refuse
    <3>1. Queue!Skip(n)
      BY <1>6, <2>2, KeepContents DEF Refuse, Queue!Skip
    <3> QED BY <3>1 DEF Queue!Next
  <2>3. CASE data_size - n >= 0 /\ size # 0 /\ copied' = <<>> /\ Consume(n)
    <3>1. Contents' = SubSeq(Contents, n + 1, Len(Contents))
      BY <1>6, <2>3, ConsumeContents
    <3>2. Queue!Skip(n)
      BY <1>1, <1>6, <2>3, <3>1 DEF Consume, Queue!Skip
    <3> QED BY <3>2 DEF Queue!Next
  <2> QED BY <1>8, <2>1, <2>2, <2>3 DEF get_circ_buffer_no_copy
<1>9. ASSUME NEW n \in 0 .. MaxBytes, peek_circ_buffer(n)
      PROVE  Queue!Next
  <2>1. Queue!Peek(n)
    <3>1. CASE data_size - n < 0
      <4>1. ~(data_size - n >= 0) /\ ~(n <= Len(Contents))
        BY <1>1, <1>6, <3>1
      <4>2. Refuse
        BY <1>9, <4>1 DEF peek_circ_buffer
      <4> QED BY <4>1, <4>2, KeepContents DEF Refuse, Queue!Peek
    <3>2. CASE ~(data_size - n < 0)
      <4>1. n <= data_size /\ n <= Len(Contents)
        BY <1>1, <1>6, <3>2
      <4>2. copied' = SubSeq(Contents, 1, n)
        BY <1>6, <1>9, <3>2, <4>1, FetchedContents DEF peek_circ_buffer
      <4> QED BY <1>9, <3>2, <4>1, <4>2, KeepContents DEF peek_circ_buffer, Queue!Peek
    <3> QED BY <3>1, <3>2
  <2> QED BY <2>1 DEF Queue!Next
<1>10. ASSUME reset_circ_buffer
       PROVE  Queue!Next
  <2>1. Queue!Reset
    BY <1>10, EmptyContents DEF reset_circ_buffer, Queue!Reset
  <2> QED BY <2>1 DEF Queue!Next
<1>11. ASSUME UNCHANGED vars
       PROVE  UNCHANGED Queue!vars
  BY <1>11, KeepContents DEF vars, Queue!vars
<1> QED BY <1>3, <1>4, <1>5, <1>7, <1>8, <1>9, <1>10, <1>11 DEF Next

\* The buffer starts as the queue does.
LEMMA InitQueue == Init => Queue!Init
<1> SUFFICES ASSUME Init PROVE Queue!Init
  OBVIOUS
<1>1. IInv
  BY InitIInv
<1>2. Contents \in Seq(Bytes) /\ Len(Contents) = 0
  BY <1>1, ContentsLemma DEF Init
<1>3. Contents = <<>>
  BY <1>2, EmptySeq
<1> QED BY <1>3 DEF Init, Queue!Init

\* The circular buffer implements the bounded queue: every put, get, skip, peek
\* and reset does to Contents what the queue does, wherever begin and end are.
THEOREM Refinement == Spec => ImplementsQueue
<1>1. Init => Queue!Init
  BY InitQueue
<1>2. IInv /\ [Next]_vars => [Queue!Next]_(Queue!vars)
  BY NextQueue
<1>3. Spec => []IInv
  BY Invariance
<1> QED BY <1>1, <1>2, <1>3, PTL DEF Spec, ImplementsQueue, Queue!Spec

=============================================================================
