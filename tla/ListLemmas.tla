----------------------------- MODULE ListLemmas -----------------------------
(***************************************************************************)
(* Lemmas about the operations on struct list_head the other modules are   *)
(* built from, a list being the sequence of the elements linked on it:     *)
(* list_add_tail is Append, list_del is RemoveAt or Unlink, and taking the *)
(* first element is Head and Tail.  The last part is about the ring that a *)
(* list is: the head, the entries in order, and the head again.            *)
(***************************************************************************)
EXTENDS Lists, SequenceTheorems, TLAPS

\* The range of a sequence, in terms of its indices.
LEMMA RangeSeq ==
    ASSUME NEW S, NEW s \in Seq(S)
    PROVE  /\ DOMAIN s = 1 .. Len(s)
           /\ Len(s) \in Nat
           /\ Range(s) = {s[i] : i \in 1 .. Len(s)}
           /\ Range(s) \subseteq S
BY LenProperties, ElementOfSeq DEF Range

\* list_add_tail adds the element to those of the list, and keeps an element
\* from being linked twice if it was not on the list.
LEMMA AppendLemma ==
    ASSUME NEW S, NEW s \in Seq(S), NEW e \in S
    PROVE  /\ Append(s, e) \in Seq(S)
           /\ Range(Append(s, e)) = Range(s) \cup {e}
           /\ IsInjective(s) /\ e \notin Range(s) => IsInjective(Append(s, e))
<1> DEFINE t == Append(s, e)
<1>1. /\ t \in Seq(S)
      /\ Len(t) = Len(s) + 1
      /\ \A i \in 1 .. Len(s) : t[i] = s[i]
      /\ t[Len(s) + 1] = e
  BY AppendProperties
<1>2. /\ DOMAIN s = 1 .. Len(s) /\ Len(s) \in Nat /\ Range(s) = {s[i] : i \in 1 .. Len(s)}
      /\ DOMAIN t = 1 .. Len(t) /\ Range(t) = {t[i] : i \in 1 .. Len(t)}
  BY <1>1, RangeSeq
<1>3. \A i \in 1 .. Len(t) : i \in 1 .. Len(s) \/ i = Len(s) + 1
  BY <1>1, <1>2
<1> HIDE DEF t
<1>4. Range(t) \subseteq Range(s) \cup {e}
  BY <1>1, <1>2, <1>3
<1>5. Range(s) \cup {e} \subseteq Range(t)
  <2>1. \A i \in 1 .. Len(s) + 1 : i \in 1 .. Len(t)
    BY <1>1, <1>2
  <2>2. \A i \in 1 .. Len(s) : i \in 1 .. Len(s) + 1
    BY <1>2
  <2>3. Len(s) + 1 \in 1 .. Len(s) + 1
    BY <1>2
  <2> QED BY <1>1, <1>2, <2>1, <2>2, <2>3
<1>6. ASSUME IsInjective(s), e \notin Range(s), NEW i \in DOMAIN t, NEW j \in DOMAIN t, t[i] = t[j]
      PROVE  i = j
  BY <1>1, <1>2, <1>3, <1>6 DEF IsInjective
<1> QED BY <1>1, <1>4, <1>5, <1>6 DEF IsInjective, t

\* The first n elements of a sequence, and the ones behind them.
LEMMA SubSeqPrefix ==
    ASSUME NEW S, NEW s \in Seq(S), NEW n \in 0 .. Len(s)
    PROVE  /\ SubSeq(s, 1, n) \in Seq(S)
           /\ Len(SubSeq(s, 1, n)) = n
           /\ \A i \in 1 .. n : SubSeq(s, 1, n)[i] = s[i]
<1> DEFINE f == SubSeq(s, 1, n)
<1>1. Len(s) \in Nat /\ n \in Int /\ \A i \in 1 .. n : s[i] \in S
  BY LenProperties, ElementOfSeq
<1>2. /\ f \in Seq(S)
      /\ Len(f) = IF 1 <= n THEN n - 1 + 1 ELSE 0
      /\ \A i \in 1 .. n - 1 + 1 : f[i] = s[1 + i - 1]
  BY <1>1, SubSeqProperties
<1> HIDE DEF f
<1>3. Len(f) = n
  BY <1>1, <1>2
<1>4. ASSUME NEW i \in 1 .. n PROVE f[i] = s[i]
  <2>1. i \in 1 .. n - 1 + 1 /\ 1 + i - 1 = i
    BY <1>1
  <2> QED BY <1>2, <2>1
<1> QED BY <1>2, <1>3, <1>4 DEF f

\* The elements of a sequence from n + 1 on, and the ones before them.
LEMMA SubSeqSuffix ==
    ASSUME NEW S, NEW s \in Seq(S), NEW n \in 0 .. Len(s)
    PROVE  /\ SubSeq(s, n + 1, Len(s)) \in Seq(S)
           /\ Len(SubSeq(s, n + 1, Len(s))) = Len(s) - n
           /\ \A i \in 1 .. Len(s) - n : SubSeq(s, n + 1, Len(s))[i] = s[n + i]
<1> DEFINE b == SubSeq(s, n + 1, Len(s))
<1>1. /\ Len(s) \in Nat /\ n \in Nat /\ n <= Len(s)
      /\ \A i \in n + 1 .. Len(s) : s[i] \in S
  BY LenProperties, ElementOfSeq
<1>2. /\ b \in Seq(S)
      /\ Len(b) = IF n + 1 <= Len(s) THEN Len(s) - (n + 1) + 1 ELSE 0
      /\ \A i \in 1 .. Len(s) - (n + 1) + 1 : b[i] = s[(n + 1) + i - 1]
  BY <1>1, SubSeqProperties
<1> HIDE DEF b
<1>3. Len(b) = Len(s) - n
  BY <1>1, <1>2
<1>4. ASSUME NEW i \in 1 .. Len(s) - n PROVE b[i] = s[n + i]
  <2>1. i \in 1 .. Len(s) - (n + 1) + 1 /\ (n + 1) + i - 1 = n + i
    BY <1>1
  <2> QED BY <1>2, <2>1
<1> QED BY <1>2, <1>3, <1>4 DEF b

\* list_del of the element at a position leaves the others where they are.
LEMMA RemoveAtSeq ==
    ASSUME NEW S, NEW s \in Seq(S), NEW k \in 1 .. Len(s)
    PROVE  /\ RemoveAt(s, k) \in Seq(S)
           /\ Len(RemoveAt(s, k)) = Len(s) - 1
           /\ \A i \in 1 .. Len(s) - 1 :
                RemoveAt(s, k)[i] = IF i < k THEN s[i] ELSE s[i + 1]
<1> DEFINE f == SubSeq(s, 1, k - 1)
           b == SubSeq(s, k + 1, Len(s))
<1>1. Len(s) \in Nat
  BY LenProperties
<1>2. /\ f \in Seq(S)
      /\ Len(f) = k - 1
      /\ \A i \in 1 .. k - 1 : f[i] = s[i]
  <2>1. k - 1 \in 0 .. Len(s)
    BY <1>1
  <2> QED BY <2>1, SubSeqPrefix
<1>3. /\ b \in Seq(S)
      /\ Len(b) = Len(s) - k
      /\ \A i \in 1 .. Len(s) - k : b[i] = s[k + i]
  <2>1. k \in 0 .. Len(s)
    BY <1>1
  <2> QED BY <2>1, SubSeqSuffix
<1>4. /\ f \o b \in Seq(S)
      /\ Len(f \o b) = Len(f) + Len(b)
      /\ \A i \in 1 .. Len(f) + Len(b) : (f \o b)[i] = IF i <= Len(f) THEN f[i] ELSE b[i - Len(f)]
  BY <1>2, <1>3, ConcatProperties
<1>5. RemoveAt(s, k) = f \o b
  BY DEF RemoveAt
<1> HIDE DEF f, b
<1>6. ASSUME NEW i \in 1 .. Len(s) - 1
      PROVE  RemoveAt(s, k)[i] = IF i < k THEN s[i] ELSE s[i + 1]
  <2>1. i \in 1 .. Len(f) + Len(b) /\ Len(f) = k - 1 /\ k \in Nat
    BY <1>1, <1>2, <1>3
  <2>2. CASE i < k
    <3>1. i \in 1 .. k - 1 /\ i <= Len(f)
      BY <2>1, <2>2
    <3> QED BY <1>2, <1>4, <1>5, <2>1, <2>2, <3>1
  <2>3. CASE ~(i < k)
    <3>1. i - Len(f) \in 1 .. Len(s) - k /\ ~(i <= Len(f)) /\ k + (i - Len(f)) = i + 1
      BY <1>1, <2>1, <2>3
    <3> QED BY <1>3, <1>4, <1>5, <2>1, <2>3, <3>1
  <2> QED BY <2>2, <2>3
<1>7. Len(RemoveAt(s, k)) = Len(s) - 1
  <2>1. Len(RemoveAt(s, k)) = (k - 1) + (Len(s) - k)
    BY <1>2, <1>3, <1>4, <1>5
  <2>2. k \in Int /\ Len(s) \in Int
    BY <1>1
  <2> QED BY <2>1, <2>2
<1> QED BY <1>4, <1>5, <1>6, <1>7

\* Taking the element at a position off a list without duplicates.
LEMMA RemoveAtLemma ==
    ASSUME NEW S, NEW s \in Seq(S), NEW k \in 1 .. Len(s), IsInjective(s)
    PROVE  /\ RemoveAt(s, k) \in Seq(S)
           /\ IsInjective(RemoveAt(s, k))
           /\ Range(RemoveAt(s, k)) = Range(s) \ {s[k]}
<1> DEFINE t == RemoveAt(s, k)
<1>1. /\ t \in Seq(S)
      /\ Len(t) = Len(s) - 1
      /\ \A i \in 1 .. Len(s) - 1 : t[i] = IF i < k THEN s[i] ELSE s[i + 1]
  BY RemoveAtSeq
<1>2. /\ DOMAIN s = 1 .. Len(s) /\ Len(s) \in Nat /\ Range(s) = {s[i] : i \in 1 .. Len(s)}
      /\ DOMAIN t = 1 .. Len(t) /\ Range(t) = {t[i] : i \in 1 .. Len(t)}
  BY <1>1, RangeSeq
<1>3. \A i, j \in 1 .. Len(s) : s[i] = s[j] => i = j
  BY <1>2 DEF IsInjective
<1> HIDE DEF t
<1>4. IsInjective(t)
  <2> SUFFICES ASSUME NEW i \in 1 .. Len(s) - 1, NEW j \in 1 .. Len(s) - 1, t[i] = t[j]
               PROVE  i = j
    BY <1>1, <1>2 DEF IsInjective
  <2>1. /\ i \in 1 .. Len(s) /\ i + 1 \in 1 .. Len(s)
        /\ j \in 1 .. Len(s) /\ j + 1 \in 1 .. Len(s)
    BY <1>2
  <2>2. (IF i < k THEN s[i] ELSE s[i + 1]) = (IF j < k THEN s[j] ELSE s[j + 1])
    BY <1>1
  <2> QED BY <1>2, <1>3, <2>1, <2>2
<1>5. Range(t) \subseteq Range(s) \ {s[k]}
  <2> SUFFICES ASSUME NEW i \in 1 .. Len(s) - 1
               PROVE  t[i] \in Range(s) \ {s[k]}
    BY <1>1, <1>2
  <2>1. i \in 1 .. Len(s) /\ i + 1 \in 1 .. Len(s)
    BY <1>2
  <2> QED BY <1>1, <1>2, <1>3, <2>1
<1>6. Range(s) \ {s[k]} \subseteq Range(t)
  <2> SUFFICES ASSUME NEW i \in 1 .. Len(s), i # k
               PROVE  s[i] \in Range(t)
    BY <1>2
  <2>1. CASE i < k
    <3>1. i \in 1 .. Len(s) - 1
      BY <1>2, <2>1
    <3> QED BY <1>1, <1>2, <2>1, <3>1
  <2>2. CASE i > k
    <3>1. i - 1 \in 1 .. Len(s) - 1 /\ ~(i - 1 < k) /\ i - 1 + 1 = i
      BY <1>2, <2>2
    <3> QED BY <1>1, <1>2, <3>1
  <2> QED BY <2>1, <2>2
<1> QED BY <1>1, <1>4, <1>5, <1>6 DEF t

\* list_del of an element, wherever it is on the list, takes off just that one.
LEMMA UnlinkLemma ==
    ASSUME NEW S, NEW s \in Seq(S), NEW e, IsInjective(s)
    PROVE  /\ Unlink(s, e) \in Seq(S)
           /\ IsInjective(Unlink(s, e))
           /\ Range(Unlink(s, e)) = Range(s) \ {e}
<1>1. CASE e \in Range(s)
  <2> DEFINE k == CHOOSE i \in DOMAIN s : s[i] = e
  <2>1. k \in DOMAIN s /\ s[k] = e
    BY <1>1 DEF Range
  <2>2. k \in 1 .. Len(s)
    BY <2>1, RangeSeq
  <2>3. Unlink(s, e) = RemoveAt(s, k)
    BY <1>1 DEF Unlink
  <2> HIDE DEF k
  <2> QED BY <2>1, <2>2, <2>3, RemoveAtLemma
<1>2. CASE e \notin Range(s)
  BY <1>2 DEF Unlink
<1> QED BY <1>1, <1>2

\* Taking the first element off a list without duplicates.
LEMMA HeadTailLemma ==
    ASSUME NEW S, NEW s \in Seq(S), s # <<>>, IsInjective(s)
    PROVE  /\ Head(s) \in Range(s)
           /\ Tail(s) \in Seq(S)
           /\ IsInjective(Tail(s))
           /\ Range(Tail(s)) = Range(s) \ {Head(s)}
<1> DEFINE t == Tail(s)
<1>1. /\ t \in Seq(S)
      /\ Len(t) = Len(s) - 1
      /\ \A i \in 1 .. Len(t) : t[i] = s[i + 1]
  BY HeadTailProperties
<1>2. /\ DOMAIN s = 1 .. Len(s) /\ Len(s) \in Nat /\ Range(s) = {s[i] : i \in 1 .. Len(s)}
      /\ DOMAIN t = 1 .. Len(t) /\ Len(t) \in Nat /\ Range(t) = {t[i] : i \in 1 .. Len(t)}
  BY <1>1, RangeSeq
<1>3. \A i, j \in 1 .. Len(s) : s[i] = s[j] => i = j
  BY <1>2 DEF IsInjective
<1>4. 1 \in 1 .. Len(s) /\ Head(s) = s[1]
  BY <1>1, <1>2
<1> HIDE DEF t
<1>5. \A i \in 1 .. Len(t) : i + 1 \in 1 .. Len(s) /\ i + 1 # 1
  BY <1>1, <1>2
<1>6. \A i \in 1 .. Len(s) : i # 1 => i - 1 \in 1 .. Len(t) /\ (i - 1) + 1 = i
  BY <1>1, <1>2
<1>7. IsInjective(t)
  BY <1>1, <1>2, <1>3, <1>5 DEF IsInjective
<1>8. Range(t) \subseteq Range(s) \ {Head(s)}
  BY <1>1, <1>2, <1>3, <1>4, <1>5
<1>9. Range(s) \ {Head(s)} \subseteq Range(t)
  <2> SUFFICES ASSUME NEW i \in 1 .. Len(s), i # 1
               PROVE  s[i] \in Range(t)
    BY <1>2, <1>4
  <2>1. i - 1 \in 1 .. Len(t) /\ t[i - 1] = s[i]
    BY <1>1, <1>6
  <2> QED BY <1>2, <2>1
<1> QED BY <1>1, <1>2, <1>4, <1>7, <1>8, <1>9 DEF t

-----------------------------------------------------------------------------
(* The order of a list.                                                    *)

\* The entry x comes before the entry y.
Prec(s, x, y) == \E i, j \in DOMAIN s : i < j /\ s[i] = x /\ s[j] = y

\* The entries of X that are on s stay on it in t, in their order.
Keeps(s, t, X) ==
    /\ \A x \in X : x \in Range(s) => x \in Range(t)
    /\ \A x, y \in X : Prec(s, x, y) => Prec(t, x, y)

\* Of two entries one comes before the other, and not the other before it.
LEMMA PrecOrder ==
    ASSUME NEW S, NEW s \in Seq(S), NEW x, NEW y
    PROVE  /\ Prec(s, x, y) => x \in Range(s) /\ y \in Range(s)
           /\ x \in Range(s) /\ y \in Range(s) /\ x # y => Prec(s, x, y) \/ Prec(s, y, x)
           /\ IsInjective(s) => ~(Prec(s, x, y) /\ Prec(s, y, x)) /\ ~Prec(s, x, x)
<1>1. DOMAIN s = 1 .. Len(s) /\ Len(s) \in Nat
  BY LenProperties
<1>2. Prec(s, x, y) => x \in Range(s) /\ y \in Range(s)
  BY DEF Prec, Range
<1>3. ASSUME x \in Range(s), y \in Range(s), x # y PROVE Prec(s, x, y) \/ Prec(s, y, x)
  <2>1. PICK i \in DOMAIN s : s[i] = x
    BY <1>3 DEF Range
  <2>2. PICK j \in DOMAIN s : s[j] = y
    BY <1>3 DEF Range
  <2>3. i < j \/ j < i
    BY <1>1, <1>3, <2>1, <2>2
  <2> QED BY <2>1, <2>2, <2>3 DEF Prec
<1>4. ASSUME IsInjective(s) PROVE ~(Prec(s, x, y) /\ Prec(s, y, x)) /\ ~Prec(s, x, x)
  <2>1. \A i, j \in 1 .. Len(s) : s[i] = s[j] => i = j
    BY <1>1, <1>4 DEF IsInjective
  <2> QED BY <1>1, <2>1 DEF Prec
<1> QED BY <1>2, <1>3, <1>4

\* list_del keeps every other entry in its place.
LEMMA KeepsOthers ==
    ASSUME NEW S, NEW s \in Seq(S), NEW e, NEW X, e \notin X
    PROVE  Keeps(s, Unlink(s, e), X)
<1>1. CASE e \notin Range(s)
  BY <1>1 DEF Unlink, Keeps
<1>2. CASE e \in Range(s)
  <2>1. PICK k \in DOMAIN s : s[k] = e /\ Unlink(s, e) = RemoveAt(s, k)
    BY <1>2 DEF Unlink, Range
  <2>2. DOMAIN s = 1 .. Len(s) /\ Len(s) \in Nat /\ k \in 1 .. Len(s)
    BY <2>1, LenProperties
  <2> DEFINE t == RemoveAt(s, k)
             to(i) == IF i < k THEN i ELSE i - 1
  <2>3. /\ t \in Seq(S) /\ Len(t) = Len(s) - 1
        /\ \A i \in 1 .. Len(s) - 1 : t[i] = IF i < k THEN s[i] ELSE s[i + 1]
    BY <2>2, RemoveAtSeq
  <2> HIDE DEF t
  <2>4. DOMAIN t = 1 .. Len(s) - 1
    BY <2>3, LenProperties
  <2>5. \A i \in DOMAIN s : i # k => to(i) \in DOMAIN t /\ t[to(i)] = s[i]
    <3> SUFFICES ASSUME NEW i \in 1 .. Len(s), i # k PROVE to(i) \in DOMAIN t /\ t[to(i)] = s[i]
      BY <2>2
    <3>1. CASE i < k
      BY <2>2, <2>3, <2>4, <3>1
    <3>2. CASE ~(i < k)
      <4>1. i - 1 \in 1 .. Len(s) - 1 /\ ~(i - 1 < k) /\ (i - 1) + 1 = i
        BY <2>2, <3>2
      <4> QED BY <2>3, <2>4, <3>2, <4>1
    <3> QED BY <3>1, <3>2
  <2>6. \A i, j \in DOMAIN s : i < j /\ i # k /\ j # k => to(i) < to(j)
    BY <2>2
  <2> HIDE DEF to
  <2>7. \A x \in X : x \in Range(s) => x \in Range(t)
    BY <2>1, <2>5 DEF Range
  <2>8. ASSUME NEW x \in X, NEW y \in X, Prec(s, x, y) PROVE Prec(t, x, y)
    <3>1. PICK i, j \in DOMAIN s : i < j /\ s[i] = x /\ s[j] = y
      BY <2>8 DEF Prec
    <3>2. i # k /\ j # k
      BY <2>1, <3>1
    <3> QED BY <2>5, <2>6, <3>1, <3>2 DEF Prec
  <2> QED BY <2>1, <2>7, <2>8 DEF Keeps, t
<1> QED BY <1>1, <1>2

\* list_add_tail puts the element after all the others.
LEMMA AppendOrder ==
    ASSUME NEW S, NEW s \in Seq(S), NEW e \in S, NEW x, NEW y
    PROVE  Prec(Append(s, e), x, y) <=> Prec(s, x, y) \/ (x \in Range(s) /\ y = e)
<1> DEFINE t == Append(s, e)
<1>1. /\ t \in Seq(S) /\ Len(t) = Len(s) + 1 /\ t[Len(s) + 1] = e
      /\ \A i \in 1 .. Len(s) : t[i] = s[i]
  BY AppendProperties
<1>2. /\ DOMAIN s = 1 .. Len(s) /\ Len(s) \in Nat
      /\ DOMAIN t = 1 .. Len(s) + 1
  BY <1>1, LenProperties
<1> HIDE DEF t
<1>3. ASSUME Prec(t, x, y) PROVE Prec(s, x, y) \/ (x \in Range(s) /\ y = e)
  <2>1. PICK i, j \in DOMAIN t : i < j /\ t[i] = x /\ t[j] = y
    BY <1>3 DEF Prec
  <2>2. i \in DOMAIN s /\ s[i] = x
    BY <1>1, <1>2, <2>1
  <2>3. CASE j = Len(s) + 1
    BY <1>1, <2>1, <2>2, <2>3 DEF Range
  <2>4. CASE j # Len(s) + 1
    <3>1. j \in DOMAIN s /\ s[j] = y
      BY <1>1, <1>2, <2>1, <2>4
    <3> QED BY <2>1, <2>2, <3>1 DEF Prec
  <2> QED BY <2>3, <2>4
<1>4. ASSUME Prec(s, x, y) PROVE Prec(t, x, y)
  <2>1. PICK i, j \in DOMAIN s : i < j /\ s[i] = x /\ s[j] = y
    BY <1>4 DEF Prec
  <2>2. i \in DOMAIN t /\ j \in DOMAIN t /\ t[i] = x /\ t[j] = y
    BY <1>1, <1>2, <2>1
  <2> QED BY <2>1, <2>2 DEF Prec
<1>5. ASSUME x \in Range(s), y = e PROVE Prec(t, x, y)
  <2>1. PICK i \in DOMAIN s : s[i] = x
    BY <1>5 DEF Range
  <2>2. i \in DOMAIN t /\ t[i] = x /\ i < Len(s) + 1 /\ Len(s) + 1 \in DOMAIN t
    BY <1>1, <1>2, <2>1
  <2> QED BY <1>1, <1>5, <2>2 DEF Prec
<1> QED BY <1>3, <1>4, <1>5 DEF t

\* list_del of the element at a position brings no two others out of order.
LEMMA RemoveAtOrder ==
    ASSUME NEW S, NEW s \in Seq(S), NEW k \in 1 .. Len(s), NEW x, NEW y, Prec(RemoveAt(s, k), x, y)
    PROVE  Prec(s, x, y)
<1> DEFINE t == RemoveAt(s, k)
           from(i) == IF i < k THEN i ELSE i + 1
<1>1. /\ t \in Seq(S) /\ Len(t) = Len(s) - 1
      /\ \A i \in 1 .. Len(s) - 1 : t[i] = IF i < k THEN s[i] ELSE s[i + 1]
  BY RemoveAtSeq
<1>2. DOMAIN s = 1 .. Len(s) /\ Len(s) \in Nat /\ DOMAIN t = 1 .. Len(s) - 1
  BY <1>1, LenProperties
<1>3. PICK i, j \in DOMAIN t : i < j /\ t[i] = x /\ t[j] = y
  BY DEF Prec
<1> HIDE DEF t
<1>4. from(i) \in DOMAIN s /\ from(j) \in DOMAIN s /\ from(i) < from(j)
  BY <1>2, <1>3
<1>5. s[from(i)] = x /\ s[from(j)] = y
  BY <1>1, <1>2, <1>3
<1> QED BY <1>4, <1>5 DEF Prec

\* Nor does list_del of an element, wherever it is.
LEMMA UnlinkOrder ==
    ASSUME NEW S, NEW s \in Seq(S), NEW e, NEW x, NEW y, Prec(Unlink(s, e), x, y)
    PROVE  Prec(s, x, y)
<1>1. CASE e \in Range(s)
  <2>1. PICK k \in DOMAIN s : Unlink(s, e) = RemoveAt(s, k)
    BY <1>1 DEF Unlink, Range
  <2>2. k \in 1 .. Len(s)
    BY <2>1, LenProperties
  <2> QED BY <2>1, <2>2, RemoveAtOrder
<1>2. CASE e \notin Range(s)
  BY <1>2 DEF Unlink
<1> QED BY <1>1, <1>2

\* Taking the first element off brings no two others out of order.
LEMMA TailOrder ==
    ASSUME NEW S, NEW s \in Seq(S), s # <<>>, NEW x, NEW y, Prec(Tail(s), x, y)
    PROVE  Prec(s, x, y)
<1> DEFINE t == Tail(s)
<1>1. /\ t \in Seq(S) /\ Len(t) = Len(s) - 1
      /\ \A i \in 1 .. Len(t) : t[i] = s[i + 1]
  BY HeadTailProperties
<1>2. DOMAIN s = 1 .. Len(s) /\ Len(s) \in Nat /\ DOMAIN t = 1 .. Len(t)
  BY <1>1, LenProperties
<1>3. PICK i, j \in DOMAIN t : i < j /\ t[i] = x /\ t[j] = y
  BY DEF Prec
<1> HIDE DEF t
<1>4. /\ i + 1 \in DOMAIN s /\ j + 1 \in DOMAIN s /\ i + 1 < j + 1
      /\ s[i + 1] = x /\ s[j + 1] = y
  BY <1>1, <1>2, <1>3
<1> QED BY <1>4 DEF Prec

-----------------------------------------------------------------------------
(* Rings.                                                                  *)

\* The k-th node of the ring with the head h and the entries s.
Nth(s, h, k) == IF k \in DOMAIN s THEN s[k] ELSE h

\* In that ring y comes right after x.
Adjacent(s, h, x, y) == \E k \in 0 .. Len(s) : x = Nth(s, h, k) /\ y = Nth(s, h, k + 1)

\* A ring holds its head and its entries, and each has one before and one behind it.
LEMMA RingNodes ==
    ASSUME NEW S, NEW s \in Seq(S), NEW h
    PROVE  /\ \A x, y : Adjacent(s, h, x, y) => x \in {h} \cup Range(s) /\ y \in {h} \cup Range(s)
           /\ \A x \in {h} \cup Range(s) : /\ \E y : Adjacent(s, h, x, y)
                                           /\ \E y : Adjacent(s, h, y, x)
<1>1. DOMAIN s = 1 .. Len(s) /\ Len(s) \in Nat /\ Range(s) = {s[i] : i \in 1 .. Len(s)}
  BY RangeSeq
<1>2. \A k : Nth(s, h, k) \in {h} \cup Range(s)
  BY <1>1 DEF Nth
<1>3. ASSUME NEW k \in 0 .. Len(s) PROVE Adjacent(s, h, Nth(s, h, k), Nth(s, h, k + 1))
  BY DEF Adjacent
<1>4. \E y : Adjacent(s, h, h, y)
  <2>1. 0 \in 0 .. Len(s) /\ Nth(s, h, 0) = h
    BY <1>1 DEF Nth
  <2> QED BY <1>3, <2>1
<1>5. \E y : Adjacent(s, h, y, h)
  <2>1. Len(s) \in 0 .. Len(s) /\ Nth(s, h, Len(s) + 1) = h
    BY <1>1 DEF Nth
  <2> QED BY <1>3, <2>1
<1>6. ASSUME NEW i \in 1 .. Len(s)
      PROVE  (\E y : Adjacent(s, h, s[i], y)) /\ (\E y : Adjacent(s, h, y, s[i]))
  <2>1. i \in 0 .. Len(s) /\ i - 1 \in 0 .. Len(s) /\ (i - 1) + 1 = i /\ Nth(s, h, i) = s[i]
    BY <1>1 DEF Nth
  <2>2. Adjacent(s, h, s[i], Nth(s, h, i + 1))
    BY <1>3, <2>1
  <2>3. Adjacent(s, h, Nth(s, h, i - 1), s[i])
    BY <1>3, <2>1
  <2> QED BY <2>2, <2>3
<1>7. \A x, y : Adjacent(s, h, x, y) => x \in {h} \cup Range(s) /\ y \in {h} \cup Range(s)
  BY <1>2 DEF Adjacent
<1>8. ASSUME NEW x \in {h} \cup Range(s)
      PROVE  (\E y : Adjacent(s, h, x, y)) /\ (\E y : Adjacent(s, h, y, x))
  BY <1>1, <1>4, <1>5, <1>6, <1>8
<1> QED BY <1>7, <1>8

\* When no entry is twice on the list, only one comes right before a node and only one right behind it.
LEMMA RingUnique ==
    ASSUME NEW S, NEW s \in Seq(S), NEW h, IsInjective(s), h \notin Range(s), NEW x, NEW y, NEW z
    PROVE  /\ Adjacent(s, h, x, y) /\ Adjacent(s, h, x, z) => y = z
           /\ Adjacent(s, h, y, x) /\ Adjacent(s, h, z, x) => y = z
<1>1. DOMAIN s = 1 .. Len(s) /\ Len(s) \in Nat /\ Range(s) = {s[i] : i \in 1 .. Len(s)}
  BY RangeSeq
<1>2. \A i, j \in 1 .. Len(s) : s[i] = s[j] => i = j
  BY <1>1 DEF IsInjective
<1>3. \A i \in 1 .. Len(s) : s[i] # h
  BY <1>1
<1>4. ASSUME NEW i \in 0 .. Len(s), NEW j \in 0 .. Len(s)
      PROVE  /\ Nth(s, h, i) = Nth(s, h, j) => i = j
             /\ Nth(s, h, i + 1) = Nth(s, h, j + 1) => i = j
  <2>1. ASSUME Nth(s, h, i) = Nth(s, h, j) PROVE i = j
    <3>1. CASE i = 0 \/ j = 0
      BY <1>1, <1>3, <2>1, <3>1 DEF Nth
    <3>2. CASE i # 0 /\ j # 0
      <4>1. i \in 1 .. Len(s) /\ j \in 1 .. Len(s)
        BY <1>1, <3>2
      <4> QED BY <1>1, <1>2, <2>1, <4>1 DEF Nth
    <3> QED BY <3>1, <3>2
  <2>2. ASSUME Nth(s, h, i + 1) = Nth(s, h, j + 1) PROVE i = j
    <3>0. Len(s) \in Nat
      BY <1>1
    <3>a. /\ i + 1 \in 1 .. Len(s) \/ (i = Len(s) /\ i + 1 \notin 1 .. Len(s))
          /\ j + 1 \in 1 .. Len(s) \/ (j = Len(s) /\ j + 1 \notin 1 .. Len(s))
      BY <3>0
    <3>1. CASE i = Len(s) \/ j = Len(s)
      <4>1. \A k : Nth(s, h, k) = h <=> k \notin 1 .. Len(s)
        BY <1>1, <1>3 DEF Nth
      <4>2. i + 1 \notin 1 .. Len(s) /\ j + 1 \notin 1 .. Len(s)
        BY <2>2, <3>0, <3>1, <4>1
      <4> QED BY <3>a, <4>2
    <3>2. CASE i # Len(s) /\ j # Len(s)
      <4>1. i + 1 \in 1 .. Len(s) /\ j + 1 \in 1 .. Len(s)
        BY <3>2, <3>a
      <4>2. i + 1 = j + 1
        BY <1>1, <1>2, <2>2, <4>1 DEF Nth
      <4> QED BY <1>1, <4>2
    <3> QED BY <3>1, <3>2
  <2> QED BY <2>1, <2>2
<1>5. ASSUME Adjacent(s, h, x, y), Adjacent(s, h, x, z) PROVE y = z
  BY <1>4, <1>5 DEF Adjacent
<1>6. ASSUME Adjacent(s, h, y, x), Adjacent(s, h, z, x) PROVE y = z
  BY <1>4, <1>6 DEF Adjacent
<1> QED BY <1>5, <1>6

\* Of two lists one behind the other, the last entry of the first list and the first
\* of the second are neighbours, and the others are neighbours as before.
LEMMA RingConcat ==
    ASSUME NEW S, NEW s \in Seq(S), NEW t \in Seq(S), NEW h, h \notin S, NEW x, NEW y
    PROVE  Adjacent(s \o t, h, x, y) <=>
             \/ Adjacent(s, h, x, y) /\ y # h
             \/ Adjacent(s, h, x, h) /\ Adjacent(t, h, h, y)
             \/ Adjacent(t, h, x, y) /\ x # h
<1> DEFINE u == s \o t
           m == Len(s)
           n == Len(t)
<1>1. /\ m \in Nat /\ n \in Nat /\ u \in Seq(S) /\ Len(u) = m + n
      /\ \A i \in 1 .. m + n : u[i] = IF i <= m THEN s[i] ELSE t[i - m]
      /\ DOMAIN s = 1 .. m /\ DOMAIN t = 1 .. n /\ DOMAIN u = 1 .. m + n
      /\ \A i \in 1 .. m : s[i] \in S
      /\ \A i \in 1 .. n : t[i] \in S
  BY ConcatProperties, LenProperties, ElementOfSeq
<1> HIDE DEF u, m, n
<1>2. /\ \A k \in 0 .. m : Nth(u, h, k) = Nth(s, h, k)
      /\ \A k \in m + 1 .. m + n + 1 : Nth(u, h, k) = Nth(t, h, k - m)
  <2>1. ASSUME NEW k \in 0 .. m PROVE Nth(u, h, k) = Nth(s, h, k)
    BY <1>1 DEF Nth
  <2>2. ASSUME NEW k \in m + 1 .. m + n + 1 PROVE Nth(u, h, k) = Nth(t, h, k - m)
    BY <1>1 DEF Nth
  <2> QED BY <2>1, <2>2
<1>3. /\ Nth(s, h, 0) = h /\ Nth(s, h, m + 1) = h /\ Nth(t, h, 0) = h /\ Nth(t, h, n + 1) = h
      /\ \A k \in 1 .. m : Nth(s, h, k) # h
      /\ \A k \in 1 .. n : Nth(t, h, k) # h
  BY <1>1 DEF Nth
<1>4. ASSUME NEW k \in 0 .. m + n, x = Nth(u, h, k), y = Nth(u, h, k + 1)
      PROVE  \/ Adjacent(s, h, x, y) /\ y # h
             \/ Adjacent(s, h, x, h) /\ Adjacent(t, h, h, y)
             \/ Adjacent(t, h, x, y) /\ x # h
  <2>1. CASE k < m
    <3>1. k \in 0 .. m /\ k + 1 \in 0 .. m /\ k + 1 \in 1 .. m
      BY <1>1, <2>1
    <3>2. x = Nth(s, h, k) /\ y = Nth(s, h, k + 1) /\ y # h
      BY <1>2, <1>3, <1>4, <3>1
    <3> QED BY <3>1, <3>2 DEF Adjacent, m
  <2>2. CASE k = m
    <3>1. k \in 0 .. m /\ k + 1 \in m + 1 .. m + n + 1 /\ (k + 1) - m = 1 /\ 0 \in 0 .. n /\ 0 + 1 = 1
      BY <1>1, <2>2
    <3>2. x = Nth(s, h, m) /\ h = Nth(s, h, m + 1) /\ h = Nth(t, h, 0) /\ y = Nth(t, h, 0 + 1)
      BY <1>2, <1>3, <1>4, <2>2, <3>1
    <3>3. Adjacent(s, h, x, h)
      BY <2>2, <3>1, <3>2 DEF Adjacent, m
    <3>4. Adjacent(t, h, h, y)
      BY <3>1, <3>2 DEF Adjacent, n
    <3> QED BY <3>3, <3>4
  <2>3. CASE k > m
    <3>1. /\ k \in m + 1 .. m + n + 1 /\ k + 1 \in m + 1 .. m + n + 1
          /\ k - m \in 0 .. n /\ k - m \in 1 .. n /\ (k + 1) - m = (k - m) + 1
      BY <1>1, <2>3
    <3>2. x = Nth(t, h, k - m) /\ y = Nth(t, h, (k - m) + 1) /\ x # h
      BY <1>2, <1>3, <1>4, <3>1
    <3> QED BY <3>1, <3>2 DEF Adjacent, n
  <2> QED BY <1>1, <2>1, <2>2, <2>3
<1>5. ASSUME NEW k \in 0 .. m + n PROVE Adjacent(u, h, Nth(u, h, k), Nth(u, h, k + 1))
  BY <1>1, <1>5 DEF Adjacent
<1>6. ASSUME Adjacent(s, h, x, y), y # h PROVE Adjacent(u, h, x, y)
  <2>1. PICK k \in 0 .. m : x = Nth(s, h, k) /\ y = Nth(s, h, k + 1)
    BY <1>6 DEF Adjacent, m
  <2>2. k # m
    BY <1>3, <1>6, <2>1
  <2>3. k \in 0 .. m + n /\ k + 1 \in 0 .. m
    BY <1>1, <2>2
  <2> QED BY <1>2, <1>5, <2>1, <2>3
<1>7. ASSUME Adjacent(t, h, x, y), x # h PROVE Adjacent(u, h, x, y)
  <2>1. PICK k \in 0 .. n : x = Nth(t, h, k) /\ y = Nth(t, h, k + 1)
    BY <1>7 DEF Adjacent, n
  <2>2. k # 0
    BY <1>3, <1>7, <2>1
  <2>3. /\ k + m \in 0 .. m + n /\ k + m \in m + 1 .. m + n + 1 /\ (k + m) + 1 \in m + 1 .. m + n + 1
        /\ (k + m) - m = k /\ ((k + m) + 1) - m = k + 1
    BY <1>1, <2>2
  <2>4. Nth(u, h, k + m) = x /\ Nth(u, h, (k + m) + 1) = y
    BY <1>2, <2>1, <2>3
  <2> QED BY <1>5, <2>3, <2>4
<1>8. ASSUME Adjacent(s, h, x, h), Adjacent(t, h, h, y) PROVE Adjacent(u, h, x, y)
  <2>1. PICK i \in 0 .. m : x = Nth(s, h, i) /\ h = Nth(s, h, i + 1)
    BY <1>8 DEF Adjacent, m
  <2>2. PICK j \in 0 .. n : h = Nth(t, h, j) /\ y = Nth(t, h, j + 1)
    BY <1>8 DEF Adjacent, n
  <2>3. i = m
    <3>1. i + 1 \notin 1 .. m
      BY <1>3, <2>1
    <3> QED BY <1>1, <3>1
  <2>4. j = 0
    <3>1. j \notin 1 .. n
      BY <1>3, <2>2
    <3> QED BY <1>1, <3>1
  <2>5. m \in 0 .. m + n /\ m \in 0 .. m /\ m + 1 \in m + 1 .. m + n + 1 /\ (m + 1) - m = 0 + 1
    BY <1>1
  <2>6. Nth(u, h, m) = x /\ Nth(u, h, m + 1) = y
    BY <1>2, <2>1, <2>2, <2>3, <2>4, <2>5
  <2> QED BY <1>5, <2>5, <2>6
<1>9. Adjacent(u, h, x, y) => \E k \in 0 .. m + n : x = Nth(u, h, k) /\ y = Nth(u, h, k + 1)
  BY <1>1 DEF Adjacent
<1> QED BY <1>4, <1>6, <1>7, <1>8, <1>9 DEF u

\* The ring of no entry.
LEMMA RingEmpty == ASSUME NEW h, NEW x, NEW y PROVE Adjacent(<<>>, h, x, y) <=> x = h /\ y = h
<1>1. Len(<<>>) = 0 /\ DOMAIN <<>> = {} /\ \A k : k \in 0 .. 0 <=> k = 0
  OBVIOUS
<1> QED BY <1>1 DEF Adjacent, Nth

\* The ring of one entry.
LEMMA RingOne ==
    ASSUME NEW h, NEW e, NEW x, NEW y
    PROVE  Adjacent(<<e>>, h, x, y) <=> (x = h /\ y = e) \/ (x = e /\ y = h)
<1>1. Len(<<e>>) = 1 /\ DOMAIN <<e>> = {1} /\ <<e>>[1] = e /\ \A k : k \in 0 .. 1 <=> k = 0 \/ k = 1
  OBVIOUS
<1>2. Nth(<<e>>, h, 0) = h /\ Nth(<<e>>, h, 0 + 1) = e /\ Nth(<<e>>, h, 1) = e /\ Nth(<<e>>, h, 1 + 1) = h
  BY <1>1 DEF Nth
<1> QED BY <1>1, <1>2 DEF Adjacent

\* The entries of a list are neighbours in the same way under another head.
LEMMA RingHead ==
    ASSUME NEW S, NEW s \in Seq(S), NEW g, NEW h, g \notin S, NEW x, NEW y, Adjacent(s, g, x, y)
    PROVE  Adjacent(s, h, IF x = g THEN h ELSE x, IF y = g THEN h ELSE y)
<1>1. DOMAIN s = 1 .. Len(s) /\ \A i \in 1 .. Len(s) : s[i] # g
  BY LenProperties, ElementOfSeq
<1>2. PICK k \in 0 .. Len(s) : x = Nth(s, g, k) /\ y = Nth(s, g, k + 1)
  BY DEF Adjacent
<1>3. \A i : Nth(s, h, i) = IF Nth(s, g, i) = g THEN h ELSE Nth(s, g, i)
  BY <1>1 DEF Nth
<1> QED BY <1>2, <1>3 DEF Adjacent

\* An entry in the place of another.
Put(s, old, new) == [i \in DOMAIN s |-> IF s[i] = old THEN new ELSE s[i]]

\* An entry in the place of another has its neighbours.
LEMMA RingReplace ==
    ASSUME NEW S, NEW s \in Seq(S), NEW old, NEW new \in S, NEW h, h # old, NEW x, NEW y,
           Adjacent(Put(s, old, new), h, x, y)
    PROVE  \E a, b : /\ Adjacent(s, h, a, b)
                     /\ x = (IF a = old THEN new ELSE a) /\ y = (IF b = old THEN new ELSE b)
<1> DEFINE t == Put(s, old, new)
<1>1. DOMAIN s = 1 .. Len(s) /\ Len(s) \in Nat
  BY LenProperties
<1>2. DOMAIN t = 1 .. Len(s) /\ Len(t) = Len(s)
  <2>1. t = [i \in 1 .. Len(s) |-> IF s[i] = old THEN new ELSE s[i]]
    BY <1>1 DEF Put
  <2>2. \A i \in 1 .. Len(s) : (IF s[i] = old THEN new ELSE s[i]) \in S
    BY ElementOfSeq
  <2>3. t \in Seq(S)
    BY <1>1, <2>1, <2>2, IsASeq
  <2> QED BY <1>1, <2>1, <2>3, LenProperties
<1>3. \A i : Nth(t, h, i) = IF Nth(s, h, i) = old THEN new ELSE Nth(s, h, i)
  BY DEF Nth, Put
<1>4. PICK k \in 0 .. Len(s) : x = Nth(t, h, k) /\ y = Nth(t, h, k + 1)
  BY <1>2 DEF Adjacent
<1>5. Adjacent(s, h, Nth(s, h, k), Nth(s, h, k + 1))
  BY DEF Adjacent
<1> QED BY <1>3, <1>4, <1>5

\* The entry e between two parts of the list s, which list_del of it joins.
Between(s, p, e, q) == s = p \o (<<e>> \o q) /\ Unlink(s, e) = p \o q

\* A list falls apart at an entry, and list_del joins what is left of it.
LEMMA SplitAt ==
    ASSUME NEW S, NEW s \in Seq(S), NEW e \in Range(s)
    PROVE  \E p, q \in Seq(S) : Between(s, p, e, q)
<1> DEFINE k == CHOOSE i \in DOMAIN s : s[i] = e
           p == SubSeq(s, 1, k - 1)
           q == SubSeq(s, k + 1, Len(s))
<1>1. k \in DOMAIN s /\ s[k] = e
  BY DEF Range
<1>2. Len(s) \in Nat /\ k \in 1 .. Len(s) /\ e \in S
  BY <1>1, LenProperties, ElementOfSeq
<1>3. Unlink(s, e) = p \o q
  BY DEF Unlink, RemoveAt
<1> HIDE DEF k
<1>4. /\ p \in Seq(S) /\ Len(p) = k - 1 /\ \A i \in 1 .. k - 1 : p[i] = s[i]
  <2>1. k - 1 \in 0 .. Len(s)
    BY <1>2
  <2> QED BY <2>1, SubSeqPrefix
<1>5. /\ q \in Seq(S) /\ Len(q) = Len(s) - k /\ \A i \in 1 .. Len(s) - k : q[i] = s[k + i]
  <2>1. k \in 0 .. Len(s)
    BY <1>2
  <2> QED BY <2>1, SubSeqSuffix
<1> HIDE DEF p, q
<1>6. /\ <<e>> \o q \in Seq(S) /\ Len(<<e>> \o q) = Len(s) - k + 1
      /\ \A i \in 1 .. Len(s) - k + 1 : (<<e>> \o q)[i] = IF i <= 1 THEN e ELSE q[i - 1]
  <2>1. <<e>> \in Seq(S) /\ Len(<<e>>) = 1 /\ <<e>>[1] = e
    BY <1>2
  <2>2. 1 + (Len(s) - k) = Len(s) - k + 1
    BY <1>2
  <2>3. /\ <<e>> \o q \in Seq(S) /\ Len(<<e>> \o q) = 1 + (Len(s) - k)
        /\ \A i \in 1 .. 1 + (Len(s) - k) : (<<e>> \o q)[i] = IF i <= 1 THEN <<e>>[i] ELSE q[i - 1]
    BY <1>5, <2>1, ConcatProperties
  <2>4. \A i \in 1 .. Len(s) - k + 1 : i <= 1 => i = 1
    BY <1>2
  <2> QED BY <2>1, <2>2, <2>3, <2>4
<1> DEFINE r == <<e>> \o q
           t == p \o r
<1>7. r \in Seq(S) /\ Len(r) = Len(s) - k + 1 /\ \A i \in 1 .. Len(s) - k + 1 : r[i] = IF i <= 1 THEN e ELSE q[i - 1]
  BY <1>6
<1> HIDE DEF r
<1>8. /\ t \in Seq(S) /\ Len(t) = Len(s)
      /\ \A i \in 1 .. Len(s) : t[i] = IF i <= k - 1 THEN s[i] ELSE r[i - (k - 1)]
  <2>1. Len(p) + Len(r) = Len(s)
    BY <1>2, <1>4, <1>7
  <2>2. /\ t \in Seq(S) /\ Len(t) = Len(s)
        /\ \A i \in 1 .. Len(s) : t[i] = IF i <= k - 1 THEN p[i] ELSE r[i - (k - 1)]
    <3>1. p \in Seq(S) /\ r \in Seq(S) /\ Len(p) = k - 1
      BY <1>4, <1>7
    <3>2. /\ t \in Seq(S) /\ Len(t) = Len(p) + Len(r)
          /\ \A i \in 1 .. Len(p) + Len(r) : t[i] = IF i <= Len(p) THEN p[i] ELSE r[i - Len(p)]
      BY <3>1, ConcatProperties
    <3> QED BY <2>1, <3>1, <3>2
  <2>3. \A i \in 1 .. Len(s) : i <= k - 1 => i \in 1 .. k - 1
    BY <1>2
  <2> QED BY <1>4, <2>2, <2>3
<1> HIDE DEF t
<1>9. ASSUME NEW i \in 1 .. Len(s) PROVE t[i] = s[i]
  <2>1. CASE i <= k - 1
    BY <1>8, <2>1
  <2>2. CASE i = k
    <3>1. ~(i <= k - 1) /\ i - (k - 1) = 1 /\ 1 \in 1 .. Len(s) - k + 1
      BY <1>2, <2>2
    <3>2. t[i] = r[1]
      BY <1>8, <2>2, <3>1
    <3>3. r[1] = e
      BY <1>7, <3>1
    <3> QED BY <1>1, <2>2, <3>2, <3>3
  <2>3. CASE i > k
    <3>1. /\ ~(i <= k - 1) /\ i - (k - 1) \in 1 .. Len(s) - k + 1 /\ ~(i - (k - 1) <= 1)
          /\ (i - (k - 1)) - 1 = i - k /\ i - k \in 1 .. Len(s) - k /\ k + (i - k) = i
      BY <1>2, <2>3
    <3> QED BY <1>5, <1>7, <1>8, <3>1
  <2> QED BY <1>2, <2>1, <2>2, <2>3
<1>10. s = t
  BY <1>8, <1>9, SeqEqual
<1> QED BY <1>3, <1>4, <1>5, <1>10 DEF t, r, Between

\* No entry is twice on two lists together if it is on neither twice and not on both.
LEMMA InjectiveConcat ==
    ASSUME NEW S, NEW s \in Seq(S), NEW t \in Seq(S)
    PROVE  /\ s \o t \in Seq(S)
           /\ Range(s \o t) = Range(s) \cup Range(t)
           /\ IsInjective(s \o t) <=>
                IsInjective(s) /\ IsInjective(t) /\ Range(s) \cap Range(t) = {}
<1> DEFINE u == s \o t
           m == Len(s)
           n == Len(t)
<1>1. /\ m \in Nat /\ n \in Nat /\ u \in Seq(S) /\ Len(u) = m + n
      /\ \A i \in 1 .. m + n : u[i] = IF i <= m THEN s[i] ELSE t[i - m]
      /\ DOMAIN s = 1 .. m /\ DOMAIN t = 1 .. n /\ DOMAIN u = 1 .. m + n
  BY ConcatProperties, LenProperties
<1>2. Range(s) = {s[i] : i \in 1 .. m} /\ Range(t) = {t[i] : i \in 1 .. n}
  BY RangeSeq
<1>3. Range(u) = Range(s) \cup Range(t)
  BY RangeConcatenation
<1> HIDE DEF u, m, n
<1>4. m \in Nat /\ n \in Nat
  BY <1>1
<1>5. /\ \A i \in 1 .. m : i \in 1 .. m + n /\ u[i] = s[i]
      /\ \A i \in 1 .. n : i + m \in 1 .. m + n /\ u[i + m] = t[i]
  <2>1. ASSUME NEW i \in 1 .. m PROVE i \in 1 .. m + n /\ i <= m
    BY <1>4
  <2>2. ASSUME NEW i \in 1 .. n PROVE i + m \in 1 .. m + n /\ ~(i + m <= m) /\ (i + m) - m = i
    BY <1>4
  <2> QED BY <1>1, <2>1, <2>2
<1>6. \A i \in 1 .. m + n : i \in 1 .. m \/ (i - m \in 1 .. n /\ (i - m) + m = i)
  BY <1>4
<1>7. ASSUME IsInjective(u)
      PROVE  IsInjective(s) /\ IsInjective(t) /\ Range(s) \cap Range(t) = {}
  <2>1. \A i, j \in 1 .. m + n : u[i] = u[j] => i = j
    BY <1>1, <1>7 DEF IsInjective
  <2>2. IsInjective(s)
    BY <1>1, <1>5, <2>1 DEF IsInjective
  <2>3. ASSUME NEW i \in 1 .. n, NEW j \in 1 .. n, t[i] = t[j] PROVE i = j
    <3>1. i + m = j + m
      BY <1>5, <2>1, <2>3
    <3> QED BY <1>4, <3>1
  <2>4. ASSUME NEW i \in 1 .. m, NEW j \in 1 .. n PROVE s[i] # t[j]
    <3>1. i # j + m
      BY <1>4
    <3> QED BY <1>5, <2>1, <3>1
  <2> QED BY <1>1, <1>2, <2>2, <2>3, <2>4 DEF IsInjective
<1>8. ASSUME IsInjective(s), IsInjective(t), Range(s) \cap Range(t) = {}
      PROVE  IsInjective(u)
  <2>1. /\ \A i, j \in 1 .. m : s[i] = s[j] => i = j
        /\ \A i, j \in 1 .. n : t[i] = t[j] => i = j
        /\ \A i \in 1 .. m, j \in 1 .. n : s[i] # t[j]
    <3>1. /\ \A i, j \in 1 .. m : s[i] = s[j] => i = j
          /\ \A i, j \in 1 .. n : t[i] = t[j] => i = j
      BY <1>1, <1>8 DEF IsInjective
    <3>2. \A i \in 1 .. m, j \in 1 .. n : s[i] # t[j]
      BY <1>2, <1>8
    <3> QED BY <3>1, <3>2
  <2>2. ASSUME NEW i \in 1 .. m + n, NEW j \in 1 .. m + n, u[i] = u[j] PROVE i = j
    <3>1. CASE i \in 1 .. m /\ j \in 1 .. m
      BY <1>5, <2>1, <2>2, <3>1
    <3>2. CASE i \in 1 .. m /\ j \notin 1 .. m
      BY <1>5, <1>6, <2>1, <2>2, <3>2
    <3>3. CASE i \notin 1 .. m /\ j \in 1 .. m
      BY <1>5, <1>6, <2>1, <2>2, <3>3
    <3>4. CASE i \notin 1 .. m /\ j \notin 1 .. m
      <4>1. i - m = j - m
        BY <1>5, <1>6, <2>1, <2>2, <3>4
      <4> QED BY <1>4, <4>1
    <3> QED BY <3>1, <3>2, <3>3, <3>4
  <2> QED BY <1>1, <2>2 DEF IsInjective
<1> QED BY <1>1, <1>3, <1>7, <1>8 DEF u

\* A list of one entry.
LEMMA OneEntry ==
    ASSUME NEW S, NEW e \in S
    PROVE  <<e>> \in Seq(S) /\ Range(<<e>>) = {e} /\ IsInjective(<<e>>)
<1>1. <<e>> \in Seq(S) /\ DOMAIN <<e>> = {1} /\ <<e>>[1] = e
  OBVIOUS
<1> QED BY <1>1 DEF Range, IsInjective

\* An entry that list_add puts first.
LEMMA ConsLemma ==
    ASSUME NEW S, NEW s \in Seq(S), NEW e \in S, e \notin Range(s), IsInjective(s), NEW h, h \notin S
    PROVE  /\ Cons(e, s) \in Seq(S) /\ Range(Cons(e, s)) = Range(s) \cup {e} /\ IsInjective(Cons(e, s))
           /\ \A x, y : Adjacent(Cons(e, s), h, x, y) =>
                \/ x = h /\ y = e
                \/ x = e /\ Adjacent(s, h, h, y)
                \/ Adjacent(s, h, x, y) /\ x # h
<1>1. <<e>> \in Seq(S) /\ Range(<<e>>) = {e} /\ IsInjective(<<e>>)
  BY OneEntry
<1>2. /\ Cons(e, s) \in Seq(S) /\ Range(Cons(e, s)) = Range(<<e>>) \cup Range(s)
      /\ IsInjective(<<e>>) /\ IsInjective(s) /\ Range(<<e>>) \cap Range(s) = {} => IsInjective(Cons(e, s))
  BY <1>1, InjectiveConcat DEF Cons
<1>3. ASSUME NEW x, NEW y, Adjacent(Cons(e, s), h, x, y)
      PROVE  \/ x = h /\ y = e
             \/ x = e /\ Adjacent(s, h, h, y)
             \/ Adjacent(s, h, x, y) /\ x # h
  <2>1. \/ Adjacent(<<e>>, h, x, y) /\ y # h
        \/ Adjacent(<<e>>, h, x, h) /\ Adjacent(s, h, h, y)
        \/ Adjacent(s, h, x, y) /\ x # h
    BY <1>1, <1>3, RingConcat DEF Cons
  <2>2. e # h
    OBVIOUS
  <2>3. Adjacent(<<e>>, h, x, y) /\ y # h => x = h /\ y = e
    BY RingOne
  <2>4. Adjacent(<<e>>, h, x, h) => x = e
    BY <2>2, RingOne
  <2> QED BY <2>1, <2>3, <2>4
<1> QED BY <1>1, <1>2, <1>3

\* An entry that list_add_tail puts last comes between the one that was last and the head.
LEMMA RingAppend ==
    ASSUME NEW S, NEW s \in Seq(S), NEW e \in S, NEW h, h \notin S, NEW x, NEW y,
           Adjacent(Append(s, e), h, x, y)
    PROVE  \/ Adjacent(s, h, x, y) /\ y # h
           \/ Adjacent(s, h, x, h) /\ y = e
           \/ x = e /\ y = h
<1> DEFINE t == Append(s, e)
<1>1. <<e>> \in Seq(S) /\ e # h
  BY OneEntry
<1>2. t = s \o <<e>>
  BY AppendIsConcat
<1>3. Adjacent(t, h, x, y)
  OBVIOUS
<1> HIDE DEF t
<1>4. \/ Adjacent(s, h, x, y) /\ y # h
      \/ Adjacent(s, h, x, h) /\ Adjacent(<<e>>, h, h, y)
      \/ Adjacent(<<e>>, h, x, y) /\ x # h
  BY <1>1, <1>2, <1>3, RingConcat
<1>5. Adjacent(<<e>>, h, x, y) /\ x # h => x = e /\ y = h
  BY RingOne
<1>6. Adjacent(<<e>>, h, h, y) => y = e
  BY <1>1, RingOne
<1> QED BY <1>4, <1>5, <1>6

\* Behind an entry that list_del takes off comes the one that was behind it.
LEMMA RingUnlink ==
    ASSUME NEW S, NEW s \in Seq(S), NEW h, h \notin S, IsInjective(s), NEW e \in Range(s), NEW x, NEW y,
           Adjacent(Unlink(s, e), h, x, y)
    PROVE  \/ Adjacent(s, h, x, y) /\ x # e /\ y # e
           \/ Adjacent(s, h, x, e) /\ Adjacent(s, h, e, y)
<1>1. PICK p \in Seq(S), q \in Seq(S) : Between(s, p, e, q)
  BY SplitAt
<1>2. Range(s) \subseteq S /\ e \in S /\ e # h
  BY RangeSeq
<1>3. <<e>> \in Seq(S) /\ <<e>> \o q \in Seq(S)
  BY <1>2, OneEntry, InjectiveConcat
<1>4. x # e /\ y # e
  BY <1>2, UnlinkLemma, RingNodes
<1>5. \A a, b : Adjacent(<<e>> \o q, h, a, b) <=>
        \/ Adjacent(<<e>>, h, a, b) /\ b # h
        \/ Adjacent(<<e>>, h, a, h) /\ Adjacent(q, h, h, b)
        \/ Adjacent(q, h, a, b) /\ a # h
  BY <1>2, <1>3, RingConcat
<1>6. /\ Adjacent(<<e>> \o q, h, h, e)
      /\ \A b : Adjacent(q, h, h, b) => Adjacent(<<e>> \o q, h, e, b)
      /\ \A a, b : Adjacent(q, h, a, b) /\ a # h => Adjacent(<<e>> \o q, h, a, b)
  BY <1>2, <1>5, RingOne
<1>7. \A a, b : Adjacent(s, h, a, b) <=>
        \/ Adjacent(p, h, a, b) /\ b # h
        \/ Adjacent(p, h, a, h) /\ Adjacent(<<e>> \o q, h, h, b)
        \/ Adjacent(<<e>> \o q, h, a, b) /\ a # h
  BY <1>1, <1>3, RingConcat DEF Between
<1>8. \/ Adjacent(p, h, x, y) /\ y # h
      \/ Adjacent(p, h, x, h) /\ Adjacent(q, h, h, y)
      \/ Adjacent(q, h, x, y) /\ x # h
  <2>1. Adjacent(p \o q, h, x, y)
    BY <1>1 DEF Between
  <2> QED BY <2>1, RingConcat
<1> QED BY <1>2, <1>4, <1>6, <1>7, <1>8

\* The first entry of a list taken off.
LEMMA UnlinkHead ==
    ASSUME NEW S, NEW s \in Seq(S), s # <<>>, IsInjective(s), NEW h
    PROVE  Unlink(s, Head(s)) = Tail(s) /\ Adjacent(s, h, h, Head(s))
<1>1. /\ Len(s) \in Nat /\ Len(s) # 0 /\ DOMAIN s = 1 .. Len(s)
      /\ Head(s) = s[1] /\ Tail(s) \in Seq(S) /\ Len(Tail(s)) = Len(s) - 1
      /\ \A i \in 1 .. Len(s) - 1 : Tail(s)[i] = s[i + 1]
  BY HeadTailProperties, LenProperties, EmptySeq
<1>2. 1 \in 1 .. Len(s) /\ 0 \in 0 .. Len(s) /\ 0 \notin 1 .. Len(s) /\ 0 + 1 = 1
  BY <1>1
<1>3. (CHOOSE i \in DOMAIN s : s[i] = Head(s)) = 1 /\ Head(s) \in Range(s)
  BY <1>1, <1>2 DEF IsInjective, Range
<1>4. Unlink(s, Head(s)) = RemoveAt(s, 1)
  BY <1>3 DEF Unlink
<1>5. /\ RemoveAt(s, 1) \in Seq(S) /\ Len(RemoveAt(s, 1)) = Len(s) - 1
      /\ \A i \in 1 .. Len(s) - 1 : RemoveAt(s, 1)[i] = s[i + 1]
  <2>1. \A i \in 1 .. Len(s) - 1 : ~(i < 1)
    BY <1>1
  <2> QED BY <1>2, <2>1, RemoveAtSeq
<1>6. RemoveAt(s, 1) = Tail(s)
  BY <1>1, <1>5, SeqEqual
<1>7. Adjacent(s, h, h, Head(s))
  BY <1>1, <1>2 DEF Adjacent, Nth
<1> QED BY <1>4, <1>6, <1>7

\* The list of an empty range.
LEMMA EmptyRange == Range(<<>>) = {} /\ IsInjective(<<>>)
BY DEF Range, IsInjective

\* The head of a list that is not empty is not next to itself.
LEMMA RingNonempty ==
    ASSUME NEW S, NEW s \in Seq(S), s # <<>>, NEW h, h \notin S
    PROVE  ~Adjacent(s, h, h, h)
<1>1. Len(s) \in Nat /\ Len(s) # 0 /\ DOMAIN s = 1 .. Len(s) /\ \A i \in 1 .. Len(s) : s[i] # h
  BY LenProperties, ElementOfSeq, EmptySeq
<1>2. \A k \in 0 .. Len(s) : k \in 1 .. Len(s) \/ k + 1 \in 1 .. Len(s)
  BY <1>1
<1> QED BY <1>1, <1>2 DEF Adjacent, Nth

\* A list in front of another that has another head.
LEMMA SpliceFront ==
    ASSUME NEW S, NEW s \in Seq(S), NEW t \in Seq(S), t # <<>>, NEW g, NEW h, g \notin S, h \notin S,
           NEW x, NEW y, Adjacent(t \o s, h, x, y)
    PROVE  \/ Adjacent(s, h, x, y) /\ x # h
           \/ x = h /\ Adjacent(t, g, g, y)
           \/ Adjacent(t, g, x, g) /\ Adjacent(s, h, h, y)
           \/ Adjacent(t, g, x, y) /\ x # g /\ y # g
<1>1. \/ Adjacent(t, h, x, y) /\ y # h
      \/ Adjacent(t, h, x, h) /\ Adjacent(s, h, h, y)
      \/ Adjacent(s, h, x, y) /\ x # h
  BY RingConcat
<1>2. Range(t) \subseteq S
  BY RangeSeq
<1>3. CASE Adjacent(t, h, x, y) /\ y # h
  <2>1. Adjacent(t, g, IF x = h THEN g ELSE x, IF y = h THEN g ELSE y)
    BY <1>3, RingHead
  <2>2. x \in {h} \cup Range(t) /\ y \in {h} \cup Range(t)
    BY <1>3, RingNodes
  <2> QED BY <1>2, <1>3, <2>1, <2>2
<1>4. CASE Adjacent(t, h, x, h) /\ Adjacent(s, h, h, y)
  <2>1. x # h
    BY <1>4, RingNonempty
  <2>2. Adjacent(t, g, IF x = h THEN g ELSE x, IF h = h THEN g ELSE h)
    BY <1>4, RingHead
  <2> QED BY <1>4, <2>1, <2>2
<1> QED BY <1>1, <1>3, <1>4

\* A list behind another that has another head.
LEMMA SpliceBack ==
    ASSUME NEW S, NEW s \in Seq(S), NEW t \in Seq(S), t # <<>>, NEW g, NEW h, g \notin S, h \notin S,
           NEW x, NEW y, Adjacent(s \o t, h, x, y)
    PROVE  \/ Adjacent(s, h, x, y) /\ y # h
           \/ Adjacent(s, h, x, h) /\ Adjacent(t, g, g, y)
           \/ Adjacent(t, g, x, g) /\ y = h
           \/ Adjacent(t, g, x, y) /\ x # g /\ y # g
<1>1. \/ Adjacent(s, h, x, y) /\ y # h
      \/ Adjacent(s, h, x, h) /\ Adjacent(t, h, h, y)
      \/ Adjacent(t, h, x, y) /\ x # h
  BY RingConcat
<1>2. Range(t) \subseteq S
  BY RangeSeq
<1>3. CASE Adjacent(t, h, x, y) /\ x # h
  <2>1. Adjacent(t, g, IF x = h THEN g ELSE x, IF y = h THEN g ELSE y)
    BY <1>3, RingHead
  <2>2. x \in {h} \cup Range(t) /\ y \in {h} \cup Range(t)
    BY <1>3, RingNodes
  <2> QED BY <1>2, <1>3, <2>1, <2>2
<1>4. CASE Adjacent(s, h, x, h) /\ Adjacent(t, h, h, y)
  <2>1. y # h
    BY <1>4, RingNonempty
  <2>2. Adjacent(t, g, IF h = h THEN g ELSE h, IF y = h THEN g ELSE y)
    BY <1>4, RingHead
  <2> QED BY <1>4, <2>1, <2>2
<1> QED BY <1>1, <1>3, <1>4

\* The two parts of a list.
LEMMA InjectiveParts ==
    ASSUME NEW S, NEW s \in Seq(S), NEW p \in Seq(S), NEW q \in Seq(S), s = p \o q, IsInjective(s)
    PROVE  Range(s) = Range(p) \cup Range(q) /\ IsInjective(p) /\ IsInjective(q) /\ Range(p) \cap Range(q) = {}
<1> DEFINE u == p \o q
<1>1. /\ u \in Seq(S) /\ Range(u) = Range(p) \cup Range(q)
      /\ IsInjective(u) <=> IsInjective(p) /\ IsInjective(q) /\ Range(p) \cap Range(q) = {}
  BY InjectiveConcat
<1>2. u = s
  OBVIOUS
<1> HIDE DEF u
<1> QED BY <1>1, <1>2

\* The two parts of a list cut behind its k-th entry.
CutAt(s, k, p, q) == p = SubSeq(s, 1, k) /\ q = SubSeq(s, k + 1, Len(s))

\* A list cut behind its k-th entry, the first part of it under the head g.
LEMMA CutRing ==
    ASSUME NEW S, NEW s \in Seq(S), IsInjective(s), NEW k \in 1 .. Len(s),
           NEW g, NEW h, g \notin S, h \notin S,
           NEW p, NEW q, CutAt(s, k, p, q)
    PROVE  /\ p \in Seq(S) /\ q \in Seq(S) /\ IsInjective(p) /\ IsInjective(q)
           /\ Range(s) = Range(p) \cup Range(q) /\ Range(p) \cap Range(q) = {} /\ s[k] \in Range(p)
           /\ \A x, y : Adjacent(p, g, x, y) =>
                \/ x # g /\ y # g /\ x # s[k] /\ Adjacent(s, h, x, y)
                \/ x = g /\ Adjacent(s, h, h, y)
                \/ x = s[k] /\ y = g
           /\ \A x, y : Adjacent(q, h, x, y) =>
                (x # h /\ Adjacent(s, h, x, y)) \/ (x = h /\ Adjacent(s, h, s[k], y))
<1> DEFINE n == Len(s)
<1>1. /\ n \in Nat /\ k \in Nat /\ k >= 1 /\ k <= n /\ k \in 0 .. n
      /\ DOMAIN s = 1 .. n /\ \A i \in 1 .. n : s[i] \in S
  BY LenProperties, ElementOfSeq
<1>2. p \in Seq(S) /\ Len(p) = k /\ \A i \in 1 .. k : p[i] = s[i]
  BY <1>1, SubSeqPrefix DEF CutAt
<1>3. q \in Seq(S) /\ Len(q) = n - k /\ \A i \in 1 .. n - k : q[i] = s[k + i]
  BY <1>1, SubSeqSuffix DEF CutAt
<1>4. DOMAIN p = 1 .. k /\ DOMAIN q = 1 .. n - k
  BY <1>2, <1>3, LenProperties
<1>5. s = p \o q
  <2>1. 1 \in 1 .. n + 1 /\ k \in 0 .. n /\ n \in k .. n /\ 1 - 1 = 0
    BY <1>1
  <2>2. SubSeq(s, 1, k) \o SubSeq(s, k + 1, n) = SubSeq(s, 1, n)
    BY <2>1, ConcatAdjacentSubSeq
  <2>3. n \in 0 .. n
    BY <1>1
  <2>4. SubSeq(s, 1, n) \in Seq(S) /\ Len(SubSeq(s, 1, n)) = n /\ \A i \in 1 .. n : SubSeq(s, 1, n)[i] = s[i]
    BY <2>3, SubSeqPrefix
  <2>5. SubSeq(s, 1, n) = s
    BY <2>4, SeqEqual
  <2> QED BY <2>2, <2>5 DEF CutAt
<1>6. Range(s) = Range(p) \cup Range(q) /\ IsInjective(p) /\ IsInjective(q) /\ Range(p) \cap Range(q) = {}
  BY <1>2, <1>3, <1>5, InjectiveParts
<1>7. s[k] \in Range(p)
  <2>1. k \in 1 .. k
    BY <1>1
  <2> QED BY <1>2, <1>4, <2>1 DEF Range
<1> HIDE DEF n
<1>8. /\ \A i \in 1 .. k : Nth(p, g, i) = Nth(s, h, i) /\ Nth(p, g, i) # g /\ i \in 1 .. n
      /\ \A i \in 1 .. n : Nth(s, h, i) = s[i]
      /\ Nth(p, g, 0) = g /\ Nth(p, g, k + 1) = g /\ Nth(s, h, 0) = h
  BY <1>1, <1>2, <1>4 DEF Nth
<1>9. ASSUME NEW i \in 0 .. n PROVE Adjacent(s, h, Nth(s, h, i), Nth(s, h, i + 1))
  BY <1>9 DEF Adjacent, n
<1>10. ASSUME NEW x, NEW y, Adjacent(p, g, x, y)
       PROVE  \/ x # g /\ y # g /\ x # s[k] /\ Adjacent(s, h, x, y)
              \/ x = g /\ Adjacent(s, h, h, y)
              \/ x = s[k] /\ y = g
  <2>1. PICK i \in 0 .. k : x = Nth(p, g, i) /\ y = Nth(p, g, i + 1)
    BY <1>2, <1>10 DEF Adjacent
  <2>2. CASE i = 0
    <3>1. 1 \in 1 .. k /\ 0 \in 0 .. n /\ 0 + 1 = 1
      BY <1>1
    <3> QED BY <1>8, <1>9, <2>1, <2>2, <3>1
  <2>3. CASE i = k
    <3>1. k \in 1 .. k /\ k \in 1 .. n
      BY <1>1
    <3> QED BY <1>8, <2>1, <2>3, <3>1
  <2>4. CASE i # 0 /\ i # k
    <3>1. i \in 1 .. k /\ i + 1 \in 1 .. k /\ i \in 0 .. n /\ i \in 1 .. n /\ k \in 1 .. n
      BY <1>1, <2>4
    <3>2. x # g /\ y # g /\ x = s[i] /\ Adjacent(s, h, x, y)
      BY <1>8, <1>9, <2>1, <3>1
    <3>3. s[i] # s[k]
      BY <1>1, <2>4, <3>1 DEF IsInjective
    <3> QED BY <3>2, <3>3
  <2> QED BY <2>2, <2>3, <2>4
<1>11. ASSUME NEW x, NEW y, Adjacent(q, h, x, y)
       PROVE  (x # h /\ Adjacent(s, h, x, y)) \/ (x = h /\ Adjacent(s, h, s[k], y))
  <2> DEFINE u == p \o q
  <2>0. u = s
    BY <1>5
  <2>1. \A a : /\ Adjacent(q, h, a, y) /\ a # h => Adjacent(u, h, a, y)
               /\ Adjacent(p, h, a, h) /\ Adjacent(q, h, h, y) => Adjacent(u, h, a, y)
    BY <1>2, <1>3, RingConcat
  <2> HIDE DEF u
  <2>2. CASE x # h
    BY <1>11, <2>0, <2>1, <2>2
  <2>3. CASE x = h
    <3>1. Adjacent(p, h, s[k], h)
      <4>1. k \in 0 .. k /\ Nth(p, h, k) = s[k] /\ Nth(p, h, k + 1) = h
        BY <1>1, <1>2, <1>4 DEF Nth
      <4> QED BY <1>2, <4>1 DEF Adjacent
    <3> QED BY <1>11, <2>0, <2>1, <2>3, <3>1
  <2> QED BY <2>2, <2>3
<1> QED BY <1>2, <1>3, <1>6, <1>7, <1>10, <1>11

=============================================================================
