----------------------------- MODULE HashProofs -----------------------------
(***************************************************************************)
(* Proofs about HashTable and about MemTracker, which uses the hash, for   *)
(* any keys, elements, hash function and number of buckets.                *)
(*                                                                         *)
(* BInv is inductive for both: every element is in the bucket of its key,  *)
(* and no key is linked twice.  With it lookupHash can be described        *)
(* without any bucket (FoundSaysLinked): it returns the linked element     *)
(* that has the key; and so can addHash and delHash, by what lookupHash    *)
(* returns after them (AddLemma, DeleteLemma).  The simulation of KeyedMap *)
(* and the accounts of the memory tracker follow from that alone.          *)
(***************************************************************************)
EXTENDS HashTable, MemTracker, ListLemmas, FiniteSetTheorems, WellFoundedInduction

\* The buckets are in order.
BInv == BucketsTypeOK /\ Hashed /\ KeyOnce

IInv == BInv /\ Replies

\* What lookupHash returns, with no mention of buckets.
FoundSaysLinked ==
    \A k \in Keys :
        /\ Found(k) \in Elems \cup {NoElem}
        /\ \A x \in Elems : Found(k) = x <=> Linked(x) /\ key[x] = k

\* The bucket of a key holds the key once at most.
LEMMA HoldingLemma ==
    ASSUME BucketsTypeOK, KeyOnce, NEW k \in Keys
    PROVE  /\ Ndx(k) \in Buckets
           /\ Found(k) = NoElem <=> Holding(k) = {}
           /\ \A i \in Holding(k) :
                /\ First(k) = i
                /\ Found(k) = buckets[Ndx(k)][i]
                /\ i \in 1 .. Len(buckets[Ndx(k)])
                /\ Found(k) \in Elems
                /\ key[Found(k)] = k
<1> DEFINE s == buckets[Ndx(k)]
<1>1. Ndx(k) \in Buckets
  BY HashAssumption DEF Ndx, Buckets
<1>2. s \in Seq(Elems)
  BY <1>1 DEF BucketsTypeOK
<1>3. DOMAIN s = 1 .. Len(s) /\ \A i \in 1 .. Len(s) : s[i] \in Elems
  BY <1>2, RangeSeq, ElementOfSeq
<1>4. ASSUME NEW i \in Holding(k)
      PROVE  /\ First(k) = i /\ Found(k) = s[i] /\ i \in 1 .. Len(s)
             /\ Found(k) \in Elems /\ key[Found(k)] = k
  <2>1. i \in 1 .. Len(s) /\ key[s[i]] = k
    BY <1>3 DEF Holding
  <2>2. \A j \in Holding(k) : j = i
    BY <1>1, <2>1, <1>3 DEF Holding, KeyOnce
  <2>3. \A j \in Holding(k) : i <= j
    BY <2>1, <2>2
  <2>4. First(k) = i
    BY <2>2, <2>3 DEF First
  <2>5. Found(k) = s[i]
    BY <2>4 DEF Found
  <2> QED BY <1>3, <2>1, <2>4, <2>5
<1>5. Found(k) = NoElem <=> Holding(k) = {}
  BY <1>4, HashAssumption DEF Found
<1> QED BY <1>1, <1>4, <1>5

\* lookupHash returns NULL just when no element of the bucket has the key.
LEMMA FoundLemma == BInv => FoundSaysLinked
<1> SUFFICES ASSUME BInv, NEW k \in Keys
             PROVE  /\ Found(k) \in Elems \cup {NoElem}
                    /\ \A x \in Elems : Found(k) = x <=> Linked(x) /\ key[x] = k
  BY DEF FoundSaysLinked
<1>1. /\ Ndx(k) \in Buckets
      /\ Found(k) = NoElem <=> Holding(k) = {}
      /\ \A i \in Holding(k) :
           Found(k) = buckets[Ndx(k)][i] /\ Found(k) \in Elems /\ key[Found(k)] = k
  BY HoldingLemma DEF BInv
<1>2. ASSUME NEW x \in Elems, Found(k) = x
      PROVE  Linked(x) /\ key[x] = k
  <2>1. PICK i \in Holding(k) : TRUE
    BY <1>1, <1>2, HashAssumption
  <2>2. x = buckets[Ndx(k)][i] /\ i \in DOMAIN buckets[Ndx(k)]
    BY <1>1, <1>2, <2>1 DEF Holding
  <2>3. x \in Range(buckets[Ndx(k)])
    BY <2>2 DEF Range
  <2> QED BY <1>1, <1>2, <2>1, <2>3 DEF Linked
<1>3. ASSUME NEW x \in Elems, Linked(x), key[x] = k
      PROVE  Found(k) = x
  <2>1. PICK b \in Buckets : x \in Range(buckets[b])
    BY <1>3 DEF Linked
  <2>2. b = Ndx(k)
    BY <1>3, <2>1 DEF BInv, Hashed
  <2>3. PICK i \in DOMAIN buckets[b] : buckets[b][i] = x
    BY <2>1 DEF Range
  <2>4. i \in Holding(k)
    BY <1>3, <2>2, <2>3 DEF Holding
  <2> QED BY <1>1, <2>2, <2>3, <2>4
<1> QED BY <1>1, <1>2, <1>3

\* The same of the next state.
LEMMA FoundLemmaNext == BInv' => FoundSaysLinked'
BY FoundLemma, PTL

-----------------------------------------------------------------------------
(* The invariant.                                                          *)

\* No element is linked twice.
LEMMA BucketInjective ==
    ASSUME BucketsTypeOK, KeyOnce, NEW b \in Buckets
    PROVE  buckets[b] \in Seq(Elems) /\ IsInjective(buckets[b])
BY DEF BucketsTypeOK, KeyOnce, IsInjective

\* initHash leaves the buckets in order.
LEMMA EmptyBuckets ==
    ASSUME buckets = [b \in Buckets |-> <<>>], key \in [Elems -> Keys]
    PROVE  BInv /\ \A k \in Keys : Found(k) = NoElem
<1>1. \A b \in Buckets : buckets[b] = <<>>
  OBVIOUS
<1>2. <<>> \in Seq(Elems) /\ Range(<<>>) = {} /\ DOMAIN <<>> = {}
  BY EmptySeq DEF Range
<1>3. BucketsTypeOK
  BY <1>2 DEF BucketsTypeOK
<1>4. Hashed
  BY <1>1, <1>2 DEF Hashed
<1>5. KeyOnce
  BY <1>1, <1>2 DEF KeyOnce
<1>6. BInv
  BY <1>3, <1>4, <1>5 DEF BInv
<1>7. \A x \in Elems : ~Linked(x)
  BY <1>1, <1>2 DEF Linked
<1>8. \A k \in Keys : Found(k) = NoElem
  BY <1>6, <1>7, FoundLemma DEF FoundSaysLinked
<1> QED BY <1>6, <1>8

\* Nothing is changed.
LEMMA SameBuckets ==
    ASSUME UNCHANGED <<buckets, key>>
    PROVE  /\ BInv => BInv'
           /\ \A k \in Keys : Found(k)' = Found(k)
           /\ \A x \in Elems : Linked(x)' <=> Linked(x)
BY DEF BInv, BucketsTypeOK, Hashed, KeyOnce, Found, First, Holding, Linked, Ndx

\* A key is written into an element that is not linked.
LEMMA RenameLemma ==
    ASSUME BInv, NEW e \in Elems, NEW k \in Keys, ~Linked(e),
           key' = [key EXCEPT ![e] = k], UNCHANGED buckets
    PROVE  /\ BInv'
           /\ \A l \in Keys : Found(l)' = Found(l)
           /\ \A x \in Elems : Linked(x)' <=> Linked(x)
<1>1. /\ key' \in [Elems -> Keys] /\ key \in [Elems -> Keys]
      /\ buckets \in [Buckets -> Seq(Elems)]
      /\ \A x \in Elems : x # e => key'[x] = key[x]
      /\ \A b \in Buckets : e \notin Range(buckets[b])
  BY DEF BInv, BucketsTypeOK, Linked
<1>2. \A b \in Buckets : \A i \in DOMAIN buckets[b] :
          /\ buckets[b][i] \in Elems
          /\ buckets[b][i] \in Range(buckets[b])
          /\ key'[buckets[b][i]] = key[buckets[b][i]]
  <2> SUFFICES ASSUME NEW b \in Buckets, NEW i \in DOMAIN buckets[b]
               PROVE  /\ buckets[b][i] \in Elems
                      /\ buckets[b][i] \in Range(buckets[b])
                      /\ key'[buckets[b][i]] = key[buckets[b][i]]
    OBVIOUS
  <2>1. buckets[b] \in Seq(Elems)
    BY <1>1
  <2>2. buckets[b][i] \in Elems /\ buckets[b][i] \in Range(buckets[b])
    BY <2>1, RangeSeq, ElementOfSeq DEF Range
  <2> QED BY <1>1, <2>2
<1>3. BucketsTypeOK'
  BY <1>1 DEF BucketsTypeOK
<1>4. Hashed'
  <2> SUFFICES ASSUME NEW b \in Buckets, NEW x \in Range(buckets[b]) PROVE Ndx(key'[x]) = b
    BY DEF Hashed, Ndx
  <2>1. key'[x] = key[x]
    BY <1>2 DEF Range
  <2> QED BY <2>1 DEF BInv, Hashed
<1>5. KeyOnce'
  BY <1>2 DEF BInv, KeyOnce
<1>6. BInv'
  BY <1>3, <1>4, <1>5 DEF BInv
<1>7. \A x \in Elems : Linked(x)' <=> Linked(x)
  BY DEF Linked
<1>8. ASSUME NEW l \in Keys
      PROVE  Found(l)' = Found(l)
  <2>1. /\ Found(l) \in Elems \cup {NoElem} /\ Found(l)' \in Elems \cup {NoElem}
        /\ \A x \in Elems : Found(l) = x <=> Linked(x) /\ key[x] = l
        /\ \A x \in Elems : Found(l)' = x <=> Linked(x)' /\ key'[x] = l
    BY <1>6, FoundLemma, FoundLemmaNext DEF FoundSaysLinked
  <2>2. \A x \in Elems : Found(l)' = x <=> Found(l) = x
    BY <1>1, <1>7, <2>1
  <2> QED BY <2>1, <2>2
<1> QED BY <1>6, <1>7, <1>8

\* An element that is not linked is given a key no element has, and linked.
LEMMA AddLemma ==
    ASSUME BInv, NEW e \in Elems, NEW k \in Keys, ~Linked(e), Found(k) = NoElem,
           key' = [key EXCEPT ![e] = k], buckets' = Linking(k, e)
    PROVE  /\ BInv'
           /\ \A l \in Keys : Found(l)' = IF l = k THEN e ELSE Found(l)
           /\ \A x \in Elems : Linked(x)' <=> Linked(x) \/ x = e
<1> DEFINE n == Ndx(k)
           s == buckets[n]
           t == Append(s, e)
<1>1. /\ key \in [Elems -> Keys] /\ buckets \in [Buckets -> Seq(Elems)]
      /\ n \in Buckets /\ s \in Seq(Elems) /\ Holding(k) = {}
  BY HoldingLemma DEF BInv, BucketsTypeOK
<1>2. /\ t \in Seq(Elems) /\ Range(t) = Range(s) \cup {e}
      /\ Len(s) \in Nat /\ Len(t) = Len(s) + 1
      /\ DOMAIN s = 1 .. Len(s) /\ DOMAIN t = 1 .. Len(t)
      /\ \A i \in 1 .. Len(s) : t[i] = s[i]
      /\ t[Len(s) + 1] = e
  BY <1>1, AppendLemma, AppendProperties, RangeSeq
<1>3. buckets' = [buckets EXCEPT ![n] = t]
  BY DEF Linking
<1>4. Ndx(k)' = n
  BY DEF Ndx
<1> HIDE DEF n, t
<1>5. buckets'[n] = t /\ \A b \in Buckets : b # n => buckets'[b] = buckets[b]
  BY <1>1, <1>3
<1>6. /\ key' \in [Elems -> Keys] /\ key'[e] = k
      /\ \A x \in Elems : x # e => key'[x] = key[x]
  BY <1>1
<1>7. \A b \in Buckets : \A i \in DOMAIN buckets[b] :
          /\ buckets[b][i] \in Elems
          /\ key'[buckets[b][i]] = key[buckets[b][i]]
  <2> SUFFICES ASSUME NEW b \in Buckets, NEW i \in DOMAIN buckets[b]
               PROVE  buckets[b][i] \in Elems /\ key'[buckets[b][i]] = key[buckets[b][i]]
    OBVIOUS
  <2>1. buckets[b] \in Seq(Elems)
    BY <1>1
  <2>2. buckets[b][i] \in Elems /\ buckets[b][i] \in Range(buckets[b])
    BY <2>1, RangeSeq, ElementOfSeq DEF Range
  <2>3. buckets[b][i] # e
    BY <2>2 DEF Linked
  <2> QED BY <1>6, <2>2, <2>3
<1>8. BucketsTypeOK'
  BY <1>1, <1>2, <1>3, <1>6 DEF BucketsTypeOK
<1>9. Hashed'
  <2> SUFFICES ASSUME NEW b \in Buckets, NEW x \in Range(buckets'[b]) PROVE Ndx(key'[x]) = b
    BY DEF Hashed, Ndx
  <2>1. CASE x \in Range(buckets[b])
    <3>1. key'[x] = key[x]
      BY <1>7, <2>1 DEF Range
    <3> QED BY <2>1, <3>1 DEF BInv, Hashed
  <2>2. CASE x \notin Range(buckets[b])
    <3>1. b = n /\ x = e
      BY <1>2, <1>5, <2>2
    <3> QED BY <1>6, <3>1 DEF n
  <2> QED BY <2>1, <2>2
<1>10. KeyOnce'
  <2> SUFFICES ASSUME NEW b \in Buckets,
                      NEW i \in DOMAIN buckets'[b], NEW j \in DOMAIN buckets'[b],
                      key'[buckets'[b][i]] = key'[buckets'[b][j]]
               PROVE  i = j
    BY DEF KeyOnce
  <2>1. CASE b # n
    BY <1>5, <1>7, <2>1 DEF BInv, KeyOnce
  <2>2. CASE b = n
    <3>1. \A l \in 1 .. Len(s) : key'[s[l]] = key[s[l]] /\ key[s[l]] # k
      BY <1>1, <1>2, <1>7 DEF Holding, n
    <3>2. i \in 1 .. Len(s) + 1 /\ j \in 1 .. Len(s) + 1
      BY <1>2, <1>5, <2>2
    <3>3. /\ i \in 1 .. Len(s) \/ i = Len(s) + 1
          /\ j \in 1 .. Len(s) \/ j = Len(s) + 1
      BY <1>2, <3>2
    <3>4. key'[t[i]] = key'[t[j]]
      BY <1>5, <2>2
    <3>5. CASE i \in 1 .. Len(s) /\ j \in 1 .. Len(s)
      BY <1>1, <1>2, <3>1, <3>4, <3>5 DEF BInv, KeyOnce
    <3> QED BY <1>2, <1>6, <3>1, <3>3, <3>4, <3>5
  <2> QED BY <2>1, <2>2
<1>11. \A x \in Elems : Linked(x)' <=> Linked(x) \/ x = e
  BY <1>1, <1>2, <1>5 DEF Linked
<1>12. BInv'
  BY <1>8, <1>9, <1>10 DEF BInv
<1>13. ASSUME NEW l \in Keys
       PROVE  Found(l)' = IF l = k THEN e ELSE Found(l)
  <2>1. /\ Found(l) \in Elems \cup {NoElem} /\ Found(l)' \in Elems \cup {NoElem}
        /\ \A x \in Elems : Found(l) = x <=> Linked(x) /\ key[x] = l
        /\ \A x \in Elems : Found(l)' = x <=> Linked(x)' /\ key'[x] = l
    BY <1>12, FoundLemma, FoundLemmaNext DEF FoundSaysLinked
  <2>2. CASE l = k
    BY <1>6, <1>11, <2>1, <2>2
  <2>3. CASE l # k
    <3>1. \A x \in Elems : Found(l)' = x <=> Found(l) = x
      BY <1>6, <1>11, <2>1, <2>3
    <3> QED BY <2>1, <2>3, <3>1
  <2> QED BY <2>2, <2>3
<1> QED BY <1>11, <1>12, <1>13

\* delHash, when the key is there.
LEMMA DeleteLemma ==
    ASSUME BInv, NEW k \in Keys, Found(k) # NoElem,
           buckets' = Unlinking(k), key' = key
    PROVE  /\ BInv'
           /\ \A l \in Keys : Found(l)' = IF l = k THEN NoElem ELSE Found(l)
           /\ \A x \in Elems : Linked(x)' <=> Linked(x) /\ x # Found(k)
<1> DEFINE n == Ndx(k)
           s == buckets[n]
           f == First(k)
           t == RemoveAt(s, f)
<1>1. /\ n \in Buckets /\ buckets \in [Buckets -> Seq(Elems)]
      /\ f \in 1 .. Len(s) /\ s[f] = Found(k) /\ key[s[f]] = k
  <2>1. PICK i \in Holding(k) : TRUE
    BY HoldingLemma DEF BInv
  <2> QED BY <2>1, HoldingLemma DEF BInv, BucketsTypeOK
<1>2. s \in Seq(Elems) /\ IsInjective(s)
  BY <1>1, BucketInjective DEF BInv
<1>3. /\ t \in Seq(Elems) /\ Range(t) = Range(s) \ {Found(k)}
      /\ Len(s) \in Nat /\ Len(t) = Len(s) - 1
      /\ DOMAIN s = 1 .. Len(s) /\ DOMAIN t = 1 .. Len(t)
      /\ \A i \in 1 .. Len(s) - 1 : t[i] = IF i < f THEN s[i] ELSE s[i + 1]
  <2>1. /\ t \in Seq(Elems) /\ Range(t) = Range(s) \ {s[f]}
    BY <1>1, <1>2, RemoveAtLemma
  <2>2. /\ Len(t) = Len(s) - 1
        /\ \A i \in 1 .. Len(s) - 1 : t[i] = IF i < f THEN s[i] ELSE s[i + 1]
    BY <1>1, <1>2, RemoveAtSeq
  <2> QED BY <1>1, <1>2, <2>1, <2>2, RangeSeq
<1>4. buckets' = [buckets EXCEPT ![n] = t]
  BY DEF Unlinking
<1> HIDE DEF n, f, t
<1>5. buckets'[n] = t /\ \A b \in Buckets : b # n => buckets'[b] = buckets[b]
  BY <1>1, <1>4
<1>6. BucketsTypeOK'
  BY <1>1, <1>3, <1>4 DEF BInv, BucketsTypeOK
<1>7. Hashed'
  <2> SUFFICES ASSUME NEW b \in Buckets, NEW x \in Range(buckets'[b]) PROVE Ndx(key[x]) = b
    BY DEF Hashed, Ndx
  <2>1. x \in Range(buckets[b])
    BY <1>3, <1>5
  <2> QED BY <2>1 DEF BInv, Hashed
<1>8. KeyOnce'
  <2> SUFFICES ASSUME NEW b \in Buckets,
                      NEW i \in DOMAIN buckets'[b], NEW j \in DOMAIN buckets'[b],
                      key[buckets'[b][i]] = key[buckets'[b][j]]
               PROVE  i = j
    BY DEF KeyOnce
  <2>1. CASE b # n
    BY <1>5, <2>1 DEF BInv, KeyOnce
  <2>2. CASE b = n
    <3> DEFINE Old(l) == IF l < f THEN l ELSE l + 1
    <3>1. i \in 1 .. Len(s) - 1 /\ j \in 1 .. Len(s) - 1
      BY <1>3, <1>5, <2>2
    <3>2. Old(i) \in 1 .. Len(s) /\ Old(j) \in 1 .. Len(s)
      BY <1>1, <1>3, <3>1
    <3>3. t[i] = s[Old(i)] /\ t[j] = s[Old(j)]
      BY <1>3, <3>1
    <3>4. Old(i) = Old(j)
      <4>1. key[t[i]] = key[t[j]]
        BY <1>5, <2>2
      <4>2. \A l, m \in 1 .. Len(s) : key[s[l]] = key[s[m]] => l = m
        BY <1>1, <1>3 DEF BInv, KeyOnce
      <4> HIDE DEF Old
      <4> QED BY <3>2, <3>3, <4>1, <4>2
    <3> QED BY <1>1, <1>3, <3>1, <3>4
  <2> QED BY <2>1, <2>2
<1>9. \A x \in Elems : Linked(x)' <=> Linked(x) /\ x # Found(k)
  <2> SUFFICES ASSUME NEW x \in Elems PROVE Linked(x)' <=> Linked(x) /\ x # Found(k)
    OBVIOUS
  <2>1. CASE x # Found(k)
    BY <1>1, <1>3, <1>5, <2>1 DEF Linked
  <2>2. CASE x = Found(k)
    <3>1. Ndx(key[x]) = n
      BY <1>1, <2>2 DEF n
    <3>2. \A b \in Buckets : b # n => x \notin Range(buckets[b])
      BY <3>1 DEF BInv, Hashed
    <3>3. \A b \in Buckets : x \notin Range(buckets'[b])
      BY <1>3, <1>5, <2>2, <3>2
    <3> QED BY <2>2, <3>3 DEF Linked
  <2> QED BY <2>1, <2>2
<1>10. BInv'
  BY <1>6, <1>7, <1>8 DEF BInv
<1>11. ASSUME NEW l \in Keys
       PROVE  Found(l)' = IF l = k THEN NoElem ELSE Found(l)
  <2>1. /\ Found(l) \in Elems \cup {NoElem} /\ Found(l)' \in Elems \cup {NoElem}
        /\ \A x \in Elems : Found(l) = x <=> Linked(x) /\ key[x] = l
        /\ \A x \in Elems : Found(l)' = x <=> Linked(x)' /\ key[x] = l
    BY <1>10, FoundLemma, FoundLemmaNext DEF FoundSaysLinked
  <2>2. \A x \in Elems : key[x] = k /\ Linked(x) => x = Found(k)
    BY FoundLemma DEF FoundSaysLinked
  <2>3. CASE l = k
    BY <1>9, <2>1, <2>2, <2>3
  <2>4. CASE l # k
    <3>1. \A x \in Elems : key[x] = l => x # Found(k)
      BY <1>1, <2>4
    <3>2. \A x \in Elems : Found(l)' = x <=> Found(l) = x
      BY <1>9, <2>1, <3>1
    <3> QED BY <2>1, <2>4, <3>2
  <2> QED BY <2>3, <2>4
<1> QED BY <1>9, <1>10, <1>11

\* Every function of the hash, and a client that renames an element, keep the invariant.
LEMMA NextIInv == IInv /\ [HashNext]_hashvars => IInv'
<1> SUFFICES ASSUME IInv, [HashNext]_hashvars PROVE IInv'
  OBVIOUS
<1>1. BInv /\ key \in [Elems -> Keys] /\ FoundSaysLinked
  BY FoundLemma DEF IInv, BInv, BucketsTypeOK
<1>2. ASSUME NEW e \in Elems, addHash(e)
      PROVE  IInv'
  <2>1. Replies'
    BY <1>2 DEF addHash, Replies
  <2>2. CASE UNCHANGED buckets
    BY <1>1, <1>2, <2>1, <2>2, SameBuckets DEF addHash, IInv
  <2>3. CASE Found(key[e]) = NoElem /\ buckets' = Linking(key[e], e)
    <3>1. key[e] \in Keys /\ ~Linked(e) /\ key' = [key EXCEPT ![e] = key[e]]
      BY <1>1, <1>2, <2>3, HashAssumption DEF addHash, FoundSaysLinked
    <3> QED BY <1>1, <2>1, <2>3, <3>1, AddLemma DEF IInv
  <2> QED BY <1>2, <2>2, <2>3 DEF addHash
<1>3. ASSUME NEW e \in Elems, NEW k \in Keys, SetKey(e, k)
      PROVE  IInv'
  BY <1>1, <1>3, RenameLemma DEF SetKey, IInv, Replies
<1>4. ASSUME NEW k \in Keys, lookupHash(k)
      PROVE  IInv'
  <2>1. Replies'
    BY <1>1, <1>4 DEF lookupHash, FoundSaysLinked, Replies
  <2> QED BY <1>1, <1>4, <2>1, SameBuckets DEF lookupHash, IInv
<1>5. ASSUME NEW k \in Keys, delHash(k)
      PROVE  IInv'
  <2>1. Replies'
    BY <1>5 DEF delHash, Replies
  <2> QED BY <1>1, <1>5, <2>1, SameBuckets, DeleteLemma DEF delHash, IInv
<1>6. ASSUME UNCHANGED hashvars
      PROVE  IInv'
  BY <1>6, SameBuckets DEF hashvars, IInv, Replies
<1> QED BY <1>2, <1>3, <1>4, <1>5, <1>6 DEF HashNext

\* initHash establishes the invariant.
LEMMA InitIInv == HashInit => IInv
BY EmptyBuckets DEF HashInit, IInv, Replies

\* The buckets stay in order whatever is added, deleted and renamed.
THEOREM Invariance == HashSpec => []IInv
<1>1. IInv /\ [HashNext]_hashvars => IInv'
  BY NextIInv
<1> QED BY <1>1, InitIInv, PTL DEF HashSpec

\* Every variable has its type.
THEOREM TypeCorrect == HashSpec => []HashTypeOK
<1>1. IInv => HashTypeOK
  BY DEF IInv, BInv, HashTypeOK
<1> QED BY <1>1, Invariance, PTL

\* Every element stays in the bucket of its key.
THEOREM AlwaysHashed == HashSpec => []Hashed
<1>1. IInv => Hashed
  BY DEF IInv, BInv
<1> QED BY <1>1, Invariance, PTL

\* No key is ever linked twice.
THEOREM NeverTwice == HashSpec => []KeyOnce
<1>1. IInv => KeyOnce
  BY DEF IInv, BInv
<1> QED BY <1>1, Invariance, PTL

-----------------------------------------------------------------------------
(* The refinement.                                                         *)

\* Every step of the hash is a step of the map, or leaves it alone.
LEMMA NextMap == IInv /\ IInv' /\ [HashNext]_hashvars => [Map!Next]_(Map!vars)
<1> SUFFICES ASSUME IInv, IInv', [HashNext]_hashvars PROVE [Map!Next]_(Map!vars)
  OBVIOUS
<1>1. BInv /\ key \in [Elems -> Keys] /\ NoElem \notin Elems /\ FoundSaysLinked
  BY FoundLemma, HashAssumption DEF IInv, BInv, BucketsTypeOK
<1> DEFINE M == [k \in Keys |-> Found(k)]
           N == [k \in Keys |-> Found(k)']
<1>2. UNCHANGED <<buckets, key>> => N = M
  BY SameBuckets
<1>3. ASSUME NEW e \in Elems, addHash(e)
      PROVE  [Map!Next]_(Map!vars)
  <2>1. key[e] \in Keys /\ M[key[e]] = Found(key[e])
    BY <1>1
  <2>2. CASE Found(key[e]) # NoElem /\ result' = <<"add", e, 0>> /\ UNCHANGED buckets
    <3>1. Map!Add(e)
      BY <1>2, <1>3, <2>1, <2>2 DEF addHash, Map!Add
    <3> QED BY <3>1 DEF Map!Next
  <2>3. CASE Found(key[e]) = NoElem /\ result' = <<"add", e, 1>> /\ buckets' = Linking(key[e], e)
    <3>1. key' = key /\ ~Linked(e) /\ key' = [key EXCEPT ![e] = key[e]]
      BY <1>1, <1>3, <2>3 DEF addHash, FoundSaysLinked
    <3>2. \A k \in Keys : Found(k)' = IF k = key[e] THEN e ELSE Found(k)
      BY <1>1, <2>1, <2>3, <3>1, AddLemma
    <3>3. N = [M EXCEPT ![key[e]] = e]
      BY <3>2
    <3>4. Map!Add(e)
      BY <2>1, <2>3, <3>1, <3>3 DEF Map!Add
    <3> QED BY <3>4 DEF Map!Next
  <2> QED BY <1>3, <2>2, <2>3 DEF addHash
<1>4. ASSUME NEW k \in Keys, delHash(k)
      PROVE  [Map!Next]_(Map!vars)
  <2>1. M[k] = Found(k)
    OBVIOUS
  <2>2. CASE Found(k) = NoElem /\ result' = <<"delete", k, 0>> /\ UNCHANGED buckets
    <3>1. N = M /\ M = [M EXCEPT ![k] = NoElem]
      BY <1>2, <1>4, <2>1, <2>2 DEF delHash
    <3>2. Map!Delete(k)
      BY <1>4, <2>1, <2>2, <3>1 DEF delHash, Map!Delete
    <3> QED BY <3>2 DEF Map!Next
  <2>3. CASE Found(k) # NoElem /\ result' = <<"delete", k, 1>> /\ buckets' = Unlinking(k)
    <3>1. key' = key
      BY <1>4 DEF delHash
    <3>2. \A l \in Keys : Found(l)' = IF l = k THEN NoElem ELSE Found(l)
      BY <1>1, <2>3, <3>1, DeleteLemma
    <3>3. N = [M EXCEPT ![k] = NoElem]
      BY <3>2
    <3>4. Map!Delete(k)
      BY <2>1, <2>3, <3>1, <3>3 DEF Map!Delete
    <3> QED BY <3>4 DEF Map!Next
  <2> QED BY <1>4, <2>2, <2>3 DEF delHash
<1>5. ASSUME NEW k \in Keys, lookupHash(k)
      PROVE  [Map!Next]_(Map!vars)
  <2>1. Map!Lookup(k)
    BY <1>2, <1>5 DEF lookupHash, Map!Lookup
  <2> QED BY <2>1 DEF Map!Next
<1>6. ASSUME NEW e \in Elems, NEW k \in Keys, SetKey(e, k)
      PROVE  [Map!Next]_(Map!vars)
  <2>1. ~Linked(e) /\ key' = [key EXCEPT ![e] = k] /\ UNCHANGED <<buckets, result>>
    BY <1>6 DEF SetKey
  <2>2. N = M
    BY <1>1, <2>1, RenameLemma
  <2>3. key[e] \in Keys /\ M[key[e]] # e
    BY <1>1, <2>1 DEF FoundSaysLinked
  <2>4. Map!Rename(e, k)
    BY <2>1, <2>2, <2>3 DEF Map!Rename
  <2> QED BY <2>4 DEF Map!Next
<1>7. ASSUME UNCHANGED hashvars
      PROVE  UNCHANGED Map!vars
  BY <1>2, <1>7 DEF hashvars, Map!vars
<1> QED BY <1>3, <1>4, <1>5, <1>6, <1>7 DEF HashNext

\* The empty hash is the empty map.
LEMMA InitMap == HashInit => Map!Init
<1> SUFFICES ASSUME HashInit PROVE Map!Init
  OBVIOUS
<1>1. [k \in Keys |-> Found(k)] = [k \in Keys |-> NoElem]
  BY EmptyBuckets DEF HashInit
<1> QED BY <1>1 DEF HashInit, Map!Init

\* The table implements the map: adding, looking up and deleting depend on the
\* keys alone, not on what shares a bucket with them.
THEOREM Refinement == HashSpec => ImplementsMap
<1>1. HashInit => Map!Init
  BY InitMap
<1>2. IInv /\ IInv' /\ [HashNext]_hashvars => [Map!Next]_(Map!vars)
  BY NextMap
<1>3. HashSpec => []IInv
  BY Invariance
<1> QED BY <1>1, <1>2, <1>3, PTL DEF HashSpec, ImplementsMap, Map!Spec

-----------------------------------------------------------------------------
(* The memory tracker: sums.  The recursion of Bytes takes the blocks out  *)
(* in an order of its own; the sum is the same in any order.               *)

\* F[U] is the sum of the sizes of U, whatever block is taken out first.
Sums(h, F, S) ==
    /\ F \in [SUBSET S -> Int]
    /\ F[{}] = 0
    /\ \A U \in SUBSET S : \A b \in U : F[U] = h[b].size + F[U \ {b}]

\* The function the fold of Bytes is.
Fold(h, F, S) ==
    F = [U \in SUBSET S |-> IF U = {} THEN 0
                            ELSE h[CHOOSE x \in U : TRUE].size + F[U \ {CHOOSE x \in U : TRUE}]]

LEMMA BytesFold ==
    ASSUME NEW h, NEW S
    PROVE  Bytes(h, S) = (CHOOSE F : Fold(h, F, S))[S]
BY Zenon DEF Bytes, Fold, MapThenSumSet, MapThenFoldSet

\* Among the finite sets of any kind there is a least one.
LEMMA LeastSet ==
    ASSUME NEW S, NEW T \in SUBSET FiniteSubsetsOf(S), T # {}
    PROVE  \E U \in T : \A V \in T : V \subseteq U => V = U
<1>1. PICK U \in T : \A V \in T : <<V, U>> \notin StrictSubsetOrdering(S)
  BY FS_StrictSubsetOrderingWellFounded, WFMin
<1>2. \A V \in T : V \in SUBSET S
  BY DEF FiniteSubsetsOf
<1> QED BY <1>1, <1>2 DEF StrictSubsetOrdering

LEMMA SumsExist ==
    ASSUME NEW h, NEW S, IsFiniteSet(S), \A b \in S : h[b].size \in Int
    PROVE  \E F : Sums(h, F, S)
<1> DEFINE T == {U \in SUBSET S : ~ \E F : Sums(h, F, U)}
<1> SUFFICES ASSUME T # {} PROVE FALSE
  OBVIOUS
<1>1. \A U \in SUBSET S : IsFiniteSet(U)
  BY FS_Subset
<1>2. PICK U \in T : \A V \in T : V \subseteq U => V = U
  <2>1. T \in SUBSET FiniteSubsetsOf(S)
    BY <1>1 DEF FiniteSubsetsOf
  <2> HIDE DEF T
  <2> QED BY <2>1, LeastSet
<1>3. U # {}
  <2> DEFINE G == [V \in SUBSET {} |-> 0]
  <2>1. G \in [SUBSET {} -> Int] /\ G[{}] = 0 
    OBVIOUS
  <2>2. Sums(h, G, {})
    BY <2>1 DEF Sums
  <2> QED BY <2>2
<1>4. PICK a \in U : TRUE
  BY <1>3
<1>5. U \ {a} \in SUBSET S /\ U \ {a} \notin T
  BY <1>2, <1>4
<1>6. PICK F : Sums(h, F, U \ {a})
  BY <1>5
<1>7. /\ F \in [SUBSET (U \ {a}) -> Int] /\ F[{}] = 0
      /\ \A V \in SUBSET (U \ {a}) : \A b \in V : F[V] = h[b].size + F[V \ {b}]
  BY <1>6 DEF Sums
<1>8. \A b \in U : h[b].size \in Int
  OBVIOUS
<1> DEFINE G == [V \in SUBSET U |-> IF a \in V THEN h[a].size + F[V \ {a}] ELSE F[V]]
<1>9. /\ G \in [SUBSET U -> Int]
      /\ \A V \in SUBSET U : G[V] = IF a \in V THEN h[a].size + F[V \ {a}] ELSE F[V]
  <2>1. \A V \in SUBSET U : /\ a \in V => V \ {a} \in SUBSET (U \ {a})
                            /\ a \notin V => V \in SUBSET (U \ {a})
    OBVIOUS
  <2> QED BY <1>4, <1>7, <1>8, <2>1
<1>10. G[{}] = 0
  BY <1>7, <1>9
<1> HIDE DEF G
<1>11. ASSUME NEW V \in SUBSET U, NEW b \in V
       PROVE  G[V] = h[b].size + G[V \ {b}]
  <2>1. V \ {b} \in SUBSET U
    OBVIOUS
  <2>2. CASE b = a
    BY <1>9, <2>1, <2>2
  <2>3. CASE b # a /\ a \in V
    <3>1. V \ {a} \in SUBSET (U \ {a}) /\ b \in V \ {a} /\ (V \ {b}) \ {a} = (V \ {a}) \ {b}
      BY <2>3
    <3>2. F[V \ {a}] = h[b].size + F[(V \ {a}) \ {b}]
      BY <1>7, <3>1, Zenon
    <3>3. G[V] = h[a].size + F[V \ {a}] /\ G[V \ {b}] = h[a].size + F[(V \ {b}) \ {a}]
      BY <1>9, <2>1, <2>3
    <3>4. (V \ {b}) \ {a} \in SUBSET (U \ {a})
      BY <3>1
    <3>5. F[(V \ {b}) \ {a}] \in Int /\ h[a].size \in Int /\ h[b].size \in Int
      BY <1>4, <1>7, <1>8, <3>4
    <3>6. F[V \ {a}] = h[b].size + F[(V \ {b}) \ {a}]
      BY <3>1, <3>2, Zenon
    <3> QED BY <3>3, <3>5, <3>6
  <2>4. CASE a \notin V
    <3>1. V \in SUBSET (U \ {a}) /\ V \ {b} \in SUBSET (U \ {a})
      BY <2>4
    <3>2. G[V] = F[V] /\ G[V \ {b}] = F[V \ {b}]
      BY <1>9, <2>1, <2>4
    <3> QED BY <1>7, <3>1, <3>2
  <2> QED BY <2>2, <2>3, <2>4
<1>12. Sums(h, G, U)
  BY <1>9, <1>10, <1>11 DEF Sums
<1> QED BY <1>2, <1>12

LEMMA SumsFold ==
    ASSUME NEW h, NEW S, NEW F, Sums(h, F, S)
    PROVE  Fold(h, F, S)
<1>1. \A U \in SUBSET S : U # {} =>
          F[U] = h[CHOOSE x \in U : TRUE].size + F[U \ {CHOOSE x \in U : TRUE}]
  BY DEF Sums
<1>2. F[{}] = 0 /\ F = [U \in SUBSET S |-> F[U]]
  BY DEF Sums
<1> QED BY <1>1, <1>2 DEF Fold

LEMMA FoldUnique ==
    ASSUME NEW h, NEW S, IsFiniteSet(S), NEW F, Fold(h, F, S), NEW G, Fold(h, G, S)
    PROVE  F = G
<1> DEFINE T == {U \in SUBSET S : F[U] # G[U]}
<1>1. /\ F = [U \in SUBSET S |-> F[U]] /\ G = [U \in SUBSET S |-> G[U]]
      /\ F[{}] = 0 /\ G[{}] = 0
      /\ \A U \in SUBSET S : U # {} =>
           /\ F[U] = h[CHOOSE x \in U : TRUE].size + F[U \ {CHOOSE x \in U : TRUE}]
           /\ G[U] = h[CHOOSE x \in U : TRUE].size + G[U \ {CHOOSE x \in U : TRUE}]
  BY DEF Fold
<1>2. SUFFICES ASSUME T # {} PROVE FALSE
  BY <1>1
<1>3. T \in SUBSET FiniteSubsetsOf(S)
  BY FS_Subset DEF FiniteSubsetsOf
<1>4. PICK U \in T : \A V \in T : V \subseteq U => V = U
  <2> HIDE DEF T
  <2> QED BY <1>2, <1>3, LeastSet
<1>5. U # {}
  BY <1>1
<1> DEFINE x == CHOOSE x \in U : TRUE
<1>6. x \in U
  BY <1>5
<1>7. F[U] = h[x].size + F[U \ {x}] /\ G[U] = h[x].size + G[U \ {x}]
  BY <1>1, <1>5
<1> HIDE DEF x
<1>8. F[U \ {x}] = G[U \ {x}]
  BY <1>4, <1>6
<1> QED BY <1>7, <1>8

LEMMA BytesSums ==
    ASSUME NEW h, NEW S, IsFiniteSet(S), NEW F, Sums(h, F, S)
    PROVE  Bytes(h, S) = F[S]
<1>1. Fold(h, F, S)
  BY SumsFold
<1>2. Fold(h, (CHOOSE G : Fold(h, G, S)), S)
  BY <1>1
<1> QED BY <1>1, <1>2, FoldUnique, BytesFold

\* The bytes of some blocks are a number: none for no block, and with one more
\* block its size more, whatever the others are.
LEMMA BytesLemma ==
    ASSUME NEW h, NEW S, IsFiniteSet(S), \A b \in S : h[b].size \in Int
    PROVE  /\ Bytes(h, S) \in Int
           /\ S = {} => Bytes(h, S) = 0
           /\ \A b \in S : Bytes(h, S) = h[b].size + Bytes(h, S \ {b})
<1>1. PICK F : Sums(h, F, S)
  BY SumsExist
<1>2. /\ F \in [SUBSET S -> Int] /\ F[{}] = 0
      /\ \A U \in SUBSET S : \A b \in U : F[U] = h[b].size + F[U \ {b}]
  BY <1>1 DEF Sums
<1>3. Bytes(h, S) = F[S]
  BY <1>1, BytesSums
<1>4. ASSUME NEW b \in S
      PROVE  Bytes(h, S \ {b}) = F[S \ {b}]
  <2> DEFINE R == S \ {b}
             G == [U \in SUBSET R |-> F[U]]
  <2>1. IsFiniteSet(R) /\ R \in SUBSET S
    BY FS_Subset
  <2>2. \A U \in SUBSET R : U \in SUBSET S /\ G[U] = F[U] /\ \A c \in U : U \ {c} \in SUBSET R
    BY <2>1
  <2>3. Sums(h, G, R)
    <3>1. G \in [SUBSET R -> Int]
      BY <1>2, <2>2
    <3>2. G[{}] = 0
      BY <1>2, <2>2
    <3>3. \A U \in SUBSET R : \A c \in U : G[U] = h[c].size + G[U \ {c}]
      BY <1>2, <2>2
    <3> QED BY <3>1, <3>2, <3>3 DEF Sums
  <2>4. Bytes(h, R) = G[R]
    BY <2>1, <2>3, BytesSums
  <2> QED BY <2>2, <2>4
<1> QED BY <1>2, <1>3, <1>4

\* They depend on the sizes alone.
LEMMA BytesSame ==
    ASSUME NEW h, NEW g, NEW S, IsFiniteSet(S), 
           \A b \in S : h[b].size \in Int, \A b \in S : g[b].size = h[b].size
    PROVE  Bytes(g, S) = Bytes(h, S)
<1>1. PICK F : Sums(h, F, S)
  BY SumsExist
<1>2. Sums(g, F, S)
  BY <1>1 DEF Sums
<1> QED BY <1>1, <1>2, BytesSums

-----------------------------------------------------------------------------
(* The memory tracker: the accounts.  The report is inductive with the     *)
(* types and the order of the buckets.                                     *)

Tags == [site : Keys, size : Nat]

Held == {b \in Blocks : Allocated(b)}

\* The types, and what a debug_realloc in progress holds.
Types ==
    /\ BInv
    /\ pc \in {"idle", "realloc", "crashed"}
    /\ heap \in [Blocks -> Tags \cup {NoTag}]
    /\ IsFiniteSet(Held)
    /\ count \in [Elems -> Nat]
    /\ total_size \in [Elems -> Int]
    /\ missed \subseteq Keys
    /\ pc = "realloc" => moving.block \in Held /\ moving.tag \in Tags

MInv == Types /\ ExactReport /\ NoFalseLeak /\ NoEmptyInfo

\* The blocks of a site are finitely many, and their sizes are numbers.
LEMMA ActiveLemma ==
    ASSUME Types, NEW l \in Keys
    PROVE  /\ IsFiniteSet(Active(l))
           /\ Cardinality(Active(l)) \in Nat
           /\ \A b \in Active(l) : b \in Held /\ heap[b] \in Tags /\ heap[b].site = l
           /\ \A b \in Active(l) : heap[b].size \in Nat
           /\ Bytes(heap, Active(l)) \in Int
<1>1. \A b \in Active(l) : b \in Held /\ heap[b] \in Tags /\ heap[b].site = l
  BY DEF Active, Held, Allocated, Types
<1>2. \A b \in Active(l) : heap[b].size \in Nat
  BY <1>1 DEF Tags
<1>3. IsFiniteSet(Active(l)) /\ Cardinality(Active(l)) \in Nat
  <2>1. Active(l) \in SUBSET Held /\ IsFiniteSet(Held)
    BY <1>1 DEF Types
  <2> QED BY <2>1, FS_Subset, FS_CardinalityType
<1>4. Bytes(heap, Active(l)) \in Int
  BY <1>2, <1>3, BytesLemma
<1> QED BY <1>1, <1>2, <1>3, <1>4

\* What MInv says of a site.
LEMMA SiteLemma ==
    ASSUME MInv, pc # "crashed", NEW l \in Keys
    PROVE  /\ Found(l) \in Elems \cup {NoElem}
           /\ Found(l) # NoElem =>
                Linked(Found(l)) /\ key[Found(l)] = l /\ count[Found(l)] \in Nat \ {0}
           /\ Reported(l) \in Nat /\ ReportedSize(l) \in Int
           /\ Reported(l) <= Cardinality(Active(l))
           /\ l \notin missed =>
                /\ Reported(l) = Cardinality(Active(l))
                /\ ReportedSize(l) = Bytes(heap, Active(l))
                /\ Found(l) # NoElem <=> Active(l) # {}
<1>1. FoundSaysLinked /\ NoElem \notin Elems
  BY FoundLemma, HashAssumption DEF MInv, Types
<1>2. Found(l) # NoElem => count[Found(l)] \in Nat \ {0}
  <2>1. \A e \in Elems : Linked(e) => count[e] \in Nat \ {0}
    BY DEF MInv, Types, NoEmptyInfo
  <2> QED BY <1>1, <2>1 DEF FoundSaysLinked
<1>3. Reported(l) <= Cardinality(Active(l))
  BY DEF MInv, NoFalseLeak
<1>4. l \notin missed =>
         /\ Reported(l) = Cardinality(Active(l))
         /\ ReportedSize(l) = Bytes(heap, Active(l))
         /\ Found(l) # NoElem <=> Active(l) # {}
  BY DEF MInv, ExactReport
<1>5. Reported(l) \in Nat /\ ReportedSize(l) \in Int
  BY <1>1, <1>2 DEF FoundSaysLinked, Reported, ReportedSize, MInv, Types
<1> QED BY <1>1, <1>2, <1>3, <1>4, <1>5 DEF FoundSaysLinked

\* Block b joins the blocks A, or leaves them, while heap h becomes heap g.
Joins(h, g, A, b) ==
    /\ IsFiniteSet(A) /\ b \notin A /\ g[b].size \in Nat
    /\ \A x \in A : h[x].size \in Nat /\ g[x].size = h[x].size

Leaves(h, g, A, b) ==
    /\ IsFiniteSet(A) /\ b \in A
    /\ \A x \in A : h[x].size \in Nat
    /\ \A x \in A \ {b} : g[x].size = h[x].size

LEMMA OneMore ==
    ASSUME NEW h, NEW g, NEW A, NEW b, Joins(h, g, A, b)
    PROVE  /\ Cardinality(A \cup {b}) = Cardinality(A) + 1
           /\ Bytes(g, A \cup {b}) = Bytes(h, A) + g[b].size
<1>0. /\ IsFiniteSet(A) /\ b \notin A /\ g[b].size \in Nat
      /\ \A x \in A : h[x].size \in Nat /\ g[x].size = h[x].size
  BY DEF Joins
<1>1. IsFiniteSet(A \cup {b}) /\ Cardinality(A \cup {b}) = Cardinality(A) + 1
  BY <1>0, FS_AddElement
<1>2. \A x \in A : h[x].size \in Int
  BY <1>0
<1>3. \A x \in A \cup {b} : g[x].size \in Int
  BY <1>0
<1>4. Bytes(g, A \cup {b}) = g[b].size + Bytes(g, (A \cup {b}) \ {b})
  BY <1>0, <1>1, <1>3, BytesLemma
<1>5. (A \cup {b}) \ {b} = A
  BY <1>0
<1>6. Bytes(g, A) = Bytes(h, A) /\ Bytes(h, A) \in Int
  BY <1>0, <1>2, BytesSame, BytesLemma
<1>7. Bytes(g, A \cup {b}) = g[b].size + Bytes(h, A)
  BY <1>4, <1>5, <1>6, Zenon
<1>8. g[b].size + Bytes(h, A) = Bytes(h, A) + g[b].size
  BY <1>0, <1>6
<1> QED BY <1>0, <1>1, <1>7, <1>8

LEMMA OneLess ==
    ASSUME NEW h, NEW g, NEW A, NEW b, Leaves(h, g, A, b)
    PROVE  /\ Cardinality(A \ {b}) = Cardinality(A) - 1
           /\ Bytes(g, A \ {b}) = Bytes(h, A) - h[b].size
<1>0. /\ IsFiniteSet(A) /\ b \in A
      /\ \A x \in A : h[x].size \in Nat
      /\ \A x \in A \ {b} : g[x].size = h[x].size
  BY DEF Leaves
<1>1. IsFiniteSet(A \ {b}) /\ Cardinality(A \ {b}) = Cardinality(A) - 1
  BY <1>0, FS_RemoveElement
<1>2. \A x \in A : h[x].size \in Int
  BY <1>0
<1>3. \A x \in A \ {b} : h[x].size \in Int
  BY <1>0
<1>4. Bytes(h, A) = h[b].size + Bytes(h, A \ {b})
  BY <1>0, <1>2, BytesLemma
<1>5. Bytes(g, A \ {b}) = Bytes(h, A \ {b}) /\ Bytes(h, A \ {b}) \in Int
  BY <1>0, <1>1, <1>3, BytesSame, BytesLemma
<1> QED BY <1>0, <1>1, <1>2, <1>4, <1>5

\* The tracker's own part of the invariant.
Books ==
    /\ BInv
    /\ count \in [Elems -> Nat]
    /\ total_size \in [Elems -> Int]
    /\ missed \subseteq Keys
    /\ ExactReport /\ NoFalseLeak /\ NoEmptyInfo

\* checkMalloc keeps the books when just the block it counts joins its site.
LEMMA CountLemma ==
    ASSUME MInv, pc # "crashed", NEW tag \in Tags, NEW b \in Blocks, checkMalloc(tag),
           b \notin Active(tag.site), heap'[b] = tag,
           \A l \in Keys : Active(l)' = IF l = tag.site THEN Active(l) \cup {b} ELSE Active(l),
           \A l \in Keys : \A x \in Active(l) : heap'[x].size = heap[x].size
    PROVE  Books'
<1> DEFINE site == tag.site
<1>1. site \in Keys /\ tag.size \in Nat
  BY DEF Tags
<1>2. /\ Types /\ BInv /\ FoundSaysLinked /\ NoElem \notin Elems
      /\ count \in [Elems -> Nat] /\ total_size \in [Elems -> Int] /\ missed \subseteq Keys
      /\ \A e \in Elems : Linked(e) => count[e] > 0
  BY FoundLemma, HashAssumption DEF MInv, Types, NoEmptyInfo
<1>3. ASSUME NEW l \in Keys
      PROVE  /\ Cardinality(Active(l)) \in Nat /\ Bytes(heap, Active(l)) \in Int
             /\ Cardinality(Active(l))' = IF l = site THEN Cardinality(Active(l)) + 1
                                                      ELSE Cardinality(Active(l))
             /\ Bytes(heap, Active(l))' = IF l = site THEN Bytes(heap, Active(l)) + tag.size
                                                      ELSE Bytes(heap, Active(l))
             /\ Active(site)' # {} /\ (l # site => Active(l)' = Active(l))
  <2>1. /\ IsFiniteSet(Active(l)) /\ Cardinality(Active(l)) \in Nat
        /\ \A x \in Active(l) : heap[x].size \in Nat
        /\ Bytes(heap, Active(l)) \in Int
    BY <1>2, ActiveLemma
  <2>2. \A x \in Active(l) : heap'[x].size = heap[x].size
    OBVIOUS
  <2>3. CASE l = site
    <3>1. Active(l)' = Active(l) \cup {b} /\ b \notin Active(l) /\ heap'[b].size \in Nat
      BY <1>1, <2>3
    <3>2. /\ Cardinality(Active(l) \cup {b}) = Cardinality(Active(l)) + 1
          /\ Bytes(heap', Active(l) \cup {b}) = Bytes(heap, Active(l)) + heap'[b].size
      <4> DEFINE h == heap
                 g == heap'
                 A == Active(l)
      <4>1. Joins(h, g, A, b)
        BY <2>1, <2>2, <3>1 DEF Joins
      <4> HIDE DEF h, g, A
      <4>2. /\ Cardinality(A \cup {b}) = Cardinality(A) + 1
            /\ Bytes(g, A \cup {b}) = Bytes(h, A) + g[b].size
        BY <4>1, OneMore
      <4> QED BY <4>2 DEF h, g, A
    <3> QED BY <2>1, <2>3, <3>1, <3>2
  <2>4. CASE l # site
    <3>1. Active(l)' = Active(l)
      BY <2>4
    <3>2. \A x \in Active(l) : heap[x].size \in Int
      BY <2>1
    <3>3. Bytes(heap', Active(l)) = Bytes(heap, Active(l))
      BY <2>1, <2>2, <3>2, BytesSame
    <3> QED BY <1>1, <2>1, <2>4, <3>1, <3>3
  <2> QED BY <2>3, <2>4
<1>4. \A l \in Keys :
        /\ Found(l) \in Elems \cup {NoElem}
        /\ Found(l) # NoElem => Linked(Found(l)) /\ key[Found(l)] = l
        /\ Reported(l) \in Nat /\ ReportedSize(l) \in Int
        /\ Reported(l) <= Cardinality(Active(l))
        /\ l \notin missed =>
             /\ Reported(l) = Cardinality(Active(l))
             /\ ReportedSize(l) = Bytes(heap, Active(l))
             /\ Found(l) # NoElem <=> Active(l) # {}
  BY SiteLemma
<1>5. ASSUME BInv', count' \in [Elems -> Nat], total_size' \in [Elems -> Int],
             missed' \subseteq Keys, missed \subseteq missed', NoEmptyInfo',
             \A l \in Keys : l # site => Found(l)' = Found(l) /\ Reported(l)' = Reported(l)
                                           /\ ReportedSize(l)' = ReportedSize(l),
             \/ site \in missed' /\ Reported(site)' = 0
             \/ /\ Found(site)' # NoElem
                /\ Reported(site)' = Reported(site) + 1
                /\ ReportedSize(site)' = ReportedSize(site) + tag.size
      PROVE  Books'
  <2>1. \A l \in Keys : Reported(l)' <= Cardinality(Active(l))'
    BY <1>1, <1>3, <1>4, <1>5
  <2>2. \A l \in Keys : l \notin missed' =>
           /\ Reported(l)' = Cardinality(Active(l))'
           /\ ReportedSize(l)' = Bytes(heap, Active(l))'
           /\ Found(l)' # NoElem <=> Active(l)' # {}
    BY <1>1, <1>3, <1>4, <1>5
  <2>3. NoFalseLeak'
    BY <2>1 DEF NoFalseLeak
  <2>4. ExactReport'
    BY <2>2 DEF ExactReport
  <2> QED BY <1>5, <2>3, <2>4 DEF Books
<1>6. CASE /\ Found(site) # NoElem
           /\ count' = [count EXCEPT ![Found(site)] = @ + 1]
           /\ total_size' = [total_size EXCEPT ![Found(site)] = @ + tag.size]
           /\ UNCHANGED <<buckets, key, missed>>
  <2>1. /\ BInv' /\ \A l \in Keys : Found(l)' = Found(l)
        /\ \A x \in Elems : Linked(x)' <=> Linked(x)
    BY <1>2, <1>6, SameBuckets
  <2>2. /\ Found(site) \in Elems /\ key[Found(site)] = site
        /\ count' \in [Elems -> Nat] /\ total_size' \in [Elems -> Int]
        /\ count'[Found(site)] = count[Found(site)] + 1
        /\ total_size'[Found(site)] = total_size[Found(site)] + tag.size
        /\ \A x \in Elems : x # Found(site) => count'[x] = count[x] /\ total_size'[x] = total_size[x]
    BY <1>1, <1>2, <1>4, <1>6
  <2>3. NoEmptyInfo'
    BY <1>2, <2>1, <2>2 DEF NoEmptyInfo
  <2>4. \A l \in Keys : l # site => Found(l) # Found(site) \/ Found(l) = NoElem
    BY <1>4, <2>2
  <2>5. \A l \in Keys : l # site => Reported(l)' = Reported(l) /\ ReportedSize(l)' = ReportedSize(l)
    BY <1>4, <2>1, <2>2, <2>4 DEF Reported, ReportedSize
  <2>6. Reported(site)' = Reported(site) + 1 /\ ReportedSize(site)' = ReportedSize(site) + tag.size
    BY <1>1, <1>6, <2>1, <2>2 DEF Reported, ReportedSize
  <2> QED BY <1>1, <1>2, <1>5, <1>6, <2>1, <2>2, <2>3, <2>5, <2>6
<1>7. CASE /\ Found(site) = NoElem
           /\ missed' = missed \cup {site}
           /\ UNCHANGED <<buckets, key, count, total_size>>
  <2>1. /\ BInv' /\ \A l \in Keys : Found(l)' = Found(l)
        /\ \A x \in Elems : Linked(x)' <=> Linked(x)
    BY <1>2, <1>7, SameBuckets
  <2>2. NoEmptyInfo'
    BY <1>2, <1>7, <2>1 DEF NoEmptyInfo
  <2>3. \A l \in Keys : Reported(l)' = Reported(l) /\ ReportedSize(l)' = ReportedSize(l)
    BY <1>7, <2>1 DEF Reported, ReportedSize
  <2>4. Reported(site)' = 0
    BY <1>1, <1>7, <2>1 DEF Reported
  <2> QED BY <1>1, <1>2, <1>5, <1>7, <2>1, <2>2, <2>3, <2>4
<1>8. CASE /\ Found(site) = NoElem
           /\ \E info \in {e \in Elems : ~Linked(e)} :
                /\ key' = [key EXCEPT ![info] = site]
                /\ count' = [count EXCEPT ![info] = 1]
                /\ total_size' = [total_size EXCEPT ![info] = tag.size]
                /\ buckets' = Linking(site, info)
           /\ UNCHANGED missed
  <2>1. PICK info \in Elems :
               /\ ~Linked(info)
               /\ key' = [key EXCEPT ![info] = site]
               /\ count' = [count EXCEPT ![info] = 1]
               /\ total_size' = [total_size EXCEPT ![info] = tag.size]
               /\ buckets' = Linking(site, info)
    BY <1>8
  <2>2. /\ BInv' /\ \A l \in Keys : Found(l)' = IF l = site THEN info ELSE Found(l)
        /\ \A x \in Elems : Linked(x)' <=> Linked(x) \/ x = info
    BY <1>1, <1>2, <1>8, <2>1, AddLemma
  <2>3. /\ count' \in [Elems -> Nat] /\ total_size' \in [Elems -> Int]
        /\ count'[info] = 1 /\ total_size'[info] = tag.size
        /\ \A x \in Elems : x # info => count'[x] = count[x] /\ total_size'[x] = total_size[x]
    BY <1>1, <1>2, <2>1
  <2>4. NoEmptyInfo'
    BY <1>2, <2>2, <2>3 DEF NoEmptyInfo
  <2>5. \A l \in Keys : Found(l) # info
    BY <1>2, <1>4, <2>1
  <2>6. \A l \in Keys : l # site => Reported(l)' = Reported(l) /\ ReportedSize(l)' = ReportedSize(l)
    BY <1>4, <2>2, <2>3, <2>5 DEF Reported, ReportedSize
  <2>7. /\ Found(site)' # NoElem
        /\ Reported(site)' = Reported(site) + 1
        /\ ReportedSize(site)' = ReportedSize(site) + tag.size
    BY <1>1, <1>2, <1>8, <2>2, <2>3 DEF Reported, ReportedSize
  <2> QED BY <1>1, <1>2, <1>5, <1>8, <2>2, <2>3, <2>4, <2>6, <2>7
<1> QED BY <1>6, <1>7, <1>8 DEF checkMalloc

\* checkFree keeps the books when just the block it takes off leaves its site.
LEMMA UncountLemma ==
    ASSUME MInv, pc # "crashed", NEW tag \in Tags, NEW b \in Blocks, checkFree(tag),
           heap[b] = tag, b \in Active(tag.site),
           \A l \in Keys : Active(l)' = Active(l) \ {b},
           \A l \in Keys : \A x \in Active(l) \ {b} : heap'[x].size = heap[x].size
    PROVE  Books'
<1> DEFINE site == tag.site
<1>1. site \in Keys /\ tag.size \in Nat
  BY DEF Tags
<1>2. /\ Types /\ BInv /\ FoundSaysLinked /\ NoElem \notin Elems
      /\ count \in [Elems -> Nat] /\ total_size \in [Elems -> Int] /\ missed \subseteq Keys
      /\ \A e \in Elems : Linked(e) => count[e] > 0
  BY FoundLemma, HashAssumption DEF MInv, Types, NoEmptyInfo
<1>3. ASSUME NEW l \in Keys
      PROVE  /\ Cardinality(Active(l)) \in Nat /\ Bytes(heap, Active(l)) \in Int
             /\ Cardinality(Active(l))' \in Nat
             /\ Cardinality(Active(l))' = IF l = site THEN Cardinality(Active(l)) - 1
                                                      ELSE Cardinality(Active(l))
             /\ Bytes(heap, Active(l))' = IF l = site THEN Bytes(heap, Active(l)) - tag.size
                                                      ELSE Bytes(heap, Active(l))
             /\ Active(l)' = {} <=> Cardinality(Active(l))' = 0
             /\ Active(l)' = {} => Bytes(heap, Active(l))' = 0
  <2>1. /\ IsFiniteSet(Active(l)) /\ Cardinality(Active(l)) \in Nat
        /\ \A x \in Active(l) : heap[x].size \in Nat /\ heap[x].site = l
        /\ Bytes(heap, Active(l)) \in Int
    BY <1>2, ActiveLemma
  <2>2. /\ \A x \in Active(l) \ {b} : heap'[x].size = heap[x].size
        /\ Active(l)' = Active(l) \ {b}
    OBVIOUS
  <2>3. IsFiniteSet(Active(l) \ {b})
    BY <2>1, FS_RemoveElement
  <2>4. /\ Active(l)' = {} <=> Cardinality(Active(l))' = 0
        /\ Cardinality(Active(l))' \in Nat
    BY <2>2, <2>3, FS_EmptySet, FS_CardinalityType
  <2>5. Active(l)' = {} => Bytes(heap, Active(l))' = 0
    <3>1. IsFiniteSet(Active(l)') /\ \A x \in Active(l)' : heap'[x].size \in Int
      BY <2>1, <2>2, <2>3
    <3> QED BY <3>1, BytesLemma
  <2>6. CASE l = site
    <3>1. b \in Active(l)
      BY <2>6
    <3>2. /\ Cardinality(Active(l) \ {b}) = Cardinality(Active(l)) - 1
          /\ Bytes(heap', Active(l) \ {b}) = Bytes(heap, Active(l)) - heap[b].size
      <4> DEFINE h == heap
                 g == heap'
                 A == Active(l)
      <4>1. Leaves(h, g, A, b)
        BY <2>1, <2>2, <3>1 DEF Leaves
      <4> HIDE DEF h, g, A
      <4>2. /\ Cardinality(A \ {b}) = Cardinality(A) - 1
            /\ Bytes(g, A \ {b}) = Bytes(h, A) - h[b].size
        BY <4>1, OneLess
      <4> QED BY <4>2 DEF h, g, A
    <3> QED BY <2>1, <2>2, <2>4, <2>5, <2>6, <3>2
  <2>7. CASE l # site
    <3>1. b \notin Active(l)
      BY <2>1, <2>7
    <3>2. Active(l)' = Active(l)
      BY <2>2, <3>1
    <3>3. \A x \in Active(l) : heap[x].size \in Int /\ heap'[x].size = heap[x].size
      BY <2>1, <2>2, <3>1
    <3>4. Bytes(heap', Active(l)) = Bytes(heap, Active(l))
      BY <2>1, <3>3, BytesSame
    <3> QED BY <2>1, <2>4, <2>5, <2>7, <3>2, <3>4
  <2> QED BY <2>6, <2>7
<1>4. \A l \in Keys :
        /\ Found(l) \in Elems \cup {NoElem}
        /\ Found(l) # NoElem =>
             Linked(Found(l)) /\ key[Found(l)] = l /\ count[Found(l)] \in Nat \ {0}
        /\ Reported(l) \in Nat /\ ReportedSize(l) \in Int
        /\ Reported(l) <= Cardinality(Active(l))
        /\ l \notin missed =>
             /\ Reported(l) = Cardinality(Active(l))
             /\ ReportedSize(l) = Bytes(heap, Active(l))
             /\ Found(l) # NoElem <=> Active(l) # {}
  BY SiteLemma
<1>5. ASSUME BInv', count' \in [Elems -> Nat], total_size' \in [Elems -> Int],
             missed' = missed, NoEmptyInfo',
             \A l \in Keys : l # site => Found(l)' = Found(l) /\ Reported(l)' = Reported(l)
                                           /\ ReportedSize(l)' = ReportedSize(l),
             \/ site \in missed /\ Reported(site)' = 0
             \/ /\ Reported(site)' = Reported(site) - 1
                /\ \/ /\ Found(site)' # NoElem
                      /\ Reported(site)' # 0
                      /\ ReportedSize(site)' = ReportedSize(site) - tag.size
                   \/ /\ Found(site)' = NoElem
                      /\ Reported(site)' = 0
                      /\ ReportedSize(site)' = 0
      PROVE  Books'
  <2>1. \A l \in Keys : l # site =>
           /\ Reported(l)' <= Cardinality(Active(l))'
           /\ l \notin missed' =>
                /\ Reported(l)' = Cardinality(Active(l))'
                /\ ReportedSize(l)' = Bytes(heap, Active(l))'
                /\ Found(l)' # NoElem <=> Active(l)' # {}
    <3> SUFFICES ASSUME NEW l \in Keys, l # site
                 PROVE  /\ Reported(l)' <= Cardinality(Active(l))'
                        /\ l \notin missed' =>
                             /\ Reported(l)' = Cardinality(Active(l))'
                             /\ ReportedSize(l)' = Bytes(heap, Active(l))'
                             /\ Found(l)' # NoElem <=> Active(l)' # {}
      OBVIOUS
    <3>1. Active(l)' = Active(l)
      <4>1. \A x \in Active(l) : heap[x].site = l
        BY <1>2, ActiveLemma
      <4> QED BY <4>1
    <3> QED BY <1>3, <1>4, <1>5, <3>1
  <2>2. Reported(site)' <= Cardinality(Active(site))'
    BY <1>1, <1>3, <1>4, <1>5
  <2>3. site \notin missed' =>
           /\ Reported(site)' = Cardinality(Active(site))'
           /\ ReportedSize(site)' = Bytes(heap, Active(site))'
           /\ Found(site)' # NoElem <=> Active(site)' # {}
    BY <1>1, <1>3, <1>4, <1>5
  <2>4. NoFalseLeak'
    BY <2>1, <2>2 DEF NoFalseLeak
  <2>5. ExactReport'
    BY <2>1, <2>3 DEF ExactReport
  <2> QED BY <1>2, <1>5, <2>4, <2>5 DEF Books
<1>6. CASE Found(site) = NoElem /\ UNCHANGED <<buckets, key, count, total_size, missed>>
  <2>1. /\ BInv' /\ \A l \in Keys : Found(l)' = Found(l)
        /\ \A x \in Elems : Linked(x)' <=> Linked(x)
    BY <1>2, <1>6, SameBuckets
  <2>2. NoEmptyInfo'
    BY <1>2, <1>6, <2>1 DEF NoEmptyInfo
  <2>3. \A l \in Keys : Reported(l)' = Reported(l) /\ ReportedSize(l)' = ReportedSize(l)
    BY <1>6, <2>1 DEF Reported, ReportedSize
  <2>4. site \in missed /\ Reported(site)' = 0
    BY <1>1, <1>4, <1>6, <2>1 DEF Reported
  <2> QED BY <1>2, <1>5, <1>6, <2>1, <2>2, <2>3, <2>4
<1>7. CASE Found(site) # NoElem
  <2> DEFINE info == Found(site)
  <2>1. /\ count' = [count EXCEPT ![info] = @ - 1]
        /\ total_size' = [total_size EXCEPT ![info] = @ - tag.size]
        /\ buckets' = IF count'[info] = 0 THEN Unlinking(site) ELSE buckets
        /\ UNCHANGED <<key, missed>>
    BY <1>7 DEF checkFree
  <2>2. /\ info \in Elems /\ key[info] = site /\ Linked(info) /\ count[info] \in Nat \ {0}
    BY <1>1, <1>4, <1>7
  <2> HIDE DEF info
  <2>3. /\ count' \in [Elems -> Nat] /\ total_size' \in [Elems -> Int]
        /\ count'[info] = count[info] - 1
        /\ total_size'[info] = total_size[info] - tag.size
        /\ \A x \in Elems : x # info => count'[x] = count[x] /\ total_size'[x] = total_size[x]
    BY <1>1, <1>2, <2>1, <2>2
  <2>4. \A l \in Keys : l # site => Found(l) # info
    BY <1>2, <1>4, <2>2
  <2>5. Found(site) = info
    BY DEF info
  <2>6. CASE count'[info] = 0
    <3>1. /\ BInv' /\ \A l \in Keys : Found(l)' = IF l = site THEN NoElem ELSE Found(l)
          /\ \A x \in Elems : Linked(x)' <=> Linked(x) /\ x # info
      BY <1>1, <1>2, <1>7, <2>1, <2>5, <2>6, DeleteLemma
    <3>2. NoEmptyInfo'
      BY <1>2, <2>3, <3>1 DEF NoEmptyInfo
    <3>3. \A l \in Keys : l # site => Reported(l)' = Reported(l) /\ ReportedSize(l)' = ReportedSize(l)
      BY <1>4, <2>3, <2>4, <3>1 DEF Reported, ReportedSize
    <3>4. /\ Found(site)' = NoElem /\ Reported(site)' = 0 /\ ReportedSize(site)' = 0
          /\ Reported(site)' = Reported(site) - 1
      BY <1>1, <1>7, <2>2, <2>3, <2>5, <2>6, <3>1 DEF Reported, ReportedSize
    <3> QED BY <1>5, <2>1, <2>3, <3>1, <3>2, <3>3, <3>4
  <2>7. CASE count'[info] # 0
    <3>1. /\ BInv' /\ \A l \in Keys : Found(l)' = Found(l)
          /\ \A x \in Elems : Linked(x)' <=> Linked(x)
      BY <1>2, <2>1, <2>7, SameBuckets
    <3>2. NoEmptyInfo'
      BY <1>2, <2>2, <2>3, <2>7, <3>1 DEF NoEmptyInfo
    <3>3. \A l \in Keys : l # site => Reported(l)' = Reported(l) /\ ReportedSize(l)' = ReportedSize(l)
      BY <1>4, <2>3, <2>4, <3>1 DEF Reported, ReportedSize
    <3>4. /\ Found(site)' # NoElem /\ Reported(site)' # 0
          /\ Reported(site)' = Reported(site) - 1
          /\ ReportedSize(site)' = ReportedSize(site) - tag.size
      BY <1>1, <1>7, <2>2, <2>3, <2>5, <2>7, <3>1 DEF Reported, ReportedSize
    <3> QED BY <1>5, <2>1, <2>3, <3>1, <3>2, <3>3, <3>4
  <2> QED BY <2>6, <2>7
<1> QED BY <1>6, <1>7 DEF checkFree

\* The types outside the books follow from the action.
LEMMA MInvLemma ==
    ASSUME Books', pc' \in {"idle", "realloc", "crashed"},
           heap' \in [Blocks -> Tags \cup {NoTag}], IsFiniteSet(Held'),
           pc' = "realloc" => moving'.block \in Held' /\ moving'.tag \in Tags
    PROVE  MInv'
BY DEF Books, MInv, Types

\* Nothing but what was returned, or pc at a crash.
LEMMA NothingChanged ==
    ASSUME MInv, UNCHANGED <<buckets, key, heap, count, total_size, moving, missed>>,
           pc' = pc \/ pc' = "crashed"
    PROVE  MInv'
<1>1. BInv' /\ \A l \in Keys : Found(l)' = Found(l)
  BY SameBuckets DEF MInv, Types
<1>2. \A x \in Elems : Linked(x)' <=> Linked(x)
  BY SameBuckets
<1>3. Held' = Held
  BY DEF Held, Allocated
<1>4. Types'
  BY <1>1, <1>3 DEF MInv, Types
<1>5. \A l \in Keys : Reported(l)' = Reported(l) /\ ReportedSize(l)' = ReportedSize(l)
  BY <1>1 DEF Reported, ReportedSize
<1>6. pc' # "crashed" => pc # "crashed" /\ \A l \in Keys : Active(l)' = Active(l)
  BY DEF Active
<1>7. ExactReport'
  <2> SUFFICES ASSUME pc' # "crashed", NEW l \in Keys \ missed
               PROVE  /\ Reported(l)' = Cardinality(Active(l))'
                      /\ ReportedSize(l)' = Bytes(heap, Active(l))'
                      /\ Found(l)' # NoElem <=> Active(l)' # {}
    BY DEF ExactReport
  <2>1. /\ Reported(l) = Cardinality(Active(l))
        /\ ReportedSize(l) = Bytes(heap, Active(l))
        /\ Found(l) # NoElem <=> Active(l) # {}
    BY <1>6 DEF MInv, ExactReport
  <2>2. Active(l)' = Active(l) /\ heap' = heap
    BY <1>6
  <2> QED BY <1>1, <1>5, <2>1, <2>2
<1>8. NoFalseLeak'
  BY <1>5, <1>6 DEF MInv, NoFalseLeak
<1>9. NoEmptyInfo'
  BY <1>2 DEF MInv, NoEmptyInfo
<1> QED BY <1>4, <1>7, <1>8, <1>9 DEF MInv

\* A new block is counted.
LEMMA AllocateLemma ==
    ASSUME MInv, pc = "idle", NEW site \in Keys, NEW size \in Nat, Allocate(site, size)
    PROVE  MInv'
<1> DEFINE tag == Tag(site, size)
<1>1. tag \in Tags /\ tag.site = site /\ tag # NoTag
  BY BlockAssumption DEF Tag, Tags
<1> HIDE DEF tag
<1>2. PICK b \in Blocks :
            /\ ~Allocated(b) /\ heap' = [heap EXCEPT ![b] = tag] /\ checkMalloc(tag)
            /\ UNCHANGED <<pc, moving>>
  BY DEF Allocate, tag
<1>3. heap \in [Blocks -> Tags \cup {NoTag}] /\ IsFiniteSet(Held)
  BY DEF MInv, Types
<1>4. /\ heap'[b] = tag /\ heap[b] = NoTag
      /\ heap' \in [Blocks -> Tags \cup {NoTag}]
      /\ \A x \in Blocks : x # b => heap'[x] = heap[x]
  BY <1>1, <1>2, <1>3 DEF Allocated
<1>5. Held' = Held \cup {b}
  BY <1>1, <1>4 DEF Held, Allocated
<1>6. IsFiniteSet(Held')
  BY <1>3, <1>5, FS_AddElement
<1>7. \A l \in Keys : Active(l)' = IF l = tag.site THEN Active(l) \cup {b} ELSE Active(l)
  BY <1>1, <1>2, <1>4 DEF Active
<1>8. \A l \in Keys : b \notin Active(l)
  BY <1>4 DEF Active
<1>9. \A l \in Keys : \A x \in Active(l) : heap'[x].size = heap[x].size
  BY <1>4, <1>8 DEF Active
<1>10. Books'
  BY <1>1, <1>2, <1>4, <1>7, <1>8, <1>9, CountLemma
<1> QED BY <1>2, <1>4, <1>6, <1>10, MInvLemma

\* The block of a call that frees or moves it is taken off the books, by a step
\* after which it is not active.
LEMMA ForgetLemma ==
    ASSUME MInv, pc = "idle", NEW b \in Blocks, Allocated(b), checkFree(heap[b]),
           \A x \in Blocks : x # b => heap'[x] = heap[x],
           heap'[b] = NoTag \/ (pc' = "realloc" /\ moving'.block = b),
           pc' = "realloc" => moving'.block = b
    PROVE  Books'
<1>1. PICK tag \in Tags : heap[b] = tag
  BY DEF MInv, Types, Allocated
<1>2. \A l \in Keys : Active(l)' = Active(l) \ {b}
  BY DEF Active
<1>3. \A l \in Keys : \A x \in Active(l) \ {b} : heap'[x].size = heap[x].size
  BY DEF Active
<1>4. b \in Active(tag.site)
  BY <1>1 DEF Active, Allocated
<1> QED BY <1>1, <1>2, <1>3, <1>4, UncountLemma

\* debug_free.
LEMMA FreeLemma ==
    ASSUME MInv, NEW b \in Blocks, debug_free(b)
    PROVE  MInv'
<1>1. /\ pc = "idle" /\ pc' = "idle" /\ Allocated(b) /\ checkFree(heap[b])
      /\ heap' = [heap EXCEPT ![b] = NoTag]
      /\ heap \in [Blocks -> Tags \cup {NoTag}] /\ IsFiniteSet(Held)
  BY DEF debug_free, MInv, Types
<1>2. /\ heap' \in [Blocks -> Tags \cup {NoTag}] /\ heap'[b] = NoTag
      /\ \A x \in Blocks : x # b => heap'[x] = heap[x]
  BY <1>1
<1>3. Held' = Held \ {b}
  BY <1>2 DEF Held, Allocated
<1>4. IsFiniteSet(Held')
  BY <1>1, <1>3, FS_RemoveElement
<1>5. Books'
  BY <1>1, <1>2, ForgetLemma
<1> QED BY <1>1, <1>2, <1>4, <1>5, MInvLemma

\* The first half of debug_realloc.
LEMMA ReallocForgets ==
    ASSUME MInv, NEW b \in Blocks, NEW site \in Keys, NEW size \in Nat,
           debug_realloc(b, site, size)
    PROVE  MInv'
<1>1. /\ pc = "idle" /\ pc' = "realloc" /\ Allocated(b) /\ checkFree(heap[b])
      /\ moving' = [block |-> b, tag |-> Tag(site, size)] /\ heap' = heap
      /\ heap \in [Blocks -> Tags \cup {NoTag}] /\ IsFiniteSet(Held)
  BY DEF debug_realloc, MInv, Types
<1>2. Held' = Held /\ b \in Held
  BY <1>1 DEF Held, Allocated
<1>3. moving'.block = b /\ moving'.tag \in Tags
  BY <1>1 DEF Tag, Tags
<1>4. Books'
  BY <1>1, <1>3, ForgetLemma
<1> QED BY <1>1, <1>2, <1>3, <1>4, MInvLemma

\* The second half, when realloc succeeds.
LEMMA ReallocMoves ==
    ASSUME MInv, pc = "realloc", NEW b \in Blocks, b = moving.block \/ ~Allocated(b),
           heap' = [heap EXCEPT ![moving.block] = NoTag, ![b] = moving.tag],
           checkMalloc(moving.tag), pc' = "idle"
    PROVE  MInv'
<1>1. PICK old \in Blocks, tag \in Tags : old = moving.block /\ tag = moving.tag
  BY DEF MInv, Types, Held
<1>2. heap \in [Blocks -> Tags \cup {NoTag}] /\ IsFiniteSet(Held) /\ old \in Held
  BY <1>1 DEF MInv, Types
<1>3. tag # NoTag /\ tag.site \in Keys
  BY BlockAssumption DEF Tags
<1>4. /\ heap' = [[heap EXCEPT ![old] = NoTag] EXCEPT ![b] = tag]
      /\ checkMalloc(tag) /\ (b = old \/ heap[b] = NoTag)
  BY <1>1 DEF Allocated
<1>5. /\ heap' \in [Blocks -> Tags \cup {NoTag}] /\ heap'[b] = tag
      /\ b # old => heap'[old] = NoTag
      /\ \A x \in Blocks : x # b /\ x # old => heap'[x] = heap[x]
  BY <1>2, <1>4
<1>6. Held' = (Held \ {old}) \cup {b}
  BY <1>3, <1>5 DEF Held, Allocated
<1>7. IsFiniteSet(Held')
  BY <1>2, <1>6, FS_RemoveElement, FS_AddElement
<1>8. \A l \in Keys : Active(l) = {x \in Blocks : heap[x] # NoTag /\ heap[x].site = l /\ x # old}
  BY <1>1 DEF Active
<1>9. \A l \in Keys : Active(l)' = {x \in Blocks : heap'[x] # NoTag /\ heap'[x].site = l}
  BY DEF Active
<1>10. \A l \in Keys : b \notin Active(l)
  BY <1>4, <1>8
<1>11. \A l \in Keys : Active(l)' = IF l = tag.site THEN Active(l) \cup {b} ELSE Active(l)
  <2> SUFFICES ASSUME NEW l \in Keys
               PROVE  Active(l)' = IF l = tag.site THEN Active(l) \cup {b} ELSE Active(l)
    OBVIOUS
  <2>1. ASSUME NEW x \in Blocks
        PROVE  x \in Active(l)' <=> x \in Active(l) \/ (x = b /\ l = tag.site)
    <3>1. CASE x = b
      BY <1>3, <1>5, <1>9, <1>10, <3>1
    <3>2. CASE x # b
      BY <1>4, <1>5, <1>8, <1>9, <3>2
    <3> QED BY <3>1, <3>2
  <2>2. Active(l) \subseteq Blocks /\ Active(l)' \subseteq Blocks
    BY <1>8, <1>9
  <2> QED BY <2>1, <2>2
<1>12. \A l \in Keys : \A x \in Active(l) : heap'[x].size = heap[x].size
  BY <1>4, <1>5, <1>8
<1>13. Books'
  BY <1>3, <1>4, <1>5, <1>10, <1>11, <1>12, CountLemma
<1> QED BY <1>5, <1>7, <1>13, MInvLemma

\* Every function of the tracker keeps the invariant.
LEMMA NextMInv == MInv /\ [Next]_vars => MInv'
<1> SUFFICES ASSUME MInv, [Next]_vars PROVE MInv'
  OBVIOUS
<1>1. ASSUME NEW site \in Keys, NEW size \in Nat, debug_malloc(site, size)
      PROVE  MInv'
  BY <1>1, NothingChanged, AllocateLemma DEF debug_malloc, NoMemory
<1>2. ASSUME NEW site \in Keys, NEW size \in Sizes, NEW n \in Counts, debug_calloc(site, n, size)
      PROVE  MInv'
  <2>1. n \in Nat /\ size \in Nat
    BY BlockAssumption
  <2>2. n * size \in Nat
    BY <2>1
  <2> QED BY <1>1, <1>2, <2>2 DEF debug_calloc
<1>3. ASSUME NEW site \in Keys, NEW size \in Nat, debug_strdup(site, size)
      PROVE  MInv'
  BY <1>3, NothingChanged, AllocateLemma DEF debug_strdup, NoMemory
<1>4. ASSUME NEW site \in Keys, NEW size \in Nat, debug_realloc_null(site, size)
      PROVE  MInv'
  BY <1>4, NothingChanged, AllocateLemma DEF debug_realloc_null, NoMemory
<1>5. ASSUME Realloc
      PROVE  MInv'
  <2>1. CASE /\ pc' = "crashed"
             /\ UNCHANGED <<buckets, key, heap, count, total_size, returned, missed>>
    <3>1. \A l \in Keys : Found(l)' = Found(l)
      BY <2>1, SameBuckets
    <3>2. BInv' /\ \A x \in Elems : Linked(x)' <=> Linked(x)
      BY <2>1, SameBuckets DEF MInv, Types
    <3>3. Held' = Held
      BY <2>1 DEF Held, Allocated
    <3>4. Types' /\ NoEmptyInfo'
      BY <2>1, <3>2, <3>3 DEF MInv, Types, NoEmptyInfo
    <3>5. ExactReport' /\ NoFalseLeak'
      BY <2>1 DEF ExactReport, NoFalseLeak
    <3> QED BY <3>4, <3>5 DEF MInv
  <2>2. CASE \E b \in Blocks :
               /\ b = moving.block \/ ~Allocated(b)
               /\ heap' = [heap EXCEPT ![moving.block] = NoTag, ![b] = moving.tag]
               /\ checkMalloc(moving.tag)
               /\ returned' = b
               /\ pc' = "idle"
    BY <1>5, <2>2, ReallocMoves DEF Realloc
  <2> QED BY <1>5, <2>1, <2>2 DEF Realloc
<1>6. \A size \in Sizes : size \in Nat /\ size + 1 \in Nat
  BY BlockAssumption
<1>7. ASSUME UNCHANGED vars
      PROVE  MInv'
  BY <1>7, NothingChanged DEF vars
<1>8. ASSUME NEW site \in Keys, NEW size \in Sizes, NEW b \in Blocks,
             debug_realloc(b, site, size)
      PROVE  MInv'
  BY <1>6, <1>8, ReallocForgets
<1> QED BY <1>1, <1>2, <1>3, <1>4, <1>5, <1>6, <1>7, <1>8, FreeLemma DEF Next

\* initMemTracker establishes it.
LEMMA InitMInv == Init => MInv
<1> SUFFICES ASSUME Init PROVE MInv
  OBVIOUS
<1>1. BInv /\ \A l \in Keys : Found(l) = NoElem
  BY EmptyBuckets DEF Init
<1>2. Held = {} /\ \A l \in Keys : Active(l) = {}
  BY DEF Init, Held, Allocated, Active
<1>3. IsFiniteSet(Held)
  BY <1>2, FS_EmptySet
<1>4. Types
  BY <1>1, <1>3 DEF Init, Types
<1>5. \A l \in Keys : Cardinality(Active(l)) = 0 /\ Bytes(heap, Active(l)) = 0
  <2>1. IsFiniteSet({}) /\ Cardinality({}) = 0 /\ \A x \in {} : heap[x].size \in Int
    BY FS_EmptySet
  <2>2. Bytes(heap, {}) = 0
    BY <2>1, BytesLemma
  <2> QED BY <1>2, <2>1, <2>2
<1>6. \A l \in Keys : Reported(l) = 0 /\ ReportedSize(l) = 0
  BY <1>1 DEF Reported, ReportedSize
<1>7. ExactReport /\ NoFalseLeak
  BY <1>1, <1>2, <1>5, <1>6 DEF ExactReport, NoFalseLeak
<1>8. NoEmptyInfo
  <2>1. \A x \in Elems : ~Linked(x)
    BY DEF Init, Linked, Range
  <2> QED BY <2>1 DEF NoEmptyInfo
<1> QED BY <1>4, <1>7, <1>8 DEF MInv

\* The books are right whatever is allocated, moved and freed.
THEOREM MemInvariance == Spec => []MInv
<1>1. MInv /\ [Next]_vars => MInv'
  BY NextMInv
<1> QED BY <1>1, InitMInv, PTL DEF Spec

\* A site reports exactly the blocks and the bytes it holds, and none when it
\* holds none, unless there was once no memory to account for it.
THEOREM ReportsExactly == Spec => []ExactReport
BY MemInvariance, PTL DEF MInv

\* No leak is reported that is not there, even where accounts were missing.
THEOREM ReportsNoFalseLeak == Spec => []NoFalseLeak
BY MemInvariance, PTL DEF MInv

\* An account that counts no block is closed.
THEOREM ClosesEmptyInfo == Spec => []NoEmptyInfo
BY MemInvariance, PTL DEF MInv

=============================================================================
