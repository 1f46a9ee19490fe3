----------------------------- MODULE HashBuckets -----------------------------
(***************************************************************************)
(* The data of the bucket hash of mylibrary/hash.c, and what its functions *)
(* compute on it.  A bucket is the sequence of the elements linked on it;  *)
(* an element carries its key in its own memory, at key_offset.            *)
(***************************************************************************)
EXTENDS Lists

CONSTANTS
    Elems,       \* the client's elements
    NoElem,      \* NULL
    Keys,        \* the values of a key
    NumBuckets,  \* numBuckets
    HashOf       \* HashOf[k]: what calc_hash computes

ASSUME HashAssumption ==
    /\ NoElem \notin Elems
    /\ NumBuckets \in Nat \ {0}
    /\ HashOf \in [Keys -> Nat]

VARIABLES
    buckets,  \* hash->buckets
    key       \* key[e]: the key in the memory of e

Buckets == 0 .. NumBuckets - 1

\* The index function of addHash, lookupHash and delHash.
Ndx(k) == HashOf[k] % NumBuckets

\* The positions of the bucket of k that hold k, of which list_for_each meets
\* the first.
Holding(k) == {i \in DOMAIN buckets[Ndx(k)] : key[buckets[Ndx(k)][i]] = k}

First(k) == CHOOSE i \in Holding(k) : \A j \in Holding(k) : i <= j

\* The pointer lookupHash returns.
Found(k) == IF Holding(k) = {} THEN NoElem ELSE buckets[Ndx(k)][First(k)]

Linked(e) == \E b \in Buckets : e \in Range(buckets[b])

\* The buckets with e added under k, and without the first element of k.
Linking(k, e) == [buckets EXCEPT ![Ndx(k)] = Append(@, e)]

\* Mutant: the head of the bucket goes, whatever its key.
UnlinkingHead(k) == [buckets EXCEPT ![Ndx(k)] = Tail(@)]

Unlinking(k) == [buckets EXCEPT ![Ndx(k)] = RemoveAt(@, First(k))]

-----------------------------------------------------------------------------
(* Properties.                                                             *)

\* Type correctness of the buckets and the keys.
BucketsTypeOK ==
    /\ buckets \in [Buckets -> Seq(Elems)]
    /\ key \in [Elems -> Keys]

\* Every linked element is in the bucket of its key.
Hashed == \A b \in Buckets : \A e \in Range(buckets[b]) : Ndx(key[e]) = b

\* No key is linked twice, by two elements or by one: addHash looks the key up
\* before it links, so delHash, which stops at the first, leaves none behind.
KeyOnce ==
    \A b \in Buckets : \A i, j \in DOMAIN buckets[b] :
        key[buckets[b][i]] = key[buckets[b][j]] => i = j

=============================================================================
