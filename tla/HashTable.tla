------------------------------ MODULE HashTable ------------------------------
(***************************************************************************)
(* The functions of mylibrary/hash.c as a client calls them.  Each runs to *)
(* completion and is one action.  The client may change the key in an      *)
(* element as long as the element is not linked.                           *)
(***************************************************************************)
EXTENDS HashBuckets

VARIABLE result  \* the last call, its argument and what it returned

hashvars == <<buckets, key, result>>

\* initHash, of elements whose memory holds any key.
HashInit ==
    /\ buckets = [b \in Buckets |-> <<>>]
    /\ key \in [Elems -> Keys]
    /\ result = <<"init", NoElem, 0>>

lookupHash(k) ==
    /\ result' = <<"lookup", k, Found(k)>>
    /\ UNCHANGED <<buckets, key>>

\* Mutant: the key is not looked up first.
addHash_unchecked(e) ==
    /\ buckets' = Linking(key[e], e)
    /\ result' = <<"add", e, 1>>
    /\ UNCHANGED key

addHash(e) ==
    /\ \/ Found(key[e]) # NoElem /\ result' = <<"add", e, 0>> /\ UNCHANGED buckets
       \/ Found(key[e]) = NoElem /\ result' = <<"add", e, 1>> /\ buckets' = Linking(key[e], e)
    /\ UNCHANGED key

delHash(k) ==
    /\ \/ Found(k) = NoElem /\ result' = <<"delete", k, 0>> /\ UNCHANGED buckets
       \/ Found(k) # NoElem /\ result' = <<"delete", k, 1>> /\ buckets' = Unlinking(k)
    /\ UNCHANGED key

\* The client writes a key into an element that is not linked.
SetKey(e, k) ==
    /\ ~Linked(e)
    /\ key' = [key EXCEPT ![e] = k]
    /\ UNCHANGED <<buckets, result>>

HashNext ==
    \/ \E e \in Elems : addHash(e) \/ \E k \in Keys : SetKey(e, k)
    \/ \E k \in Keys : lookupHash(k) \/ delHash(k)

HashSpec == HashInit /\ [][HashNext]_hashvars

-----------------------------------------------------------------------------
(* Properties.                                                             *)

\* What each call may return.
Replies ==
    \/ result = <<"init", NoElem, 0>>
    \/ \E e \in Elems, value \in {0, 1} : result = <<"add", e, value>>
    \/ \E k \in Keys, value \in {0, 1} : result = <<"delete", k, value>>
    \/ \E k \in Keys, value \in Elems \cup {NoElem} : result = <<"lookup", k, value>>

\* Type correctness of the table's state.
HashTypeOK == BucketsTypeOK /\ Replies

\* The table implements the map, whatever keys share a bucket.
Map == INSTANCE KeyedMap WITH map <- [k \in Keys |-> Found(k)]

ImplementsMap == Map!Spec

=============================================================================
