------------------------------ MODULE MemTracker ------------------------------
(***************************************************************************)
(* The memory tracker of mylibrary/mem_tracker.c, on top of the hash: one  *)
(* AllocInfo per source line that holds memory, found by its key.          *)
(*                                                                         *)
(* The elements of the hash are the AllocInfo blocks, each allocated       *)
(* exactly while it is linked; the keys are the call sites (file and line).*)
(* Every function is one action, debug_realloc two: it forgets the old     *)
(* block first and then calls realloc.  pc is "idle", "realloc" before     *)
(* that call, or "crashed" after a write through NULL.                     *)
(*                                                                         *)
(* The heap may refuse any request, and gives or moves to any free block.  *)
(* The sizes are small enough for the int tag->size and total_size.        *)
(***************************************************************************)
EXTENDS HashBuckets, FiniteSetsExt

CONSTANTS
    Blocks,   \* the addresses malloc may return for the client's memory
    NoBlock,  \* NULL
    NoTag,    \* the contents of a block that is not allocated
    Sizes,    \* the sizes the client asks for
    Counts    \* the first arguments of calloc

ASSUME BlockAssumption ==
    /\ NoBlock \notin Blocks
    /\ NoTag \notin [site : Keys, size : Nat]
    /\ Sizes \subseteq Nat
    /\ Counts \subseteq Nat

VARIABLES
    pc,          \* see above
    heap,        \* heap[b]: the MemDebugTag in front of block b, or NoTag
    count,       \* count[e]: info->count
    total_size,  \* total_size[e]: info->total_size
    moving,      \* the arguments of the debug_realloc in progress
    returned,    \* what the last function returned
    missed       \* history: the sites for which an AllocInfo could not be had

vars == <<buckets, key, pc, heap, count, total_size, moving, returned, missed>>

Tag(site, size) == [site |-> site, size |-> size]

Idle == [block |-> NoBlock, tag |-> NoTag]

Init ==
    /\ buckets = [b \in Buckets |-> <<>>]
    /\ key \in [Elems -> Keys]
    /\ pc = "idle"
    /\ heap = [b \in Blocks |-> NoTag]
    /\ count = [e \in Elems |-> 0]
    /\ total_size = [e \in Elems |-> 0]
    /\ moving = Idle
    /\ returned = NoBlock
    /\ missed = {}

Allocated(b) == heap[b] # NoTag

-----------------------------------------------------------------------------
(* The accounts.                                                           *)

\* A block is counted, in the AllocInfo of its site or in a new one, unless
\* there is no memory for the new one.
checkMalloc(tag) ==
    \/ /\ Found(tag.site) # NoElem
       /\ LET info == Found(tag.site) IN
            /\ count' = [count EXCEPT ![info] = @ + 1]
            /\ total_size' = [total_size EXCEPT ![info] = @ + tag.size]
       /\ UNCHANGED <<buckets, key, missed>>
    \/ /\ Found(tag.site) = NoElem
       /\ missed' = missed \cup {tag.site}
       /\ UNCHANGED <<buckets, key, count, total_size>>
    \/ /\ Found(tag.site) = NoElem
       /\ \E info \in {e \in Elems : ~Linked(e)} :
            /\ key' = [key EXCEPT ![info] = tag.site]
            /\ count' = [count EXCEPT ![info] = 1]
            /\ total_size' = [total_size EXCEPT ![info] = tag.size]
            /\ buckets' = Linking(tag.site, info)
       /\ UNCHANGED missed

\* Mutant: the AllocInfo stays when its last block has gone.
checkFree_keeping(tag) ==
    /\ LET info == Found(tag.site) IN
         IF info = NoElem
         THEN UNCHANGED <<count, total_size>>
         ELSE /\ count' = [count EXCEPT ![info] = @ - 1]
              /\ total_size' = [total_size EXCEPT ![info] = @ - tag.size]
    /\ UNCHANGED <<buckets, key, missed>>

\* Mutant: the size is not given back.
checkFree_counting(tag) ==
    /\ \/ Found(tag.site) = NoElem /\ UNCHANGED <<buckets, count>>
       \/ /\ Found(tag.site) # NoElem
          /\ LET info == Found(tag.site) IN
               /\ count' = [count EXCEPT ![info] = @ - 1]
               /\ buckets' = IF count'[info] = 0 THEN Unlinking(tag.site) ELSE buckets
    /\ UNCHANGED <<key, total_size, missed>>

\* A block is taken off the account of its site; the last one closes it.
checkFree(tag) ==
    /\ \/ Found(tag.site) = NoElem /\ UNCHANGED <<buckets, count, total_size>>
       \/ /\ Found(tag.site) # NoElem
          /\ LET info == Found(tag.site) IN
               /\ count' = [count EXCEPT ![info] = @ - 1]
               /\ total_size' = [total_size EXCEPT ![info] = @ - tag.size]
               /\ buckets' = IF count'[info] = 0 THEN Unlinking(tag.site) ELSE buckets
    /\ UNCHANGED <<key, missed>>

-----------------------------------------------------------------------------
(* The functions.                                                          *)

NoMemory == UNCHANGED <<buckets, key, heap, count, total_size, moving, missed>>

\* The block malloc returned is tagged and counted.
Allocate(site, size) ==
    \E b \in Blocks :
        /\ ~Allocated(b)
        /\ heap' = [heap EXCEPT ![b] = Tag(site, size)]
        /\ checkMalloc(Tag(site, size))
        /\ returned' = b
        /\ UNCHANGED <<pc, moving>>

debug_malloc(site, size) ==
    /\ pc = "idle"
    /\ \/ returned' = NoBlock /\ NoMemory /\ UNCHANGED pc
       \/ Allocate(site, size)

debug_calloc(site, n, size) == debug_malloc(site, n * size)

\* strcpy follows whatever debug_malloc returned; size counts the final zero.
debug_strdup(site, size) ==
    /\ pc = "idle"
    /\ \/ pc' = "crashed" /\ NoMemory /\ UNCHANGED returned
       \/ Allocate(site, size)

debug_free(b) ==
    /\ pc = "idle"
    /\ Allocated(b)
    /\ checkFree(heap[b])
    /\ heap' = [heap EXCEPT ![b] = NoTag]
    /\ UNCHANGED <<pc, moving, returned>>

\* ptr == NULL: malloc, and the tag is written whether it succeeds or not.
debug_realloc_null(site, size) ==
    /\ pc = "idle"
    /\ \/ pc' = "crashed" /\ NoMemory /\ UNCHANGED returned
       \/ Allocate(site, size)

\* Mutant: the old block stays on the account of its site.
debug_realloc_twice(b, site, size) ==
    /\ pc = "idle"
    /\ Allocated(b)
    /\ moving' = [block |-> b, tag |-> Tag(site, size)]
    /\ pc' = "realloc"
    /\ UNCHANGED <<buckets, key, heap, count, total_size, returned, missed>>

\* ptr != NULL: the old block is taken off the account of its site...
debug_realloc(b, site, size) ==
    /\ pc = "idle"
    /\ Allocated(b)
    /\ checkFree(heap[b])
    /\ moving' = [block |-> b, tag |-> Tag(site, size)]
    /\ pc' = "realloc"
    /\ UNCHANGED <<heap, returned>>

\* ... and then realloc resizes it, moves it, or fails and leaves it where it
\* is, upon which the tag is written through NULL.
Realloc ==
    /\ pc = "realloc"
    /\ moving' = Idle
    /\ \/ /\ pc' = "crashed"
          /\ UNCHANGED <<buckets, key, heap, count, total_size, returned, missed>>
       \/ \E b \in Blocks :
            /\ b = moving.block \/ ~Allocated(b)
            /\ heap' = [heap EXCEPT ![moving.block] = NoTag, ![b] = moving.tag]
            /\ checkMalloc(moving.tag)
            /\ returned' = b
            /\ pc' = "idle"

Next ==
    \/ \E site \in Keys, size \in Sizes :
         \/ debug_malloc(site, size)
         \/ \E n \in Counts : debug_calloc(site, n, size)
         \/ debug_strdup(site, size + 1)
         \/ debug_realloc_null(site, size)
         \/ \E b \in Blocks : debug_realloc(b, site, size)
    \/ \E b \in Blocks : debug_free(b)
    \/ Realloc

Spec == Init /\ [][Next]_vars

-----------------------------------------------------------------------------
(* Properties.                                                             *)

\* The blocks of a site, and what printMemStat reports of it.  The block of a
\* debug_realloc in progress has been taken off already.
Active(site) ==
    {b \in Blocks : heap[b] # NoTag /\ heap[b].site = site
                        /\ ~(pc = "realloc" /\ b = moving.block)}

Reported(site) == IF Found(site) = NoElem THEN 0 ELSE count[Found(site)]

ReportedSize(site) == IF Found(site) = NoElem THEN 0 ELSE total_size[Found(site)]

\* The bytes of the blocks of B in heap h.
Bytes(h, B) == MapThenSumSet(LAMBDA b : h[b].size, B)

\* Whatever was allocated, moved and freed, a site reports exactly the blocks
\* and the bytes it holds, and a site that holds none is not reported, unless
\* the tracker itself ran out of memory for it.
ExactReport ==
    pc # "crashed" =>
        \A site \in Keys \ missed :
            /\ Reported(site) = Cardinality(Active(site))
            /\ ReportedSize(site) = Bytes(heap, Active(site))
            /\ Found(site) # NoElem <=> Active(site) # {}

\* The tracker reports no leak that is not there: even where AllocInfo blocks
\* were missing, no site reports more blocks than it holds.
NoFalseLeak ==
    \A site \in Keys : pc # "crashed" => Reported(site) <= Cardinality(Active(site))

\* An AllocInfo in the hash counts some block: those that count none are freed.
NoEmptyInfo == \A e \in Elems : Linked(e) => count[e] > 0

=============================================================================
