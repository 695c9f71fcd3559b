------------------------------- MODULE Chunk -------------------------------
(***************************************************************************)
(* woomem_chunk.cpp: the page allocator over the reserved address range.   *)
(* count_[i] is the size of the block that begins at page i, with          *)
(* ALLOCATED_FLAG while the block is handed out, and 0 inside a block; but *)
(* coalescing leaves old sizes behind inside free blocks.  Free blocks     *)
(* form a doubly linked list in address order.                             *)
(*                                                                         *)
(* allocate_pages and free_page hold the write lock from beginning to end, *)
(* so one operation runs at a time (ChunkAccess adds the lock and the      *)
(* threads); the restarts of free_list_insert are steps of their own.  The *)
(* contents of pages, and committing them, are left to the operating       *)
(* system.                                                                 *)
(***************************************************************************)
EXTENDS Integers

CONSTANTS
    TotalPages,       \* total_pages_
    ALLOCATED_FLAG,   \* 2^31 in the code; the bits below it are COUNT_MASK
    INDEX_NULL,
    Requests          \* the sizes, in pages, that are asked for

Indices == 0 .. TotalPages - 1

VARIABLES
    count_, free_prev_, free_next_, free_head_,
    pc,      \* where the operation that holds the lock is
    ins,     \* idx and count of free_list_insert
    page,    \* the first page of the block being handed out
    pages,   \* required_pages, or 0 when a block is being freed
    result,  \* history: what the last allocation was asked for and returned
    held     \* history: the blocks callers have and have not freed

listVars == <<free_prev_, free_next_, free_head_>>
vars == <<count_, listVars, pc, ins, page, pages, result, held>>

NoInsert == [idx |-> 0, count |-> 0]
NoResult == [page |-> INDEX_NULL, pages |-> 0]

Init ==
    /\ count_ = [i \in Indices |-> IF i = 0 THEN TotalPages ELSE 0]
    /\ free_prev_ = [i \in Indices |-> INDEX_NULL]
    /\ free_next_ = [i \in Indices |-> INDEX_NULL]
    /\ free_head_ = 0
    /\ pc = "idle"
    /\ ins = NoInsert
    /\ page = INDEX_NULL
    /\ pages = 0
    /\ result = NoResult
    /\ held = {}

Size(i) == count_[i] % ALLOCATED_FLAG            \* count_[i] & COUNT_MASK
Allocated(i) == count_[i] >= ALLOCATED_FLAG

-----------------------------------------------------------------------------
(* The free list *)

\* The list by position, INDEX_NULL past its end.
Walk ==
    LET at[n \in 0 .. TotalPages] ==
            IF n = 0 THEN free_head_
            ELSE IF at[n - 1] = INDEX_NULL THEN INDEX_NULL ELSE free_next_[at[n - 1]]
    IN  at

\* The first position on a walk where a condition holds.
FirstWhere(Stops(_)) ==
    CHOOSE n \in 0 .. TotalPages : Stops(n) /\ \A k \in 0 .. n - 1 : ~Stops(k)

\* Mutation: a block that fits exactly is passed over.
FindLargerBlock(required) ==
    LET Stops(n) == Walk[n] = INDEX_NULL \/ Size(Walk[n]) > required
    IN  Walk[FirstWhere(Stops)]

\* free_list_find_block: first fit.
FindBlock(required) ==
    LET Stops(n) == Walk[n] = INDEX_NULL \/ Size(Walk[n]) >= required
    IN  Walk[FirstWhere(Stops)]

\* Mutation: the block after the removed one keeps its link back.
RemoveForwardOnly(idx) ==
    /\ free_next_' = [i \in Indices |-> IF i = idx THEN INDEX_NULL
                                        ELSE IF i = free_prev_[idx] THEN free_next_[idx]
                                        ELSE free_next_[i]]
    /\ free_prev_' = [i \in Indices |-> IF i = idx THEN INDEX_NULL ELSE free_prev_[i]]
    /\ free_head_' = IF free_prev_[idx] = INDEX_NULL THEN free_next_[idx] ELSE free_head_

\* free_list_remove.
Remove(idx) ==
    /\ free_next_' = [i \in Indices |-> IF i = idx THEN INDEX_NULL
                                        ELSE IF i = free_prev_[idx] THEN free_next_[idx]
                                        ELSE free_next_[i]]
    /\ free_prev_' = [i \in Indices |-> IF i = idx THEN INDEX_NULL
                                        ELSE IF i = free_next_[idx] THEN free_prev_[idx]
                                        ELSE free_prev_[i]]
    /\ free_head_' = IF free_prev_[idx] = INDEX_NULL THEN free_next_[idx] ELSE free_head_

\* The neighbours free_list_insert finds for idx.
Stop(idx) ==
    LET Stops(n) == Walk[n] = INDEX_NULL \/ Walk[n] >= idx
    IN  FirstWhere(Stops)
After(idx) == Walk[Stop(idx)]
Before(idx) == IF Stop(idx) = 0 THEN INDEX_NULL ELSE Walk[Stop(idx) - 1]

JoinsBefore == Before(ins.idx) # INDEX_NULL /\ Before(ins.idx) + count_[Before(ins.idx)] = ins.idx
JoinsAfter == After(ins.idx) # INDEX_NULL /\ ins.idx + ins.count = After(ins.idx)

\* free_list_insert merges the block with the free block before it and restarts.
MergeBefore ==
    /\ pc = "insert"
    /\ JoinsBefore
    /\ LET prev == Before(ins.idx)
       IN  /\ Remove(prev)
           /\ ins' = [idx |-> prev, count |-> count_[prev] + ins.count]
    /\ UNCHANGED <<count_, pc, page, pages, result, held>>

\* The same with the free block after it.
MergeAfter ==
    /\ pc = "insert"
    /\ ~JoinsBefore
    /\ JoinsAfter
    /\ LET next == After(ins.idx)
       IN  /\ Remove(next)
           /\ ins' = [ins EXCEPT !.count = @ + count_[next]]
    /\ UNCHANGED <<count_, pc, page, pages, result, held>>

\* Nothing to merge: the block is linked between its neighbours.
LinkBlock ==
    /\ pc = "insert"
    /\ ~JoinsBefore
    /\ ~JoinsAfter
    /\ LET idx == ins.idx
           prev == Before(idx)
           next == After(idx)
       IN  /\ free_prev_' = [i \in Indices |-> IF i = idx THEN prev
                                               ELSE IF i = next THEN idx ELSE free_prev_[i]]
           /\ free_next_' = [i \in Indices |-> IF i = idx THEN next
                                               ELSE IF i = prev THEN idx ELSE free_next_[i]]
           /\ free_head_' = IF prev = INDEX_NULL THEN idx ELSE free_head_
           /\ count_' = [count_ EXCEPT ![idx] = ins.count]
    /\ pc' = IF pages = 0 THEN "idle" ELSE "take"
    /\ ins' = NoInsert
    /\ UNCHANGED <<page, pages, result, held>>

-----------------------------------------------------------------------------
(* allocate_pages *)

\* Block idx..idx+n-1 gets its size at its first page and 0 in the others.
Sized(idx, n, size) ==
    [i \in Indices |-> IF i = idx THEN size
                       ELSE IF i \in idx + 1 .. idx + n - 1 THEN 0 ELSE count_[i]]

\* The block is longer than asked for.
HasRest(idx, required) == Size(idx) > required

\* The block is taken off the list; what it has too much goes back.
AllocatePages(required) ==
    /\ pc = "idle"
    /\ LET idx == FindBlock(required)
           left == idx + required
           left_count == Size(idx) - required
       IN  /\ idx # INDEX_NULL
           /\ Remove(idx)
           /\ page' = idx
           /\ IF HasRest(idx, required)
              THEN /\ count_' = Sized(left, left_count, left_count)
                   /\ ins' = [idx |-> left, count |-> left_count]
                   /\ pc' = "insert"
              ELSE pc' = "take" /\ UNCHANGED <<count_, ins>>
    /\ pages' = required
    /\ UNCHANGED <<result, held>>

\* Mutation: old sizes inside the block are not cleared.
TakeBlockKeepingSizes ==
    /\ pc = "take"
    /\ count_' = [count_ EXCEPT ![page] = pages + ALLOCATED_FLAG]
    /\ held' = held \cup {[page |-> page, pages |-> pages]}
    /\ result' = [page |-> page, pages |-> pages]
    /\ page' = INDEX_NULL
    /\ pages' = 0
    /\ pc' = "idle"
    /\ UNCHANGED <<listVars, ins>>

TakeBlock ==
    /\ pc = "take"
    /\ count_' = Sized(page, pages, pages + ALLOCATED_FLAG)
    /\ held' = held \cup {[page |-> page, pages |-> pages]}
    /\ result' = [page |-> page, pages |-> pages]
    /\ page' = INDEX_NULL
    /\ pages' = 0
    /\ pc' = "idle"
    /\ UNCHANGED <<listVars, ins>>

AllocateFails(required) ==
    /\ pc = "idle"
    /\ FindBlock(required) = INDEX_NULL
    /\ result' = [page |-> INDEX_NULL, pages |-> required]
    /\ UNCHANGED <<count_, listVars, pc, ins, page, pages, held>>

\* free_page, for a page its assertion accepts.
FreePage(b) ==
    /\ pc = "idle"
    /\ b \in held
    /\ Allocated(b.page)
    /\ count_' = Sized(b.page, Size(b.page), Size(b.page))
    /\ ins' = [idx |-> b.page, count |-> Size(b.page)]
    /\ held' = held \ {b}
    /\ result' = NoResult
    /\ pc' = "insert"
    /\ UNCHANGED <<listVars, page, pages>>

Next ==
    \/ \E required \in Requests : AllocatePages(required) \/ AllocateFails(required)
    \/ TakeBlock
    \/ \E b \in held : FreePage(b)
    \/ MergeBefore
    \/ MergeAfter
    \/ LinkBlock

Spec == Init /\ [][Next]_vars

\* validate: the first page of the block that holds page i, or INDEX_NULL.
Validate(i) ==
    IF \A h \in 0 .. i : count_[h] = 0 THEN INDEX_NULL
    ELSE LET head == CHOOSE h \in 0 .. i : count_[h] # 0 /\ \A k \in h + 1 .. i : count_[k] = 0
         IN  IF Allocated(head) /\ i < head + Size(head) THEN head ELSE INDEX_NULL

-----------------------------------------------------------------------------
(* Properties *)

FreeHeads == {Walk[n] : n \in 0 .. TotalPages} \ {INDEX_NULL}
Free == UNION {h .. h + count_[h] - 1 : h \in FreeHeads}
HeldPages == UNION {b.page .. b.page + b.pages - 1 : b \in held}

\* Between operations the free list holds exactly the pages nobody has, its links
\* agree in both directions, its blocks are in address order, and no two of them
\* touch: whatever was split and freed in whatever order, nothing is lost, and a
\* run that is free is found as one block.
FreeListExact ==
    pc = "idle" =>
        /\ Free = Indices \ HeldPages
        /\ \A h \in FreeHeads :
            /\ ~Allocated(h)
            /\ LET n == free_next_[h]
               IN  n # INDEX_NULL => h + count_[h] < n /\ free_prev_[n] = h
        /\ free_head_ # INDEX_NULL => free_prev_[free_head_] = INDEX_NULL

\* Between operations validate finds the block of every page that is handed out,
\* interior pages of huge blocks included, and rejects every other page, whatever
\* sizes coalescing has left behind.
ValidateExact ==
    pc = "idle" => \A i \in Indices :
        \/ \E b \in held : i \in b.page .. b.page + b.pages - 1 /\ Validate(i) = b.page
        \/ i \notin HeldPages /\ Validate(i) = INDEX_NULL

Map == INSTANCE PageMap

\* The chunk hands out disjoint runs of pages and fails only for want of a run.
ImplementsPageMap == Map!Spec

=============================================================================
