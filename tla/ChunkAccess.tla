---------------------------- MODULE ChunkAccess ----------------------------
(***************************************************************************)
(* The threads at the chunk: each takes the ReadWriteSpinlock, works on    *)
(* the tables of Chunk, and lets the lock go.  A thread that was given     *)
(* pages initialises their head after that, without the lock, and          *)
(* woomem_validate_addr reads the head of the page it has looked up, also  *)
(* without the lock.  m_page_just_allocated is what keeps the two apart.   *)
(*                                                                         *)
(* Pages are freed by the SWEEP phase, which finds them in the chain: a    *)
(* page whose head is being initialised is not linked yet and is not       *)
(* freed.  woomem_validate_addr is public and asks for no phase, so a page *)
(* may be freed, and handed out again, under a call that has looked it up: *)
(* overtaken says which calls these are.                                   *)
(***************************************************************************)
EXTENDS ReadWriteSpinlock

CONSTANTS TotalPages, ALLOCATED_FLAG, INDEX_NULL, Requests    \* as in Chunk

\* The code does not check that the number of pages leaves the flag free.
ASSUME ChunkAssumption ==
    /\ TotalPages \in Nat \ {0}
    /\ ALLOCATED_FLAG \in Nat /\ ALLOCATED_FLAG > TotalPages
    /\ INDEX_NULL \in Int \ (0 .. TotalPages - 1)
    /\ Requests \subseteq Nat \ {0}

VARIABLES
    count_, free_prev_, free_next_, free_head_, cpc, ins, page, pages, result,
    held,     \* as in Chunk; cpc is its pc
    just,     \* pages with m_page_just_allocated
    ready,    \* history: pages whose head was initialised since they were handed out
    overtaken,    \* history: threads whose page was freed since validate returned it
    job,      \* what each thread does at the chunk and after it
    mine      \* the page it was given, or that validate returned

chunkVars == <<count_, free_prev_, free_next_, free_head_, cpc, ins, page, pages, result, held>>
headVars == <<just, ready, overtaken>>
allVars == <<vars, chunkVars, headVars, job, mine>>

C == INSTANCE Chunk WITH pc <- cpc

AccessInit ==
    /\ Init
    /\ C!Init
    /\ just = {} /\ ready = {} /\ overtaken = {}
    /\ job = [t \in Threads |-> "none"]
    /\ mine = [t \in Threads |-> INDEX_NULL]

Turn(t, label) == job' = [job EXCEPT ![t] = label]
Keep(t, p) == mine' = [mine EXCEPT ![t] = p]

-----------------------------------------------------------------------------
(* The lock *)

\* WriteGuard and ReadGuard, up to the moment the lock is got.
Call(t) ==
    /\ job[t] = "none"
    /\ LockCall(t)
    /\ UNCHANGED <<chunkVars, headVars, job, mine>>

Wait(t) ==
    /\ Spin(t) \/ CasFails(t)
    /\ UNCHANGED <<chunkVars, headVars, job, mine>>

GetIn(t) ==
    /\ LockRead(t) \/ LockWrite(t)
    /\ UNCHANGED <<chunkVars, headVars, job, mine>>

\* The guard is destroyed.  A thread that got a page goes on with it.
Release(t) ==
    /\ job[t] \in {"over", "taken", "found"}
    /\ UnlockWrite(t) \/ UnlockRead(t)
    /\ Turn(t, CASE job[t] = "over" -> "none" [] job[t] = "taken" -> "init" [] job[t] = "found" -> "test")
    /\ UNCHANGED <<chunkVars, headVars, mine>>

-----------------------------------------------------------------------------
(* Under the write lock *)

Begin(t) == pc[t] = "writing" /\ job[t] = "none"

AllocatePages(t) ==
    /\ Begin(t)
    /\ \E required \in Requests : C!AllocatePages(required)
    /\ Turn(t, "allocate")
    /\ UNCHANGED <<vars, headVars, mine>>

AllocateFails(t) ==
    /\ Begin(t)
    /\ \E required \in Requests : C!AllocateFails(required)
    /\ Turn(t, "over")
    /\ UNCHANGED <<vars, headVars, mine>>

\* free_page, for a page of the chain.
FreePage(t) ==
    /\ Begin(t)
    /\ \E b \in held :
        /\ b.page \notin just
        /\ C!FreePage(b)
        /\ ready' = ready \ {b.page}
        /\ overtaken' = overtaken \cup {s \in Threads : mine[s] = b.page}
    /\ Turn(t, "free")
    /\ UNCHANGED <<vars, just, mine>>

\* free_list_insert; free_page is over when the block is linked.
Insert(t) ==
    /\ job[t] \in {"allocate", "free"}
    /\ C!MergeBefore \/ C!MergeAfter \/ C!LinkBlock
    /\ IF job[t] = "free" /\ cpc' = "idle" THEN Turn(t, "over") ELSE UNCHANGED job
    /\ UNCHANGED <<vars, headVars, mine>>

\* Mutation: the head keeps the flag it had when the page was used before.
TakeBlockUnflagged(t) ==
    /\ job[t] = "allocate"
    /\ C!TakeBlock
    /\ Keep(t, page)
    /\ Turn(t, "taken")
    /\ UNCHANGED <<vars, headVars>>

\* The block is marked allocated, its head as not initialised.
TakeBlock(t) ==
    /\ job[t] = "allocate"
    /\ C!TakeBlock
    /\ just' = just \cup {page}
    /\ Keep(t, page)
    /\ Turn(t, "taken")
    /\ UNCHANGED <<vars, ready, overtaken>>

-----------------------------------------------------------------------------
(* After it *)

\* m_page_count_if_huge, and init_page_for_unit_allocating or the unit head of a
\* huge page.
InitPage(t) ==
    /\ job[t] = "init"
    /\ ready' = ready \cup {mine[t]}
    /\ Turn(t, "publish")
    /\ UNCHANGED <<vars, chunkVars, just, overtaken, mine>>

\* add_new_page_into_chain clears the flag and links the page.
PublishPage(t) ==
    /\ job[t] = "publish"
    /\ just' = just \ {mine[t]}
    /\ Keep(t, INDEX_NULL)
    /\ Turn(t, "none")
    /\ UNCHANGED <<vars, chunkVars, ready, overtaken>>

-----------------------------------------------------------------------------
(* woomem_validate_addr *)

\* Chunk::validate for an address in page i.
Validate(t) ==
    /\ pc[t] = "reading"
    /\ job[t] = "none"
    /\ \E i \in C!Indices :
        /\ Keep(t, C!Validate(i))
        /\ Turn(t, IF C!Validate(i) = INDEX_NULL THEN "over" ELSE "found")
    /\ UNCHANGED <<vars, chunkVars, headVars>>

\* The call returns.
LookedUp(t) ==
    /\ Turn(t, "none")
    /\ Keep(t, INDEX_NULL)
    /\ overtaken' = overtaken \ {t}

TestJustAllocated(t) ==
    /\ job[t] = "test"
    /\ IF mine[t] \in just
       THEN LookedUp(t)
       ELSE Turn(t, "head") /\ UNCHANGED <<mine, overtaken>>
    /\ UNCHANGED <<vars, chunkVars, just, ready>>

\* The head of the page, then the head of a unit are read (UnitSizes!ValidateAddr).
ReadHead(t) ==
    /\ job[t] = "head"
    /\ LookedUp(t)
    /\ UNCHANGED <<vars, chunkVars, just, ready>>

-----------------------------------------------------------------------------
Work(t) ==
    \/ Release(t)
    \/ AllocatePages(t) \/ AllocateFails(t) \/ FreePage(t) \/ Insert(t) \/ TakeBlock(t)
    \/ InitPage(t) \/ PublishPage(t)
    \/ Validate(t) \/ TestJustAllocated(t) \/ ReadHead(t)

AccessNext == \E t \in Threads : Call(t) \/ Wait(t) \/ GetIn(t) \/ Work(t)

AccessSpec == AccessInit /\ [][AccessNext]_allVars

\* Every thread keeps running, and a compare-exchange that could succeed again
\* and again does not fail for ever.
FairAccessSpec ==
    /\ AccessSpec
    /\ \A t \in Threads : WF_allVars(Wait(t) \/ GetIn(t) \/ Work(t)) /\ SF_allVars(GetIn(t))

-----------------------------------------------------------------------------
(* Properties *)

\* Whatever threads allocate and free in turn, the free list holds exactly the
\* pages nobody has: free_list_insert and free_list_remove never meet halfway.
FreeListExact == C!FreeListExact

\* validate never looks at tables a writer is changing: it finds the block of
\* every page that is handed out and rejects every other page.
ValidateExact ==
    /\ \A t \in Threads : pc[t] = "reading" => cpc = "idle"
    /\ C!ValidateExact

\* The calls of all threads together behave like the abstract map of page runs:
\* allocate_pages hands out runs that are disjoint and fails only for want of one.
ImplementsPageMap == C!ImplementsPageMap

\* Unless free_page has freed the page since validate returned it, the head that
\* woomem_validate_addr reads is the head of a page that is handed out, initialised
\* for this use: neither what a former use of the page left behind nor something
\* half written.  If the page was freed in the meantime, nothing of this is sure:
\* the flag may be tested before the page is handed out again, its head be read
\* while it is written.
ReadsInitialisedHeads ==
    \A t \in Threads : job[t] = "head" =>
        t \in overtaken \/ mine[t] \in ready \cap {b.page : b \in held}

=============================================================================
