--------------------------- MODULE PageLifecycle ---------------------------
(***************************************************************************)
(* The life of a page: taken from the chunk by an allocating thread,       *)
(* linked into the global page chain, cached by a thread, run out, swept   *)
(* by a GC worker, returned to the pool, picked again, retired, dropped.   *)
(*                                                                         *)
(* One size group (the groups share nothing) and huge units.  The chunk is *)
(* the set of its pages in use.  Marking is reduced to its outcome: a unit *)
(* a mutator has dropped may be found unmarked by the sweep, or still      *)
(* marked if it was dropped too late for this cycle; any other unit is     *)
(* found marked or young.  The order inside a free list is left out.       *)
(***************************************************************************)
EXTENDS Integers, Sequences, FiniteSets

CONSTANTS
    Pages,
    UnitsPerPage,
    Threads,       \* the threads that allocate
    WorkerCount,   \* m_gc_worker_count
    Pinned,        \* huge pages whose unit is in use for ever
    Null

Workers == 0 .. WorkerCount - 1
Slots == 1 .. UnitsPerPage
PageOrNull == Pages \cup {Null}

ASSUME PageAssumption ==
    /\ IsFiniteSet(Pages) /\ Pinned \subseteq Pages /\ Null \notin Pages
    /\ UnitsPerPage \in Nat \ {0}
    /\ WorkerCount \in Nat \ {0}

VARIABLES
    in_use,      \* pages the chunk has handed out
    huge,        \* those with m_page_count_if_huge # 0
    just,        \* those with m_page_just_allocated
    next,        \* m_next_page
    head,        \* m_all_page_list
    run_out,     \* pages with m_run_out
    mark,        \* pages with m_mark_as_run_out_in_global_pool
    life,        \* m_life of the units of a page (UNMARKED and above: "USED")
    garbage,     \* units in use that the mutators have dropped
    alloc_list,  \* the free list from m_next_allocate_unit_offset
    freed_list,  \* the free list from m_freed_unit_offset
    pool,        \* m_free_pages[group].m_pages, without its empty entries
    cache,       \* m_cached_pages[group] of each thread
    tpc,         \* where each thread is in woomem_allocate_begin
    fresh,       \* the page it is about to link, or the page of its unit
    unit,        \* the unit it holds between allocate_begin and allocate_end
    main_pc,     \* Step 6 and Step 7 of main_thread_job
    sweep_list,  \* m_sweep_page_list
    wpc,         \* where each worker is in its sweep
    cur,         \* the page it sweeps
    nxt,         \* next_page, read before the page is swept
    visit        \* its locals in sweep_units_in_page: the unit it comes to,
                 \* current_running_out, has_survivor and has_free_space

chunkVars == <<in_use, huge, just>>
chainVars == <<next, head>>
unitVars == <<life, garbage, alloc_list, freed_list>>
poolVars == <<run_out, mark, pool>>
threadVars == <<cache, tpc, fresh, unit>>
sweepVars == <<main_pc, sweep_list, wpc, cur, nxt, visit>>
vars == <<chunkVars, chainVars, unitVars, poolVars, threadVars, sweepVars>>

NoUnits == [s \in Slots |-> "RELEASED"]
NoVisit == [idx |-> 1, was_out |-> FALSE, survivor |-> FALSE, space |-> FALSE]

\* The program has linked its pinned pages and nothing else.
Init ==
    /\ in_use = Pinned
    /\ huge = Pinned
    /\ just = {}
    /\ \E order \in [1 .. Cardinality(Pinned) -> Pinned] :
        /\ \A i, j \in DOMAIN order : order[i] = order[j] => i = j
        /\ head = IF Pinned = {} THEN Null ELSE order[1]
        /\ next = [p \in Pages |->
                     IF \E i \in DOMAIN order : order[i] = p /\ i + 1 \in DOMAIN order
                     THEN order[1 + CHOOSE i \in DOMAIN order : order[i] = p]
                     ELSE Null]
    /\ run_out = {}
    /\ mark = {}
    /\ life = [p \in Pages |-> IF p \in Pinned THEN [NoUnits EXCEPT ![1] = "USED"] ELSE NoUnits]
    /\ garbage = {}
    /\ alloc_list = [p \in Pages |-> {}]
    /\ freed_list = [p \in Pages |-> {}]
    /\ pool = << >>
    /\ cache = [t \in Threads |-> Null]
    /\ tpc = [t \in Threads |-> "run"]
    /\ fresh = [t \in Threads |-> Null]
    /\ unit = [t \in Threads |-> 0]
    /\ main_pc = "idle"
    /\ sweep_list = [w \in Workers |-> Null]
    /\ wpc = [w \in Workers |-> "parked"]
    /\ cur = [w \in Workers |-> Null]
    /\ nxt = [w \in Workers |-> Null]
    /\ visit = [w \in Workers |-> NoVisit]

-----------------------------------------------------------------------------
(* Allocation *)

Go(t, label) == tpc' = [tpc EXCEPT ![t] = label]

\* pick_unit_in_page with or without a cached page.
AllocCall(t) ==
    /\ tpc[t] = "run"
    /\ Go(t, IF cache[t] = Null THEN "require" ELSE "pick")
    /\ UNCHANGED <<chunkVars, chainVars, unitVars, poolVars, cache, fresh, unit, sweepVars>>

\* pick_unit_from_page_without_init: a unit from the private list.
PickUnit(t, s) ==
    /\ tpc[t] = "pick"
    /\ s \in alloc_list[cache[t]]
    /\ alloc_list' = [alloc_list EXCEPT ![cache[t]] = @ \ {s}]
    /\ life' = [life EXCEPT ![cache[t]][s] = "PENDING"]
    /\ fresh' = [fresh EXCEPT ![t] = cache[t]]
    /\ unit' = [unit EXCEPT ![t] = s]
    /\ Go(t, "pending")
    /\ UNCHANGED <<chunkVars, chainVars, garbage, freed_list, poolVars, cache, sweepVars>>

\* Mutation: the freed units are read, not exchanged.
TakeFreedByLoad(t) ==
    /\ tpc[t] = "pick"
    /\ alloc_list[cache[t]] = {}
    /\ alloc_list' = [alloc_list EXCEPT ![cache[t]] = freed_list[cache[t]]]
    /\ Go(t, IF freed_list[cache[t]] = {} THEN "ranout" ELSE "pick")
    /\ UNCHANGED <<chunkVars, chainVars, life, garbage, freed_list, poolVars, cache, fresh, unit,
                   sweepVars>>

\* The private list is empty: take over what the sweep has freed, if anything.
TakeFreed(t) ==
    /\ tpc[t] = "pick"
    /\ alloc_list[cache[t]] = {}
    /\ alloc_list' = [alloc_list EXCEPT ![cache[t]] = freed_list[cache[t]]]
    /\ freed_list' = [freed_list EXCEPT ![cache[t]] = {}]
    /\ Go(t, IF freed_list[cache[t]] = {} THEN "ranout" ELSE "pick")
    /\ UNCHANGED <<chunkVars, chainVars, life, garbage, poolVars, cache, fresh, unit, sweepVars>>

\* m_run_out is set; the page is not used by this thread any more.
RanOut(t) ==
    /\ tpc[t] = "ranout"
    /\ run_out' = run_out \cup {cache[t]}
    /\ Go(t, "require")
    /\ UNCHANGED <<chunkVars, chainVars, unitVars, mark, pool, cache, fresh, unit, sweepVars>>

\* The pages of the pool past position i.
Passed(i) == {pool[j] : j \in i + 1 .. Len(pool)}

\* pick_free_page, under the spinlock of the list: it takes pages off the end of
\* the vector, retires those that are marked and returns the first that is not,
\* the one at i; i is 0 if there is none.
PickFreePage(t) ==
    /\ tpc[t] = "require"
    /\ \E i \in 0 .. Len(pool) :
        /\ Passed(i) \subseteq mark
        /\ i # 0 => pool[i] \notin mark
        /\ mark' = mark \ Passed(i)
        /\ run_out' = run_out \cup Passed(i)
        /\ pool' = SubSeq(pool, 1, i - 1)
        /\ IF i = 0
           THEN Go(t, "newpage") /\ UNCHANGED cache
           ELSE Go(t, "pick") /\ cache' = [cache EXCEPT ![t] = pool[i]]
    /\ UNCHANGED <<chunkVars, chainVars, unitVars, fresh, unit, sweepVars>>

\* Chunk::allocate_page or allocate_huge_page, under the chunk's lock.
ChunkAllocate(t, p, is_huge) ==
    /\ p \in Pages \ in_use
    /\ in_use' = in_use \cup {p}
    /\ huge' = IF is_huge THEN huge \cup {p} ELSE huge \ {p}
    /\ just' = just \cup {p}
    /\ fresh' = [fresh EXCEPT ![t] = p]
    /\ Go(t, "init")
    /\ UNCHANGED <<chainVars, unitVars, poolVars, cache, unit, sweepVars>>

NewPage(t, p) == tpc[t] = "newpage" /\ ChunkAllocate(t, p, FALSE)
NewHugePage(t, p) == tpc[t] = "run" /\ ChunkAllocate(t, p, TRUE)

\* The chunk is full: allocate_begin returns nullptr and the cache is empty.
NewPageFails(t) ==
    /\ tpc[t] = "newpage"
    /\ in_use = Pages
    /\ cache' = [cache EXCEPT ![t] = Null]
    /\ Go(t, "run")
    /\ UNCHANGED <<chunkVars, chainVars, unitVars, poolVars, fresh, unit, sweepVars>>

\* init_page_for_unit_allocating, or the unit head of a huge page, which has no
\* allocation head (its fields get idle values here); then
\* add_new_page_into_chain up to its first load of the chain's head.
InitPage(t) ==
    /\ tpc[t] = "init"
    /\ LET p == fresh[t]
       IN  /\ life' = [life EXCEPT ![p] = IF p \in huge THEN [NoUnits EXCEPT ![1] = "PENDING"]
                                          ELSE NoUnits]
           /\ alloc_list' = [alloc_list EXCEPT ![p] = IF p \in huge THEN {} ELSE Slots]
           /\ freed_list' = [freed_list EXCEPT ![p] = {}]
           /\ run_out' = run_out \ {p}
           /\ mark' = mark \ {p}
           /\ just' = just \ {p}
           /\ next' = [next EXCEPT ![p] = head]
    /\ Go(t, "link")
    /\ UNCHANGED <<in_use, huge, head, garbage, pool, cache, fresh, unit, sweepVars>>

\* The CAS of add_page_back_to_into_chain: it links p, or reloads the head.
Link(p) ==
    IF next[p] = head
    THEN head' = p /\ UNCHANGED next
    ELSE next' = [next EXCEPT ![p] = head] /\ UNCHANGED head

LinkPage(t) ==
    /\ tpc[t] = "link"
    /\ Link(fresh[t])
    /\ IF head' # fresh[t]
       THEN UNCHANGED <<tpc, unit, cache>>
       ELSE IF fresh[t] \in huge
       THEN Go(t, "pending") /\ unit' = [unit EXCEPT ![t] = 1] /\ UNCHANGED cache
       ELSE Go(t, "pick") /\ cache' = [cache EXCEPT ![t] = fresh[t]] /\ UNCHANGED unit
    /\ UNCHANGED <<chunkVars, unitVars, poolVars, fresh, sweepVars>>

\* woomem_allocate_end.
AllocEnd(t) ==
    /\ tpc[t] = "pending"
    /\ life' = [life EXCEPT ![fresh[t]][unit[t]] = "USED"]
    /\ fresh' = [fresh EXCEPT ![t] = Null]
    /\ unit' = [unit EXCEPT ![t] = 0]
    /\ Go(t, "run")
    /\ UNCHANGED <<chunkVars, chainVars, garbage, alloc_list, freed_list, poolVars, cache,
                   sweepVars>>

\* External: the program drops its last reference to a unit.
DropUnit(p, s) ==
    /\ p \in in_use \ Pinned
    /\ life[p][s] = "USED"
    /\ <<p, s>> \notin garbage
    /\ garbage' = garbage \cup {<<p, s>>}
    /\ UNCHANGED <<chunkVars, chainVars, life, alloc_list, freed_list, poolVars, threadVars,
                   sweepVars>>

\* Mutation: a thread that has no page returns one all the same.
ThreadExitUnchecked(t) ==
    /\ tpc[t] = "run"
    /\ pool' = Append(pool, cache[t])
    /\ cache' = [cache EXCEPT ![t] = Null]
    /\ UNCHANGED <<chunkVars, chainVars, unitVars, run_out, mark, tpc, fresh, unit, sweepVars>>

\* shutdown_manually when a thread ends: its page goes back to the pool.
ThreadExit(t) ==
    /\ tpc[t] = "run"
    /\ cache[t] # Null
    /\ pool' = Append(pool, cache[t])
    /\ cache' = [cache EXCEPT ![t] = Null]
    /\ UNCHANGED <<chunkVars, chainVars, unitVars, run_out, mark, tpc, fresh, unit, sweepVars>>

-----------------------------------------------------------------------------
(* Step 6: distribution of the chain *)

\* The pages of the list that begins at p, by position from 0, Null past its end.
List(p) ==
    LET at[n \in 0 .. Cardinality(Pages)] ==
            IF n = 0 THEN p ELSE IF at[n - 1] = Null THEN Null ELSE next[at[n - 1]]
    IN  at
Members(p) == {List(p)[n] : n \in DOMAIN List(p)} \ {Null}

\* The number of pages worker i gets of a total, and the first of them.
Share(i, total) == total \div WorkerCount + (IF i < total % WorkerCount THEN 1 ELSE 0)
First(i, total) ==
    i * (total \div WorkerCount) + (IF i < total % WorkerCount THEN i ELSE total % WorkerCount)

\* Mutation: a worker without a share keeps its list of the cycle before.
SharesKeepingLists(total) ==
    [i \in Workers |-> IF Share(i, total) = 0 THEN sweep_list[i] ELSE List(head)[First(i, total)]]

\* The lists the workers get.
Shares(total) ==
    [i \in Workers |-> IF Share(i, total) = 0 THEN Null ELSE List(head)[First(i, total)]]

\* The chain is taken and cut into one list per worker.  When there is no chain,
\* m_sweep_page_list of every worker keeps the value of the cycle before.
Distribute ==
    /\ main_pc = "idle"
    /\ LET total == Cardinality(Members(head))
           Last == {List(head)[First(i, total) + Share(i, total) - 1] :
                      i \in {j \in Workers : Share(j, total) > 0}}
       IN  IF head = Null
           THEN UNCHANGED <<head, next, sweep_list>>
           ELSE /\ head' = Null
                /\ sweep_list' = Shares(total)
                /\ next' = [p \in Pages |-> IF p \in Last THEN Null ELSE next[p]]
    /\ main_pc' = "sweep"
    /\ UNCHANGED <<chunkVars, unitVars, poolVars, threadVars, wpc, cur, nxt, visit>>

-----------------------------------------------------------------------------
(* The SWEEP phase of a worker *)

WGo(w, label) == wpc' = [wpc EXCEPT ![w] = label]

SweepLaunch(w) ==
    /\ main_pc = "sweep"
    /\ wpc[w] = "parked"
    /\ cur' = [cur EXCEPT ![w] = sweep_list[w]]
    /\ WGo(w, "page")
    /\ UNCHANGED <<chunkVars, chainVars, unitVars, poolVars, threadVars, main_pc, sweep_list,
                   nxt, visit>>

\* The worker notes the next page and begins sweep_units_in_page.
SweepPage(w) ==
    /\ wpc[w] = "page"
    /\ cur[w] # Null
    /\ nxt' = [nxt EXCEPT ![w] = next[cur[w]]]
    /\ visit' = [visit EXCEPT ![w] = [NoVisit EXCEPT !.was_out = cur[w] \in run_out]]
    /\ WGo(w, "unit")
    /\ UNCHANGED <<chunkVars, chainVars, unitVars, poolVars, threadVars, main_pc, sweep_list, cur>>

\* A huge page has one unit.
UnitCount(p) == IF p \in huge THEN 1 ELSE UnitsPerPage

UnitToVisit(w) == wpc[w] = "unit" /\ visit[w].idx <= UnitCount(cur[w])

\* check_and_free_unmarked_unit frees the unit.  drop_freed_unit_into_page
\* follows unless the page is huge.
SweepFreesUnit(w) ==
    /\ UnitToVisit(w)
    /\ LET p == cur[w]
           s == visit[w].idx
       IN  /\ <<p, s>> \in garbage
           /\ life' = [life EXCEPT ![p][s] = "RELEASED"]
           /\ garbage' = garbage \ {<<p, s>>}
           /\ freed_list' = IF p \in huge THEN freed_list
                            ELSE [freed_list EXCEPT ![p] = @ \cup {s}]
    /\ visit' = [visit EXCEPT ![w].space = TRUE, ![w].idx = @ + 1]
    /\ UNCHANGED <<chunkVars, chainVars, alloc_list, poolVars, threadVars, main_pc, sweep_list,
                   wpc, cur, nxt>>

\* The unit is free, pending, marked or young.
SweepKeepsUnit(w) ==
    /\ UnitToVisit(w)
    /\ visit' = [visit EXCEPT ![w].survivor = @ \/ life[cur[w]][visit[w].idx] # "RELEASED",
                              ![w].idx = @ + 1]
    /\ UNCHANGED <<chunkVars, chainVars, unitVars, poolVars, threadVars, main_pc, sweep_list,
                   wpc, cur, nxt>>

\* Mutation: a page somebody may allocate from is dropped once it is empty.
ToDropNotRunOut(p, v) == ~v.survivor /\ (p \in huge \/ v.space)
\* Mutation: a page with room goes to the pool whoever allocates from it.
ToReuseNotRunOut(p, v) == p \notin huge /\ v.survivor /\ v.space

\* What becomes of a page, by what the visit of its units has shown: it is
\* dropped, returned to the pool, or marked if it is empty and somebody may
\* still allocate from it.
ToDrop(p, v) == ~v.survivor /\ (p \in huge \/ (v.was_out /\ v.space))
ToReuse(p, v) == p \notin huge /\ v.survivor /\ v.was_out /\ v.space
ToRetire(p, v) == p \notin huge /\ ~v.survivor /\ ~v.was_out

\* All units are visited.
SweepVerdict(w) ==
    /\ wpc[w] = "unit"
    /\ visit[w].idx > UnitCount(cur[w])
    /\ WGo(w, IF ToDrop(cur[w], visit[w]) THEN "drop" ELSE "chain")
    /\ IF ToReuse(cur[w], visit[w])
       THEN run_out' = run_out \ {cur[w]} /\ pool' = Append(pool, cur[w])
       ELSE UNCHANGED <<run_out, pool>>
    /\ mark' = IF ToRetire(cur[w], visit[w]) THEN mark \cup {cur[w]} ELSE mark
    /\ visit' = [visit EXCEPT ![w] = NoVisit]
    /\ UNCHANGED <<chunkVars, chainVars, unitVars, threadVars, main_pc, sweep_list, cur, nxt>>

\* Mutation: the next page is read after the page is linked again.
NextPageLate(w) ==
    /\ cur' = [cur EXCEPT ![w] = next[cur[w]]]
    /\ nxt' = [nxt EXCEPT ![w] = Null]
    /\ WGo(w, "page")

NextPage(w) ==
    /\ cur' = [cur EXCEPT ![w] = nxt[w]]
    /\ nxt' = [nxt EXCEPT ![w] = Null]
    /\ WGo(w, "page")

\* Chunk::free_page, and on to the next page.
SweepDrop(w) ==
    /\ wpc[w] = "drop"
    /\ in_use' = in_use \ {cur[w]}
    /\ NextPage(w)
    /\ UNCHANGED <<huge, just, chainVars, unitVars, poolVars, threadVars, main_pc, sweep_list,
                   visit>>

\* add_page_back_to_into_chain: the first load of the head.
SweepChain(w) ==
    /\ wpc[w] = "chain"
    /\ next' = [next EXCEPT ![cur[w]] = head]
    /\ WGo(w, "link")
    /\ UNCHANGED <<chunkVars, head, unitVars, poolVars, threadVars, main_pc, sweep_list, cur,
                   nxt, visit>>

\* Its CAS, and on to the next page.
SweepLink(w) ==
    /\ wpc[w] = "link"
    /\ Link(cur[w])
    /\ IF head' = cur[w] THEN NextPage(w) ELSE UNCHANGED <<wpc, cur, nxt>>
    /\ UNCHANGED <<chunkVars, unitVars, poolVars, threadVars, main_pc, sweep_list, visit>>

\* The list is swept: the worker reports to the main thread.
SweepDone(w) == wpc[w] = "page" /\ cur[w] = Null

\* A sequence without the entries that are in S.
Without(seq, S) ==
    LET kept[n \in 0 .. Len(seq)] ==
            IF n = 0 THEN << >>
            ELSE IF seq[n] \in S THEN kept[n - 1] ELSE Append(kept[n - 1], seq[n])
    IN  kept[Len(seq)]

\* Step 7: remove_marked_run_out_pages retires the marked pages of the pool.  It
\* leaves empty entries behind, which pick_free_page passes over.
RemoveMarked ==
    /\ main_pc = "sweep"
    /\ \A w \in Workers : SweepDone(w)
    /\ LET gone == {pool[i] : i \in DOMAIN pool} \cap mark
       IN  /\ mark' = mark \ gone
           /\ run_out' = run_out \cup gone
           /\ pool' = Without(pool, gone)
    /\ wpc' = [w \in Workers |-> "parked"]
    /\ main_pc' = "idle"
    /\ UNCHANGED <<chunkVars, chainVars, unitVars, threadVars, sweep_list, cur, nxt, visit>>

-----------------------------------------------------------------------------
ThreadStep(t) ==
    \/ \E s \in Slots : PickUnit(t, s)
    \/ TakeFreed(t)
    \/ RanOut(t)
    \/ PickFreePage(t)
    \/ \E p \in Pages : NewPage(t, p)
    \/ NewPageFails(t)
    \/ InitPage(t)
    \/ LinkPage(t)

WorkerStep(w) ==
    \/ SweepLaunch(w)
    \/ SweepPage(w)
    \/ SweepFreesUnit(w)
    \/ SweepKeepsUnit(w)
    \/ SweepVerdict(w)
    \/ SweepDrop(w)
    \/ SweepChain(w)
    \/ SweepLink(w)

Next ==
    \/ \E t \in Threads :
        \/ AllocCall(t)
        \/ \E p \in Pages : NewHugePage(t, p)
        \/ ThreadStep(t)
        \/ AllocEnd(t)
        \/ ThreadExit(t)
    \/ \E p \in Pages, s \in Slots : DropUnit(p, s)
    \/ Distribute
    \/ \E w \in Workers : WorkerStep(w)
    \/ RemoveMarked

Spec == Init /\ [][Next]_vars

\* The GC's threads keep running.
FairSpec == Spec /\ WF_vars(RemoveMarked) /\ \A w \in Workers : WF_vars(WorkerStep(w))

-----------------------------------------------------------------------------
(* Properties *)

ChunkTypes == in_use \subseteq Pages /\ huge \subseteq Pages /\ just \subseteq Pages
ChainTypes == next \in [Pages -> PageOrNull] /\ head \in PageOrNull
UnitTypes ==
    /\ life \in [Pages -> [Slots -> {"RELEASED", "PENDING", "USED"}]]
    /\ garbage \subseteq Pages \X Slots
    /\ alloc_list \in [Pages -> SUBSET Slots] /\ freed_list \in [Pages -> SUBSET Slots]
PoolTypes == run_out \subseteq Pages /\ mark \subseteq Pages /\ pool \in Seq(Pages)
ThreadTypes ==
    /\ cache \in [Threads -> PageOrNull]
    /\ tpc \in [Threads -> {"run", "pick", "ranout", "require", "newpage", "init", "link",
                            "pending"}]
    /\ fresh \in [Threads -> PageOrNull]
    /\ unit \in [Threads -> 0 .. UnitsPerPage]
SweepTypes ==
    /\ main_pc \in {"idle", "sweep"}
    /\ sweep_list \in [Workers -> PageOrNull]
    /\ wpc \in [Workers -> {"parked", "page", "unit", "drop", "chain", "link"}]
    /\ cur \in [Workers -> PageOrNull] /\ nxt \in [Workers -> PageOrNull]
    /\ visit \in [Workers -> [idx : 1 .. UnitsPerPage + 1, was_out : BOOLEAN,
                              survivor : BOOLEAN, space : BOOLEAN]]

\* Every variable keeps its type.
TypeOK ==
    ChunkTypes /\ ChainTypes /\ UnitTypes /\ PoolTypes /\ ThreadTypes /\ SweepTypes

Holding(w) == wpc[w] \in {"unit", "drop", "chain", "link"}

\* The pages a worker has still to sweep or to link again.
Pending(w) ==
    CASE Holding(w)         -> {cur[w]} \cup Members(nxt[w])
      [] wpc[w] = "page"    -> Members(cur[w])
      [] wpc[w] = "parked" /\ main_pc = "sweep" -> Members(sweep_list[w])
      [] OTHER              -> {}

\* A page an allocating thread has not linked yet.
Unlinked == {fresh[t] : t \in {x \in Threads : tpc[x] \in {"init", "link"}}}

\* The chain and the workers' lists share the pages in use among them: no page
\* is lost to the collector, swept by two workers or met twice.
ChainKeepsEveryPage ==
    /\ in_use \ Unlinked = Members(head) \cup UNION {Pending(w) : w \in Workers}
    /\ \A w \in Workers : Pending(w) \cap Members(head) = {}
    /\ \A v, w \in Workers : v # w => Pending(v) \cap Pending(w) = {}

\* A thread allocates from its cached page except while it replaces it.
Allocating(t) == cache[t] # Null /\ tpc[t] \notin {"require", "newpage"}
                 /\ ~(tpc[t] \in {"init", "link"} /\ fresh[t] \notin huge)

\* Nobody shares a page to allocate from: a page is in at most one thread's cache
\* or one entry of the pool, it is in use, normal and not run out (the assertion
\* in require_normal_page).
PageOwnedOnce ==
    /\ \A t \in Threads : Allocating(t) =>
        /\ cache[t] \in in_use \ huge
        /\ \A s \in Threads \ {t} : Allocating(s) => cache[s] # cache[t]
        /\ \A i \in DOMAIN pool : pool[i] # cache[t]
    /\ \A i \in DOMAIN pool :
        /\ pool[i] \in in_use \ (huge \cup run_out)
        /\ \A j \in DOMAIN pool : i # j => pool[i] # pool[j]

\* A unit of a normal page is RELEASED exactly while it is in one of the two
\* free lists (the assertions in pick_unit_from_page_without_init and
\* drop_freed_unit_into_page).
FreeListsExact ==
    \A p \in in_use \ (huge \cup just) :
        /\ alloc_list[p] \cap freed_list[p] = {}
        /\ \A s \in Slots : life[p][s] = "RELEASED" <=> s \in alloc_list[p] \cup freed_list[p]

\* A worker sweeps and frees only pages that are in use and initialised (the
\* assertions in sweep_units_in_page and in Chunk::free_page).
SweepsPagesInUse == \A w \in Workers : Holding(w) => cur[w] \in in_use \ just

\* A page goes back to the chunk only when no unit of it is in use or being
\* allocated, and neither a thread nor the pool will allocate from it.
DropsOnlyDeadPages ==
    [][\A p \in in_use \ in_use' :
        /\ \A s \in 1 .. UnitCount(p) : life[p][s] = "RELEASED"
        /\ \A t \in Threads : Allocating(t) => cache[t] # p
        /\ \A i \in DOMAIN pool : pool[i] # p]_vars

\* A sweep comes to its end.
SweepEnds == main_pc = "sweep" ~> main_pc = "idle"

=============================================================================
