-------------------------- MODULE RuntimeLifecycle --------------------------
(***************************************************************************)
(* woomem_init, woomem_shutdown and the thread contexts: who has which     *)
(* pointer when.  The runtime may be started and stopped again and again.  *)
(*                                                                         *)
(* A context is made when its thread first uses WooMem.  User threads may  *)
(* be there during woomem_init and woomem_shutdown, but none is just       *)
(* starting or ending then: the constructor and the destructor read flags  *)
(* that nothing protects.  Worker threads start during woomem_init, and    *)
(* may be as late as they like.                                            *)
(***************************************************************************)
EXTENDS Integers, FiniteSets

CONSTANTS Users, WorkerCount, Null

Workers == 0 .. WorkerCount - 1
Threads == Users \cup Workers

ASSUME LifecycleAssumption ==
    /\ WorkerCount \in Nat \ {0}
    /\ Users \cap Workers = {} /\ Null \notin Threads

VARIABLES
    inited,           \* m_globalcontext_inited; the page collection exists
    gc_ctx,           \* g_gc_ctx is not null
    workers_exist,    \* m_gc_worker_threads is allocated
    worker_shutdown,  \* m_worker_shutdown
    assigned,         \* m_gc_assigned_thread_idx modulo WorkerCount
    entries,          \* m_thread_entries
    mutex,            \* m_thread_entries_mx is held for longer than a step
    owner,            \* where the caller of woomem_init and woomem_shutdown is
    left,             \* the entries or workers its loop has still to visit
    entry,            \* thread_entry: the one it looks at
    pc,               \* where each thread is
    gpc,              \* its m_global_page_collection is not null
    marking,          \* its m_gc_marking_context
    is_worker         \* its m_is_gc_worker_context

globalVars == <<inited, gc_ctx, workers_exist, worker_shutdown, mutex, owner, left, entry>>
contextVars == <<gpc, marking, is_worker>>
vars == <<globalVars, assigned, entries, pc, contextVars>>

Init ==
    /\ inited = FALSE /\ gc_ctx = FALSE /\ workers_exist = FALSE
    /\ worker_shutdown = FALSE /\ assigned = 0
    /\ entries = {} /\ mutex = FALSE /\ owner = "down" /\ left = {}
    /\ entry = Null
    /\ pc = [t \in Threads |-> "none"]
    /\ gpc = [t \in Threads |-> FALSE]
    /\ marking = [t \in Threads |-> Null]
    /\ is_worker = [t \in Threads |-> FALSE]

Goto(t, label) == pc' = [pc EXCEPT ![t] = label]

\* No user thread is starting or ending.
UsersSettled == \A u \in Users : pc[u] \in {"none", "live"}

\* fetch_thread_worker: t gets the next worker.
FetchThreadWorker(t) ==
    /\ marking' = [marking EXCEPT ![t] = assigned]
    /\ assigned' = (assigned + 1) % WorkerCount

-----------------------------------------------------------------------------
(* A thread and its context *)

StartUser(u) ==
    /\ pc[u] = "none"
    /\ owner \in {"down", "up"}
    /\ Goto(u, "construct")
    /\ UNCHANGED <<globalVars, assigned, entries, contextVars>>

\* ThreadContext::ThreadContext, as far as it reads m_globalcontext_inited, ...
Construct(t) ==
    /\ pc[t] = "construct"
    /\ gpc' = [gpc EXCEPT ![t] = inited]
    /\ is_worker' = [is_worker EXCEPT ![t] = FALSE]
    /\ Goto(t, "fetch")
    /\ UNCHANGED <<globalVars, assigned, entries, marking>>

\* ... reads g_gc_ctx, ...
Fetch(t) ==
    /\ pc[t] = "fetch"
    /\ IF gc_ctx THEN FetchThreadWorker(t)
       ELSE marking' = [marking EXCEPT ![t] = Null] /\ UNCHANGED assigned
    /\ Goto(t, "register")
    /\ UNCHANGED <<globalVars, entries, gpc, is_worker>>

\* ... and registers the context.
Register(t) ==
    /\ pc[t] = "register"
    /\ ~mutex
    /\ entries' = entries \cup {t}
    /\ Goto(t, IF t \in Workers THEN "set_flag" ELSE "live")
    /\ UNCHANGED <<globalVars, assigned, contextVars>>

\* worker_thread_job sets the flag of its context ...
SetFlag(w) ==
    /\ pc[w] = "set_flag"
    /\ is_worker' = [is_worker EXCEPT ![w] = TRUE]
    /\ Goto(w, "set_context")
    /\ UNCHANGED <<globalVars, assigned, entries, gpc, marking>>

\* ... and its marking context.
SetContext(w) ==
    /\ pc[w] = "set_context"
    /\ marking' = [marking EXCEPT ![w] = w]
    /\ Goto(w, "live")
    /\ UNCHANGED <<globalVars, assigned, entries, gpc, is_worker>>

EndUser(u) ==
    /\ u \in Users
    /\ pc[u] = "live"
    /\ owner \in {"down", "up"}
    /\ Goto(u, "deregister")
    /\ UNCHANGED <<globalVars, assigned, entries, contextVars>>

\* wait_for_worker_launch_or_shutdown returns false.
EndWorker(w) ==
    /\ w \in Workers
    /\ pc[w] = "live"
    /\ worker_shutdown
    /\ Goto(w, "deregister")
    /\ UNCHANGED <<globalVars, assigned, entries, contextVars>>

\* ThreadContext::~ThreadContext erases the context, ...
Deregister(t) ==
    /\ pc[t] = "deregister"
    /\ ~mutex
    /\ entries' = entries \ {t}
    /\ Goto(t, "release")
    /\ UNCHANGED <<globalVars, assigned, contextVars>>

\* ... then its m_thread_page_collection returns its pages.
Release(t) ==
    /\ pc[t] = "release"
    /\ gpc' = [gpc EXCEPT ![t] = FALSE]
    /\ marking' = [marking EXCEPT ![t] = Null]    \* the context is gone
    /\ Goto(t, "none")
    /\ UNCHANGED <<globalVars, assigned, entries, is_worker>>

-----------------------------------------------------------------------------
(* woomem_init *)

\* GlobalContext::init; it fails if the chunk cannot be made.
InitContext ==
    /\ owner = "down"
    /\ UsersSettled
    /\ \/ inited' = TRUE /\ owner' = "equip"
       \/ UNCHANGED <<inited, owner>>
    /\ UNCHANGED <<gc_ctx, workers_exist, worker_shutdown, mutex, left, entry,
                   assigned, entries, pc, contextVars>>

\* Mutation: threads that were there before are forgotten.
EquipNobody ==
    /\ owner = "equip"
    /\ owner' = "create"
    /\ UNCHANGED <<inited, gc_ctx, workers_exist, worker_shutdown, mutex, left, entry,
                   assigned, entries, pc, contextVars>>

\* Its loop over the entries: init_manually.
Equip ==
    /\ owner = "equip"
    /\ ~mutex
    /\ gpc' = [t \in Threads |-> t \in entries \/ gpc[t]]
    /\ owner' = "create"
    /\ UNCHANGED <<inited, gc_ctx, workers_exist, worker_shutdown, mutex, left, entry,
                   assigned, entries, pc, marking, is_worker>>

\* The memory of the GC: g_gc_ctx is set before the GC is constructed.
CreateGC ==
    /\ owner = "create"
    /\ \/ /\ gc_ctx' = TRUE /\ workers_exist' = TRUE /\ worker_shutdown' = FALSE
          /\ assigned' = 0 /\ left' = Workers
          /\ owner' = "start"
       \/ /\ owner' = "unequip"
          /\ UNCHANGED <<gc_ctx, workers_exist, worker_shutdown, assigned, left>>
    /\ UNCHANGED <<inited, mutex, entry, entries, pc, contextVars>>

\* GC::GC constructs its workers: each starts its thread.
StartWorker(w) ==
    /\ owner = "start"
    /\ w \in left /\ \A v \in left : w <= v
    /\ left' = left \ {w}
    /\ Goto(w, "construct")
    /\ owner' = IF left' = {} THEN "assign" ELSE "start"
    /\ UNCHANGED <<inited, gc_ctx, workers_exist, worker_shutdown, mutex, entry,
                   assigned, entries, contextVars>>

\* It takes the mutex for its loop over the entries, ...
AssignLock ==
    /\ owner = "assign"
    /\ ~mutex
    /\ mutex' = TRUE
    /\ left' = entries
    /\ owner' = "look"
    /\ UNCHANGED <<inited, gc_ctx, workers_exist, worker_shutdown, entry,
                   assigned, entries, pc, contextVars>>

\* Mutation: the loop does not get past a worker.
AssignLookAgain(t) ==
    /\ owner = "look"
    /\ t \in left
    /\ IF is_worker[t]
       THEN UNCHANGED <<left, entry, owner>>
       ELSE left' = left \ {t} /\ entry' = t /\ owner' = "give"
    /\ UNCHANGED <<inited, gc_ctx, workers_exist, worker_shutdown, mutex,
                   assigned, entries, pc, contextVars>>

\* ... looks whether an entry is a worker, ...
AssignLook(t) ==
    /\ owner = "look"
    /\ t \in left
    /\ IF is_worker[t]
       THEN left' = left \ {t} /\ UNCHANGED <<entry, owner>>
       ELSE left' = left \ {t} /\ entry' = t /\ owner' = "give"
    /\ UNCHANGED <<inited, gc_ctx, workers_exist, worker_shutdown, mutex,
                   assigned, entries, pc, contextVars>>

\* ... and gives it a worker if not.
AssignContext ==
    /\ owner = "give"
    /\ FetchThreadWorker(entry)
    /\ entry' = Null
    /\ owner' = "look"
    /\ UNCHANGED <<inited, gc_ctx, workers_exist, worker_shutdown, mutex, left,
                   entries, pc, gpc, is_worker>>

AssignUnlock ==
    /\ owner = "look"
    /\ left = {}
    /\ mutex' = FALSE
    /\ owner' = "up"
    /\ UNCHANGED <<inited, gc_ctx, workers_exist, worker_shutdown, left, entry,
                   assigned, entries, pc, contextVars>>

-----------------------------------------------------------------------------
(* woomem_shutdown *)

\* GC::~GC: the main thread is joined (GCTrigger), then the loop over the
\* entries, then m_worker_shutdown.
StopMarking ==
    /\ owner = "up"
    /\ UsersSettled
    /\ owner' = "unmark"
    /\ UNCHANGED <<inited, gc_ctx, workers_exist, worker_shutdown, mutex, left, entry,
                   assigned, entries, pc, contextVars>>

\* Mutation: only the contexts of workers are reset.
UnmarkWorkers ==
    /\ owner = "unmark"
    /\ ~mutex
    /\ marking' = [t \in Threads |-> IF t \in entries /\ is_worker[t] THEN Null ELSE marking[t]]
    /\ worker_shutdown' = TRUE
    /\ owner' = "join"
    /\ UNCHANGED <<inited, gc_ctx, workers_exist, mutex, left, entry,
                   assigned, entries, pc, gpc, is_worker>>

Unmark ==
    /\ owner = "unmark"
    /\ ~mutex
    /\ marking' = [t \in Threads |-> IF t \in entries THEN Null ELSE marking[t]]
    /\ worker_shutdown' = TRUE
    /\ owner' = "join"
    /\ UNCHANGED <<inited, gc_ctx, workers_exist, mutex, left, entry,
                   assigned, entries, pc, gpc, is_worker>>

\* GCWorker::~GCWorker joins each thread; then the workers are freed.
JoinWorkers ==
    /\ owner = "join"
    /\ \A w \in Workers : pc[w] = "none"
    /\ workers_exist' = FALSE
    /\ owner' = "unequip"
    /\ UNCHANGED <<inited, gc_ctx, worker_shutdown, mutex, left, entry,
                   assigned, entries, pc, contextVars>>

\* GlobalContext::shutdown: shutdown_manually for every entry, then the page
\* collection and the chunk are destroyed and g_gc_ctx is reset.
Unequip ==
    /\ owner = "unequip"
    /\ ~mutex
    /\ gpc' = [t \in Threads |-> gpc[t] /\ t \notin entries]
    /\ inited' = FALSE /\ gc_ctx' = FALSE
    /\ owner' = "down"
    /\ UNCHANGED <<workers_exist, worker_shutdown, mutex, left, entry,
                   assigned, entries, pc, marking, is_worker>>

-----------------------------------------------------------------------------
Thread(t) ==
    \/ Construct(t) \/ Fetch(t) \/ Register(t)
    \/ SetFlag(t) \/ SetContext(t) \/ EndWorker(t)
    \/ Deregister(t) \/ Release(t)

InitSteps ==
    \/ Equip \/ CreateGC \/ \E w \in Workers : StartWorker(w)
    \/ AssignLock \/ AssignContext \/ AssignUnlock \/ \E t \in Threads : AssignLook(t)

ShutdownSteps == Unmark \/ JoinWorkers \/ Unequip

Next ==
    \/ \E u \in Users : StartUser(u) \/ EndUser(u)
    \/ \E t \in Threads : Thread(t)
    \/ InitContext \/ InitSteps
    \/ StopMarking \/ ShutdownSteps

Spec == Init /\ [][Next]_vars

\* Threads run, and so does the caller once it has begun.
FairSpec ==
    /\ Spec
    /\ \A t \in Threads : WF_vars(Thread(t))
    /\ WF_vars(InitSteps) /\ WF_vars(ShutdownSteps)

-----------------------------------------------------------------------------
(* Properties *)

\* Every variable keeps its type.
TypeOK ==
    /\ inited \in BOOLEAN /\ gc_ctx \in BOOLEAN /\ workers_exist \in BOOLEAN
    /\ worker_shutdown \in BOOLEAN /\ mutex \in BOOLEAN
    /\ assigned \in Workers
    /\ entries \subseteq Threads /\ left \subseteq Threads
    /\ entry \in Threads \cup {Null}
    /\ owner \in {"down", "equip", "create", "start", "assign", "look", "give", "up",
                  "unmark", "join", "unequip"}
    /\ pc \in [Threads -> {"none", "construct", "fetch", "register", "set_flag",
                           "set_context", "live", "deregister", "release"}]
    /\ gpc \in [Threads -> BOOLEAN] /\ is_worker \in [Threads -> BOOLEAN]
    /\ marking \in [Threads -> Workers \cup {Null}]

\* Between woomem_init and woomem_shutdown a thread can allocate and mark,
\* whether its context was made before or after the runtime was started: the
\* assertion of pick_unit_in_page holds, woomem_mark_unit_head finds a worker.
ThreadsEquipped ==
    owner = "up" => \A t \in Threads :
        pc[t] = "live" => gpc[t] /\ marking[t] # Null

\* No context keeps a pointer to what woomem_shutdown has destroyed, however
\* late a worker has started, and init_manually finds none there.
NothingDangles ==
    \A t \in Threads :
        /\ gpc[t] => inited /\ owner # "equip"
        /\ marking[t] # Null => workers_exist

\* woomem_init and woomem_shutdown return, the latter even if some workers have
\* not got to their first wait: the mutex of the entries is free when they end.
CallsReturn == owner \notin {"down", "up"} ~> owner \in {"down", "up"}

\* A worker marks for itself, as worker_thread_job has set its context, until
\* GC::~GC resets it.
MarksForItself ==
    \A w \in Workers : pc[w] = "live" /\ ~worker_shutdown => marking[w] = w

=============================================================================
