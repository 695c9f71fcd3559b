----------------------- MODULE RuntimeLifecycleProofs -----------------------
(***************************************************************************)
(* For any set of user threads and any number of workers: between          *)
(* woomem_init and woomem_shutdown every thread can allocate and mark, and *)
(* no context outlives what it points to.                                  *)
(***************************************************************************)
EXTENDS RuntimeLifecycle, TLAPS

\* The places of a context that is registered.
Registered == {"set_flag", "set_context", "live", "deregister"}
Unmade == {"none", "construct"}

\* What the global flags say at each place of the caller.
Flags ==
    /\ inited <=> owner # "down"
    /\ workers_exist <=> owner \in {"start", "assign", "look", "give", "up", "unmark", "join"}
    /\ workers_exist => gc_ctx
    /\ gc_ctx => workers_exist \/ owner = "unequip"
    /\ mutex <=> owner \in {"look", "give"}
    /\ workers_exist => (worker_shutdown <=> owner = "join")

\* Which threads can be where.
Where ==
    /\ entries = {t \in Threads : pc[t] \in Registered}
    /\ owner \notin {"down", "up"} => UsersSettled
    /\ \A u \in Users : pc[u] \notin {"set_flag", "set_context"} /\ ~is_worker[u]
    /\ \A w \in Workers :
        /\ ~workers_exist => pc[w] = "none"
        /\ pc[w] \in {"deregister", "release"} => owner = "join"
    /\ owner = "start" => left # {} /\ left \subseteq Workers
    /\ owner = "start" => \A w \in left : pc[w] = "none"
    /\ owner \in {"look", "give"} => left \subseteq entries
    /\ owner = "give" => entry \in entries

\* Who has the page collection.
PageCollections ==
    \A t \in Threads : gpc[t] <=> pc[t] \notin Unmade /\ inited /\ owner # "equip"

\* Who has a marking context.
MarkingContexts ==
    /\ \A t \in Threads : pc[t] \in Unmade \/ ~workers_exist => marking[t] = Null
    /\ \A w \in Workers : pc[w] \notin Unmade \cup {"fetch"} /\ owner # "join" => marking[w] # Null
    /\ \A u \in Users : owner = "join" => marking[u] = Null
    /\ \A u \in Users :
        owner = "up" /\ pc[u] \notin Unmade \cup {"fetch"} => marking[u] # Null
    /\ \A u \in Users :
        owner \in {"look", "give"} /\ pc[u] = "live" =>
            u \in left \/ (owner = "give" /\ u = entry) \/ marking[u] # Null

LifecycleInv == TypeOK /\ Flags /\ Where /\ PageCollections /\ MarkingContexts

-----------------------------------------------------------------------------
(* The steps *)

\* There is a worker.
LEMMA ZeroIsWorker == 0 \in Workers /\ Workers \subseteq Threads
  BY LifecycleAssumption DEF Workers, Threads

\* The initial state satisfies the invariant.
LEMMA LifecycleInit == Init => LifecycleInv
  <1> SUFFICES ASSUME Init PROVE LifecycleInv
    OBVIOUS
  <1> QED
    BY ZeroIsWorker
    DEF Init, LifecycleInv, TypeOK, Flags, Where, UsersSettled, PageCollections, MarkingContexts,
        Registered, Unmade, Threads

\* fetch_thread_worker returns a worker.
LEMMA FetchGivesWorker ==
    ASSUME TypeOK, NEW t \in Threads, FetchThreadWorker(t)
    PROVE  /\ assigned' \in Workers
           /\ marking' = [marking EXCEPT ![t] = assigned]
           /\ assigned \in Workers /\ assigned # Null
  <1>1. assigned' \in Workers
    BY LifecycleAssumption DEF FetchThreadWorker, TypeOK, Workers
  <1> QED BY <1>1, LifecycleAssumption DEF FetchThreadWorker, TypeOK, Threads

\* The life of a thread.
LEMMA ThreadSteps ==
    ASSUME LifecycleInv, NEW t \in Threads,
           Thread(t) \/ (t \in Users /\ (StartUser(t) \/ EndUser(t)))
    PROVE  LifecycleInv'
  <1> USE LifecycleAssumption
      DEF LifecycleInv, globalVars, contextVars, Goto, Threads, Registered, Unmade
  <1>1. CASE t \in Users /\ StartUser(t)
    <2>1. TypeOK'
      BY <1>1 DEF TypeOK, StartUser
    <2>2. Flags' /\ Where'
      BY <1>1 DEF TypeOK, Flags, Where, UsersSettled, StartUser
    <2>3. PageCollections' /\ MarkingContexts'
      BY <1>1 DEF TypeOK, Flags, Where, UsersSettled, PageCollections, MarkingContexts, StartUser
    <2> QED BY <2>1, <2>2, <2>3
  <1>2. CASE Construct(t)
    <2>1. TypeOK'
      BY <1>2 DEF TypeOK, Construct
    <2>2. Flags' /\ Where'
      BY <1>2 DEF TypeOK, Flags, Where, UsersSettled, Construct
    <2>3. PageCollections' /\ MarkingContexts'
      BY <1>2 DEF TypeOK, Flags, Where, UsersSettled, PageCollections, MarkingContexts, Construct
    <2> QED BY <2>1, <2>2, <2>3
  <1>3. CASE Fetch(t)
    <2>1. CASE gc_ctx
      <3>1. FetchThreadWorker(t)
        BY <1>3, <2>1 DEF Fetch
      <3>2. TypeOK'
        BY <1>3, <3>1, FetchGivesWorker DEF TypeOK, Fetch
      <3>3. Flags' /\ Where'
        BY <1>3 DEF TypeOK, Flags, Where, UsersSettled, Fetch
      <3>4. PageCollections' /\ MarkingContexts'
        BY <1>3, <3>1, FetchGivesWorker
        DEF TypeOK, Flags, Where, UsersSettled, PageCollections, MarkingContexts, Fetch
      <3> QED BY <3>2, <3>3, <3>4
    <2>2. CASE ~gc_ctx
      <3>1. TypeOK'
        BY <1>3, <2>2 DEF TypeOK, Fetch
      <3>2. Flags' /\ Where'
        BY <1>3 DEF TypeOK, Flags, Where, UsersSettled, Fetch
      <3>3. PageCollections' /\ MarkingContexts'
        BY <1>3, <2>2
        DEF TypeOK, Flags, Where, UsersSettled, PageCollections, MarkingContexts, Fetch
      <3> QED BY <3>1, <3>2, <3>3
    <2> QED BY <2>1, <2>2
  <1>4. CASE Register(t)
    <2>1. TypeOK'
      BY <1>4 DEF TypeOK, Register
    <2>2. Flags' /\ Where'
      BY <1>4 DEF TypeOK, Flags, Where, UsersSettled, Register
    <2>3. PageCollections' /\ MarkingContexts'
      BY <1>4 DEF TypeOK, Flags, Where, UsersSettled, PageCollections, MarkingContexts, Register
    <2> QED BY <2>1, <2>2, <2>3
  <1>5. CASE SetFlag(t)
    <2>1. TypeOK'
      BY <1>5 DEF TypeOK, SetFlag
    <2>2. Flags' /\ Where'
      BY <1>5 DEF TypeOK, Flags, Where, UsersSettled, SetFlag
    <2>3. PageCollections' /\ MarkingContexts'
      BY <1>5 DEF TypeOK, Flags, Where, UsersSettled, PageCollections, MarkingContexts, SetFlag
    <2> QED BY <2>1, <2>2, <2>3
  <1>6. CASE SetContext(t)
    <2>1. TypeOK'
      BY <1>6 DEF TypeOK, Where, SetContext
    <2>2. Flags' /\ Where'
      BY <1>6 DEF TypeOK, Flags, Where, UsersSettled, SetContext
    <2>3. PageCollections' /\ MarkingContexts'
      BY <1>6 DEF TypeOK, Flags, Where, UsersSettled, PageCollections, MarkingContexts, SetContext
    <2> QED BY <2>1, <2>2, <2>3
  <1>7. CASE t \in Users /\ EndUser(t)
    <2>1. TypeOK'
      BY <1>7 DEF TypeOK, EndUser
    <2>2. Flags' /\ Where'
      BY <1>7 DEF TypeOK, Flags, Where, UsersSettled, EndUser
    <2>3. PageCollections' /\ MarkingContexts'
      BY <1>7 DEF TypeOK, Flags, Where, UsersSettled, PageCollections, MarkingContexts, EndUser
    <2> QED BY <2>1, <2>2, <2>3
  <1>8. CASE EndWorker(t)
    <2>1. TypeOK'
      BY <1>8 DEF TypeOK, EndWorker
    <2>2. Flags' /\ Where'
      BY <1>8 DEF TypeOK, Flags, Where, UsersSettled, EndWorker
    <2>3. PageCollections' /\ MarkingContexts'
      BY <1>8 DEF TypeOK, Flags, Where, UsersSettled, PageCollections, MarkingContexts, EndWorker
    <2> QED BY <2>1, <2>2, <2>3
  <1>9. CASE Deregister(t)
    <2>1. TypeOK'
      BY <1>9 DEF TypeOK, Deregister
    <2>2. Flags' /\ Where'
      BY <1>9 DEF TypeOK, Flags, Where, UsersSettled, Deregister
    <2>3. PageCollections' /\ MarkingContexts'
      BY <1>9 DEF TypeOK, Flags, Where, UsersSettled, PageCollections, MarkingContexts, Deregister
    <2> QED BY <2>1, <2>2, <2>3
  <1>10. CASE Release(t)
    <2>1. TypeOK'
      BY <1>10 DEF TypeOK, Release
    <2>2. Flags' /\ Where'
      BY <1>10 DEF TypeOK, Flags, Where, UsersSettled, Release
    <2>3. PageCollections' /\ MarkingContexts'
      BY <1>10 DEF TypeOK, Flags, Where, UsersSettled, PageCollections, MarkingContexts, Release
    <2> QED BY <2>1, <2>2, <2>3
  <1> QED
    BY <1>1, <1>2, <1>3, <1>4, <1>5, <1>6, <1>7, <1>8, <1>9, <1>10 DEF Thread

\* woomem_init.
LEMMA InitStepsKeep ==
    ASSUME LifecycleInv, InitContext \/ InitSteps
    PROVE  LifecycleInv'
  <1> USE LifecycleAssumption
      DEF LifecycleInv, contextVars, Goto, Threads, Registered, Unmade
  <1>1. CASE InitContext
    <2>1. TypeOK'
      BY <1>1 DEF TypeOK, InitContext
    <2>2. Flags' /\ Where'
      BY <1>1 DEF TypeOK, Flags, Where, UsersSettled, InitContext
    <2>3. PageCollections' /\ MarkingContexts'
      BY <1>1 DEF TypeOK, Flags, Where, UsersSettled, PageCollections, MarkingContexts, InitContext
    <2> QED BY <2>1, <2>2, <2>3
  <1>2. CASE Equip
    <2>1. TypeOK'
      BY <1>2 DEF TypeOK, Equip
    <2>2. Flags' /\ Where'
      BY <1>2 DEF TypeOK, Flags, Where, UsersSettled, Equip
    <2>3. PageCollections' /\ MarkingContexts'
      BY <1>2 DEF TypeOK, Flags, Where, UsersSettled, PageCollections, MarkingContexts, Equip
    <2> QED BY <2>1, <2>2, <2>3
  <1>3. CASE CreateGC
    <2>1. TypeOK'
      BY <1>3, ZeroIsWorker DEF TypeOK, CreateGC
    <2>2. Flags' /\ Where'
      BY <1>3 DEF TypeOK, Flags, Where, UsersSettled, CreateGC
    <2>3. PageCollections' /\ MarkingContexts'
      BY <1>3 DEF TypeOK, Flags, Where, UsersSettled, PageCollections, MarkingContexts, CreateGC
    <2> QED BY <2>1, <2>2, <2>3
  <1>4. CASE \E w \in Workers : StartWorker(w)
    <2>1. TypeOK'
      BY <1>4 DEF TypeOK, StartWorker
    <2>2. Flags' /\ Where'
      BY <1>4 DEF TypeOK, Flags, Where, UsersSettled, StartWorker
    <2>3. PageCollections' /\ MarkingContexts'
      BY <1>4 DEF TypeOK, Flags, Where, UsersSettled, PageCollections, MarkingContexts, StartWorker
    <2> QED BY <2>1, <2>2, <2>3
  <1>5. CASE AssignLock
    <2>1. TypeOK'
      BY <1>5 DEF TypeOK, AssignLock
    <2>2. Flags' /\ Where'
      BY <1>5 DEF TypeOK, Flags, Where, UsersSettled, AssignLock
    <2>3. PageCollections' /\ MarkingContexts'
      BY <1>5 DEF TypeOK, Flags, Where, UsersSettled, PageCollections, MarkingContexts, AssignLock
    <2> QED BY <2>1, <2>2, <2>3
  <1>6. CASE \E t \in Threads : AssignLook(t)
    <2>1. TypeOK'
      BY <1>6 DEF TypeOK, AssignLook
    <2>2. Flags' /\ Where'
      BY <1>6 DEF TypeOK, Flags, Where, UsersSettled, AssignLook
    <2>3. PageCollections' /\ MarkingContexts'
      BY <1>6 DEF TypeOK, Flags, Where, UsersSettled, PageCollections, MarkingContexts, AssignLook
    <2> QED BY <2>1, <2>2, <2>3
  <1>7. CASE AssignContext
    <2>0. entry \in Threads /\ FetchThreadWorker(entry)
      BY <1>7 DEF AssignContext, Where
    <2>1. TypeOK'
      BY <1>7, <2>0, FetchGivesWorker DEF TypeOK, AssignContext
    <2>2. Flags' /\ Where'
      BY <1>7 DEF TypeOK, Flags, Where, UsersSettled, AssignContext
    <2>3. PageCollections' /\ MarkingContexts'
      BY <1>7, <2>0, FetchGivesWorker
      DEF TypeOK, Flags, Where, UsersSettled, PageCollections, MarkingContexts, AssignContext
    <2> QED BY <2>1, <2>2, <2>3
  <1>8. CASE AssignUnlock
    <2>1. TypeOK'
      BY <1>8 DEF TypeOK, AssignUnlock
    <2>2. Flags' /\ Where'
      BY <1>8 DEF TypeOK, Flags, Where, UsersSettled, AssignUnlock
    <2>3. PageCollections' /\ MarkingContexts'
      BY <1>8 DEF TypeOK, Flags, Where, UsersSettled, PageCollections, MarkingContexts, AssignUnlock
    <2> QED BY <2>1, <2>2, <2>3
  <1> QED
    BY <1>1, <1>2, <1>3, <1>4, <1>5, <1>6, <1>7, <1>8 DEF InitSteps

\* woomem_shutdown.
LEMMA ShutdownStepsKeep ==
    ASSUME LifecycleInv, StopMarking \/ ShutdownSteps
    PROVE  LifecycleInv'
  <1> USE LifecycleAssumption
      DEF LifecycleInv, contextVars, Goto, Threads, Registered, Unmade
  <1>1. CASE StopMarking
    <2>1. TypeOK'
      BY <1>1 DEF TypeOK, StopMarking
    <2>2. Flags' /\ Where'
      BY <1>1 DEF TypeOK, Flags, Where, UsersSettled, StopMarking
    <2>3. PageCollections' /\ MarkingContexts'
      BY <1>1 DEF TypeOK, Flags, Where, UsersSettled, PageCollections, MarkingContexts, StopMarking
    <2> QED BY <2>1, <2>2, <2>3
  <1>2. CASE Unmark
    <2>1. TypeOK'
      BY <1>2 DEF TypeOK, Unmark
    <2>2. Flags' /\ Where'
      BY <1>2 DEF TypeOK, Flags, Where, UsersSettled, Unmark
    <2>3. PageCollections' /\ MarkingContexts'
      BY <1>2 DEF TypeOK, Flags, Where, UsersSettled, PageCollections, MarkingContexts, Unmark
    <2> QED BY <2>1, <2>2, <2>3
  <1>3. CASE JoinWorkers
    <2>1. TypeOK'
      BY <1>3 DEF TypeOK, JoinWorkers
    <2>2. Flags' /\ Where'
      BY <1>3 DEF TypeOK, Flags, Where, UsersSettled, JoinWorkers
    <2>3. PageCollections' /\ MarkingContexts'
      BY <1>3 DEF TypeOK, Flags, Where, UsersSettled, PageCollections, MarkingContexts, JoinWorkers
    <2> QED BY <2>1, <2>2, <2>3
  <1>4. CASE Unequip
    <2>1. TypeOK'
      BY <1>4 DEF TypeOK, Unequip
    <2>2. Flags' /\ Where'
      BY <1>4 DEF TypeOK, Flags, Where, UsersSettled, Unequip
    <2>3. PageCollections' /\ MarkingContexts'
      BY <1>4 DEF TypeOK, Flags, Where, UsersSettled, PageCollections, MarkingContexts, Unequip
    <2> QED BY <2>1, <2>2, <2>3
  <1> QED
    BY <1>1, <1>2, <1>3, <1>4 DEF ShutdownSteps

\* Every step keeps the invariant.
LEMMA LifecycleStep == LifecycleInv /\ [Next]_vars => LifecycleInv'
  <1> SUFFICES ASSUME LifecycleInv, [Next]_vars PROVE LifecycleInv'
    OBVIOUS
  <1>1. CASE UNCHANGED vars
    BY <1>1
    DEF vars, globalVars, contextVars, LifecycleInv, TypeOK, Flags, Where, UsersSettled,
        PageCollections, MarkingContexts
  <1>2. Users \subseteq Threads
    BY DEF Threads
  <1> QED BY <1>1, <1>2, ThreadSteps, InitStepsKeep, ShutdownStepsKeep DEF Next

-----------------------------------------------------------------------------
(* Theorems *)

\* Every variable keeps its type.
THEOREM TypeCorrect == Spec => []TypeOK
  <1>1. LifecycleInv => TypeOK
    BY DEF LifecycleInv
  <1> QED BY LifecycleInit, LifecycleStep, <1>1, PTL DEF Spec

\* After woomem_init every thread has the page collection and a worker to mark
\* for, whether its ThreadContext was constructed before or after.
THEOREM ThreadsAreEquipped == Spec => []ThreadsEquipped
  <1>1. LifecycleInv => ThreadsEquipped
    BY DEF LifecycleInv, ThreadsEquipped, Flags, PageCollections, MarkingContexts, Unmade, Threads
  <1> QED BY LifecycleInit, LifecycleStep, <1>1, PTL DEF Spec

\* GC::~GC and GlobalContext::shutdown leave no ThreadContext with a pointer to
\* what they destroy.
THEOREM NothingEverDangles == Spec => []NothingDangles
  <1>1. LifecycleInv => NothingDangles
    BY DEF LifecycleInv, NothingDangles, PageCollections, MarkingContexts
  <1> QED BY LifecycleInit, LifecycleStep, <1>1, PTL DEF Spec

=============================================================================
