----------------------------- MODULE GCMarking -----------------------------
(***************************************************************************)
(* The marking half of a GC cycle (woomem_gc.cpp): the GC main thread      *)
(* drives its workers through PARALLEL_MARK, FINAL_MARK and SWEEP; mutator *)
(* threads shade units concurrently through mark_unit_to_gray; each worker *)
(* consumes its own gray queue and its own m_local_work.                   *)
(*                                                                         *)
(* The queue is the abstract one of GrayQueue, which MpscGrayQueue         *)
(* implements.  A wait on the threshold condition variable is a guard:     *)
(* the predicate changes under m_gc_worker_threshold_mx and is notified    *)
(* under it.  Sweeping is reduced to its effect on m_life: a unit that was *)
(* kept, or freed and allocated again, is UNMARKED when the next cycle     *)
(* begins.  The two callbacks are external: each returns when every        *)
(* mutator has answered outside an API call; in the first one, mutators    *)
(* and the main thread mark roots.                                         *)
(***************************************************************************)
EXTENDS Integers, Sequences, GrayQueueOps

CONSTANTS
    Units,
    Mutators,        \* threads other than the GC's own
    WorkerCount,     \* m_gc_worker_count
    Capacity,        \* GRAY_QUEUE_CAPACITY
    Children,        \* units a unit's mark callback or auto-mark scan marks
    RootUnits,       \* m_root_gc_unit_set
    MarkingContext,  \* the worker each thread got from fetch_thread_worker
    SweepOwner,      \* the worker that gets the page of a unit in Step 6
    Main, NoThread, NoUnit

Workers == 0 .. WorkerCount - 1
Threads == Mutators \cup {Main}   \* the callers of the marking API

ASSUME WorkerAssumption == WorkerCount \in Nat \ {0}
ASSUME CapacityAssumption == Capacity \in Nat \ {0}
ASSUME GraphAssumption ==
    /\ Children \in [Units -> SUBSET Units]
    /\ RootUnits \subseteq Units
    /\ MarkingContext \in [Threads -> Workers]
    /\ SweepOwner \in [Units -> Workers]
ASSUME NamesAssumption ==
    /\ Main \notin Mutators /\ NoThread \notin Threads
    /\ NoUnit \notin Units

VARIABLES
    life,            \* UnitHead::m_life
    flag,            \* woomem_gc_marking_state_flag
    main_pc,         \* where main_thread_job is
    unacked,         \* mutators the running callback still waits for
    roots_left,      \* roots the loop of Step 2 has not visited
    assigned_idx,    \* m_gc_assigned_thread_idx % m_gc_worker_count
    launch_state,    \* m_gc_worker_threshold_launch_state
    finish_counter,  \* m_gc_worker_threshold_finish_counter
    wpc,             \* where each worker is in worker_thread_job
    phase,           \* the phase it waits for or executes
    local_work,      \* m_local_work
    is_draining,     \* m_is_draining
    spin,            \* holder of m_local_work_spin_for_root
    scanning,        \* the unit being scanned
    todo,            \* its children still to mark
    queue,           \* m_gray_queue
    mpc,             \* where each thread is in a marking call
    munit,           \* its argument
    mworker          \* the worker it marks for

mainVars == <<main_pc, unacked, roots_left, flag>>
barrierVars == <<launch_state, finish_counter>>
workerVars == <<wpc, phase, scanning, todo>>
callVars == <<mpc, munit, mworker>>
vars == <<life, flag, main_pc, unacked, roots_left, assigned_idx, launch_state,
          finish_counter, wpc, phase, local_work, is_draining, spin, scanning,
          todo, queue, mpc, munit, mworker>>

Init ==
    /\ life = [u \in Units |-> "UNMARKED"]
    /\ flag = FALSE
    /\ main_pc = "idle"
    /\ unacked = {}
    /\ roots_left = {}
    /\ assigned_idx \in Workers
    /\ launch_state = "PENDING"
    /\ finish_counter = 0
    /\ wpc = [w \in Workers |-> "wait"]
    /\ phase = [w \in Workers |-> "PARALLEL_MARK"]
    /\ local_work = [w \in Workers |-> << >>]
    /\ is_draining = [w \in Workers |-> FALSE]
    /\ spin = [w \in Workers |-> NoThread]
    /\ scanning = [w \in Workers |-> NoUnit]
    /\ todo = [w \in Workers |-> {}]
    /\ queue = [w \in Workers |-> << >>]
    /\ mpc = [t \in Threads |-> "run"]
    /\ munit = [t \in Threads |-> NoUnit]
    /\ mworker = MarkingContext

-----------------------------------------------------------------------------
(* GC::main_thread_job *)

\* Mutation: the counter of the previous phase is kept.
LaunchKeepingCounter(state) ==
    /\ UNCHANGED finish_counter
    /\ launch_state' = state

Launch(state) ==
    /\ finish_counter' = 0
    /\ launch_state' = state

AllWorkersDone == finish_counter = WorkerCount

\* Step 1 and the call of the begin callback.
StartRound ==
    /\ main_pc = "idle"
    /\ flag' = TRUE
    /\ unacked' = Mutators
    /\ main_pc' = "begin"
    /\ UNCHANGED <<life, roots_left, assigned_idx, barrierVars, workerVars,
                   local_work, is_draining, spin, queue, callVars>>

\* The begin callback has returned; Step 2 visits the root set.
BeginCallbackDone ==
    /\ main_pc = "begin"
    /\ unacked = {}
    /\ mpc[Main] = "run"
    /\ roots_left' = RootUnits
    /\ main_pc' = "roots"
    /\ UNCHANGED <<life, flag, unacked, assigned_idx, barrierVars, workerVars,
                   local_work, is_draining, spin, queue, callVars>>

\* Step 3.
LaunchParallelMark ==
    /\ main_pc = "roots"
    /\ roots_left = {}
    /\ mpc[Main] = "run"
    /\ Launch("PARALLEL_MARK")
    /\ main_pc' = "parallel"
    /\ UNCHANGED <<life, flag, unacked, roots_left, assigned_idx, workerVars,
                   local_work, is_draining, spin, queue, callVars>>

\* Step 4: the flag falls and the stop-marking callback is called.
StopMarking ==
    /\ main_pc = "parallel"
    /\ AllWorkersDone
    /\ flag' = FALSE
    /\ unacked' = Mutators
    /\ main_pc' = "stop"
    /\ UNCHANGED <<life, roots_left, assigned_idx, barrierVars, workerVars,
                   local_work, is_draining, spin, queue, callVars>>

\* Mutation: FINAL_MARK is launched before the callback has returned.
LaunchFinalMarkEarly ==
    /\ main_pc = "stop"
    /\ Launch("FINAL_MARK")
    /\ main_pc' = "final"
    /\ UNCHANGED <<life, flag, unacked, roots_left, assigned_idx, workerVars,
                   local_work, is_draining, spin, queue, callVars>>

\* Step 5.
LaunchFinalMark ==
    /\ main_pc = "stop"
    /\ unacked = {}
    /\ Launch("FINAL_MARK")
    /\ main_pc' = "final"
    /\ UNCHANGED <<life, flag, unacked, roots_left, assigned_idx, workerVars,
                   local_work, is_draining, spin, queue, callVars>>

\* Step 6.
LaunchSweep ==
    /\ main_pc = "final"
    /\ AllWorkersDone
    /\ Launch("SWEEP")
    /\ main_pc' = "sweep"
    /\ UNCHANGED <<life, flag, unacked, roots_left, assigned_idx, workerVars,
                   local_work, is_draining, spin, queue, callVars>>

\* Step 7 and the end of the cycle.
EndRound ==
    /\ main_pc = "sweep"
    /\ AllWorkersDone
    /\ launch_state' = "PENDING"
    /\ main_pc' = "idle"
    /\ UNCHANGED <<life, flag, unacked, roots_left, assigned_idx, finish_counter,
                   workerVars, local_work, is_draining, spin, queue, callVars>>

-----------------------------------------------------------------------------
(* GCWorker::worker_thread_job *)

\* Mutation: a worker goes on at any launch, not only at that of its phase.
WorkerLaunchAny(w) ==
    /\ wpc[w] = "wait"
    /\ launch_state # "PENDING"
    /\ wpc' = [wpc EXCEPT ![w] = IF phase[w] = "SWEEP" THEN "sweep" ELSE "enter"]
    /\ UNCHANGED <<life, mainVars, assigned_idx, barrierVars, phase, scanning, todo,
                   local_work, is_draining, spin, queue, callVars>>

\* wait_for_worker_launch returns.
WorkerLaunch(w) ==
    /\ wpc[w] = "wait"
    /\ launch_state = phase[w]
    /\ wpc' = [wpc EXCEPT ![w] = IF phase[w] = "SWEEP" THEN "sweep" ELSE "enter"]
    /\ UNCHANGED <<life, mainVars, assigned_idx, barrierVars, phase, scanning, todo, local_work,
                   is_draining, spin, queue, callVars>>

\* process_gray_units: take the lock, set m_is_draining, release the lock.
EnterDraining(w) ==
    /\ wpc[w] = "enter"
    /\ spin[w] = NoThread
    /\ is_draining' = [is_draining EXCEPT ![w] = TRUE]
    /\ wpc' = [wpc EXCEPT ![w] = "loop"]
    /\ UNCHANGED <<life, mainVars, assigned_idx, barrierVars, phase, scanning, todo, local_work,
                   spin, queue, callVars>>

PopLocal(w) ==
    /\ wpc[w] = "loop"
    /\ local_work[w] # << >>
    /\ LET n == Len(local_work[w])
           u == local_work[w][n]
       IN  /\ scanning' = [scanning EXCEPT ![w] = u]
           /\ todo' = [todo EXCEPT ![w] = Children[u]]
           /\ local_work' = [local_work EXCEPT ![w] = SubSeq(@, 1, n - 1)]
    /\ wpc' = [wpc EXCEPT ![w] = "scan"]
    /\ UNCHANGED <<life, mainVars, assigned_idx, barrierVars, phase, is_draining, spin, queue, callVars>>

\* The mark callback or the auto-mark scan shades one child: mark_unit_to_gray
\* on the worker's own thread.
ScanChild(w, c) ==
    /\ wpc[w] = "scan"
    /\ c \in todo[w]
    /\ todo' = [todo EXCEPT ![w] = @ \ {c}]
    /\ IF life[c] = "UNMARKED"
       THEN /\ life' = [life EXCEPT ![c] = "SELF_MARKED"]
            /\ local_work' = [local_work EXCEPT ![w] = Append(@, c)]
       ELSE UNCHANGED <<life, local_work>>
    /\ UNCHANGED <<mainVars, assigned_idx, barrierVars, wpc, phase, scanning, is_draining, spin, queue,
                   callVars>>

\* Mutation: a unit is blackened before its children are shaded.
ScanDoneEarly(w) ==
    /\ wpc[w] = "scan"
    /\ life' = [life EXCEPT ![scanning[w]] = "FULL_MARKED"]
    /\ scanning' = [scanning EXCEPT ![w] = NoUnit]
    /\ wpc' = [wpc EXCEPT ![w] = "loop"]
    /\ UNCHANGED <<mainVars, assigned_idx, barrierVars, phase, todo, local_work,
                   is_draining, spin, queue, callVars>>

ScanDone(w) ==
    /\ wpc[w] = "scan"
    /\ todo[w] = {}
    /\ life' = [life EXCEPT ![scanning[w]] = "FULL_MARKED"]
    /\ scanning' = [scanning EXCEPT ![w] = NoUnit]
    /\ wpc' = [wpc EXCEPT ![w] = "loop"]
    /\ UNCHANGED <<mainVars, assigned_idx, barrierVars, phase, todo, local_work, is_draining, spin, queue,
                   callVars>>

\* drain_queue_into_local, entered with an empty m_local_work.
StartDrain(w) ==
    /\ wpc[w] = "loop"
    /\ local_work[w] = << >>
    /\ wpc' = [wpc EXCEPT ![w] = "drain"]
    /\ UNCHANGED <<life, mainVars, assigned_idx, barrierVars, phase, scanning, todo, local_work,
                   is_draining, spin, queue, callVars>>

MoreToDrain(w) == HeadReady(queue[w]) /\ Len(local_work[w]) < Capacity

DrainTake(w) ==
    /\ wpc[w] = "drain"
    /\ MoreToDrain(w)
    /\ local_work' = [local_work EXCEPT ![w] = Append(@, Head(queue[w]).unit)]
    /\ queue' = [queue EXCEPT ![w] = Tail(@)]
    /\ UNCHANGED <<life, mainVars, assigned_idx, barrierVars, workerVars, is_draining, spin, callVars>>

DrainEnd(w) ==
    /\ wpc[w] = "drain"
    /\ ~MoreToDrain(w)
    /\ wpc' = [wpc EXCEPT ![w] = IF local_work[w] = << >> THEN "leave" ELSE "loop"]
    /\ UNCHANGED <<life, mainVars, assigned_idx, barrierVars, phase, scanning, todo, local_work,
                   is_draining, spin, queue, callVars>>

\* m_is_draining is cleared without the lock.
LeaveDraining(w) ==
    /\ wpc[w] = "leave"
    /\ is_draining' = [is_draining EXCEPT ![w] = FALSE]
    /\ wpc' = [wpc EXCEPT ![w] = "done"]
    /\ UNCHANGED <<life, mainVars, assigned_idx, barrierVars, phase, scanning, todo, local_work,
                   spin, queue, callVars>>

\* The sweep of the worker's pages, as far as m_life is concerned.
Sweep(w) ==
    /\ wpc[w] = "sweep"
    /\ life' = [u \in Units |-> IF SweepOwner[u] = w THEN "UNMARKED" ELSE life[u]]
    /\ wpc' = [wpc EXCEPT ![w] = "done"]
    /\ UNCHANGED <<mainVars, assigned_idx, barrierVars, phase, scanning, todo, local_work, is_draining,
                   spin, queue, callVars>>

NextPhase(p) ==
    CASE p = "PARALLEL_MARK" -> "FINAL_MARK"
      [] p = "FINAL_MARK"    -> "SWEEP"
      [] p = "SWEEP"         -> "PARALLEL_MARK"

\* worker_done_and_notify_main_gc_thread.
WorkerDone(w) ==
    /\ wpc[w] = "done"
    /\ finish_counter' = finish_counter + 1
    /\ phase' = [phase EXCEPT ![w] = NextPhase(@)]
    /\ wpc' = [wpc EXCEPT ![w] = "wait"]
    /\ UNCHANGED <<life, mainVars, assigned_idx, launch_state, scanning, todo, local_work, is_draining,
                   spin, queue, callVars>>

-----------------------------------------------------------------------------
(* The marking API on a thread that is not a worker *)

Call(t, u, w, entry) ==
    /\ mpc[t] = "run"
    /\ mpc' = [mpc EXCEPT ![t] = entry]
    /\ munit' = [munit EXCEPT ![t] = u]
    /\ mworker' = [mworker EXCEPT ![t] = w]

Return(t) ==
    /\ mpc' = [mpc EXCEPT ![t] = "run"]
    /\ munit' = [munit EXCEPT ![t] = NoUnit]
    /\ mworker' = [mworker EXCEPT ![t] = MarkingContext[t]]

\* External: who may mark, and when.  The main thread marks inside the begin
\* callback.  A mutator marks while it sees the flag up; the flag is a plain
\* bool, so it may see the old value until it has answered the callback that
\* follows the change.
MayMark(t) ==
    IF t = Main THEN main_pc = "begin"
    ELSE flag \/ (main_pc = "stop" /\ t \in unacked)

\* External: roots are marked while the begin callback runs.
MayMarkRoot(t) == main_pc = "begin" /\ (t = Main \/ t \in unacked)

MarkCall(t, u) ==
    /\ MayMark(t)
    /\ Call(t, u, MarkingContext[t], "shade")
    /\ UNCHANGED <<life, mainVars, assigned_idx, barrierVars, workerVars, local_work,
                   is_draining, spin, queue>>

RootCall(t, u) ==
    /\ MayMarkRoot(t)
    /\ Call(t, u, MarkingContext[t], "root_shade")
    /\ UNCHANGED <<life, mainVars, assigned_idx, barrierVars, workerVars, local_work,
                   is_draining, spin, queue>>

\* The loop of Step 2 over m_root_gc_unit_set.
RootLoop(u) ==
    /\ main_pc = "roots"
    /\ u \in roots_left
    /\ roots_left' = roots_left \ {u}
    /\ Call(Main, u, MarkingContext[Main], "root_shade")
    /\ UNCHANGED <<life, flag, main_pc, unacked, assigned_idx, barrierVars, workerVars,
                   local_work, is_draining, spin, queue>>

\* mark_root_unit_to_gray: the CAS on m_life, and the next worker in turn.
RootShade(t) ==
    /\ mpc[t] = "root_shade"
    /\ IF life[munit[t]] = "UNMARKED"
       THEN /\ life' = [life EXCEPT ![munit[t]] = "SELF_MARKED"]
            /\ mworker' = [mworker EXCEPT ![t] = assigned_idx]
            /\ assigned_idx' = (assigned_idx + 1) % WorkerCount
            /\ mpc' = [mpc EXCEPT ![t] = "root_lock"]
            /\ UNCHANGED munit
       ELSE Return(t) /\ UNCHANGED <<life, assigned_idx>>
    /\ UNCHANGED <<mainVars, barrierVars, workerVars, local_work, is_draining, spin, queue>>

\* The push that follows does not look at m_is_draining.
RootLock(t) ==
    /\ mpc[t] = "root_lock"
    /\ spin[mworker[t]] = NoThread
    /\ spin' = [spin EXCEPT ![mworker[t]] = t]
    /\ mpc' = [mpc EXCEPT ![t] = "push"]
    /\ UNCHANGED <<life, mainVars, assigned_idx, barrierVars, workerVars, local_work,
                   is_draining, queue, munit, mworker>>

\* Mutation: m_life is stored, not compared and exchanged.
MarkShadeByStore(t) ==
    /\ mpc[t] = "shade"
    /\ life' = [life EXCEPT ![munit[t]] = "SELF_MARKED"]
    /\ mpc' = [mpc EXCEPT ![t] = "enqueue"]
    /\ UNCHANGED <<mainVars, assigned_idx, barrierVars, workerVars, local_work, is_draining,
                   spin, queue, munit, mworker>>

\* mark_unit_to_gray: the CAS on m_life.
MarkShade(t) ==
    /\ mpc[t] = "shade"
    /\ IF life[munit[t]] = "UNMARKED"
       THEN /\ life' = [life EXCEPT ![munit[t]] = "SELF_MARKED"]
            /\ mpc' = [mpc EXCEPT ![t] = "enqueue"]
            /\ UNCHANGED <<munit, mworker>>
       ELSE Return(t) /\ UNCHANGED life
    /\ UNCHANGED <<mainVars, assigned_idx, barrierVars, workerVars, local_work, is_draining,
                   spin, queue>>

\* try_enqueue claims a place, or finds the queue full.
MarkEnqueue(t) ==
    /\ mpc[t] = "enqueue"
    /\ IF HasRoom(queue[mworker[t]], Capacity)
       THEN /\ queue' = [queue EXCEPT ![mworker[t]] = Claimed(@, t, munit[t])]
            /\ mpc' = [mpc EXCEPT ![t] = "publish"]
       ELSE /\ mpc' = [mpc EXCEPT ![t] = "full"]
            /\ UNCHANGED queue
    /\ UNCHANGED <<life, mainVars, assigned_idx, barrierVars, workerVars, local_work,
                   is_draining, spin, munit, mworker>>

MarkPublish(t) ==
    /\ mpc[t] = "publish"
    /\ queue' = [queue EXCEPT ![mworker[t]] = Published(@, t)]
    /\ Return(t)
    /\ UNCHANGED <<life, mainVars, assigned_idx, barrierVars, workerVars, local_work,
                   is_draining, spin>>

\* Mutation: no fallback, a full queue is retried until there is room.
MarkFullSpin(t) ==
    /\ mpc[t] = "full"
    /\ mpc' = [mpc EXCEPT ![t] = "enqueue"]
    /\ UNCHANGED <<life, mainVars, assigned_idx, barrierVars, workerVars, local_work,
                   is_draining, spin, queue, munit, mworker>>

\* The first, lock-free look at m_is_draining.
MarkFull(t) ==
    /\ mpc[t] = "full"
    /\ mpc' = [mpc EXCEPT ![t] = IF is_draining[mworker[t]] THEN "enqueue" ELSE "lock"]
    /\ UNCHANGED <<life, mainVars, assigned_idx, barrierVars, workerVars, local_work,
                   is_draining, spin, queue, munit, mworker>>

MarkLock(t) ==
    /\ mpc[t] = "lock"
    /\ spin[mworker[t]] = NoThread
    /\ spin' = [spin EXCEPT ![mworker[t]] = t]
    /\ mpc' = [mpc EXCEPT ![t] = "locked"]
    /\ UNCHANGED <<life, mainVars, assigned_idx, barrierVars, workerVars, local_work,
                   is_draining, queue, munit, mworker>>

\* Mutation: no second look, the first one decides.
MarkNoRecheck(t) ==
    /\ mpc[t] = "locked"
    /\ mpc' = [mpc EXCEPT ![t] = "push"]
    /\ UNCHANGED <<life, mainVars, assigned_idx, barrierVars, workerVars, local_work,
                   is_draining, spin, queue, munit, mworker>>

\* Mutation: the lock is still held when the thread goes back to the queue.
MarkRecheckKeepingLock(t) ==
    /\ mpc[t] = "locked"
    /\ mpc' = [mpc EXCEPT ![t] = IF is_draining[mworker[t]] THEN "enqueue" ELSE "push"]
    /\ UNCHANGED <<life, mainVars, assigned_idx, barrierVars, workerVars, local_work,
                   is_draining, spin, queue, munit, mworker>>

\* The second look, under the lock.
MarkRecheck(t) ==
    /\ mpc[t] = "locked"
    /\ IF is_draining[mworker[t]]
       THEN /\ spin' = [spin EXCEPT ![mworker[t]] = NoThread]
            /\ mpc' = [mpc EXCEPT ![t] = "enqueue"]
       ELSE /\ mpc' = [mpc EXCEPT ![t] = "push"]
            /\ UNCHANGED spin
    /\ UNCHANGED <<life, mainVars, assigned_idx, barrierVars, workerVars, local_work,
                   is_draining, queue, munit, mworker>>

\* m_local_work.push_back, then the lock guard is released.
MarkPush(t) ==
    /\ mpc[t] = "push"
    /\ local_work' = [local_work EXCEPT ![mworker[t]] = Append(@, munit[t])]
    /\ spin' = [spin EXCEPT ![mworker[t]] = NoThread]
    /\ Return(t)
    /\ UNCHANGED <<life, mainVars, assigned_idx, barrierVars, workerVars, is_draining, queue>>

\* External: a mutator outside an API call answers the running callback.
Acknowledge(m) ==
    /\ mpc[m] = "run"
    /\ m \in unacked
    /\ unacked' = unacked \ {m}
    /\ UNCHANGED <<life, flag, main_pc, roots_left, assigned_idx, barrierVars, workerVars,
                   local_work, is_draining, spin, queue, callVars>>

-----------------------------------------------------------------------------
MainStep ==
    \/ BeginCallbackDone
    \/ \E u \in Units : RootLoop(u)
    \/ LaunchParallelMark
    \/ StopMarking
    \/ LaunchFinalMark
    \/ LaunchSweep
    \/ EndRound

WorkerStep(w) ==
    \/ WorkerLaunch(w)
    \/ EnterDraining(w)
    \/ PopLocal(w)
    \/ \E c \in Units : ScanChild(w, c)
    \/ ScanDone(w)
    \/ StartDrain(w)
    \/ DrainTake(w)
    \/ DrainEnd(w)
    \/ LeaveDraining(w)
    \/ Sweep(w)
    \/ WorkerDone(w)

\* The steps of a thread inside the marking API.
CallStep(t) ==
    \/ RootShade(t)
    \/ RootLock(t)
    \/ MarkShade(t)
    \/ MarkEnqueue(t)
    \/ MarkPublish(t)
    \/ MarkFull(t)
    \/ MarkLock(t)
    \/ MarkRecheck(t)
    \/ MarkPush(t)

Next ==
    \/ StartRound
    \/ MainStep
    \/ \E w \in Workers : WorkerStep(w)
    \/ \E t \in Threads : (\E u \in Units : MarkCall(t, u) \/ RootCall(t, u)) \/ CallStep(t)
    \/ \E m \in Mutators : Acknowledge(m)

Spec == Init /\ [][Next]_vars

\* Every thread of the GC and every thread inside an API call keeps running; a
\* mutator that is outside API calls again and again answers a callback, and so
\* the begin callback comes to its end.
Fairness ==
    /\ SF_vars(MainStep)
    /\ \A w \in Workers : WF_vars(WorkerStep(w))
    /\ \A t \in Threads : WF_vars(CallStep(t))
    /\ \A m \in Mutators : SF_vars(Acknowledge(m))

FairSpec == Spec /\ Fairness

-----------------------------------------------------------------------------
(* Properties *)

\* Every variable keeps its type.
TypeOK ==
    /\ life \in [Units -> {"UNMARKED", "SELF_MARKED", "FULL_MARKED"}]
    /\ flag \in BOOLEAN
    /\ main_pc \in {"idle", "begin", "roots", "parallel", "stop", "final", "sweep"}
    /\ unacked \subseteq Mutators
    /\ roots_left \subseteq RootUnits
    /\ assigned_idx \in Workers
    /\ launch_state \in {"PENDING", "PARALLEL_MARK", "FINAL_MARK", "SWEEP"}
    /\ finish_counter \in 0 .. WorkerCount
    /\ wpc \in [Workers -> {"wait", "enter", "loop", "scan", "drain", "leave", "sweep", "done"}]
    /\ phase \in [Workers -> {"PARALLEL_MARK", "FINAL_MARK", "SWEEP"}]
    /\ local_work \in [Workers -> Seq(Units)]
    /\ is_draining \in [Workers -> BOOLEAN]
    /\ spin \in [Workers -> Threads \cup {NoThread}]
    /\ scanning \in [Workers -> Units \cup {NoUnit}]
    /\ todo \in [Workers -> SUBSET Units]
    /\ queue \in [Workers -> Seq([unit : Units, by : Threads, ready : BOOLEAN])]
    /\ mpc \in [Threads -> {"run", "root_shade", "root_lock", "shade", "enqueue", "publish",
                            "full", "lock", "locked", "push"}]
    /\ munit \in [Threads -> Units \cup {NoUnit}]
    /\ mworker \in [Threads -> Workers]

\* The worker of a phase runs only while the main thread waits for that phase:
\* in every other step all workers are parked before their next phase.  Step 2
\* and the fields the main thread writes for a phase rely on it.
ParkedFor(p) == \A w \in Workers : wpc[w] = "wait" /\ phase[w] = p
WorkersParked ==
    /\ main_pc \in {"idle", "begin", "roots"} => ParkedFor("PARALLEL_MARK")
    /\ main_pc = "stop" => ParkedFor("FINAL_MARK")

\* m_local_work is a plain vector: a thread that pushes into it runs alone with
\* it, neither its worker nor another pushing thread touches it meanwhile.
InProcessGrayUnits(w) == wpc[w] \in {"loop", "scan", "drain", "leave"}
LocalWorkExclusive ==
    \A t \in Threads : mpc[t] = "push" =>
        /\ ~InProcessGrayUnits(mworker[t])
        /\ \A s \in Threads \ {t} : mpc[s] = "push" => mworker[s] # mworker[t]

\* The places where a unit is on its way to being scanned.
Holders(u) ==
    {<<"scanning", w, 0>> : w \in {x \in Workers : scanning[x] = u}}
    \cup (UNION {{<<"local_work", w, i>> :
                   i \in {j \in DOMAIN local_work[w] : local_work[w][j] = u}} : w \in Workers})
    \cup (UNION {{<<"queue", w, i>> :
                   i \in {j \in DOMAIN queue[w] : queue[w][j].unit = u}} : w \in Workers})
    \cup {<<"call", t, 0>> : t \in {x \in Threads :
                   /\ munit[x] = u
                   /\ mpc[x] \in {"root_lock", "enqueue", "full", "lock", "locked", "push"}}}

\* A unit is SELF_MARKED exactly while one thread or container holds it: no
\* gray unit is ever lost, scanned twice, or popped with another state (the
\* assertion in process_gray_units).
GrayHeldOnce ==
    \A u \in Units :
        /\ life[u] = "SELF_MARKED" <=> Holders(u) # {}
        /\ \A h, k \in Holders(u) : h = k

\* When sweeping runs, nothing is gray and nothing is left to scan (the
\* assertion in check_and_free_unmarked_unit).
SweepSeesNoGray ==
    main_pc = "sweep" =>
        /\ \A u \in Units : life[u] # "SELF_MARKED"
        /\ \A w \in Workers : local_work[w] = << >> /\ queue[w] = << >>

\* The least set that holds the roots and the children of its members.
Reachable ==
    {u \in Units : \A S \in SUBSET Units :
        RootUnits \subseteq S /\ (\A x \in S : Children[x] \subseteq S) => u \in S}

\* FINAL_MARK ends only when every unit reachable from the root set is marked
\* and scanned.
MarkingComplete ==
    [][main_pc = "final" /\ main_pc' = "sweep" =>
          \A u \in Reachable : life[u] = "FULL_MARKED"]_vars

\* A unit marked in a cycle stays marked until the sweep of that cycle.
MarksKept ==
    [][main_pc # "sweep" => \A u \in Units : life[u] # "UNMARKED" => life'[u] # "UNMARKED"]_vars

\* A marking call returns: a full queue before, between and after the phases in
\* which the worker drains it blocks nobody for ever.
CallReturns == \A t \in Threads : mpc[t] # "run" ~> mpc[t] = "run"

\* A cycle that has begun comes to its end.
CycleCompletes == main_pc = "begin" ~> main_pc = "idle"

=============================================================================
