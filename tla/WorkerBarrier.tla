--------------------------- MODULE WorkerBarrier ---------------------------
(***************************************************************************)
(* The rendezvous of the GC main thread with its workers, and the end of   *)
(* the workers: m_gc_worker_threshold_mx and its condition variable, used  *)
(* by launch_worker_and_wait_until_done, the two wait_for_worker_launch    *)
(* functions, worker_done_and_notify_main_gc_thread and                    *)
(* signal_worker_shutdown.                                                 *)
(*                                                                         *)
(* mx is m_gc_worker_threshold_mx.  The place of the main thread is its    *)
(* place in ~GC too.                                                       *)
(***************************************************************************)
EXTENDS Integers, FiniteSets, Monitor

CONSTANT WorkerCount

Workers == 0 .. WorkerCount - 1
Threads == Workers \cup {Main}

ASSUME BarrierAssumption ==
    /\ WorkerCount \in Nat \ {0}
    /\ Main \notin Workers /\ Nobody \notin Threads

VARIABLES
    launch_state,
    finish_counter,
    worker_shutdown,  \* m_worker_shutdown
    phase,            \* the phase each thread is in, or waits for
    joining           \* the worker ~GC destroys

barrierVars == <<launch_state, finish_counter, worker_shutdown, phase, joining>>
vars == <<mx, launch_state, finish_counter, worker_shutdown, pc, phase, joining>>

Init ==
    /\ mx = Nobody
    /\ launch_state = "PENDING"
    /\ finish_counter = 0
    /\ worker_shutdown = FALSE
    /\ pc = [t \in Threads |-> IF t = Main THEN "idle" ELSE "lock"]
    /\ phase = [t \in Threads |-> "PARALLEL_MARK"]
    /\ joining = 0

NextPhase(p) ==
    CASE p = "PARALLEL_MARK" -> "FINAL_MARK"
      [] p = "FINAL_MARK"    -> "SWEEP"
      [] p = "SWEEP"         -> "PARALLEL_MARK"

Advance(t) == phase' = [phase EXCEPT ![t] = NextPhase(@)]

\* Every sleeper has to take the mutex again; t itself goes to label.
NotifyAll(t, label) ==
    pc' = [s \in Threads |-> IF s = t THEN label
                             ELSE IF pc[s] = "asleep" THEN "lock" ELSE pc[s]]

-----------------------------------------------------------------------------
(* The main thread *)

\* Step 0 of main_thread_job (see GCTrigger): a round, or the end of the thread.
LeaveIdle ==
    /\ pc[Main] = "idle"
    /\ Go(Main, "launch") \/ Go(Main, "exit")
    /\ UNCHANGED <<mx, barrierVars>>

\* launch_worker_and_wait_until_done up to its wait: the mutex stays held.
Launch ==
    /\ pc[Main] = "launch"
    /\ mx = Nobody
    /\ mx' = Main
    /\ finish_counter' = 0
    /\ launch_state' = phase[Main]
    /\ NotifyAll(Main, "test")
    /\ UNCHANGED <<worker_shutdown, phase, joining>>

\* The condition of the wait.  After SWEEP the round ends.
MainTest ==
    /\ pc[Main] = "test"
    /\ IF finish_counter = WorkerCount
       THEN /\ mx' = Nobody
            /\ Go(Main, IF phase[Main] = "SWEEP" THEN "end" ELSE "launch")
            /\ Advance(Main)
       ELSE Go(Main, "sleep") /\ UNCHANGED <<mx, phase>>
    /\ UNCHANGED <<launch_state, finish_counter, worker_shutdown, joining>>

\* The state is reset without the mutex.
EndRound ==
    /\ pc[Main] = "end"
    /\ launch_state' = "PENDING"
    /\ Go(Main, "idle")
    /\ UNCHANGED <<mx, finish_counter, worker_shutdown, phase, joining>>

\* ~GC, once the main thread is joined.
ShutdownWorkers ==
    /\ pc[Main] = "exit"
    /\ worker_shutdown' = TRUE
    /\ Go(Main, "signal")
    /\ UNCHANGED <<mx, launch_state, finish_counter, phase, joining>>

\* Mutation: the critical section of signal_worker_shutdown is left out.
SignalWithoutLock ==
    /\ pc[Main] = "signal"
    /\ Go(Main, "notify")
    /\ UNCHANGED <<mx, barrierVars>>

\* ~GCWorker: signal_worker_shutdown takes the mutex and gives it back, ...
SignalWorkerShutdown ==
    /\ pc[Main] = "signal"
    /\ mx = Nobody
    /\ Go(Main, "notify")
    /\ UNCHANGED <<mx, barrierVars>>

\* ... and only then notifies.
NotifyShutdown ==
    /\ pc[Main] = "notify"
    /\ NotifyAll(Main, "join")
    /\ UNCHANGED <<mx, barrierVars>>

Join ==
    /\ pc[Main] = "join"
    /\ pc[joining] = "exit"
    /\ IF joining + 1 < WorkerCount
       THEN joining' = joining + 1 /\ Go(Main, "signal")
       ELSE Go(Main, "joined") /\ UNCHANGED joining
    /\ UNCHANGED <<mx, launch_state, finish_counter, worker_shutdown, phase>>

-----------------------------------------------------------------------------
(* A worker *)

\* Mutation: any launch will do.
MayGoOnAtAnyLaunch(w) == launch_state # "PENDING" \/ worker_shutdown

\* The conditions of the two waits: only the one for PARALLEL_MARK looks at
\* m_worker_shutdown.
MayGoOn(w) ==
    \/ launch_state = phase[w]
    \/ phase[w] = "PARALLEL_MARK" /\ worker_shutdown

WorkerTest(w) ==
    /\ pc[w] = "test"
    /\ IF MayGoOn(w)
       THEN /\ mx' = Nobody
            /\ Go(w, IF phase[w] = "PARALLEL_MARK" /\ worker_shutdown THEN "exit" ELSE "work")
       ELSE Go(w, "sleep") /\ UNCHANGED mx
    /\ UNCHANGED <<launch_state, finish_counter, worker_shutdown, phase, joining>>

\* Mutation: the first worker that is done notifies, not the last.
DoneUnlessFirst(w) ==
    /\ pc[w] = "work"
    /\ mx = Nobody
    /\ finish_counter' = finish_counter + 1
    /\ IF finish_counter' = 1 THEN NotifyAll(w, "lock") ELSE Go(w, "lock")
    /\ Advance(w)
    /\ UNCHANGED <<mx, launch_state, worker_shutdown, joining>>

\* The work of a phase, and worker_done_and_notify_main_gc_thread.
Done(w) ==
    /\ pc[w] = "work"
    /\ mx = Nobody
    /\ finish_counter' = finish_counter + 1
    /\ IF finish_counter' = WorkerCount THEN NotifyAll(w, "lock") ELSE Go(w, "lock")
    /\ Advance(w)
    /\ UNCHANGED <<mx, launch_state, worker_shutdown, joining>>

-----------------------------------------------------------------------------
MainStep ==
    \/ LeaveIdle \/ Launch \/ MainTest \/ EndRound
    \/ ShutdownWorkers \/ SignalWorkerShutdown \/ NotifyShutdown \/ Join
WorkerStep(w) == WorkerTest(w) \/ Done(w)

\* ~GC has come to its end.
Joined == pc[Main] = "joined" /\ UNCHANGED vars

Next ==
    \/ MainStep
    \/ \E w \in Workers : WorkerStep(w)
    \/ \E t \in Threads : (Lock(t) \/ Sleep(t) \/ WakeSpuriously(t)) /\ UNCHANGED barrierVars
    \/ Joined

Spec == Init /\ [][Next]_vars

\* Every thread keeps running and the mutex starves nobody.  Nothing is assumed
\* about spurious wake-ups.
FairSpec ==
    /\ Spec
    /\ SF_vars(MainStep)
    /\ \A w \in Workers : SF_vars(WorkerStep(w))
    /\ \A t \in Threads :
        SF_vars(Lock(t) /\ UNCHANGED barrierVars) /\ WF_vars(Sleep(t) /\ UNCHANGED barrierVars)

-----------------------------------------------------------------------------
(* Properties *)

\* Every variable keeps its type.
TypeOK ==
    /\ mx \in Threads \cup {Nobody}
    /\ launch_state \in {"PENDING", "PARALLEL_MARK", "FINAL_MARK", "SWEEP"}
    /\ finish_counter \in 0 .. WorkerCount
    /\ worker_shutdown \in BOOLEAN
    /\ pc \in [Threads -> {"idle", "launch", "lock", "test", "sleep", "asleep", "work", "end",
                           "exit", "signal", "notify", "join", "joined"}]
    /\ phase \in [Threads -> {"PARALLEL_MARK", "FINAL_MARK", "SWEEP"}]
    /\ joining \in Workers

\* Workers are at work only while the main thread waits for that very phase, so
\* that between two launches it has their fields for itself.
WorkInStep ==
    \A w \in Workers : pc[w] = "work" =>
        phase[w] = phase[Main] /\ pc[Main] \in {"lock", "test", "sleep", "asleep"}

\* No wake-up that counts is lost: a thread sleeps, or has decided to sleep, only
\* while its condition is false or somebody is still going to notify it.
NoLostWakeup ==
    /\ pc[Main] \in {"sleep", "asleep"} => finish_counter < WorkerCount
    /\ \A w \in Workers : pc[w] \in {"sleep", "asleep"} /\ MayGoOn(w) =>
        worker_shutdown /\ pc[Main] \in {"signal", "notify"} /\ joining = 0

\* A launched phase comes to its end: the main thread is never left waiting.
PhaseEnds ==
    \A p \in {"PARALLEL_MARK", "FINAL_MARK", "SWEEP"} :
        pc[Main] \in {"test", "sleep"} /\ phase[Main] = p ~> phase[Main] # p

\* ~GC does not hang: every worker leaves and is joined.
WorkersJoined == pc[Main] = "exit" ~> pc[Main] = "joined"

=============================================================================
