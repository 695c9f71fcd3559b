----------------------- MODULE SynchronisationProofs -----------------------
(***************************************************************************)
(* The workers' barrier and the trigger of a round, each by itself and for *)
(* any number of threads.  The two specifications share the condition      *)
(* variable of Monitor and nothing else.                                   *)
(***************************************************************************)
EXTENDS WorkerBarrier, GCTrigger, FiniteSetTheorems, TLAPS

-----------------------------------------------------------------------------
(***************************************************************************)
(* For any number of workers: they work in step with the main thread, and  *)
(* no wake-up that counts is lost.                                         *)
(***************************************************************************)

Phases == {"PARALLEL_MARK", "FINAL_MARK", "SWEEP"}
InWait == {"lock", "test", "sleep", "asleep"}
InShutdown == {"signal", "notify", "join", "joined"}

\* The workers that are done with the phase of the main thread.
Finished == {w \in Workers : phase[w] = NextPhase(phase[Main])}

\* The mutex is held by the thread that tests its condition or falls asleep.
MutexHeld == \A t \in Threads : pc[t] \in {"test", "sleep"} <=> mx = t

\* While the main thread waits, a worker is in that phase or done with it, and
\* the counter counts the latter.
Running ==
    pc[Main] \in InWait =>
        /\ launch_state = phase[Main]
        /\ \A w \in Workers :
            \/ phase[w] = phase[Main]
            \/ phase[w] = NextPhase(phase[Main]) /\ pc[w] \in InWait
        /\ finish_counter = Cardinality(Finished)

\* Otherwise all workers wait for the next launch, or have left.
Parked ==
    pc[Main] \notin InWait =>
        /\ launch_state # phase[Main]
        /\ \A w \in Workers : phase[w] = phase[Main] /\ pc[w] \in InWait \cup {"exit"}

\* Where the main thread and the workers can be.
Places ==
    /\ pc[Main] # "work"
    /\ pc[Main] \notin InWait \cup {"launch"} => phase[Main] = "PARALLEL_MARK"
    /\ worker_shutdown <=> pc[Main] \in InShutdown
    /\ joining = 0 \/ pc[Main] \in InShutdown
    /\ \A w \in Workers :
        /\ pc[w] \in InWait \cup {"work", "exit"}
        /\ pc[w] = "exit" => worker_shutdown

\* Once the workers are notified of the shutdown they do not sleep any more.
Notified ==
    /\ pc[Main] = "notify" => \A w \in Workers : pc[w] # "sleep"
    /\ pc[Main] \in {"join", "joined"} \/ joining # 0 =>
        \A w \in Workers : pc[w] \notin {"sleep", "asleep"}

BarrierInv == TypeOK /\ MutexHeld /\ Running /\ Parked /\ Places /\ Notified /\ NoLostWakeup

-----------------------------------------------------------------------------
(* Lemmas *)

\* The next phase is another phase.
LEMMA NextPhaseDiffers ==
    ASSUME NEW p \in Phases
    PROVE  NextPhase(p) \in Phases /\ NextPhase(p) # p
  BY DEF Phases, NextPhase

\* The finished workers are finitely many.
LEMMA FinishedBounded ==
    /\ IsFiniteSet(Workers) /\ Cardinality(Workers) = WorkerCount
    /\ IsFiniteSet(Finished)
    /\ Cardinality(Finished) \in 0 .. WorkerCount
    /\ Cardinality(Finished) = WorkerCount => Finished = Workers
  <1>1. IsFiniteSet(Workers) /\ Cardinality(Workers) = WorkerCount
    BY BarrierAssumption, FS_Interval DEF Workers
  <1>2. Finished \subseteq Workers
    BY DEF Finished
  <1>3. IsFiniteSet(Finished) /\ Cardinality(Finished) <= Cardinality(Workers)
    BY <1>1, <1>2, FS_Subset
  <1>4. Cardinality(Finished) \in Nat
    BY <1>3, FS_CardinalityType
  <1>5. Cardinality(Finished) = Cardinality(Workers) => Finished = Workers
    BY <1>1, <1>2, FS_Subset
  <1> QED BY <1>1, <1>3, <1>4, <1>5, BarrierAssumption

\* The initial state satisfies the invariant.
LEMMA BarrierInit == Init => BarrierInv
  <1> SUFFICES ASSUME Init PROVE BarrierInv
    OBVIOUS
  <1>1. 0 \in Workers /\ 0 \in 0 .. WorkerCount
    BY BarrierAssumption DEF Workers
  <1> QED
    BY <1>1, BarrierAssumption
    DEF Init, BarrierInv, TypeOK, MutexHeld, Running, Parked, Places, Notified, NoLostWakeup,
        MayGoOn, InWait, InShutdown, Threads

\* The steps of condition_variable::wait.
LEMMA BarrierWaitSteps ==
    ASSUME BarrierInv, NEW t \in Threads, Lock(t) \/ Sleep(t) \/ WakeSpuriously(t),
           UNCHANGED barrierVars
    PROVE  BarrierInv'
  <1> USE BarrierAssumption DEF barrierVars, BarrierInv, Lock, Sleep, WakeSpuriously, Go, Threads
  <1>1. TypeOK' /\ MutexHeld'
    BY DEF TypeOK, MutexHeld
  <1>2. Running' /\ Parked'
    <2>1. Finished' = Finished
      BY DEF Finished
    <2> QED BY <2>1 DEF TypeOK, Running, Parked, InWait
  <1>3. Places' /\ Notified'
    BY DEF TypeOK, Places, Notified, InWait, InShutdown
  <1>4. NoLostWakeup'
    BY DEF TypeOK, NoLostWakeup, MayGoOn
  <1> QED BY <1>1, <1>2, <1>3, <1>4

\* Launch: all workers wait for this very phase.
LEMMA LaunchStep ==
    ASSUME BarrierInv, Launch
    PROVE  BarrierInv'
  <1> USE BarrierAssumption DEF barrierVars, BarrierInv, Launch, NotifyAll, Threads
  <1>1. TypeOK' /\ MutexHeld'
    BY DEF TypeOK, MutexHeld
  <1>2. Running' /\ Parked'
    <2>1. Finished' = {}
      BY NextPhaseDiffers DEF Finished, Parked, InWait, TypeOK, Phases
    <2>2. Cardinality(Finished') = 0
      BY <2>1, FS_EmptySet
    <2> QED BY <2>2 DEF TypeOK, Running, Parked, InWait
  <1>3. Places' /\ Notified'
    BY DEF TypeOK, Places, Notified, InWait, InShutdown
  <1>4. NoLostWakeup'
    BY DEF TypeOK, NoLostWakeup, MayGoOn, MutexHeld
  <1> QED BY <1>1, <1>2, <1>3, <1>4

\* The main thread tests its condition; when it goes on, everybody is done.
LEMMA MainTestStep ==
    ASSUME BarrierInv, MainTest
    PROVE  BarrierInv'
  <1> USE BarrierAssumption DEF barrierVars, BarrierInv, MainTest, Go, Advance, Threads
  <1>1. phase[Main] \in Phases /\ pc[Main] \in InWait
    BY DEF TypeOK, Phases, InWait
  <1>2. TypeOK' /\ MutexHeld'
    BY <1>1, NextPhaseDiffers DEF TypeOK, MutexHeld, Phases
  <1>3. CASE finish_counter = WorkerCount
    <2>1. Finished = Workers
      BY <1>1, <1>3, FinishedBounded DEF Running
    <2>2. \A w \in Workers : phase'[w] = phase'[Main] /\ pc'[w] = pc[w] /\ pc[w] \in InWait
      BY <1>1, <1>3, <2>1, NextPhaseDiffers DEF Running, Finished, TypeOK
    <2>3. Running' /\ Parked'
      BY <1>1, <1>3, <2>2, NextPhaseDiffers DEF Running, Parked, InWait, TypeOK
    <2>4. Places' /\ Notified'
      BY <1>1, <1>3, <2>2 DEF Places, Notified, InWait, InShutdown, TypeOK, NextPhase
    <2>5. NoLostWakeup'
      BY <1>1, <1>3, <2>2, <2>3, <2>4
      DEF NoLostWakeup, MayGoOn, Parked, Places, InWait, InShutdown, TypeOK
    <2> QED BY <1>2, <2>3, <2>4, <2>5
  <1>4. CASE finish_counter # WorkerCount
    <2>1. Finished' = Finished
      BY <1>4 DEF Finished
    <2>2. Running' /\ Parked'
      BY <1>4, <2>1 DEF Running, Parked, InWait, TypeOK
    <2>3. Places' /\ Notified'
      BY <1>4 DEF Places, Notified, InWait, InShutdown, TypeOK
    <2>4. NoLostWakeup'
      BY <1>4 DEF NoLostWakeup, MayGoOn, TypeOK
    <2> QED BY <1>2, <2>2, <2>3, <2>4
  <1> QED BY <1>3, <1>4

\* The main thread between its waits, and in ~GC.
LEMMA BarrierMainSteps ==
    ASSUME BarrierInv,
           LeaveIdle \/ EndRound \/ ShutdownWorkers \/ SignalWorkerShutdown
           \/ NotifyShutdown \/ Join
    PROVE  BarrierInv'
  <1> USE BarrierAssumption
      DEF BarrierInv, LeaveIdle, EndRound, ShutdownWorkers, SignalWorkerShutdown,
          NotifyShutdown, Join, Go, NotifyAll, Threads, barrierVars
  <1>1. pc[Main] \notin InWait /\ pc'[Main] \notin InWait
    BY DEF InWait, TypeOK
  <1>2. TypeOK' /\ MutexHeld'
    <2>1. joining' \in Workers
      BY DEF TypeOK, Workers
    <2>2. pc' \in [Threads -> {"idle", "launch", "lock", "test", "sleep", "asleep", "work", "end",
                               "exit", "signal", "notify", "join", "joined"}]
      BY DEF TypeOK
    <2>3. TypeOK'
      BY <2>1, <2>2 DEF TypeOK
    <2>4. MutexHeld'
      BY DEF MutexHeld, TypeOK
    <2> QED BY <2>3, <2>4
  <1>3. Running' /\ Parked'
    BY <1>1 DEF Running, Parked, Places, InWait, TypeOK
  <1>4. Places'
    BY DEF Places, InWait, InShutdown, TypeOK
  <1>5. Notified'
    BY DEF Notified, MutexHeld, TypeOK, Places, InShutdown
  <1>6. NoLostWakeup'
    BY <1>1, <1>3, <1>4, <1>5
    DEF NoLostWakeup, MayGoOn, Parked, Places, Notified, InWait, InShutdown, TypeOK
  <1> QED BY <1>2, <1>3, <1>4, <1>5, <1>6

\* A worker tests its condition.
LEMMA WorkerTestStep ==
    ASSUME BarrierInv, NEW w \in Workers, WorkerTest(w)
    PROVE  BarrierInv'
  <1> USE BarrierAssumption DEF barrierVars, BarrierInv, WorkerTest, Go, Threads
  <1>1. pc'[Main] = pc[Main]
    BY DEF TypeOK
  <1>2. TypeOK' /\ MutexHeld'
    BY DEF TypeOK, MutexHeld
  <1>3. Finished' = Finished
    BY DEF Finished
  <1>4. Running'
    BY <1>1, <1>3, NextPhaseDiffers
    DEF Running, Places, MayGoOn, InWait, InShutdown, TypeOK, Phases
  <1>5. Parked'
    BY <1>1 DEF Parked, Places, MayGoOn, InWait, TypeOK
  <1>6. Places' /\ Notified'
    BY <1>1 DEF Places, Notified, Parked, MayGoOn, InWait, InShutdown, TypeOK
  <1>7. NoLostWakeup'
    BY <1>1 DEF NoLostWakeup, MayGoOn, TypeOK
  <1> QED BY <1>2, <1>4, <1>5, <1>6, <1>7

\* A worker is done with a phase.
LEMMA DoneStep ==
    ASSUME BarrierInv, NEW w \in Workers, Done(w)
    PROVE  BarrierInv'
  <1> USE BarrierAssumption DEF barrierVars, BarrierInv, Done, Go, NotifyAll, Advance, Threads
  <1>1. /\ pc[Main] \in InWait /\ phase[w] = phase[Main] /\ phase[Main] \in Phases
        /\ launch_state = phase[Main] /\ phase'[Main] = phase[Main]
        /\ phase'[w] = NextPhase(phase[Main])
    BY DEF Running, Parked, InWait, TypeOK, Phases
  <1>2. Finished' = Finished \cup {w} /\ w \notin Finished
    BY <1>1, NextPhaseDiffers DEF Finished, TypeOK
  <1>3. finish_counter' = Cardinality(Finished') /\ finish_counter' \in 0 .. WorkerCount
    <2>1. Cardinality(Finished \cup {w}) = Cardinality(Finished) + 1
      BY <1>2, FinishedBounded, FS_AddElement
    <2>2. Cardinality(Finished) # WorkerCount
      BY <1>2, FinishedBounded
    <2> QED BY <1>1, <1>2, <2>1, <2>2, FinishedBounded DEF Running
  <1>4. /\ pc'[w] = "lock"
        /\ \A t \in Threads \ {w} : pc'[t] = pc[t] \/ (pc[t] = "asleep" /\ pc'[t] = "lock")
        /\ \A t \in Threads \ {w} : phase'[t] = phase[t]
        /\ \A t \in Threads : pc[t] # "sleep"
    BY DEF TypeOK, MutexHeld
  <1>5. TypeOK'
    BY <1>1, <1>3, NextPhaseDiffers DEF TypeOK, Phases
  <1>6. MutexHeld'
    BY <1>4 DEF MutexHeld, TypeOK
  <1>7. Running' /\ Parked'
    BY <1>1, <1>3, <1>4 DEF Running, Parked, InWait
  <1>8. Places' /\ Notified'
    BY <1>1, <1>4 DEF Places, Notified, InWait, InShutdown
  <1>9. NoLostWakeup'
    BY <1>1, <1>3, <1>4, <1>8, NextPhaseDiffers
    DEF NoLostWakeup, MayGoOn, Places, InWait, InShutdown, TypeOK
  <1> QED BY <1>5, <1>6, <1>7, <1>8, <1>9

\* Every step keeps the invariant.
LEMMA BarrierStep == BarrierInv /\ [Next]_vars => BarrierInv'
  <1> SUFFICES ASSUME BarrierInv, [Next]_vars PROVE BarrierInv'
    OBVIOUS
  <1>1. CASE UNCHANGED vars
    BY <1>1
    DEF vars, BarrierInv, TypeOK, MutexHeld, Running, Finished, Parked, Places, Notified,
        NoLostWakeup, MayGoOn
  <1> QED
    BY <1>1, BarrierWaitSteps, LaunchStep, MainTestStep, BarrierMainSteps, WorkerTestStep, DoneStep
    DEF Next, MainStep, WorkerStep, Joined

-----------------------------------------------------------------------------
(* Theorems *)

\* Every variable keeps its type: the counter never passes the number of workers.
THEOREM BarrierTypes == Spec => []TypeOK
  <1>1. BarrierInv => TypeOK
    BY DEF BarrierInv
  <1> QED BY BarrierInit, BarrierStep, <1>1, PTL DEF Spec

\* Workers work only in the phase the main thread waits for, although the launch
\* state is reset without the mutex and the counter is used again for each phase.
THEOREM WorkersInStep == Spec => []WorkInStep
  <1>1. BarrierInv => WorkInStep
    BY DEF BarrierInv, WorkInStep, Running, Parked, InWait
  <1> QED BY BarrierInit, BarrierStep, <1>1, PTL DEF Spec

\* launch_worker_and_wait_until_done, worker_done_and_notify_main_gc_thread and
\* signal_worker_shutdown leave no thread asleep whose condition has come true.
THEOREM WakeupsNotLost == Spec => []NoLostWakeup
  <1>1. BarrierInv => NoLostWakeup
    BY DEF BarrierInv
  <1> QED BY BarrierInit, BarrierStep, <1>1, PTL DEF Spec

-----------------------------------------------------------------------------
(***************************************************************************)
(* For any set of callers: the mutex has one holder, and no request for a  *)
(* round is forgotten.                                                     *)
(***************************************************************************)

TriggerInv == TriggerTypeOK /\ RequestKept

\* A step of a thread that leaves force and unserved alone keeps the request, as
\* long as the main thread does not leave "begin".
LEMMA RequestFrame ==
    ASSUME TriggerTypeOK, RequestKept, UNCHANGED <<force, unserved>>,
           pc[Main] = "begin" => pc'[Main] = "begin"
    PROVE  RequestKept'
  BY DEF RequestKept

\* The initial state satisfies the invariant.
LEMMA TriggerInvInit == TriggerInit => TriggerInv
  BY TriggerAssumption DEF TriggerInit, TriggerInv, TriggerTypeOK, RequestKept, Waiters

\* The steps of condition_variable::wait.
LEMMA TriggerWaitSteps ==
    ASSUME TriggerInv, NEW t \in Waiters, Lock(t) \/ Sleep(t) \/ WakeSpuriously(t),
           UNCHANGED requestVars
    PROVE  TriggerInv'
  <1>1. TriggerTypeOK'
    BY TriggerAssumption DEF requestVars, TriggerInv, TriggerTypeOK, Lock, Sleep, WakeSpuriously, Go, Waiters
  <1>2. RequestKept'
    <2>1. pc[Main] = "begin" => pc'[Main] = "begin"
      BY DEF TriggerInv, TriggerTypeOK, Lock, Sleep, WakeSpuriously, Go, Waiters
    <2> QED BY <2>1, RequestFrame DEF TriggerInv, requestVars
  <1> QED BY <1>1, <1>2 DEF TriggerInv

\* The steps of main_thread_job.
LEMMA TriggerMainSteps ==
    ASSUME TriggerInv, MainWait \/ MainTimeout \/ MainRound
    PROVE  TriggerInv'
  <1> USE TriggerAssumption DEF requestVars, TriggerInv, TriggerTypeOK, Go, Waiters
  <1>1. CASE TimedTest
    BY <1>1 DEF TimedTest, RequestKept
  <1>2. CASE MainTimeout
    BY <1>2 DEF MainTimeout, RequestKept
  <1>3. CASE MainExit
    BY <1>3 DEF MainExit, RequestKept
  <1>4. CASE MainBreak
    BY <1>4 DEF MainBreak, RequestKept
  <1>5. CASE MainLoop
    BY <1>5 DEF MainLoop, RequestKept
  <1>6. CASE MainClear
    BY <1>6 DEF MainClear, RequestKept
  <1>7. CASE MainBegin
    BY <1>7 DEF MainBegin, RequestKept
  <1>8. CASE CountRound
    BY <1>8 DEF CountRound, RequestKept
  <1>9. CASE NotifyCallers
    BY <1>9 DEF NotifyCallers, Asleep, RequestKept
  <1> QED
    BY <1>1, <1>2, <1>3, <1>4, <1>5, <1>6, <1>7, <1>8, <1>9 DEF MainWait, MainRound

\* The steps of trigger_gc.
LEMMA CallerSteps ==
    ASSUME TriggerInv, NEW t \in Callers, TriggerGC(t) \/ CallerStep(t)
    PROVE  TriggerInv'
  <1> USE TriggerAssumption DEF requestVars, TriggerInv, TriggerTypeOK, Go, Waiters
  <1>1. CASE TriggerGC(t)
    BY <1>1 DEF TriggerGC, RequestKept
  <1>2. CASE StoreForce(t)
    BY <1>2 DEF StoreForce, RequestKept
  <1>3. CASE NotifyOne(t)
    BY <1>3 DEF NotifyOne, Asleep, RequestKept
  <1>4. CASE CallerTest(t)
    BY <1>4 DEF CallerTest, RequestKept
  <1> QED BY <1>1, <1>2, <1>3, <1>4 DEF CallerStep

\* Every step keeps the invariant.
LEMMA TriggerStep == TriggerInv /\ [TriggerNext]_triggerVars => TriggerInv'
  <1> SUFFICES ASSUME TriggerInv, [TriggerNext]_triggerVars PROVE TriggerInv'
    OBVIOUS
  <1>1. CASE Shutdown
    BY <1>1 DEF Shutdown, TriggerInv, TriggerTypeOK, RequestKept
  <1>2. CASE UNCHANGED triggerVars
    BY <1>2 DEF triggerVars, requestVars, TriggerInv, TriggerTypeOK, RequestKept
  <1> QED BY <1>1, <1>2, TriggerWaitSteps, TriggerMainSteps, CallerSteps DEF TriggerNext

\* m_trigger_mx is held by the one thread that tests its condition or is falling
\* asleep, whatever notifications and time-outs come.
THEOREM TriggerTypes == TriggerSpec => []TriggerTypeOK
  <1>1. TriggerInv => TriggerTypeOK
    BY DEF TriggerInv
  <1> QED BY TriggerInvInit, TriggerStep, <1>1, PTL DEF TriggerSpec

\* A request made with m_force_trigger_gc is kept until a round begins after it,
\* for any number of callers.
THEOREM RequestIsKept == TriggerSpec => []RequestKept
  <1>1. TriggerInv => RequestKept
    BY DEF TriggerInv
  <1> QED BY TriggerInvInit, TriggerStep, <1>1, PTL DEF TriggerSpec

=============================================================================
