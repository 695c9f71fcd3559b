----------------------------- MODULE GCTrigger -----------------------------
(***************************************************************************)
(* Who starts a GC round, and who waits for it: Step 0 of main_thread_job, *)
(* trigger_gc, the end of a round, and the shutdown flag of ~GC, all on    *)
(* m_trigger_cv, which the main thread and the waiting callers share.      *)
(*                                                                         *)
(* Nobody holds m_trigger_mx while changing what the others wait for, and  *)
(* notify_one may wake any sleeper.  mx is m_trigger_mx.  Time is a        *)
(* choice: the timed wait of the main thread may end whenever it sleeps,   *)
(* and a round may begin by age or by the volume of new allocations        *)
(* whenever the main thread looks.                                         *)
(*                                                                         *)
(* m_gc_cycle_count is kept as what a caller asks of it: has it grown      *)
(* since the caller read it?                                               *)
(***************************************************************************)
EXTENDS Monitor

CONSTANT Callers

Waiters == Callers \cup {Main}

ASSUME TriggerAssumption == Main \notin Callers /\ Nobody \notin Waiters

VARIABLES
    force,     \* m_force_trigger_gc
    shutdown,  \* m_shutdown
    grown,     \* m_gc_cycle_count > prev_count, for each caller
    sync,      \* callers whose call is not asynchronous
    unserved   \* history: callers that asked since the last round began

requestVars == <<force, shutdown, grown, sync, unserved>>
triggerVars == <<mx, pc, requestVars>>

TriggerInit ==
    /\ force = FALSE
    /\ shutdown = FALSE
    /\ grown = [t \in Callers |-> FALSE]
    /\ mx = Nobody
    /\ pc = [t \in Waiters |-> IF t = Main THEN "lock" ELSE "out"]
    /\ sync = {}
    /\ unserved = {}

Asleep == {t \in Waiters : pc[t] = "asleep"}

-----------------------------------------------------------------------------
(* main_thread_job *)

\* The condition of the timed wait.
TimedTest ==
    /\ pc[Main] = "test"
    /\ IF force \/ shutdown
       THEN mx' = Nobody /\ Go(Main, "look")
       ELSE Go(Main, "sleep") /\ UNCHANGED mx
    /\ UNCHANGED requestVars

\* Mutation: the wait has no time limit.
MainTimeoutNever ==
    /\ FALSE
    /\ Go(Main, "look")
    /\ UNCHANGED <<mx, requestVars>>

\* 0.1 seconds have passed: the wait ends whatever its condition says.
MainTimeout ==
    /\ pc[Main] = "asleep"
    /\ mx = Nobody
    /\ Go(Main, "look")
    /\ UNCHANGED <<mx, requestVars>>

MainExit ==
    /\ pc[Main] = "look"
    /\ shutdown
    /\ Go(Main, "exit")
    /\ UNCHANGED <<mx, requestVars>>

\* Ten seconds have passed, a round is asked for, or much was allocated.
MainBreak ==
    /\ pc[Main] = "look"
    /\ ~shutdown
    /\ Go(Main, "clear")
    /\ UNCHANGED <<mx, requestVars>>

\* Nothing of that: wait again.
MainLoop ==
    /\ pc[Main] = "look"
    /\ ~shutdown
    /\ ~force
    /\ Go(Main, "lock")
    /\ UNCHANGED <<mx, requestVars>>

\* The request is cleared before the round begins.
MainClear ==
    /\ pc[Main] = "clear"
    /\ force' = FALSE
    /\ Go(Main, "begin")
    /\ UNCHANGED <<shutdown, grown, mx, sync, unserved>>

\* Step 1.  The round runs until CountRound.
MainBegin ==
    /\ pc[Main] = "begin"
    /\ unserved' = {}
    /\ Go(Main, "round")
    /\ UNCHANGED <<force, shutdown, grown, mx, sync>>

\* Mutation: what was asked for during the round is taken as served.
CountRoundClearing ==
    /\ pc[Main] = "round"
    /\ grown' = [t \in Callers |-> TRUE]
    /\ force' = FALSE
    /\ Go(Main, "notify")
    /\ UNCHANGED <<shutdown, mx, sync, unserved>>

\* The end of Step 7: the count grows.
CountRound ==
    /\ pc[Main] = "round"
    /\ grown' = [t \in Callers |-> TRUE]
    /\ Go(Main, "notify")
    /\ UNCHANGED <<force, shutdown, mx, sync, unserved>>

\* Mutation: only one of the waiting threads is told.
NotifyOneCaller ==
    /\ pc[Main] = "notify"
    /\ \E t \in Asleep \cup {Nobody} :
        /\ t = Nobody => Asleep = {}
        /\ pc' = [s \in Waiters |-> IF s \in {t, Main} THEN "lock" ELSE pc[s]]
    /\ UNCHANGED <<mx, requestVars>>

\* notify_all, without the mutex.
NotifyCallers ==
    /\ pc[Main] = "notify"
    /\ pc' = [s \in Waiters |-> IF s \in Asleep \cup {Main} THEN "lock" ELSE pc[s]]
    /\ UNCHANGED <<mx, requestVars>>

-----------------------------------------------------------------------------
(* trigger_gc *)

\* A synchronous caller reads the count first.
TriggerGC(t) ==
    /\ pc[t] = "out"
    /\ ~shutdown
    /\ \/ sync' = sync \cup {t} /\ grown' = [grown EXCEPT ![t] = FALSE]
       \/ UNCHANGED <<sync, grown>>
    /\ Go(t, "store")
    /\ UNCHANGED <<force, shutdown, mx, unserved>>

StoreForce(t) ==
    /\ pc[t] = "store"
    /\ force' = TRUE
    /\ unserved' = unserved \cup {t}
    /\ Go(t, "notify")
    /\ UNCHANGED <<shutdown, grown, mx, sync>>

\* notify_one wakes some sleeper, the main thread or another caller.
NotifyOne(t) ==
    /\ pc[t] = "notify"
    /\ \E s \in Asleep \cup {Nobody} :
        /\ s = Nobody => Asleep = {}
        /\ pc' = [r \in Waiters |-> IF r = t THEN (IF t \in sync THEN "lock" ELSE "out")
                                    ELSE IF r = s THEN "lock" ELSE pc[r]]
    /\ UNCHANGED <<mx, requestVars>>

CallerTest(t) ==
    /\ pc[t] = "test"
    /\ IF grown[t] \/ shutdown
       THEN mx' = Nobody /\ Go(t, "out") /\ sync' = sync \ {t}
       ELSE Go(t, "sleep") /\ UNCHANGED <<mx, sync>>
    /\ UNCHANGED <<force, shutdown, grown, unserved>>

\* ~GC: the flag is set, and nobody is notified.
Shutdown ==
    /\ ~shutdown
    /\ shutdown' = TRUE
    /\ UNCHANGED <<force, grown, mx, pc, sync, unserved>>

-----------------------------------------------------------------------------
MainRound == MainClear \/ MainBegin \/ CountRound \/ NotifyCallers
MainWait == TimedTest \/ MainExit \/ MainBreak \/ MainLoop
CallerStep(t) == StoreForce(t) \/ NotifyOne(t) \/ CallerTest(t)

TriggerNext ==
    \/ MainWait
    \/ MainTimeout
    \/ MainRound
    \/ \E t \in Callers : TriggerGC(t) \/ CallerStep(t)
    \/ \E t \in Waiters : (Lock(t) \/ Sleep(t) \/ WakeSpuriously(t)) /\ UNCHANGED requestVars
    \/ Shutdown

TriggerSpec == TriggerInit /\ [][TriggerNext]_triggerVars

\* Every thread keeps running, the mutex starves nobody, time passes (the timed
\* wait ends), and ten seconds are over some time (MainBreak).
FairTriggerSpec ==
    /\ TriggerSpec
    /\ WF_triggerVars(MainWait) /\ WF_triggerVars(MainRound)
    /\ SF_triggerVars(MainTimeout) /\ SF_triggerVars(MainBreak)
    /\ \A t \in Callers : WF_triggerVars(CallerStep(t))
    /\ \A t \in Waiters :
        SF_triggerVars(Lock(t) /\ UNCHANGED requestVars) /\ WF_triggerVars(Sleep(t) /\ UNCHANGED requestVars)

-----------------------------------------------------------------------------
(* Properties *)

\* Every variable keeps its type, and the mutex is held by the one thread that
\* tests its condition or falls asleep.
TriggerTypeOK ==
    /\ force \in BOOLEAN /\ shutdown \in BOOLEAN
    /\ grown \in [Callers -> BOOLEAN]
    /\ mx \in Waiters \cup {Nobody}
    /\ pc \in [Waiters -> {"out", "store", "notify", "lock", "test", "sleep", "asleep", "look",
                           "clear", "begin", "round", "exit"}]
    /\ \A t \in Waiters : pc[t] \in {"test", "sleep"} <=> mx = t
    /\ sync \subseteq Callers
    /\ unserved \subseteq Callers

\* A request is not forgotten: until a round begins after it, the main thread
\* will find m_force_trigger_gc set when it looks, or is about to begin a round.
RequestKept == unserved # {} /\ pc[Main] # "begin" => force

\* A synchronous caller of trigger_gc returns although notify_one may wake the wrong
\* sleeper, notify_all may come too early, and the count may grow before it sleeps.
\* Once m_shutdown is set, one that has still to test its condition returns; one that
\* has found it false sleeps on, since ~GC notifies nobody.
SyncTriggerReturns ==
    \A t \in Callers :
        /\ t \in sync ~> t \notin sync \/ shutdown
        /\ t \in sync /\ shutdown /\ pc[t] \notin {"sleep", "asleep"} ~> t \notin sync

\* The main thread notices the shutdown although nobody notifies it, so that ~GC
\* can join it.
MainJoins == shutdown ~> pc[Main] = "exit"

=============================================================================
