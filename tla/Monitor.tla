------------------------------ MODULE Monitor ------------------------------
(***************************************************************************)
(* std::mutex and std::condition_variable::wait with a condition, external *)
(* to the code: as WorkerBarrier and GCTrigger use them.                   *)
(*                                                                         *)
(* A thread that finds its condition false goes to sleep in two steps:     *)
(* holding the mutex it decides to, then it sleeps and gives the mutex     *)
(* up.  A notification that comes between the two wakes nobody.            *)
(***************************************************************************)
CONSTANTS Main, Nobody    \* the GC main thread; no thread

VARIABLES
    mx,    \* the holder of the mutex
    pc     \* where each thread is

Go(t, label) == pc' = [pc EXCEPT ![t] = label]

\* The thread gets the mutex and is going to test its condition.
Lock(t) ==
    /\ pc[t] = "lock"
    /\ mx = Nobody
    /\ mx' = t
    /\ Go(t, "test")

Sleep(t) ==
    /\ pc[t] = "sleep"
    /\ mx' = Nobody
    /\ Go(t, "asleep")

WakeSpuriously(t) ==
    /\ pc[t] = "asleep"
    /\ Go(t, "lock")
    /\ UNCHANGED mx

=============================================================================
