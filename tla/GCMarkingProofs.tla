-------------------------- MODULE GCMarkingProofs --------------------------
(***************************************************************************)
(* Proofs about GCMarking, for any number of units, mutators and workers,  *)
(* any object graph, root set and queue capacity.  First the control state *)
(* and what the phases let the threads do at once; on top of it what       *)
(* becomes of the gray units: none is lost or held twice, none is left     *)
(* when sweeping begins, and then what the roots reach is black.           *)
(***************************************************************************)
EXTENDS GCMarking, FiniteSetTheorems, TLAPS

-----------------------------------------------------------------------------
(* The inductive invariant of the control state *)

\* The workers that have finished phase p.
Finished(p) == {w \in Workers : phase[w] = NextPhase(p)}

\* The main thread waits for phase p.
Running(p) ==
    /\ launch_state = p
    /\ \A w \in Workers : phase[w] = p \/ (phase[w] = NextPhase(p) /\ wpc[w] = "wait")
    /\ finish_counter = Cardinality(Finished(p))

Barrier ==
    /\ main_pc \in {"idle", "begin", "roots"} =>
           launch_state = "PENDING" /\ ParkedFor("PARALLEL_MARK")
    /\ main_pc = "parallel" => Running("PARALLEL_MARK")
    /\ main_pc = "stop" => launch_state = "PARALLEL_MARK" /\ ParkedFor("FINAL_MARK")
    /\ main_pc = "final" => Running("FINAL_MARK")
    /\ main_pc = "sweep" => Running("SWEEP")

\* What a worker does fits its phase, and m_is_draining tells whether it is in
\* process_gray_units.
Places ==
    \A w \in Workers :
        /\ wpc[w] = "enter" \/ InProcessGrayUnits(w) => phase[w] # "SWEEP"
        /\ wpc[w] = "sweep" => phase[w] = "SWEEP"
        /\ is_draining[w] <=> InProcessGrayUnits(w)
        /\ wpc[w] = "scan" <=> scanning[w] # NoUnit

\* The holder of a spinlock is inside its critical section, and only the holder
\* is; a thread that pushes has no draining worker beside it.
Locks ==
    /\ \A t \in Threads : mpc[t] \in {"locked", "push"} => spin[mworker[t]] = t
    /\ \A w \in Workers : spin[w] # NoThread =>
           mworker[spin[w]] = w /\ mpc[spin[w]] \in {"locked", "push"}
    /\ \A t \in Threads : mpc[t] = "push" => ~is_draining[mworker[t]]

\* When a thread can be inside the marking API.
Callers ==
    /\ flag <=> main_pc \in {"begin", "roots", "parallel"}
    /\ \A t \in Threads :
        /\ mpc[t] # "run" =>
            /\ munit[t] \in Units
            /\ \/ main_pc \in {"begin", "roots"}
               \/ main_pc = "parallel" /\ t # Main
               \/ main_pc = "stop" /\ t \in unacked
        /\ mpc[t] \in {"root_shade", "root_lock"} =>
            \/ main_pc = "begin" /\ t \in unacked \cup {Main}
            \/ main_pc = "roots" /\ t = Main

ControlInv == TypeOK /\ Barrier /\ Places /\ Locks /\ Callers

-----------------------------------------------------------------------------
(* Sequences *)

\* The empty sequence and the elements of a sequence.
LEMMA SeqEmpty == ASSUME NEW S PROVE << >> \in Seq(S)
  OBVIOUS

LEMMA SeqElement ==
    ASSUME NEW S, NEW s \in Seq(S), NEW i \in 1 .. Len(s)
    PROVE  s[i] \in S
  OBVIOUS

\* A sequence without its last element, and without its first.
LEMMA SeqFront ==
    ASSUME NEW S, NEW s \in Seq(S), NEW n \in 1 .. Len(s)
    PROVE  /\ SubSeq(s, 1, n - 1) \in Seq(S)
           /\ DOMAIN SubSeq(s, 1, n - 1) = 1 .. n - 1
           /\ \A i \in 1 .. n - 1 : SubSeq(s, 1, n - 1)[i] = s[i]
  OBVIOUS

LEMMA SeqHeadTail ==
    ASSUME NEW S, NEW s \in Seq(S), s # << >>
    PROVE  /\ Head(s) \in S /\ Tail(s) \in Seq(S)
           /\ Len(s) \in Nat \ {0} /\ DOMAIN s = 1 .. Len(s) /\ Head(s) = s[1]
           /\ DOMAIN Tail(s) = 1 .. Len(s) - 1
           /\ \A i \in 1 .. Len(s) - 1 : Tail(s)[i] = s[i + 1]
  OBVIOUS

-----------------------------------------------------------------------------
(* Types *)

\* A queue keeps its type when its producers claim and publish.
LEMMA QueueTypes ==
    ASSUME NEW T, NEW q \in Seq([unit : Units, by : T, ready : BOOLEAN]), NEW t \in T
    PROVE  /\ \A u \in Units :
                 Claimed(q, t, u) \in Seq([unit : Units, by : T, ready : BOOLEAN])
           /\ Published(q, t) \in Seq([unit : Units, by : T, ready : BOOLEAN])
<1> DEFINE E == [unit : Units, by : T, ready : BOOLEAN]
<1>1. ASSUME NEW u \in Units PROVE Claimed(q, t, u) \in Seq(E)
  BY <1>1 DEF Claimed, Entry
<1>2. Published(q, t) \in Seq(E)
  <2>1. DOMAIN q = 1 .. Len(q) /\ Len(q) \in Nat
    OBVIOUS
  <2>2. \A i \in 1 .. Len(q) : q[i] \in E
    BY SeqElement, Zenon
  <2>3. \A i \in 1 .. Len(q) :
           (IF q[i].by = t THEN [q[i] EXCEPT !.ready = TRUE] ELSE q[i]) \in E
    BY <2>2, Zenon
  <2>4. Published(q, t) \in [1 .. Len(q) -> E]
    BY <2>1, <2>3, Zenon DEF Published
  <2> QED
    BY <2>1, <2>4
<1> QED
  BY <1>1, <1>2, Zenon

\* No worker has finished is a legal count.
LEMMA ZeroCount == 0 \in 0 .. WorkerCount
  BY WorkerAssumption

\* Init gives every variable its type.
LEMMA TypesInit == Init => TypeOK
<1> SUFFICES ASSUME Init PROVE TypeOK
  BY Zenon
<1>1. MarkingContext \in [Threads -> Workers]
  BY GraphAssumption, Zenon
<1> QED
  BY <1>1, ZeroCount, SeqEmpty, Zenon DEF Init, TypeOK

\* The steps of the main thread keep the types.
LEMMA TypesMain ==
    ASSUME ControlInv, StartRound \/ MainStep
    PROVE  TypeOK'
<1> USE DEF ControlInv, TypeOK, workerVars, callVars, barrierVars
<1>1. CASE StartRound
  BY <1>1, Zenon DEF StartRound
<1>2. CASE BeginCallbackDone
  BY <1>2, Zenon DEF BeginCallbackDone
<1>3. ASSUME NEW u \in Units, RootLoop(u) PROVE TypeOK'
  BY <1>3, GraphAssumption, Zenon DEF RootLoop, Call, Threads
<1>4. CASE LaunchParallelMark
  BY <1>4, ZeroCount, Zenon DEF LaunchParallelMark, Launch
<1>5. CASE StopMarking
  BY <1>5, Zenon DEF StopMarking
<1>6. CASE LaunchFinalMark
  BY <1>6, ZeroCount, Zenon DEF LaunchFinalMark, Launch
<1>7. CASE LaunchSweep
  BY <1>7, ZeroCount, Zenon DEF LaunchSweep, Launch
<1>8. CASE EndRound
  BY <1>8, Zenon DEF EndRound
<1> QED
  BY <1>1, <1>2, <1>3, <1>4, <1>5, <1>6, <1>7, <1>8, Zenon DEF MainStep

\* Sets of workers are counted within 0 .. WorkerCount, and only the set of all
\* workers reaches WorkerCount.
LEMMA CountWorkers ==
    ASSUME NEW S \in SUBSET Workers
    PROVE  /\ IsFiniteSet(S)
           /\ Cardinality(S) \in 0 .. WorkerCount
           /\ Cardinality(S) = WorkerCount => S = Workers
<1>1. IsFiniteSet(Workers) /\ Cardinality(Workers) = WorkerCount
  BY FS_Interval, WorkerAssumption DEF Workers
<1>2. IsFiniteSet(S) /\ Cardinality(S) <= Cardinality(Workers)
      /\ (Cardinality(Workers) = Cardinality(S) => Workers = S)
  BY <1>1, FS_Subset, Zenon
<1>3. Cardinality(S) \in Nat
  BY <1>2, FS_CardinalityType, Zenon
<1> QED
  BY <1>1, <1>2, <1>3, WorkerAssumption

\* The three phases follow each other in a ring.
LEMMA PhaseRing ==
    /\ NextPhase("PARALLEL_MARK") = "FINAL_MARK"
    /\ NextPhase("FINAL_MARK") = "SWEEP"
    /\ NextPhase("SWEEP") = "PARALLEL_MARK"
  BY Zenon DEF NextPhase

\* A worker that is at work, or done with it, works on the phase the main thread
\* waits for, and the counter has room for it.
LEMMA BusyWorker ==
    ASSUME ControlInv, NEW w \in Workers, wpc[w] # "wait"
    PROVE  /\ main_pc \in {"parallel", "final", "sweep"}
           /\ main_pc = "parallel" => phase[w] = "PARALLEL_MARK"
           /\ main_pc = "final" => phase[w] = "FINAL_MARK"
           /\ main_pc = "sweep" => phase[w] = "SWEEP"
           /\ Running(phase[w])
           /\ finish_counter + 1 \in 0 .. WorkerCount
<1>1. main_pc \in {"parallel", "final", "sweep"}
  BY Zenon DEF ControlInv, TypeOK, Barrier, ParkedFor
<1>2. /\ main_pc = "parallel" => phase[w] = "PARALLEL_MARK"
      /\ main_pc = "final" => phase[w] = "FINAL_MARK"
      /\ main_pc = "sweep" => phase[w] = "SWEEP"
  BY Zenon DEF ControlInv, TypeOK, Barrier, Running
<1>3. Running(phase[w])
  BY <1>1, <1>2, Zenon DEF ControlInv, Barrier
<1>4. w \notin Finished(phase[w])
  BY <1>1, <1>2, PhaseRing, Zenon DEF Finished
<1>5. finish_counter = Cardinality(Finished(phase[w]))
  BY <1>3, Zenon DEF Running
<1>6. Finished(phase[w]) \in SUBSET Workers
  BY Zenon DEF Finished
<1>7. finish_counter \in 0 .. WorkerCount /\ finish_counter # WorkerCount
  BY <1>4, <1>5, <1>6, CountWorkers, Zenon
<1> QED
  BY <1>1, <1>2, <1>3, <1>7, WorkerAssumption

\* The steps of a worker keep the types.
LEMMA TypesWorker ==
    ASSUME ControlInv, NEW w \in Workers, WorkerStep(w)
    PROVE  TypeOK'
<1> USE DEF ControlInv, TypeOK, mainVars, workerVars, callVars, barrierVars
<1>1. CASE WorkerLaunch(w)
  BY <1>1, Zenon DEF WorkerLaunch
<1>2. CASE EnterDraining(w)
  BY <1>2, Zenon DEF EnterDraining
<1>3. CASE PopLocal(w)
  <2>1. local_work[w] \in Seq(Units) /\ local_work[w] # << >>
    BY <1>3, Zenon DEF PopLocal
  <2>2. Len(local_work[w]) \in Nat \ {0}
    BY <2>1
  <2>3. local_work[w][Len(local_work[w])] \in Units
    BY <2>1, <2>2, SeqElement
  <2>4. SubSeq(local_work[w], 1, Len(local_work[w]) - 1) \in Seq(Units)
    BY <2>1, <2>2, SeqFront
  <2> QED
    BY <1>3, <2>3, <2>4, GraphAssumption, Zenon DEF PopLocal
<1>4. ASSUME NEW c \in Units, ScanChild(w, c) PROVE TypeOK'
  <2>1. Append(local_work[w], c) \in Seq(Units)
    BY <1>4
  <2> QED
    BY <1>4, <2>1, Zenon DEF ScanChild
<1>5. CASE ScanDone(w)
  BY <1>5, Zenon DEF ScanDone
<1>6. CASE StartDrain(w)
  BY <1>6, Zenon DEF StartDrain
<1>7. CASE DrainTake(w)
  <2>1. queue[w] # << >>
    BY <1>7, Zenon DEF DrainTake, MoreToDrain, HeadReady
  <2>2. /\ Head(queue[w]) \in [unit : Units, by : Threads, ready : BOOLEAN]
        /\ Tail(queue[w]) \in Seq([unit : Units, by : Threads, ready : BOOLEAN])
    BY <2>1, SeqHeadTail, Zenon
  <2>3. Append(local_work[w], Head(queue[w]).unit) \in Seq(Units)
    BY <2>2
  <2> QED
    BY <1>7, <2>2, <2>3, Zenon DEF DrainTake
<1>8. CASE DrainEnd(w)
  BY <1>8, Zenon DEF DrainEnd
<1>9. CASE LeaveDraining(w)
  BY <1>9, Zenon DEF LeaveDraining
<1>10. CASE Sweep(w)
  BY <1>10, Zenon DEF Sweep
<1>11. CASE WorkerDone(w)
  <2>1. finish_counter + 1 \in 0 .. WorkerCount
    BY <1>11, BusyWorker, Zenon DEF WorkerDone
  <2>2. NextPhase(phase[w]) \in {"PARALLEL_MARK", "FINAL_MARK", "SWEEP"}
    BY PhaseRing, Zenon
  <2> QED
    BY <1>11, <2>1, <2>2, Zenon DEF WorkerDone
<1> QED
  BY <1>1, <1>2, <1>3, <1>4, <1>5, <1>6, <1>7, <1>8, <1>9, <1>10, <1>11, Zenon DEF WorkerStep

\* The types of the variables that a marking call changes.
CallTypes ==
    /\ life \in [Units -> {"UNMARKED", "SELF_MARKED", "FULL_MARKED"}]
    /\ assigned_idx \in Workers
    /\ local_work \in [Workers -> Seq(Units)]
    /\ spin \in [Workers -> Threads \cup {NoThread}]
    /\ queue \in [Workers -> Seq([unit : Units, by : Threads, ready : BOOLEAN])]
    /\ mpc \in [Threads -> {"run", "root_shade", "root_lock", "shade", "enqueue", "publish",
                            "full", "lock", "locked", "push"}]
    /\ munit \in [Threads -> Units \cup {NoUnit}]
    /\ mworker \in [Threads -> Workers]

\* The steps of a marking call keep the types.
LEMMA TypesCall ==
    ASSUME ControlInv, NEW t \in Threads,
           CallStep(t) \/ (\E u \in Units : MarkCall(t, u) \/ RootCall(t, u))
    PROVE  TypeOK'
<1>t. CallTypes
  BY Zenon DEF ControlInv, TypeOK, CallTypes
<1> USE DEF mainVars, workerVars, barrierVars
<1>f. UNCHANGED <<flag, main_pc, unacked, roots_left, launch_state, finish_counter, wpc, phase,
                  is_draining, scanning, todo>>
  BY Zenon DEF CallStep, MarkCall, RootCall, RootShade, RootLock, MarkShade, MarkEnqueue,
         MarkPublish, MarkFull, MarkLock, MarkRecheck, MarkPush
<1> SUFFICES CallTypes'
  BY <1>f, Zenon DEF ControlInv, TypeOK, CallTypes
<1> USE <1>t DEF CallTypes
<1>0. MarkingContext[t] \in Workers
  BY GraphAssumption, Zenon
<1>1. ASSUME NEW u \in Units, MarkCall(t, u) PROVE CallTypes'
  BY <1>0, <1>1, Zenon DEF MarkCall, Call
<1>2. ASSUME NEW u \in Units, RootCall(t, u) PROVE CallTypes'
  BY <1>0, <1>2, Zenon DEF RootCall, Call
<1>3. CASE RootShade(t)
  <2>1. (assigned_idx + 1) % WorkerCount \in Workers
    BY WorkerAssumption DEF Workers
  <2>2. CASE life[munit[t]] = "UNMARKED"
    <3>1. life' \in [Units -> {"UNMARKED", "SELF_MARKED", "FULL_MARKED"}]
      <4>1. life' = [life EXCEPT ![munit[t]] = "SELF_MARKED"]
        BY <1>3, <2>2, Zenon DEF RootShade
      <4>2. life \in [Units -> {"UNMARKED", "SELF_MARKED", "FULL_MARKED"}]
        BY Zenon
      <4> QED
        BY ONLY <4>1, <4>2, Zenon
    <3>2. mworker' \in [Threads -> Workers] /\ assigned_idx' \in Workers
      <4>1. /\ mworker' = [mworker EXCEPT ![t] = assigned_idx]
            /\ assigned_idx' = (assigned_idx + 1) % WorkerCount
        BY <1>3, <2>2, Zenon DEF RootShade
      <4>2. mworker \in [Threads -> Workers] /\ assigned_idx \in Workers
        BY Zenon
      <4> QED
        BY ONLY <2>1, <4>1, <4>2, Zenon
    <3> QED
      BY <1>3, <2>2, <3>1, <3>2, Zenon DEF RootShade
  <2>3. CASE life[munit[t]] # "UNMARKED"
    BY <1>0, <1>3, <2>3, Zenon DEF RootShade, Return
  <2> QED
    BY <2>2, <2>3, Zenon
<1>4. CASE RootLock(t)
  BY <1>4, Zenon DEF RootLock
<1>5. CASE MarkShade(t)
  <2>1. CASE life[munit[t]] = "UNMARKED"
    <3>1. life' \in [Units -> {"UNMARKED", "SELF_MARKED", "FULL_MARKED"}]
      <4>1. life' = [life EXCEPT ![munit[t]] = "SELF_MARKED"]
        BY <1>5, <2>1, Zenon DEF MarkShade
      <4>2. life \in [Units -> {"UNMARKED", "SELF_MARKED", "FULL_MARKED"}]
        BY Zenon
      <4> QED
        BY ONLY <4>1, <4>2, Zenon
    <3> QED
      BY <1>5, <2>1, <3>1, Zenon DEF MarkShade
  <2>2. CASE life[munit[t]] # "UNMARKED"
    BY <1>0, <1>5, <2>2, Zenon DEF MarkShade, Return
  <2> QED
    BY <2>1, <2>2, Zenon
<1>6. CASE MarkEnqueue(t)
  <2>1. munit[t] \in Units
    BY <1>6, Zenon DEF MarkEnqueue, Callers, ControlInv
  <2>2. Claimed(queue[mworker[t]], t, munit[t]) \in Seq([unit : Units, by : Threads, ready : BOOLEAN])
    BY <2>1, QueueTypes, Zenon
  <2> QED
    BY <1>6, <2>2, Zenon DEF MarkEnqueue
<1>7. CASE MarkPublish(t)
  <2>1. Published(queue[mworker[t]], t) \in Seq([unit : Units, by : Threads, ready : BOOLEAN])
    BY QueueTypes, Zenon
  <2> QED
    BY <1>0, <1>7, <2>1, Zenon DEF MarkPublish, Return
<1>8. CASE MarkFull(t)
  BY <1>8, Zenon DEF MarkFull
<1>9. CASE MarkLock(t)
  BY <1>9, Zenon DEF MarkLock
<1>10. CASE MarkRecheck(t)
  <2>1. CASE is_draining[mworker[t]]
    BY <1>10, <2>1, Zenon DEF MarkRecheck
  <2>2. CASE ~is_draining[mworker[t]]
    BY <1>10, <2>2, Zenon DEF MarkRecheck
  <2> QED
    BY <2>1, <2>2, Zenon
<1>11. CASE MarkPush(t)
  <2>1. munit[t] \in Units
    BY <1>11, Zenon DEF MarkPush, Callers, ControlInv
  <2>2. Append(local_work[mworker[t]], munit[t]) \in Seq(Units)
    BY <2>1
  <2> QED
    BY <1>0, <1>11, <2>2, Zenon DEF MarkPush, Return
<1> QED
  BY <1>1, <1>2, <1>3, <1>4, <1>5, <1>6, <1>7, <1>8, <1>9, <1>10, <1>11, Zenon DEF CallStep

\* Every step keeps the types.
LEMMA TypesNext == ControlInv /\ [Next]_vars => TypeOK'
<1> SUFFICES ASSUME ControlInv, [Next]_vars PROVE TypeOK'
  BY Zenon
<1>1. ASSUME NEW m \in Mutators, Acknowledge(m) PROVE TypeOK'
  BY <1>1, Zenon DEF Acknowledge, ControlInv, TypeOK, workerVars, callVars, barrierVars
<1>2. CASE UNCHANGED vars
  BY <1>2, Zenon DEF vars, ControlInv, TypeOK
<1> QED
  BY <1>1, <1>2, TypesMain, TypesWorker, TypesCall, Zenon DEF Next

-----------------------------------------------------------------------------
(* The rest of the control invariant *)

\* Init establishes the invariant.
LEMMA ControlInit == Init => ControlInv
<1> SUFFICES ASSUME Init PROVE ControlInv
  BY Zenon
<1>1. Barrier
  BY Zenon DEF Init, Barrier, ParkedFor
<1>2. Places /\ Locks /\ Callers
  BY Zenon DEF Init, Places, Locks, Callers, InProcessGrayUnits
<1> QED
  BY <1>1, <1>2, TypesInit, Zenon DEF ControlInv

\* When the main thread launches phase p it has just reset the counter, and no
\* worker has finished p.
LEMMA LaunchStep ==
    ASSUME NEW p \in {"PARALLEL_MARK", "FINAL_MARK", "SWEEP"},
           ParkedFor(p), Launch(p), UNCHANGED <<wpc, phase>>
    PROVE  Running(p)'
<1>1. NextPhase(p) # p
  BY PhaseRing, Zenon
<1>2. Finished(p)' = {}
  BY <1>1, Zenon DEF Finished, ParkedFor
<1>3. Cardinality(Finished(p)') = 0
  BY <1>2, FS_EmptySet, Zenon
<1>4. finish_counter' = Cardinality(Finished(p))'
  BY <1>3, Zenon DEF Launch
<1>5. launch_state' = p /\ \A w \in Workers : phase'[w] = p
  BY Zenon DEF Launch, ParkedFor
<1> QED
  BY <1>4, <1>5, Zenon DEF Running

\* When the counter reaches WorkerCount in phase p, all workers are parked
\* before the next one.
LEMMA AllParked ==
    ASSUME NEW p \in {"PARALLEL_MARK", "FINAL_MARK", "SWEEP"},
           Running(p), AllWorkersDone
    PROVE  ParkedFor(NextPhase(p))
<1>1. Finished(p) = Workers
  <2>1. Finished(p) \in SUBSET Workers
    BY Zenon DEF Finished
  <2>2. Cardinality(Finished(p)) = WorkerCount
    BY Zenon DEF Running, AllWorkersDone
  <2> QED
    BY <2>1, <2>2, CountWorkers, Zenon
<1>2. NextPhase(p) # p
  BY PhaseRing, Zenon
<1> QED
  BY <1>1, <1>2, Zenon DEF Finished, Running, ParkedFor

\* The types of the variables that the rest of the invariant is about.
ControlTypes ==
    /\ main_pc \in {"idle", "begin", "roots", "parallel", "stop", "final", "sweep"}
    /\ wpc \in [Workers -> {"wait", "enter", "loop", "scan", "drain", "leave", "sweep", "done"}]
    /\ phase \in [Workers -> {"PARALLEL_MARK", "FINAL_MARK", "SWEEP"}]
    /\ is_draining \in [Workers -> BOOLEAN]
    /\ spin \in [Workers -> Threads \cup {NoThread}]
    /\ scanning \in [Workers -> Units \cup {NoUnit}]
    /\ mpc \in [Threads -> {"run", "root_shade", "root_lock", "shade", "enqueue", "publish",
                            "full", "lock", "locked", "push"}]
    /\ munit \in [Threads -> Units \cup {NoUnit}]
    /\ mworker \in [Threads -> Workers]

\* The steps of the main thread keep the invariant.
LEMMA ControlMain ==
    ASSUME ControlInv, StartRound \/ MainStep
    PROVE  Barrier' /\ Places' /\ Locks' /\ Callers'
<1>t. ControlTypes
  BY Zenon DEF ControlInv, TypeOK, ControlTypes
<1> USE <1>t DEF ControlInv, ControlTypes, workerVars, callVars, barrierVars
<1>1. CASE StartRound
  <2>1. Barrier'
    BY <1>1, Zenon DEF StartRound, Barrier, ParkedFor
  <2>2. Places' /\ Locks'
    BY <1>1, Zenon DEF StartRound, Places, Locks, InProcessGrayUnits
  <2>3. Callers'
    BY <1>1, Zenon DEF StartRound, Callers
  <2> QED
    BY <2>1, <2>2, <2>3, Zenon
<1>2. CASE BeginCallbackDone
  <2>1. Barrier'
    BY <1>2, Zenon DEF BeginCallbackDone, Barrier, ParkedFor
  <2>2. Places' /\ Locks'
    BY <1>2, Zenon DEF BeginCallbackDone, Places, Locks, InProcessGrayUnits
  <2>3. Callers'
    BY <1>2, Zenon DEF BeginCallbackDone, Callers
  <2> QED
    BY <2>1, <2>2, <2>3, Zenon
<1>3. ASSUME NEW u \in Units, RootLoop(u) PROVE Barrier' /\ Places' /\ Locks' /\ Callers'
  <2>0. Main \in Threads
    BY Zenon DEF Threads
  <2>1. Barrier'
    BY <1>3, Zenon DEF RootLoop, Barrier, ParkedFor
  <2>2. Places'
    BY <1>3, Zenon DEF RootLoop, Places, InProcessGrayUnits
  <2>3. Locks'
    BY <1>3, <2>0 DEF RootLoop, Call, Locks
  <2>4. Callers'
    BY <1>3, <2>0, Zenon DEF RootLoop, Call, Callers
  <2> QED
    BY <2>1, <2>2, <2>3, <2>4, Zenon
<1>4. CASE LaunchParallelMark
  <2>1. ParkedFor("PARALLEL_MARK")
    BY <1>4, Zenon DEF LaunchParallelMark, Barrier
  <2>2. Running("PARALLEL_MARK")'
    BY <1>4, <2>1, LaunchStep, Zenon DEF LaunchParallelMark
  <2>3. Barrier'
    BY <1>4, <2>2, Zenon DEF LaunchParallelMark, Barrier
  <2>4. Places' /\ Locks'
    BY <1>4, Zenon DEF LaunchParallelMark, Places, Locks, InProcessGrayUnits
  <2>5. Callers'
    BY <1>4, Zenon DEF LaunchParallelMark, Callers
  <2> QED
    BY <2>3, <2>4, <2>5, Zenon
<1>5. CASE StopMarking
  <2>1. Running("PARALLEL_MARK") /\ AllWorkersDone
    BY <1>5, Zenon DEF StopMarking, Barrier
  <2>2. ParkedFor("FINAL_MARK")
    BY <2>1, AllParked, PhaseRing, Zenon
  <2>3. Barrier'
    BY <1>5, <2>1, <2>2, Zenon DEF StopMarking, Barrier, ParkedFor, Running
  <2>4. Places' /\ Locks'
    BY <1>5, Zenon DEF StopMarking, Places, Locks, InProcessGrayUnits
  <2>5. Callers'
    BY <1>5, Zenon DEF StopMarking, Callers, Threads
  <2> QED
    BY <2>3, <2>4, <2>5, Zenon
<1>6. CASE LaunchFinalMark
  <2>1. ParkedFor("FINAL_MARK")
    BY <1>6, Zenon DEF LaunchFinalMark, Barrier
  <2>2. Running("FINAL_MARK")'
    BY <1>6, <2>1, LaunchStep, Zenon DEF LaunchFinalMark
  <2>3. Barrier'
    BY <1>6, <2>2, Zenon DEF LaunchFinalMark, Barrier
  <2>4. Places' /\ Locks'
    BY <1>6, Zenon DEF LaunchFinalMark, Places, Locks, InProcessGrayUnits
  <2>5. Callers'
    BY <1>6, Zenon DEF LaunchFinalMark, Callers
  <2> QED
    BY <2>3, <2>4, <2>5, Zenon
<1>7. CASE LaunchSweep
  <2>1. Running("FINAL_MARK") /\ AllWorkersDone
    BY <1>7, Zenon DEF LaunchSweep, Barrier
  <2>2. ParkedFor("SWEEP")
    BY <2>1, AllParked, PhaseRing, Zenon
  <2>3. Running("SWEEP")'
    BY <1>7, <2>2, LaunchStep, Zenon DEF LaunchSweep
  <2>4. Barrier'
    BY <1>7, <2>3, Zenon DEF LaunchSweep, Barrier
  <2>5. Places' /\ Locks'
    BY <1>7, Zenon DEF LaunchSweep, Places, Locks, InProcessGrayUnits
  <2>6. Callers'
    BY <1>7, Zenon DEF LaunchSweep, Callers
  <2> QED
    BY <2>4, <2>5, <2>6, Zenon
<1>8. CASE EndRound
  <2>1. Running("SWEEP") /\ AllWorkersDone
    BY <1>8, Zenon DEF EndRound, Barrier
  <2>2. ParkedFor("PARALLEL_MARK")
    BY <2>1, AllParked, PhaseRing, Zenon
  <2>3. Barrier'
    BY <1>8, <2>2, Zenon DEF EndRound, Barrier, ParkedFor
  <2>4. Places' /\ Locks'
    BY <1>8, Zenon DEF EndRound, Places, Locks, InProcessGrayUnits
  <2>5. Callers'
    BY <1>8, Zenon DEF EndRound, Callers
  <2> QED
    BY <2>3, <2>4, <2>5, Zenon
<1> QED
  BY <1>1, <1>2, <1>3, <1>4, <1>5, <1>6, <1>7, <1>8, Zenon DEF MainStep

\* A step of a launched worker inside its phase does not disturb the barrier.
LEMMA BarrierKept ==
    ASSUME ControlInv, NEW w \in Workers, wpc[w] # "wait" \/ launch_state = phase[w],
           NEW x, wpc' = [wpc EXCEPT ![w] = x],
           UNCHANGED <<main_pc, launch_state, finish_counter, phase>>
    PROVE  Barrier'
<1> USE DEF ControlInv, TypeOK
<1>1. main_pc \in {"parallel", "final", "sweep"}
  BY Zenon DEF Barrier, ParkedFor
<1>2. \A v \in Workers \ {w} : wpc'[v] = wpc[v]
  BY Zenon
<1>3. ASSUME NEW p \in {"PARALLEL_MARK", "FINAL_MARK", "SWEEP"}, Running(p)
      PROVE  Running(p)'
  <2>1. phase[w] = p
    BY <1>3, PhaseRing, Zenon DEF Running
  <2>2. Finished(p)' = Finished(p)
    BY Zenon DEF Finished
  <2> QED
    BY <1>2, <1>3, <2>1, <2>2, Zenon DEF Running
<1> QED
  BY <1>1, <1>3, Zenon DEF Barrier

\* worker_done_and_notify_main_gc_thread counts one more finished worker.
LEMMA BarrierDone ==
    ASSUME ControlInv, NEW w \in Workers, WorkerDone(w)
    PROVE  Barrier'
<1> USE DEF ControlInv, TypeOK, WorkerDone, mainVars
<1> DEFINE p == phase[w]
<1>1. /\ main_pc \in {"parallel", "final", "sweep"}
      /\ main_pc = "parallel" => p = "PARALLEL_MARK"
      /\ main_pc = "final" => p = "FINAL_MARK"
      /\ main_pc = "sweep" => p = "SWEEP"
      /\ Running(p)
  BY BusyWorker, Zenon
<1>2. NextPhase(p) # p
  BY PhaseRing, Zenon
<1>3. w \notin Finished(p)
  BY <1>2, Zenon DEF Finished
<1>4. {v \in Workers : phase'[v] = NextPhase(p)} = Finished(p) \cup {w}
  BY <1>2, Zenon DEF Finished
<1>5. Finished(p) \in SUBSET Workers
  BY Zenon DEF Finished
<1>6. IsFiniteSet(Finished(p))
  BY <1>5, CountWorkers, Zenon
<1>7. Cardinality(Finished(p) \cup {w}) = Cardinality(Finished(p)) + 1
  BY <1>3, <1>6, FS_AddElement, Zenon
<1>8. finish_counter' = Cardinality({v \in Workers : phase'[v] = NextPhase(p)})
  BY <1>1, <1>4, <1>7, Zenon DEF Running
<1>9. \A v \in Workers : phase'[v] = p \/ (phase'[v] = NextPhase(p) /\ wpc'[v] = "wait")
  BY <1>1, Zenon DEF Running
<1>10. launch_state' = p
  BY <1>1, Zenon DEF Running
<1>11. ASSUME NEW q, q = p PROVE Running(q)'
  BY <1>8, <1>9, <1>10, <1>11 DEF Running, Finished
<1> QED
  BY <1>1, <1>11, Zenon DEF Barrier

\* The barrier is a matter of five variables.
LEMMA BarrierSame ==
    ASSUME Barrier, UNCHANGED <<main_pc, launch_state, finish_counter, phase, wpc>>
    PROVE  Barrier'
<1>1. \A p \in {"PARALLEL_MARK", "FINAL_MARK", "SWEEP"} : Running(p) => Running(p)'
  BY Zenon DEF Running, Finished
<1>2. \A p \in {"PARALLEL_MARK", "FINAL_MARK"} : ParkedFor(p) => ParkedFor(p)'
  BY Zenon DEF ParkedFor
<1> QED
  BY <1>1, <1>2, Zenon DEF Barrier

\* The steps of a worker keep the invariant.
LEMMA ControlWorker ==
    ASSUME ControlInv, NEW w \in Workers, WorkerStep(w)
    PROVE  Barrier' /\ Places' /\ Locks' /\ Callers'
<1>t. ControlTypes
  BY Zenon DEF ControlInv, TypeOK, ControlTypes
<1> USE <1>t DEF ControlInv, ControlTypes, mainVars, workerVars, callVars, barrierVars
<1>1. CASE WorkerLaunch(w)
  <2>1. Barrier'
    BY <1>1, BarrierKept, Zenon DEF WorkerLaunch
  <2>2. Places'
    BY <1>1, Zenon DEF WorkerLaunch, Places, InProcessGrayUnits
  <2>3. Locks' /\ Callers'
    BY <1>1, Zenon DEF WorkerLaunch, Locks, Callers
  <2> QED
    BY <2>1, <2>2, <2>3, Zenon
<1>2. CASE EnterDraining(w)
  <2>1. Barrier'
    BY <1>2, BarrierKept, Zenon DEF EnterDraining
  <2>2. Places'
    BY <1>2, Zenon DEF EnterDraining, Places, InProcessGrayUnits
  <2>3. \A t \in Threads : mpc[t] = "push" => mworker[t] # w
    BY <1>2, NamesAssumption DEF EnterDraining, Locks
  <2>4. Locks'
    BY <1>2, <2>3, Zenon DEF EnterDraining, Locks
  <2>5. Callers'
    BY <1>2, Zenon DEF EnterDraining, Callers
  <2> QED
    BY <2>1, <2>2, <2>4, <2>5, Zenon
<1>3. CASE PopLocal(w)
  <2>1. Barrier'
    BY <1>3, BarrierKept, Zenon DEF PopLocal
  <2>2. local_work[w][Len(local_work[w])] \in Units
    <3>1. local_work[w] \in Seq(Units) /\ local_work[w] # << >>
      BY <1>3, Zenon DEF PopLocal, TypeOK
    <3>2. Len(local_work[w]) \in Nat \ {0} /\ Len(local_work[w]) \in 1 .. Len(local_work[w])
      BY ONLY <3>1
    <3> QED
      BY ONLY <3>1, <3>2, SeqElement, Zenon
  <2>3. Places'
    BY <1>3, <2>2, NamesAssumption, Zenon DEF PopLocal, Places, InProcessGrayUnits
  <2>4. Locks' /\ Callers'
    BY <1>3, Zenon DEF PopLocal, Locks, Callers
  <2> QED
    BY <2>1, <2>3, <2>4, Zenon
<1>4. ASSUME NEW c \in Units, ScanChild(w, c) PROVE Barrier' /\ Places' /\ Locks' /\ Callers'
  <2>1. Barrier'
    BY <1>4, BarrierSame, Zenon DEF ScanChild
  <2>2. Places'
    BY <1>4, Zenon DEF ScanChild, Places, InProcessGrayUnits
  <2>3. Locks' /\ Callers'
    BY <1>4, Zenon DEF ScanChild, Locks, Callers
  <2> QED
    BY <2>1, <2>2, <2>3, Zenon
<1>5. CASE ScanDone(w)
  <2>1. Barrier'
    BY <1>5, BarrierKept, Zenon DEF ScanDone
  <2>2. Places'
    BY <1>5, Zenon DEF ScanDone, Places, InProcessGrayUnits
  <2>3. Locks' /\ Callers'
    BY <1>5, Zenon DEF ScanDone, Locks, Callers
  <2> QED
    BY <2>1, <2>2, <2>3, Zenon
<1>6. CASE StartDrain(w)
  <2>1. Barrier'
    BY <1>6, BarrierKept, Zenon DEF StartDrain
  <2>2. Places'
    BY <1>6, Zenon DEF StartDrain, Places, InProcessGrayUnits
  <2>3. Locks' /\ Callers'
    BY <1>6, Zenon DEF StartDrain, Locks, Callers
  <2> QED
    BY <2>1, <2>2, <2>3, Zenon
<1>7. CASE DrainTake(w)
  <2>1. Barrier'
    BY <1>7, BarrierSame, Zenon DEF DrainTake
  <2>2. Places'
    BY <1>7, Zenon DEF DrainTake, Places, InProcessGrayUnits
  <2>3. Locks' /\ Callers'
    BY <1>7, Zenon DEF DrainTake, Locks, Callers
  <2> QED
    BY <2>1, <2>2, <2>3, Zenon
<1>8. CASE DrainEnd(w)
  <2>1. Barrier'
    BY <1>8, BarrierKept, Zenon DEF DrainEnd
  <2>2. Places'
    BY <1>8, Zenon DEF DrainEnd, Places, InProcessGrayUnits
  <2>3. Locks' /\ Callers'
    BY <1>8, Zenon DEF DrainEnd, Locks, Callers
  <2> QED
    BY <2>1, <2>2, <2>3, Zenon
<1>9. CASE LeaveDraining(w)
  <2>1. Barrier'
    BY <1>9, BarrierKept, Zenon DEF LeaveDraining
  <2>2. Places'
    BY <1>9, Zenon DEF LeaveDraining, Places, InProcessGrayUnits
  <2>3. Locks' /\ Callers'
    BY <1>9, Zenon DEF LeaveDraining, Locks, Callers
  <2> QED
    BY <2>1, <2>2, <2>3, Zenon
<1>10. CASE Sweep(w)
  <2>1. Barrier'
    BY <1>10, BarrierKept, Zenon DEF Sweep
  <2>2. Places'
    BY <1>10, Zenon DEF Sweep, Places, InProcessGrayUnits
  <2>3. Locks' /\ Callers'
    BY <1>10, Zenon DEF Sweep, Locks, Callers
  <2> QED
    BY <2>1, <2>2, <2>3, Zenon
<1>11. CASE WorkerDone(w)
  <2>1. Barrier'
    BY <1>11, BarrierDone, Zenon
  <2>2. Places'
    BY <1>11, Zenon DEF WorkerDone, Places, InProcessGrayUnits
  <2>3. Locks' /\ Callers'
    BY <1>11, Zenon DEF WorkerDone, Locks, Callers
  <2> QED
    BY <2>1, <2>2, <2>3, Zenon
<1> QED
  BY <1>1, <1>2, <1>3, <1>4, <1>5, <1>6, <1>7, <1>8, <1>9, <1>10, <1>11, Zenon DEF WorkerStep

\* A thread that is outside every critical section before and after its step, and
\* leaves the locks alone, does not disturb them.
LEMMA LocksKept ==
    ASSUME ControlTypes, Locks, NEW t \in Threads,
           mpc[t] \notin {"locked", "push"}, mpc'[t] \notin {"locked", "push"},
           \A s \in Threads \ {t} : mpc'[s] = mpc[s] /\ mworker'[s] = mworker[s],
           UNCHANGED <<spin, is_draining>>
    PROVE  Locks'
<1>1. \A s \in Threads : mpc'[s] \in {"locked", "push"} =>
          s # t /\ mpc'[s] = mpc[s] /\ mworker'[s] = mworker[s]
  BY Zenon
<1>2. \A w \in Workers : spin[w] # NoThread => spin[w] \in Threads \ {t}
  BY DEF ControlTypes, Locks
<1>3. \A s \in Threads : mpc'[s] \in {"locked", "push"} => spin'[mworker'[s]] = s
  BY <1>1, Zenon DEF Locks
<1>4. \A w \in Workers : spin'[w] # NoThread =>
          mworker'[spin'[w]] = w /\ mpc'[spin'[w]] \in {"locked", "push"}
  BY <1>2, Zenon DEF Locks
<1>5. \A s \in Threads : mpc'[s] = "push" => ~is_draining'[mworker'[s]]
  BY <1>1, Zenon DEF Locks
<1> QED
  BY <1>3, <1>4, <1>5, Zenon DEF Locks

\* A thread that takes a free lock is its only holder.
LEMMA LocksTaken ==
    ASSUME ControlTypes, Locks, NEW t \in Threads, NEW pc \in {"locked", "push"},
           spin[mworker[t]] = NoThread, mpc[t] \notin {"locked", "push"},
           spin' = [spin EXCEPT ![mworker[t]] = t], mpc' = [mpc EXCEPT ![t] = pc],
           UNCHANGED <<mworker, is_draining>>,
           pc = "push" => ~is_draining[mworker[t]]
    PROVE  Locks'
<1>1. mworker[t] \in Workers /\ spin'[mworker[t]] = t /\ mpc'[t] = pc
  BY Zenon DEF ControlTypes
<1>2. \A s \in Threads \ {t} : mpc'[s] = mpc[s]
  BY Zenon DEF ControlTypes
<1>3. \A w \in Workers : w # mworker[t] => spin'[w] = spin[w]
  BY Zenon DEF ControlTypes
<1>4. \A s \in Threads \ {t} : mpc[s] \in {"locked", "push"} =>
          mworker[s] \in Workers /\ mworker[s] # mworker[t]
  BY NamesAssumption DEF ControlTypes, Locks
<1>5. \A w \in Workers : w # mworker[t] /\ spin[w] # NoThread => spin[w] \in Threads \ {t}
  BY DEF ControlTypes, Locks
<1>6. \A s \in Threads : mpc'[s] \in {"locked", "push"} => spin'[mworker[s]] = s
  BY <1>1, <1>2, <1>3, <1>4 DEF Locks
<1>7. \A w \in Workers : spin'[w] # NoThread =>
          mworker[spin'[w]] = w /\ mpc'[spin'[w]] \in {"locked", "push"}
  BY <1>1, <1>2, <1>3, <1>5 DEF Locks
<1>8. \A s \in Threads : mpc'[s] = "push" => ~is_draining[mworker[s]]
  BY <1>1, <1>2, Zenon DEF Locks
<1> QED
  BY <1>6, <1>7, <1>8, SMTT(20) DEF Locks

\* A holder that leaves its critical section and frees the lock disturbs no
\* other one.
LEMMA LocksReleased ==
    ASSUME ControlTypes, Locks, NEW t \in Threads,
           mpc[t] \in {"locked", "push"}, mpc'[t] \notin {"locked", "push"},
           \A s \in Threads \ {t} : mpc'[s] = mpc[s] /\ mworker'[s] = mworker[s],
           spin' = [spin EXCEPT ![mworker[t]] = NoThread], UNCHANGED is_draining
    PROVE  Locks'
<1>1. mworker[t] \in Workers /\ spin[mworker[t]] = t /\ spin'[mworker[t]] = NoThread
  BY Zenon DEF ControlTypes, Locks
<1>2. \A w \in Workers : w # mworker[t] => spin'[w] = spin[w]
  BY Zenon DEF ControlTypes
<1>3. \A s \in Threads \ {t} : mpc[s] \in {"locked", "push"} =>
          mworker[s] \in Workers /\ mworker[s] # mworker[t]
  BY <1>1, Zenon DEF ControlTypes, Locks
<1>4. \A w \in Workers : w # mworker[t] /\ spin[w] # NoThread => spin[w] \in Threads \ {t}
  BY DEF ControlTypes, Locks
<1>5. \A s \in Threads : mpc'[s] \in {"locked", "push"} => spin'[mworker'[s]] = s
  BY <1>2, <1>3 DEF Locks
<1>6. \A w \in Workers : spin'[w] # NoThread =>
          mworker'[spin'[w]] = w /\ mpc'[spin'[w]] \in {"locked", "push"}
  BY <1>1, <1>2, <1>4 DEF Locks
<1>7. \A s \in Threads : mpc'[s] = "push" => ~is_draining'[mworker'[s]]
  BY Zenon DEF Locks
<1> QED
  BY <1>5, <1>6, <1>7, Zenon DEF Locks

\* A thread that goes on with its call, or returns from it, stays among the
\* threads that may be inside the API.
LEMMA CallersKept ==
    ASSUME Callers, NEW t \in Threads,
           \A s \in Threads \ {t} : mpc'[s] = mpc[s] /\ munit'[s] = munit[s],
           \/ mpc'[t] = "run"
           \/ /\ mpc[t] # "run" /\ munit'[t] = munit[t]
              /\ mpc'[t] \in {"root_shade", "root_lock"} => mpc[t] \in {"root_shade", "root_lock"},
           UNCHANGED <<flag, main_pc, unacked>>
    PROVE  Callers'
<1> SUFFICES ASSUME NEW s \in Threads
             PROVE  /\ mpc'[s] # "run" =>
                        /\ munit'[s] \in Units
                        /\ \/ main_pc \in {"begin", "roots"}
                           \/ main_pc = "parallel" /\ s # Main
                           \/ main_pc = "stop" /\ s \in unacked
                    /\ mpc'[s] \in {"root_shade", "root_lock"} =>
                        \/ main_pc = "begin" /\ s \in unacked \cup {Main}
                        \/ main_pc = "roots" /\ s = Main
  BY Zenon DEF Callers
<1>1. CASE s # t
  BY <1>1, Zenon DEF Callers
<1>2. CASE s = t
  BY <1>2, Zenon DEF Callers
<1> QED
  BY <1>1, <1>2, Zenon

\* The steps of a marking call keep the invariant.
LEMMA ControlCall ==
    ASSUME ControlInv, NEW t \in Threads,
           CallStep(t) \/ (\E u \in Units : MarkCall(t, u) \/ RootCall(t, u))
    PROVE  Barrier' /\ Places' /\ Locks' /\ Callers'
<1>t. ControlTypes /\ Barrier /\ Places /\ Locks /\ Callers
  BY Zenon DEF ControlInv, TypeOK, ControlTypes
<1> USE DEF mainVars, workerVars, barrierVars
<1>0. Barrier' /\ Places'
  <2>1. UNCHANGED <<main_pc, launch_state, finish_counter, phase, wpc, is_draining, scanning>>
    BY Zenon DEF CallStep, MarkCall, RootCall, RootShade, RootLock, MarkShade, MarkEnqueue,
           MarkPublish, MarkFull, MarkLock, MarkRecheck, MarkPush
  <2>2. Barrier'
    BY <1>t, <2>1, BarrierSame, Zenon
  <2>3. Places'
    BY <1>t, <2>1, Zenon DEF Places, InProcessGrayUnits
  <2> QED
    BY <2>2, <2>3, Zenon
<1> SUFFICES Locks' /\ Callers'
  BY <1>0, Zenon
<1>1. ASSUME NEW u \in Units, MarkCall(t, u) PROVE Locks' /\ Callers'
  <2>1. /\ mpc[t] = "run" /\ mpc'[t] = "shade" /\ munit'[t] = u
        /\ \A s \in Threads \ {t} :
               mpc'[s] = mpc[s] /\ munit'[s] = munit[s] /\ mworker'[s] = mworker[s]
        /\ UNCHANGED <<flag, main_pc, unacked, spin, is_draining>>
    BY <1>t, <1>1, Zenon DEF MarkCall, Call, ControlTypes
  <2>2. Locks'
    BY <1>t, <2>1, LocksKept, Zenon
  <2>3. main_pc \in {"begin", "roots"} \/ (main_pc = "parallel" /\ t # Main)
            \/ (main_pc = "stop" /\ t \in unacked)
    BY <1>t, <1>1, Zenon DEF MarkCall, MayMark, Callers
  <2>4. Callers'
    BY <1>t, <2>1, <2>3, Zenon DEF Callers
  <2> QED
    BY <2>2, <2>4, Zenon
<1>2. ASSUME NEW u \in Units, RootCall(t, u) PROVE Locks' /\ Callers'
  <2>1. /\ mpc[t] = "run" /\ mpc'[t] = "root_shade" /\ munit'[t] = u
        /\ \A s \in Threads \ {t} :
               mpc'[s] = mpc[s] /\ munit'[s] = munit[s] /\ mworker'[s] = mworker[s]
        /\ UNCHANGED <<flag, main_pc, unacked, spin, is_draining>>
        /\ main_pc = "begin" /\ t \in unacked \cup {Main}
    BY <1>t, <1>2, Zenon DEF RootCall, Call, MayMarkRoot, ControlTypes
  <2>2. Locks'
    BY <1>t, <2>1, LocksKept, Zenon
  <2>3. Callers'
    BY <1>t, <2>1, Zenon DEF Callers
  <2> QED
    BY <2>2, <2>3, Zenon
<1>3. CASE RootShade(t)
  <2>1. /\ mpc[t] = "root_shade" /\ (mpc'[t] = "run" \/ (mpc'[t] = "root_lock" /\ munit' = munit))
        /\ \A s \in Threads \ {t} :
               mpc'[s] = mpc[s] /\ munit'[s] = munit[s] /\ mworker'[s] = mworker[s]
        /\ UNCHANGED <<flag, main_pc, unacked, spin, is_draining>>
    BY <1>t, <1>3 DEF RootShade, Return, ControlTypes
  <2> QED
    BY <1>t, <2>1, LocksKept, CallersKept, Zenon
<1>4. CASE RootLock(t)
  <2>1. /\ mpc[t] = "root_lock" /\ mpc' = [mpc EXCEPT ![t] = "push"]
        /\ spin[mworker[t]] = NoThread /\ spin' = [spin EXCEPT ![mworker[t]] = t]
        /\ UNCHANGED <<flag, main_pc, unacked, is_draining, munit, mworker>>
    BY <1>4, Zenon DEF RootLock
  <2>2. ~is_draining[mworker[t]]
    BY <1>t, <2>1, Zenon DEF ControlTypes, Callers, Barrier, ParkedFor, Places, InProcessGrayUnits
  <2>3. Locks'
    BY <1>t, <2>1, <2>2, LocksTaken, Zenon
  <2>4. mpc'[t] = "push" /\ \A s \in Threads \ {t} : mpc'[s] = mpc[s]
    BY <1>t, <2>1, Zenon DEF ControlTypes
  <2>5. Callers'
    BY <1>t, <2>1, <2>4, CallersKept, Zenon
  <2> QED
    BY <2>3, <2>5, Zenon
<1>5. CASE MarkShade(t)
  <2>1. /\ mpc[t] = "shade" /\ (mpc'[t] = "run" \/ (mpc'[t] = "enqueue" /\ munit' = munit))
        /\ \A s \in Threads \ {t} :
               mpc'[s] = mpc[s] /\ munit'[s] = munit[s] /\ mworker'[s] = mworker[s]
        /\ UNCHANGED <<flag, main_pc, unacked, spin, is_draining>>
    BY <1>t, <1>5 DEF MarkShade, Return, ControlTypes
  <2> QED
    BY <1>t, <2>1, LocksKept, CallersKept, Zenon
<1>6. CASE MarkEnqueue(t)
  <2>1. /\ mpc[t] = "enqueue" /\ mpc'[t] \in {"publish", "full"} /\ munit' = munit
        /\ \A s \in Threads \ {t} :
               mpc'[s] = mpc[s] /\ munit'[s] = munit[s] /\ mworker'[s] = mworker[s]
        /\ UNCHANGED <<flag, main_pc, unacked, spin, is_draining>>
    BY <1>t, <1>6, Zenon DEF MarkEnqueue, ControlTypes
  <2> QED
    BY <1>t, <2>1, LocksKept, CallersKept, Zenon
<1>7. CASE MarkPublish(t)
  <2>1. /\ mpc[t] = "publish" /\ mpc'[t] = "run"
        /\ \A s \in Threads \ {t} :
               mpc'[s] = mpc[s] /\ munit'[s] = munit[s] /\ mworker'[s] = mworker[s]
        /\ UNCHANGED <<flag, main_pc, unacked, spin, is_draining>>
    BY <1>t, <1>7, Zenon DEF MarkPublish, Return, ControlTypes
  <2> QED
    BY <1>t, <2>1, LocksKept, CallersKept, Zenon
<1>8. CASE MarkFull(t)
  <2>1. /\ mpc[t] = "full" /\ mpc'[t] \in {"enqueue", "lock"} /\ munit' = munit
        /\ \A s \in Threads \ {t} :
               mpc'[s] = mpc[s] /\ munit'[s] = munit[s] /\ mworker'[s] = mworker[s]
        /\ UNCHANGED <<flag, main_pc, unacked, spin, is_draining>>
    BY <1>t, <1>8, Zenon DEF MarkFull, ControlTypes
  <2> QED
    BY <1>t, <2>1, LocksKept, CallersKept, Zenon
<1>9. CASE MarkLock(t)
  <2>1. /\ mpc[t] = "lock" /\ mpc' = [mpc EXCEPT ![t] = "locked"]
        /\ spin[mworker[t]] = NoThread /\ spin' = [spin EXCEPT ![mworker[t]] = t]
        /\ UNCHANGED <<flag, main_pc, unacked, is_draining, munit, mworker>>
    BY <1>9, Zenon DEF MarkLock
  <2>3. Locks'
    BY <1>t, <2>1, LocksTaken, Zenon
  <2>4. mpc'[t] = "locked" /\ \A s \in Threads \ {t} : mpc'[s] = mpc[s]
    BY <1>t, <2>1, Zenon DEF ControlTypes
  <2>5. Callers'
    BY <1>t, <2>1, <2>4, CallersKept, Zenon
  <2> QED
    BY <2>3, <2>5, Zenon
<1>10. CASE MarkRecheck(t)
  <2>1. mpc[t] = "locked" /\ UNCHANGED <<flag, main_pc, unacked, is_draining, munit, mworker>>
    BY <1>10, Zenon DEF MarkRecheck
  <2>2. CASE is_draining[mworker[t]]
    <3>1. /\ mpc'[t] = "enqueue" /\ \A s \in Threads \ {t} : mpc'[s] = mpc[s]
          /\ spin' = [spin EXCEPT ![mworker[t]] = NoThread]
      BY <1>t, <1>10, <2>2, Zenon DEF MarkRecheck, ControlTypes
    <3> QED
      BY <1>t, <2>1, <3>1, LocksReleased, CallersKept, Zenon
  <2>3. CASE ~is_draining[mworker[t]]
    <3>1. /\ mpc'[t] = "push" /\ \A s \in Threads \ {t} : mpc'[s] = mpc[s]
          /\ spin' = spin
      BY <1>t, <1>10, <2>3, Zenon DEF MarkRecheck, ControlTypes
    <3>2. \A s \in Threads : mpc'[s] \in {"locked", "push"} => mpc[s] \in {"locked", "push"}
      BY <2>1, <3>1, Zenon
    <3>3. \A s \in Threads : mpc[s] \in {"locked", "push"} => mpc'[s] \in {"locked", "push"}
      BY <2>1, <3>1, Zenon
    <3>4. \A s \in Threads : mpc'[s] = "push" => ~is_draining[mworker[s]]
      BY <1>t, <2>3, <3>1, Zenon DEF Locks
    <3>5. \A w \in Workers : spin[w] # NoThread => spin[w] \in Threads
      BY <1>t, Zenon DEF ControlTypes
    <3>6. Locks'
      BY <1>t, <2>1, <3>1, <3>2, <3>3, <3>4, <3>5, Zenon DEF Locks
    <3> QED
      BY <1>t, <2>1, <3>1, <3>6, CallersKept, Zenon
  <2> QED
    BY <2>2, <2>3, Zenon
<1>11. CASE MarkPush(t)
  <2>1. /\ mpc[t] = "push" /\ mpc'[t] = "run"
        /\ \A s \in Threads \ {t} :
               mpc'[s] = mpc[s] /\ munit'[s] = munit[s] /\ mworker'[s] = mworker[s]
        /\ spin' = [spin EXCEPT ![mworker[t]] = NoThread]
        /\ UNCHANGED <<flag, main_pc, unacked, is_draining>>
    BY <1>t, <1>11, Zenon DEF MarkPush, Return, ControlTypes
  <2> QED
    BY <1>t, <2>1, LocksReleased, CallersKept, Zenon
<1> QED
  BY <1>1, <1>2, <1>3, <1>4, <1>5, <1>6, <1>7, <1>8, <1>9, <1>10, <1>11, Zenon DEF CallStep

\* Every step keeps the invariant.
LEMMA ControlNext == ControlInv /\ [Next]_vars => ControlInv'
<1> SUFFICES ASSUME ControlInv, [Next]_vars PROVE ControlInv'
  BY Zenon
<1>1. TypeOK'
  BY TypesNext, Zenon
<1>2. ASSUME NEW m \in Mutators, Acknowledge(m)
      PROVE  Barrier' /\ Places' /\ Locks' /\ Callers'
  <2> USE <1>2 DEF Acknowledge, ControlInv, TypeOK, workerVars, callVars, barrierVars
  <2>1. Barrier'
    BY BarrierSame, Zenon
  <2>2. Places' /\ Locks'
    BY Zenon DEF Places, Locks, InProcessGrayUnits
  <2>3. Callers'
    BY NamesAssumption, Zenon DEF Callers, Threads
  <2> QED
    BY <2>1, <2>2, <2>3, Zenon
<1>3. CASE UNCHANGED vars
  <2> USE <1>3 DEF vars, ControlInv
  <2>1. Barrier'
    BY BarrierSame, Zenon
  <2>2. Places' /\ Locks' /\ Callers'
    BY Zenon DEF Places, Locks, InProcessGrayUnits, Callers
  <2> QED
    BY <1>1, <2>1, <2>2, Zenon
<1>4. ASSUME Barrier' /\ Places' /\ Locks' /\ Callers' PROVE ControlInv'
  BY <1>1, <1>4, Zenon DEF ControlInv
<1> QED
  BY <1>1, <1>2, <1>3, <1>4, ControlMain, ControlWorker, ControlCall, Zenon DEF Next

\* The control invariant holds in every reachable state.
LEMMA ControlInvariant == Spec => []ControlInv
<1>1. Init => ControlInv
  BY ControlInit, Zenon
<1>2. ControlInv /\ [Next]_vars => ControlInv'
  BY ControlNext, Zenon
<1> QED
  BY <1>1, <1>2, PTL DEF Spec

-----------------------------------------------------------------------------
(* Theorems about the control state *)

\* Every variable keeps its type; in particular the finish counter of the
\* phase barrier never passes the number of workers.
THEOREM TypeCorrect == Spec => []TypeOK
<1>1. ControlInv => TypeOK
  BY Zenon DEF ControlInv
<1> QED
  BY <1>1, ControlInvariant, PTL

\* The phase barrier works: outside a phase every worker is parked before the
\* next one.
THEOREM BarrierWorks == Spec => []WorkersParked
<1>1. ControlInv => WorkersParked
  BY Zenon DEF ControlInv, Barrier, WorkersParked
<1> QED
  BY <1>1, ControlInvariant, PTL

\* No two threads use the same m_local_work while one of them pushes into it.
THEOREM LocalWorkIsExclusive == Spec => []LocalWorkExclusive
<1>1. ControlInv => LocalWorkExclusive
  <2> SUFFICES ASSUME ControlTypes, Places, Locks PROVE LocalWorkExclusive
    BY Zenon DEF ControlInv, TypeOK, ControlTypes
  <2> QED
    BY SMTT(20) DEF ControlTypes, Places, Locks, LocalWorkExclusive
<1> QED
  BY <1>1, ControlInvariant, PTL

-----------------------------------------------------------------------------
(* The inductive invariant of the units *)

Carrying == {"root_lock", "enqueue", "full", "lock", "locked", "push"}

\* Holders, one holder at a time: unit u is at position i of the place of kind
\* k that belongs to x.
Holds(k, x, i, u) ==
    \/ k = "scanning" /\ x \in Workers /\ i = 0 /\ scanning[x] = u
    \/ k = "local_work" /\ x \in Workers /\ i \in DOMAIN local_work[x] /\ local_work[x][i] = u
    \/ k = "queue" /\ x \in Workers /\ i \in DOMAIN queue[x] /\ queue[x][i].unit = u
    \/ k = "call" /\ x \in Threads /\ i = 0 /\ munit[x] = u /\ mpc[x] \in Carrying

\* A unit is gray exactly while it has a holder, and it has only one.
GrayInv ==
    \A u \in Units :
        /\ life[u] = "SELF_MARKED" <=> \E k, x, i : Holds(k, x, i, u)
        /\ \A k, x, i, l, y, j : Holds(k, x, i, u) /\ Holds(l, y, j, u) => k = l /\ x = y /\ i = j

\* The producer of an unpublished entry is about to publish it.
PublishInv ==
    \A w \in Workers : \A i \in DOMAIN queue[w] :
        ~queue[w][i].ready =>
            mpc[queue[w][i].by] = "publish" /\ mworker[queue[w][i].by] = w

\* A worker that leaves process_gray_units in FINAL_MARK leaves nothing behind,
\* and nobody adds anything later.
NoWork(w) == local_work[w] = << >> /\ queue[w] = << >>
DrainedInv ==
    \A w \in Workers :
        \/ main_pc = "final" /\ (phase[w] = "SWEEP" \/ wpc[w] \in {"leave", "done"})
        \/ main_pc = "sweep"
        => NoWork(w)

Marked(u) == life[u] # "UNMARKED"

\* A black unit has no white child, and a unit being scanned none among those
\* already visited.
BlackInv ==
    /\ main_pc # "sweep" =>
        \A u \in Units : life[u] = "FULL_MARKED" => \A c \in Children[u] : Marked(c)
    /\ \A w \in Workers : wpc[w] = "scan" =>
        \A c \in Children[scanning[w]] \ todo[w] : Marked(c)

\* The roots that Step 2 has visited are marked, or about to be.
RootInv ==
    /\ main_pc \in {"parallel", "stop", "final"} => roots_left = {}
    /\ main_pc \in {"roots", "parallel", "stop", "final"} =>
        \A u \in RootUnits \ roots_left :
            Marked(u) \/ (mpc[Main] = "root_shade" /\ munit[Main] = u)

\* A worker that has swept leaves no mark behind.
SweptInv ==
    main_pc = "sweep" =>
        \A w \in Workers : phase[w] = "PARALLEL_MARK" \/ wpc[w] = "done" =>
            \A u \in Units : SweepOwner[u] = w => ~Marked(u)

UnitInv == GrayInv /\ PublishInv /\ DrainedInv /\ BlackInv /\ RootInv /\ SweptInv

-----------------------------------------------------------------------------
(* How the holders change *)

Kinds == {"scanning", "local_work", "queue", "call"}

\* Holds, kind by kind, before and after a step.
LEMMA HoldsByKind ==
    \A x, i, u :
        /\ Holds("scanning", x, i, u) <=> x \in Workers /\ i = 0 /\ scanning[x] = u
        /\ Holds("local_work", x, i, u) <=>
               x \in Workers /\ i \in DOMAIN local_work[x] /\ local_work[x][i] = u
        /\ Holds("queue", x, i, u) <=>
               x \in Workers /\ i \in DOMAIN queue[x] /\ queue[x][i].unit = u
        /\ Holds("call", x, i, u) <=>
               x \in Threads /\ i = 0 /\ munit[x] = u /\ mpc[x] \in Carrying
        /\ \A k : Holds(k, x, i, u) => k \in Kinds
  BY DEF Holds, Kinds

\* The same after a step.
LEMMA HoldsByKindNext ==
    \A x, i, u :
        /\ Holds("scanning", x, i, u)' <=> x \in Workers /\ i = 0 /\ scanning'[x] = u
        /\ Holds("local_work", x, i, u)' <=>
               x \in Workers /\ i \in DOMAIN local_work'[x] /\ local_work'[x][i] = u
        /\ Holds("queue", x, i, u)' <=>
               x \in Workers /\ i \in DOMAIN queue'[x] /\ queue'[x][i].unit = u
        /\ Holds("call", x, i, u)' <=>
               x \in Threads /\ i = 0 /\ munit'[x] = u /\ mpc'[x] \in Carrying
        /\ \A k : Holds(k, x, i, u)' => k \in Kinds
  BY DEF Holds, Kinds

\* One kind at a time, before and after a step.
LEMMA HoldsScanning ==
    \A x, i, u :
        /\ Holds("scanning", x, i, u) <=> x \in Workers /\ i = 0 /\ scanning[x] = u
        /\ Holds("scanning", x, i, u)' <=> x \in Workers /\ i = 0 /\ scanning'[x] = u
  BY HoldsByKind, HoldsByKindNext, Zenon

LEMMA HoldsLocal ==
    \A x, i, u :
        /\ Holds("local_work", x, i, u) <=>
               x \in Workers /\ i \in DOMAIN local_work[x] /\ local_work[x][i] = u
        /\ Holds("local_work", x, i, u)' <=>
               x \in Workers /\ i \in DOMAIN local_work'[x] /\ local_work'[x][i] = u
  BY HoldsByKind, HoldsByKindNext, Zenon

LEMMA HoldsQueue ==
    \A x, i, u :
        /\ Holds("queue", x, i, u) <=>
               x \in Workers /\ i \in DOMAIN queue[x] /\ queue[x][i].unit = u
        /\ Holds("queue", x, i, u)' <=>
               x \in Workers /\ i \in DOMAIN queue'[x] /\ queue'[x][i].unit = u
  BY HoldsByKind, HoldsByKindNext, Zenon

LEMMA HoldsCall ==
    \A x, i, u :
        /\ Holds("call", x, i, u) <=>
               x \in Threads /\ i = 0 /\ munit[x] = u /\ mpc[x] \in Carrying
        /\ Holds("call", x, i, u)' <=>
               x \in Threads /\ i = 0 /\ munit'[x] = u /\ mpc'[x] \in Carrying
  BY HoldsByKind, HoldsByKindNext, Zenon

\* A place holds one unit.
LEMMA HoldsOneUnit ==
    \A k, x, i, u, v : Holds(k, x, i, u) /\ Holds(k, x, i, v) => u = v
  BY DEF Holds

\* A step that changes no container and nothing about the units that calls carry
\* keeps all holders.
LEMMA SameHolders ==
    ASSUME UNCHANGED <<scanning, local_work, queue>>,
           \A t \in Threads : mpc'[t] \in Carrying <=> mpc[t] \in Carrying,
           \A t \in Threads : mpc[t] \in Carrying => munit'[t] = munit[t]
    PROVE  \A k, x, i, u : Holds(k, x, i, u)' <=> Holds(k, x, i, u)
  BY DEF Holds

\* Such a step keeps GrayInv if it leaves the gray units alone.
LEMMA GraySame ==
    ASSUME GrayInv,
           \A u \in Units : life'[u] = "SELF_MARKED" <=> life[u] = "SELF_MARKED",
           \A k, x, i, u : Holds(k, x, i, u)' <=> Holds(k, x, i, u)
    PROVE  GrayInv'
  BY Zenon DEF GrayInv

\* Of all places, one loses its unit; another one takes a unit up.
LetsGo(k1, x1, i1) ==
    \A k, x, i : \A u \in Units : Holds(k, x, i, u)' <=>
        Holds(k, x, i, u) /\ ~(k = k1 /\ x = x1 /\ i = i1)
TakesUp(k2, x2, i2, v) ==
    \A k, x, i : \A u \in Units : Holds(k, x, i, u)' <=>
        Holds(k, x, i, u) \/ (k = k2 /\ x = x2 /\ i = i2 /\ u = v)
Moves(k1, x1, i1, k2, x2, i2, v) ==
    \A k, x, i : \A u \in Units : Holds(k, x, i, u)' <=>
        \/ Holds(k, x, i, u) /\ ~(k = k1 /\ x = x1 /\ i = i1)
        \/ k = k2 /\ x = x2 /\ i = i2 /\ u = v

\* It is enough to look at the kinds one by one.
LEMMA TakesUpByKind ==
    ASSUME NEW k2 \in Kinds, NEW x2, NEW i2, NEW v,
           \A k \in Kinds \ {k2} : \A x, i, u : Holds(k, x, i, u)' <=> Holds(k, x, i, u),
           \A x, i, u : Holds(k2, x, i, u)' <=> Holds(k2, x, i, u) \/ (x = x2 /\ i = i2 /\ u = v)
    PROVE  TakesUp(k2, x2, i2, v)
<1> SUFFICES ASSUME NEW k, NEW x, NEW i, NEW u \in Units
             PROVE  Holds(k, x, i, u)' <=>
                        Holds(k, x, i, u) \/ (k = k2 /\ x = x2 /\ i = i2 /\ u = v)
  BY Zenon DEF TakesUp
<1>1. CASE k = k2
  BY <1>1
<1>2. CASE k \in Kinds \ {k2}
  BY <1>2, Zenon
<1>3. CASE k \notin Kinds
  BY <1>3, HoldsByKind, HoldsByKindNext, Zenon
<1> QED
  BY <1>1, <1>2, <1>3, Zenon

LEMMA LetsGoByKind ==
    ASSUME NEW k1 \in Kinds, NEW x1, NEW i1,
           \A k \in Kinds \ {k1} : \A x, i, u : Holds(k, x, i, u)' <=> Holds(k, x, i, u),
           \A x, i : \A u \in Units :
               Holds(k1, x, i, u)' <=> Holds(k1, x, i, u) /\ ~(x = x1 /\ i = i1)
    PROVE  LetsGo(k1, x1, i1)
<1> SUFFICES ASSUME NEW k, NEW x, NEW i, NEW u \in Units
             PROVE  Holds(k, x, i, u)' <=>
                        Holds(k, x, i, u) /\ ~(k = k1 /\ x = x1 /\ i = i1)
  BY Zenon DEF LetsGo
<1>1. CASE k = k1
  BY <1>1, Zenon
<1>2. CASE k \in Kinds \ {k1}
  BY <1>2, Zenon
<1>3. CASE k \notin Kinds
  BY <1>3, HoldsByKind, HoldsByKindNext, Zenon
<1> QED
  BY <1>1, <1>2, <1>3, Zenon

LEMMA MovesByKind ==
    ASSUME NEW k1 \in Kinds, NEW x1, NEW i1, NEW k2 \in Kinds, NEW x2, NEW i2, NEW v,
           k1 # k2,
           \A k \in Kinds \ {k1, k2} : \A x, i, u : Holds(k, x, i, u)' <=> Holds(k, x, i, u),
           \A x, i : \A u \in Units :
               Holds(k1, x, i, u)' <=> Holds(k1, x, i, u) /\ ~(x = x1 /\ i = i1),
           \A x, i : \A u \in Units :
               Holds(k2, x, i, u)' <=> Holds(k2, x, i, u) \/ (x = x2 /\ i = i2 /\ u = v)
    PROVE  Moves(k1, x1, i1, k2, x2, i2, v)
<1> SUFFICES ASSUME NEW k, NEW x, NEW i, NEW u \in Units
             PROVE  Holds(k, x, i, u)' <=>
                        \/ Holds(k, x, i, u) /\ ~(k = k1 /\ x = x1 /\ i = i1)
                        \/ k = k2 /\ x = x2 /\ i = i2 /\ u = v
  BY Zenon DEF Moves
<1>1. CASE k = k1
  BY <1>1, Zenon
<1>2. CASE k = k2
  BY <1>2
<1>3. CASE k \in Kinds \ {k1, k2}
  BY <1>3, Zenon
<1>4. CASE k \notin Kinds
  BY <1>4, HoldsByKind, HoldsByKindNext, Zenon
<1> QED
  BY <1>1, <1>2, <1>3, <1>4, Zenon

\* A gray unit goes from one place to another that was empty.
LEMMA GrayMoves ==
    ASSUME GrayInv, UNCHANGED life, NEW v \in Units,
           NEW k1, NEW x1, NEW i1, NEW k2, NEW x2, NEW i2,
           Holds(k1, x1, i1, v), Moves(k1, x1, i1, k2, x2, i2, v)
    PROVE  GrayInv'
<1> USE DEF Moves
<1> SUFFICES ASSUME NEW u \in Units
             PROVE  /\ life[u] = "SELF_MARKED" <=> \E k, x, i : Holds(k, x, i, u)'
                    /\ \A k, x, i, l, y, j : Holds(k, x, i, u)' /\ Holds(l, y, j, u)' =>
                           k = l /\ x = y /\ i = j
  BY Zenon DEF GrayInv
<1>1. CASE u = v
  <2>1. \A k, x, i : Holds(k, x, i, v) => k = k1 /\ x = x1 /\ i = i1
    BY Zenon DEF GrayInv
  <2>2. \A k, x, i : Holds(k, x, i, v)' <=> k = k2 /\ x = x2 /\ i = i2
    BY <2>1, Zenon
  <2>3. life[v] = "SELF_MARKED"
    BY Zenon DEF GrayInv
  <2> QED
    BY <1>1, <2>2, <2>3
<1>2. CASE u # v
  <2>1. \A k, x, i : Holds(k, x, i, u) => ~(k = k1 /\ x = x1 /\ i = i1)
    BY <1>2, HoldsOneUnit
  <2>2. \A k, x, i : Holds(k, x, i, u)' <=> Holds(k, x, i, u)
    BY <1>2, <2>1, Zenon
  <2> QED
    BY <2>2 DEF GrayInv
<1> QED
  BY <1>1, <1>2, Zenon

\* A white unit becomes gray and gets its first holder.
LEMMA GrayBegins ==
    ASSUME GrayInv, life \in [Units -> {"UNMARKED", "SELF_MARKED", "FULL_MARKED"}],
           NEW v \in Units, life[v] = "UNMARKED",
           life' = [life EXCEPT ![v] = "SELF_MARKED"], NEW k2, NEW x2, NEW i2,
           TakesUp(k2, x2, i2, v)
    PROVE  GrayInv'
<1> USE DEF TakesUp
<1> SUFFICES ASSUME NEW u \in Units
             PROVE  /\ life'[u] = "SELF_MARKED" <=> \E k, x, i : Holds(k, x, i, u)'
                    /\ \A k, x, i, l, y, j : Holds(k, x, i, u)' /\ Holds(l, y, j, u)' =>
                           k = l /\ x = y /\ i = j
  BY Zenon DEF GrayInv
<1>1. CASE u = v
  <2>1. life[v] # "SELF_MARKED" /\ life'[v] = "SELF_MARKED"
    BY Zenon
  <2>2. \A k, x, i : ~Holds(k, x, i, v)
    BY <2>1, Zenon DEF GrayInv
  <2>3. \A k, x, i : Holds(k, x, i, v)' <=> k = k2 /\ x = x2 /\ i = i2
    BY <2>2
  <2> QED
    BY <1>1, <2>1, <2>3
<1>2. CASE u # v
  <2>1. life'[u] = life[u]
    BY <1>2, Zenon
  <2>2. \A k, x, i : Holds(k, x, i, u)' <=> Holds(k, x, i, u)
    BY <1>2, Zenon
  <2> QED
    BY <2>1, <2>2 DEF GrayInv
<1> QED
  BY <1>1, <1>2, Zenon

\* A gray unit becomes black when its holder lets go of it.
LEMMA GrayEnds ==
    ASSUME GrayInv, life \in [Units -> {"UNMARKED", "SELF_MARKED", "FULL_MARKED"}],
           NEW v \in Units, life' = [life EXCEPT ![v] = "FULL_MARKED"],
           NEW k1, NEW x1, NEW i1, Holds(k1, x1, i1, v), LetsGo(k1, x1, i1)
    PROVE  GrayInv'
<1> USE DEF LetsGo
<1> SUFFICES ASSUME NEW u \in Units
             PROVE  /\ life'[u] = "SELF_MARKED" <=> \E k, x, i : Holds(k, x, i, u)'
                    /\ \A k, x, i, l, y, j : Holds(k, x, i, u)' /\ Holds(l, y, j, u)' =>
                           k = l /\ x = y /\ i = j
  BY Zenon DEF GrayInv
<1>1. CASE u = v
  <2>1. life'[v] # "SELF_MARKED"
    BY Zenon
  <2>2. \A k, x, i : ~Holds(k, x, i, v)'
    BY DEF GrayInv
  <2> QED
    BY <1>1, <2>1, <2>2, Zenon
<1>2. CASE u # v
  <2>1. life'[u] = life[u]
    BY <1>2, Zenon
  <2>2. \A k, x, i : Holds(k, x, i, u) => ~(k = k1 /\ x = x1 /\ i = i1)
    BY <1>2, HoldsOneUnit
  <2>3. \A k, x, i : Holds(k, x, i, u)' <=> Holds(k, x, i, u)
    BY <2>2, Zenon
  <2> QED
    BY <2>1, <2>3 DEF GrayInv
<1> QED
  BY <1>1, <1>2, Zenon

-----------------------------------------------------------------------------
(* GrayInv is kept *)

\* A step that touches neither units, containers nor calls.
LEMMA GrayUntouched ==
    ASSUME GrayInv, UNCHANGED <<life, scanning, local_work, queue, mpc, munit>>
    PROVE  GrayInv'
<1>1. \A k, x, i, u : Holds(k, x, i, u)' <=> Holds(k, x, i, u)
  BY SameHolders, Zenon
<1> QED
  BY <1>1, GraySame, Zenon

\* A step of one thread's call that leaves the units and the containers alone, and
\* neither takes a unit up nor puts one down.
LEMMA GrayCallOnly ==
    ASSUME GrayInv, NEW t \in Threads, UNCHANGED <<life, scanning, local_work, queue>>,
           \A s \in Threads \ {t} : mpc'[s] = mpc[s] /\ munit'[s] = munit[s],
           mpc'[t] \in Carrying <=> mpc[t] \in Carrying,
           mpc[t] \in Carrying => munit'[t] = munit[t]
    PROVE  GrayInv'
<1>1. \A k, x, i, u : Holds(k, x, i, u)' <=> Holds(k, x, i, u)
  BY SameHolders, Zenon
<1> QED
  BY <1>1, GraySame, Zenon

\* The steps of the main thread keep GrayInv.
LEMMA GrayMain ==
    ASSUME ControlInv, GrayInv, StartRound \/ MainStep
    PROVE  GrayInv'
<1> USE DEF workerVars, callVars
<1>1. ASSUME NEW u \in Units, RootLoop(u) PROVE GrayInv'
  <2>0. ControlTypes /\ Main \in Threads
    BY Zenon DEF ControlInv, TypeOK, ControlTypes, Threads
  <2>1. /\ UNCHANGED <<life, scanning, local_work, queue>>
        /\ mpc[Main] = "run" /\ mpc'[Main] = "root_shade"
        /\ \A s \in Threads \ {Main} : mpc'[s] = mpc[s] /\ munit'[s] = munit[s]
    BY <1>1, <2>0, Zenon DEF RootLoop, Call, ControlTypes
  <2>2. mpc'[Main] \notin Carrying /\ mpc[Main] \notin Carrying
    BY <2>1, Zenon DEF Carrying
  <2> QED
    BY <2>0, <2>1, <2>2, GrayCallOnly, Zenon
<1>2. CASE StartRound \/ BeginCallbackDone \/ LaunchParallelMark \/ StopMarking
           \/ LaunchFinalMark \/ LaunchSweep \/ EndRound
  <2>1. UNCHANGED <<life, scanning, local_work, queue, mpc, munit>>
    BY <1>2, Zenon DEF StartRound, BeginCallbackDone, LaunchParallelMark, StopMarking,
           LaunchFinalMark, LaunchSweep, EndRound
  <2> QED
    BY <2>1, GrayUntouched, Zenon
<1> QED
  BY <1>1, <1>2, Zenon DEF MainStep

\* The types of the variables that the units are held in.
UnitTypes ==
    /\ life \in [Units -> {"UNMARKED", "SELF_MARKED", "FULL_MARKED"}]
    /\ scanning \in [Workers -> Units \cup {NoUnit}]
    /\ todo \in [Workers -> SUBSET Units]
    /\ local_work \in [Workers -> Seq(Units)]
    /\ queue \in [Workers -> Seq([unit : Units, by : Threads, ready : BOOLEAN])]
    /\ mpc \in [Threads -> {"run", "root_shade", "root_lock", "shade", "enqueue", "publish",
                            "full", "lock", "locked", "push"}]
    /\ munit \in [Threads -> Units \cup {NoUnit}]
    /\ mworker \in [Threads -> Workers]

\* process_gray_units takes the last unit of m_local_work.
LEMMA GrayPopLocal ==
    ASSUME UnitTypes, Places, GrayInv, NEW w \in Workers, PopLocal(w)
    PROVE  GrayInv'
<1> DEFINE n == Len(local_work[w])
           v == local_work[w][n]
<1>1. /\ local_work[w] \in Seq(Units) /\ local_work[w] # << >>
      /\ n \in Nat \ {0} /\ DOMAIN local_work[w] = 1 .. n
  BY DEF PopLocal, UnitTypes
<1>2. v \in Units
  BY <1>1, SeqElement
<1>3. /\ UNCHANGED <<life, queue, mpc, munit>>
      /\ scanning' = [scanning EXCEPT ![w] = v]
      /\ local_work' = [local_work EXCEPT ![w] = SubSeq(local_work[w], 1, n - 1)]
      /\ wpc[w] = "loop"
  BY Zenon DEF PopLocal, callVars
<1>4. /\ DOMAIN SubSeq(local_work[w], 1, n - 1) = 1 .. n - 1
      /\ \A i \in 1 .. n - 1 : SubSeq(local_work[w], 1, n - 1)[i] = local_work[w][i]
  BY <1>1, SeqFront
<1>5. scanning[w] = NoUnit
  BY <1>3, Zenon DEF Places
<1> HIDE DEF n, v
<1>6. Holds("local_work", w, n, v)
  BY <1>1, HoldsLocal DEF v
<1>7. ASSUME NEW x, NEW i, NEW u \in Units
      PROVE  Holds("local_work", x, i, u)' <=>
                 Holds("local_work", x, i, u) /\ ~(x = w /\ i = n)
  <2>1. CASE x = w
    <3> DEFINE r == SubSeq(local_work[w], 1, n - 1)
    <3>1. local_work'[w] = r /\ DOMAIN r = 1 .. n - 1
      BY <1>3, <1>4, Zenon DEF UnitTypes
    <3> HIDE DEF r
    <3>2. Holds("local_work", w, i, u)' <=> i \in 1 .. n - 1 /\ r[i] = u
      <4>1. Holds("local_work", w, i, u)' <=>
                i \in DOMAIN local_work'[w] /\ local_work'[w][i] = u
        BY HoldsLocal, Zenon
      <4> QED
        BY <3>1, <4>1, Zenon
    <3>3. Holds("local_work", w, i, u) <=> i \in 1 .. n /\ local_work[w][i] = u
      BY <1>1, HoldsLocal, Zenon
    <3> QED
      BY <1>1, <1>4, <2>1, <3>2, <3>3 DEF r
  <2>2. CASE x # w
    BY <1>3, <2>2, HoldsLocal, Zenon DEF UnitTypes
  <2> QED
    BY <2>1, <2>2, Zenon
<1>9. \A x, i : \A u \in Units : Holds("scanning", x, i, u)' <=>
          Holds("scanning", x, i, u) \/ (x = w /\ i = 0 /\ u = v)
  BY <1>3, <1>5, HoldsScanning, NamesAssumption DEF UnitTypes
<1>10. \A k \in {"queue", "call"} : \A x, i, u : Holds(k, x, i, u)' <=> Holds(k, x, i, u)
  BY <1>3, HoldsQueue, HoldsCall
<1>8. Moves("local_work", w, n, "scanning", w, 0, v)
  BY <1>7, <1>9, <1>10, MovesByKind, Zenon DEF Kinds
<1> QED
  BY <1>2, <1>3, <1>6, <1>8, GrayMoves, Zenon

LocalTakesUp(w, n, v) ==
    \A x, i, u : Holds("local_work", x, i, u)' <=>
        Holds("local_work", x, i, u) \/ (x = w /\ i = n /\ u = v)

\* m_local_work gets one more unit at its end.
LEMMA LocalAppend ==
    ASSUME UnitTypes, NEW w \in Workers, NEW v \in Units, NEW n, n = Len(local_work[w]) + 1,
           local_work' = [local_work EXCEPT ![w] = Append(local_work[w], v)]
    PROVE  LocalTakesUp(w, n, v)
<1> SUFFICES ASSUME NEW x, NEW i, NEW u
             PROVE  Holds("local_work", x, i, u)' <=>
                        Holds("local_work", x, i, u) \/ (x = w /\ i = n /\ u = v)
  BY Zenon DEF LocalTakesUp
<1> DEFINE q == local_work[w]
<1>1. q \in Seq(Units)
  BY Zenon DEF UnitTypes
<1>2. /\ Len(q) \in Nat /\ DOMAIN q = 1 .. Len(q)
      /\ DOMAIN Append(q, v) = 1 .. Len(q) + 1
      /\ \A j \in 1 .. Len(q) : Append(q, v)[j] = q[j]
      /\ Append(q, v)[Len(q) + 1] = v
  BY <1>1
<1>3. CASE x = w
  <2>1. local_work'[x] = Append(q, v)
    BY <1>3, Zenon DEF UnitTypes
  <2> QED
    BY <1>2, <1>3, <2>1, HoldsLocal
<1>4. CASE x # w
  BY <1>4, HoldsLocal, Zenon DEF UnitTypes
<1> QED
  BY <1>3, <1>4, Zenon

\* The mark callback or the auto-mark scan shades a child.
LEMMA GrayScanChild ==
    ASSUME UnitTypes, GrayInv, NEW w \in Workers, NEW c \in Units, ScanChild(w, c)
    PROVE  GrayInv'
<1>1. UNCHANGED <<scanning, queue, mpc, munit>>
  BY Zenon DEF ScanChild, callVars
<1>2. CASE life[c] = "UNMARKED"
  <2>1. /\ life' = [life EXCEPT ![c] = "SELF_MARKED"]
        /\ local_work' = [local_work EXCEPT ![w] = Append(local_work[w], c)]
    BY <1>2, Zenon DEF ScanChild
  <2> DEFINE n == Len(local_work[w]) + 1
  <2>2. \A x, i, u : Holds("local_work", x, i, u)' <=>
            Holds("local_work", x, i, u) \/ (x = w /\ i = n /\ u = c)
    <3>1. LocalTakesUp(w, n, c)
      BY <2>1, LocalAppend, Zenon
    <3> QED
      BY <3>1, Zenon DEF LocalTakesUp
  <2> HIDE DEF n
  <2>3. \A k \in {"scanning", "queue", "call"} : \A x, i, u :
            Holds(k, x, i, u)' <=> Holds(k, x, i, u)
    BY <1>1, HoldsScanning, HoldsQueue, HoldsCall
  <2>4. TakesUp("local_work", w, n, c)
    BY <2>2, <2>3, TakesUpByKind, Zenon DEF Kinds
  <2> QED
    BY <1>2, <2>1, <2>4, GrayBegins, Zenon DEF UnitTypes
<1>3. CASE life[c] # "UNMARKED"
  BY <1>1, <1>3, GrayUntouched, Zenon DEF ScanChild
<1> QED
  BY <1>2, <1>3, Zenon

\* The unit that was scanned becomes black.
LEMMA GrayScanDone ==
    ASSUME UnitTypes, Places, GrayInv, NEW w \in Workers, ScanDone(w)
    PROVE  GrayInv'
<1> DEFINE v == scanning[w]
<1>1. /\ UNCHANGED <<local_work, queue, mpc, munit>>
      /\ life' = [life EXCEPT ![v] = "FULL_MARKED"]
      /\ scanning' = [scanning EXCEPT ![w] = NoUnit]
      /\ wpc[w] = "scan"
  BY Zenon DEF ScanDone, callVars
<1>2. v \in Units
  BY <1>1, Zenon DEF Places, UnitTypes
<1>3. Holds("scanning", w, 0, v)
  BY HoldsScanning, Zenon
<1> HIDE DEF v
<1>4. \A k \in {"local_work", "queue", "call"} : \A x, i, u :
          Holds(k, x, i, u)' <=> Holds(k, x, i, u)
  BY <1>1, HoldsLocal, HoldsQueue, HoldsCall
<1>5. \A x, i : \A u \in Units : Holds("scanning", x, i, u)' <=>
          Holds("scanning", x, i, u) /\ ~(x = w /\ i = 0)
  BY <1>1, HoldsScanning, NamesAssumption DEF UnitTypes
<1>6. LetsGo("scanning", w, 0)
  BY <1>4, <1>5, LetsGoByKind, Zenon DEF Kinds
<1> QED
  BY <1>1, <1>2, <1>3, <1>6, GrayEnds, Zenon DEF UnitTypes

\* drain_queue_into_local takes the first entry of the queue: the entries behind
\* it come one place nearer.
LEMMA GrayDrainTake ==
    ASSUME UnitTypes, GrayInv, NEW w \in Workers, DrainTake(w)
    PROVE  GrayInv'
<1> DEFINE q == queue[w]
<1>n. PICK n : n = Len(local_work[w]) + 1
  BY Zenon
<1>v. PICK v : v = Head(q).unit
  BY Zenon
<1>1. /\ UNCHANGED <<life, scanning, mpc, munit>>
      /\ local_work' = [local_work EXCEPT ![w] = Append(local_work[w], v)]
      /\ queue' = [queue EXCEPT ![w] = Tail(q)]
      /\ q # << >>
  BY <1>v, Zenon DEF DrainTake, MoreToDrain, HeadReady, workerVars, callVars
<1>2. q \in Seq([unit : Units, by : Threads, ready : BOOLEAN])
  BY Zenon DEF UnitTypes
<1>3. /\ Len(q) \in Nat \ {0} /\ DOMAIN q = 1 .. Len(q) /\ Head(q) = q[1]
      /\ DOMAIN Tail(q) = 1 .. Len(q) - 1
      /\ \A i \in 1 .. Len(q) - 1 : Tail(q)[i] = q[i + 1]
  BY <1>1, <1>2, SeqHeadTail, Zenon
<1>4. v \in Units
  <2>1. Head(q) \in [unit : Units, by : Threads, ready : BOOLEAN]
    BY <1>1, <1>2, SeqHeadTail, Zenon
  <2> QED
    BY <1>v, <2>1, Zenon
<1> HIDE DEF q
<1>5. \A x, i, u : Holds("local_work", x, i, u)' <=>
          Holds("local_work", x, i, u) \/ (x = w /\ i = n /\ u = v)
  <2>1. LocalTakesUp(w, n, v)
    BY <1>1, <1>4, <1>n, LocalAppend, Zenon
  <2> QED
    BY <2>1, Zenon DEF LocalTakesUp
<1>6. \A u : ~Holds("local_work", w, n, u)
  <2>1. Len(local_work[w]) \in Nat /\ DOMAIN local_work[w] = 1 .. Len(local_work[w])
    BY DEF UnitTypes
  <2> QED
    BY <1>n, <2>1, HoldsLocal
<1>7. \A k \in {"scanning", "call"} : \A x, i, u : Holds(k, x, i, u)' <=> Holds(k, x, i, u)
  BY <1>1, HoldsScanning, HoldsCall
<1>8. \A x, i, u : x # w => (Holds("queue", x, i, u)' <=> Holds("queue", x, i, u))
  BY <1>1, HoldsQueue, Zenon DEF UnitTypes
<1>9. queue'[w] = Tail(q)
  BY <1>1, Zenon DEF UnitTypes
<1>10. ASSUME NEW i, NEW u
       PROVE  Holds("queue", w, i, u)' <=> i \in 1 .. Len(q) - 1 /\ Holds("queue", w, i + 1, u)
  <2>1. Holds("queue", w, i, u)' <=> i \in 1 .. Len(q) - 1 /\ Tail(q)[i].unit = u
    <3>1. Holds("queue", w, i, u)' <=> i \in DOMAIN queue'[w] /\ queue'[w][i].unit = u
      BY HoldsQueue, Zenon
    <3> QED
      BY <1>3, <1>9, <3>1, Zenon
  <2>2. Holds("queue", w, i + 1, u) <=> i + 1 \in 1 .. Len(q) /\ q[i + 1].unit = u
    <3>1. \A j : Holds("queue", w, j, u) <=> j \in DOMAIN q /\ q[j].unit = u
      BY HoldsQueue, Zenon DEF q
    <3> QED
      BY <1>3, <3>1, Zenon
  <2>3. i \in 1 .. Len(q) - 1 => i + 1 \in 1 .. Len(q)
    BY <1>3
  <2> QED
    BY <1>3, <2>1, <2>2, <2>3, Zenon
<1>11. \A u : Holds("queue", w, 1, u) <=> u = v
  <2>1. 1 \in 1 .. Len(q)
    BY <1>3
  <2> QED
    BY <1>3, <1>v, <2>1, HoldsQueue DEF q
<1>12. \A i, u : Holds("queue", w, i, u) => i \in 1 .. Len(q)
  BY <1>3, HoldsQueue, Zenon DEF q
<1>13. ASSUME NEW k, NEW x, NEW i, NEW u, Holds(k, x, i, u)',
              ~(k = "local_work" /\ x = w /\ i = n), ~(k = "queue" /\ x = w)
       PROVE  Holds(k, x, i, u)
  <2>1. CASE k = "local_work"
    BY <1>5, <1>13, <2>1
  <2>2. CASE k = "queue"
    BY <1>8, <1>13, <2>2, Zenon
  <2>3. CASE k \in {"scanning", "call"}
    BY <1>7, <1>13, <2>3, Zenon
  <2>4. k \in Kinds
    BY <1>13, HoldsByKindNext, Zenon
  <2> QED
    BY <2>1, <2>2, <2>3, <2>4, Zenon DEF Kinds
<1>14. ASSUME NEW k, NEW x, NEW i, NEW u, Holds(k, x, i, u), ~(k = "queue" /\ x = w)
       PROVE  Holds(k, x, i, u)' /\ ~(k = "local_work" /\ x = w /\ i = n)
  <2>1. CASE k = "local_work"
    BY <1>5, <1>6, <1>14, <2>1, Zenon
  <2>2. CASE k = "queue"
    BY <1>8, <1>14, <2>2, Zenon
  <2>3. CASE k \in {"scanning", "call"}
    BY <1>7, <1>14, <2>3, Zenon
  <2>4. k \in Kinds
    BY <1>14, HoldsByKind, Zenon
  <2> QED
    BY <2>1, <2>2, <2>3, <2>4, Zenon DEF Kinds
<1> SUFFICES ASSUME NEW u \in Units
             PROVE  /\ life[u] = "SELF_MARKED" <=> \E k, x, i : Holds(k, x, i, u)'
                    /\ \A k, x, i, l, y, j : Holds(k, x, i, u)' /\ Holds(l, y, j, u)' =>
                           k = l /\ x = y /\ i = j
  BY <1>1, Zenon DEF GrayInv
<1>15. CASE u = v
  <2>1. Holds("queue", w, 1, v) /\ life[v] = "SELF_MARKED"
    BY <1>4, <1>11, Zenon DEF GrayInv
  <2>2. \A k, x, i : Holds(k, x, i, v) => k = "queue" /\ x = w /\ i = 1
    BY <1>4, <2>1, Zenon DEF GrayInv
  <2>3. ~\E i : Holds("queue", w, i, v)'
    BY <1>3, <1>10, <2>2
  <2>4. \A k, x, i : Holds(k, x, i, v)' => k = "local_work" /\ x = w /\ i = n
    BY <1>13, <2>2, <2>3, Zenon
  <2>5. Holds("local_work", w, n, v)'
    BY <1>5, Zenon
  <2> QED
    BY <1>15, <2>1, <2>4, <2>5
<1>16. CASE u # v
  <2>1. ~Holds("queue", w, 1, u) /\ ~(u = v)
    BY <1>11, <1>16, Zenon
  <2>2. ~Holds("local_work", w, n, u)'
    BY <1>5, <1>6, <2>1
  <2>3. ASSUME NEW k, NEW x, NEW i, Holds(k, x, i, u)
        PROVE  \E j : Holds(k, x, j, u)'
    <3>1. CASE k = "queue" /\ x = w
      <4>1. i \in 1 .. Len(q) /\ i # 1
        BY <1>12, <2>1, <2>3, <3>1, Zenon
      <4>2. i - 1 \in 1 .. Len(q) - 1 /\ (i - 1) + 1 = i
        BY <1>3, <4>1
      <4> QED
        BY <1>10, <2>3, <3>1, <4>2, Zenon
    <3>2. CASE ~(k = "queue" /\ x = w)
      BY <1>14, <2>3, <3>2, Zenon
    <3> QED
      BY <3>1, <3>2, Zenon
  <2>4. ASSUME NEW k, NEW x, NEW i, Holds(k, x, i, u)'
        PROVE  IF k = "queue" /\ x = w THEN i \in Nat /\ Holds(k, x, i + 1, u)
                                       ELSE Holds(k, x, i, u)
    BY <1>3, <1>10, <1>13, <2>2, <2>4
  <2>5. life[u] = "SELF_MARKED" <=> \E k, x, i : Holds(k, x, i, u)'
    <3>1. (\E k, x, i : Holds(k, x, i, u)) => \E k, x, i : Holds(k, x, i, u)'
      BY <2>3, Zenon
    <3>2. (\E k, x, i : Holds(k, x, i, u)') => \E k, x, i : Holds(k, x, i, u)
      BY <2>4, Zenon
    <3> QED
      BY <3>1, <3>2, Zenon DEF GrayInv
  <2>6. ASSUME NEW k, NEW x, NEW i, NEW l, NEW y, NEW j, Holds(k, x, i, u)', Holds(l, y, j, u)'
        PROVE  k = l /\ x = y /\ i = j
    <3>1. CASE (k = "queue" /\ x = w) /\ (l = "queue" /\ y = w)
      <4>1. i \in Nat /\ j \in Nat /\ i + 1 = j + 1
        BY <2>4, <2>6, <3>1 DEF GrayInv
      <4> QED
        BY <3>1, <4>1
    <3>2. CASE ~(k = "queue" /\ x = w) /\ ~(l = "queue" /\ y = w)
      BY <2>4, <2>6, <3>2 DEF GrayInv
    <3>3. CASE (k = "queue" /\ x = w) /\ ~(l = "queue" /\ y = w)
      BY <2>4, <2>6, <3>3 DEF GrayInv
    <3>4. CASE ~(k = "queue" /\ x = w) /\ (l = "queue" /\ y = w)
      BY <2>4, <2>6, <3>4 DEF GrayInv
    <3> QED
      BY <3>1, <3>2, <3>3, <3>4, Zenon
  <2> QED
    BY <2>5, <2>6, Zenon
<1> QED
  BY <1>15, <1>16, Zenon

\* With empty containers, no scan and no call under way nothing is gray.
LEMMA NothingGray ==
    ASSUME ControlInv, GrayInv, main_pc \in {"final", "sweep"},
           \A w \in Workers : NoWork(w) /\ wpc[w] # "scan"
    PROVE  \A u \in Units : life[u] # "SELF_MARKED"
<1>1. \A w \in Workers : scanning[w] = NoUnit
  BY Zenon DEF ControlInv, Places
<1>2. \A t \in Threads : mpc[t] = "run"
  BY Zenon DEF ControlInv, Callers
<1>3. \A w \in Workers : DOMAIN local_work[w] = {} /\ DOMAIN queue[w] = {}
  BY DEF NoWork
<1>4. ASSUME NEW u \in Units, NEW k, NEW x, NEW i PROVE ~Holds(k, x, i, u)
  BY <1>1, <1>2, <1>3, NamesAssumption, Zenon DEF Holds, Carrying
<1> QED
  BY <1>4, Zenon DEF GrayInv

\* No unit is gray while workers sweep.
LEMMA NoGrayInSweep ==
    ASSUME ControlInv, GrayInv, DrainedInv, main_pc = "sweep"
    PROVE  \A u \in Units : life[u] # "SELF_MARKED"
<1>1. \A w \in Workers : wpc[w] # "scan"
  <2> SUFFICES ASSUME NEW w \in Workers, wpc[w] = "scan" PROVE FALSE
    BY Zenon
  <2>1. phase[w] = "SWEEP"
    BY BusyWorker, Zenon
  <2> QED
    BY <2>1, Zenon DEF ControlInv, Places, InProcessGrayUnits
<1>2. \A w \in Workers : NoWork(w)
  BY Zenon DEF DrainedInv
<1> QED
  BY <1>1, <1>2, NothingGray, Zenon

\* The steps of a worker keep GrayInv.
LEMMA GrayWorker ==
    ASSUME ControlInv, GrayInv, DrainedInv, NEW w \in Workers, WorkerStep(w)
    PROVE  GrayInv'
<1>t. UnitTypes /\ Places
  BY Zenon DEF ControlInv, TypeOK, UnitTypes
<1>1. CASE WorkerLaunch(w) \/ EnterDraining(w) \/ StartDrain(w) \/ DrainEnd(w)
           \/ LeaveDraining(w) \/ WorkerDone(w)
  <2>1. UNCHANGED <<life, scanning, local_work, queue, mpc, munit>>
    BY <1>1, Zenon DEF WorkerLaunch, EnterDraining, StartDrain, DrainEnd, LeaveDraining,
           WorkerDone, callVars
  <2> QED
    BY <2>1, GrayUntouched, Zenon
<1>2. CASE Sweep(w)
  <2>1. main_pc = "sweep"
    <3>1. wpc[w] = "sweep" /\ phase[w] = "SWEEP"
      BY <1>2, Zenon DEF Sweep, ControlInv, Places
    <3> QED
      BY <3>1, BusyWorker, Zenon
  <2>2. \A u \in Units : life[u] # "SELF_MARKED"
    BY <2>1, NoGrayInSweep, Zenon
  <2>3. \A u \in Units : life'[u] # "SELF_MARKED"
    BY <1>2, <2>2, Zenon DEF Sweep
  <2>4. \A k, x, i, u : Holds(k, x, i, u)' <=> Holds(k, x, i, u)
    BY <1>2, SameHolders, Zenon DEF Sweep, callVars
  <2> QED
    BY <2>2, <2>3, <2>4, GraySame, Zenon
<1>3. CASE PopLocal(w)
  BY <1>t, <1>3, GrayPopLocal, Zenon
<1>4. ASSUME NEW c \in Units, ScanChild(w, c) PROVE GrayInv'
  BY <1>t, <1>4, GrayScanChild
<1>5. CASE ScanDone(w)
  BY <1>t, <1>5, GrayScanDone, Zenon
<1>6. CASE DrainTake(w)
  BY <1>t, <1>6, GrayDrainTake, Zenon
<1> QED
  BY <1>1, <1>2, <1>3, <1>4, <1>5, <1>6, Zenon DEF WorkerStep

\* A thread takes up the unit it has just shaded.
LEMMA CallTakesUp ==
    ASSUME UnitTypes, NEW t \in Threads, NEW v \in Units, mpc[t] \notin Carrying,
           mpc'[t] \in Carrying, munit'[t] = v,
           \A s \in Threads \ {t} : mpc'[s] = mpc[s] /\ munit'[s] = munit[s],
           UNCHANGED <<scanning, local_work, queue>>
    PROVE  TakesUp("call", t, 0, v)
<1>1. \A k \in {"scanning", "local_work", "queue"} : \A x, i, u :
          Holds(k, x, i, u)' <=> Holds(k, x, i, u)
  BY HoldsScanning, HoldsLocal, HoldsQueue
<1>2. \A x, i, u : Holds("call", x, i, u)' <=>
          Holds("call", x, i, u) \/ (x = t /\ i = 0 /\ u = v)
  BY HoldsCall
<1> QED
  BY <1>1, <1>2, TakesUpByKind DEF Kinds

\* A thread puts down the unit of its call.
CallLetsGo(t) ==
    \A x, i, u : Holds("call", x, i, u)' <=> Holds("call", x, i, u) /\ ~(x = t /\ i = 0)

LEMMA CallPutsDown ==
    ASSUME NEW t \in Threads, mpc'[t] \notin Carrying,
           \A s \in Threads \ {t} : mpc'[s] = mpc[s] /\ munit'[s] = munit[s]
    PROVE  CallLetsGo(t)
  BY HoldsCall, Zenon DEF CallLetsGo

\* try_enqueue claims a place for the unit.
LEMMA GrayEnqueue ==
    ASSUME UnitTypes, Callers, GrayInv, NEW t \in Threads, MarkEnqueue(t)
    PROVE  GrayInv'
<1>1. /\ UNCHANGED <<life, scanning, local_work, munit, mworker>> /\ mpc[t] = "enqueue"
      /\ mworker[t] \in Workers /\ munit[t] \in Units
      /\ \A s \in Threads \ {t} : mpc'[s] = mpc[s] /\ munit'[s] = munit[s]
  BY Zenon DEF MarkEnqueue, workerVars, UnitTypes, Callers
<1>2. mpc[t] \in Carrying
  BY <1>1, Zenon DEF Carrying
<1>3. CASE ~HasRoom(queue[mworker[t]], Capacity)
  <2>1. mpc'[t] = "full" /\ queue' = queue
    BY <1>3, Zenon DEF MarkEnqueue, UnitTypes
  <2>2. mpc'[t] \in Carrying
    BY <2>1, Zenon DEF Carrying
  <2> QED
    BY <1>1, <1>2, <2>1, <2>2, GrayCallOnly, Zenon
<1>4. CASE HasRoom(queue[mworker[t]], Capacity)
  <2>v. PICK v \in Units : v = munit[t]
    BY <1>1, Zenon
  <2>w. PICK w \in Workers : w = mworker[t]
    BY <1>1, Zenon
  <2> DEFINE q == queue[w]
  <2>n. PICK n : n = Len(q) + 1
    BY Zenon
  <2>1. /\ queue' = [queue EXCEPT ![w] = Append(q, Entry(t, v))]
        /\ mpc'[t] = "publish"
    BY <1>4, <2>v, <2>w, Zenon DEF MarkEnqueue, Claimed, UnitTypes
  <2>2. mpc'[t] \notin Carrying
    BY <2>1, Zenon DEF Carrying
  <2>3. \A x, i : \A u \in Units : Holds("call", x, i, u)' <=>
            Holds("call", x, i, u) /\ ~(x = t /\ i = 0)
    <3>1. CallLetsGo(t)
      BY <1>1, <2>2, CallPutsDown, Zenon
    <3> QED
      BY <3>1, Zenon DEF CallLetsGo
  <2>4. Holds("call", t, 0, v)
    BY <1>2, <2>v, HoldsCall, Zenon
  <2>5. q \in Seq([unit : Units, by : Threads, ready : BOOLEAN])
    BY Zenon DEF UnitTypes
  <2>6. /\ Len(q) \in Nat /\ DOMAIN q = 1 .. Len(q)
        /\ DOMAIN Append(q, Entry(t, v)) = 1 .. Len(q) + 1
        /\ \A j \in 1 .. Len(q) : Append(q, Entry(t, v))[j] = q[j]
        /\ Append(q, Entry(t, v))[Len(q) + 1] = Entry(t, v)
    BY <2>5
  <2>7. Entry(t, v).unit = v
    BY Zenon DEF Entry
  <2>8. ASSUME NEW x, NEW i, NEW u \in Units
        PROVE  Holds("queue", x, i, u)' <=> Holds("queue", x, i, u) \/ (x = w /\ i = n /\ u = v)
    <3>1. CASE x = w
      <4>1. queue'[w] = Append(q, Entry(t, v))
        BY <2>1, Zenon DEF UnitTypes
      <4>2. Holds("queue", w, i, u)' <=> i \in DOMAIN queue'[w] /\ queue'[w][i].unit = u
        BY HoldsQueue, Zenon
      <4>3. Holds("queue", w, i, u) <=> i \in DOMAIN q /\ q[i].unit = u
        BY HoldsQueue, Zenon
      <4> HIDE DEF q
      <4> QED
        BY <2>n, <2>6, <2>7, <3>1, <4>1, <4>2, <4>3
    <3>2. CASE x # w
      BY <2>1, <3>2, HoldsQueue, Zenon DEF UnitTypes
    <3> QED
      BY <3>1, <3>2, Zenon
  <2>9. \A k \in {"scanning", "local_work"} : \A x, i, u :
            Holds(k, x, i, u)' <=> Holds(k, x, i, u)
    BY <1>1, HoldsScanning, HoldsLocal
  <2>10. Moves("call", t, 0, "queue", w, n, v)
    BY <2>3, <2>8, <2>9, MovesByKind, Zenon DEF Kinds
  <2> QED
    BY <1>1, <2>4, <2>10, GrayMoves, Zenon
<1> QED
  BY <1>3, <1>4, Zenon

\* Publishing an entry changes no unit.
LEMMA GrayPublish ==
    ASSUME UnitTypes, GrayInv, NEW t \in Threads, MarkPublish(t)
    PROVE  GrayInv'
<1>w. PICK w \in Workers : w = mworker[t]
  BY Zenon DEF UnitTypes
<1> DEFINE q == queue[w]
<1>1. /\ UNCHANGED <<life, scanning, local_work>>
      /\ queue' = [queue EXCEPT ![w] = Published(q, t)]
      /\ mpc[t] = "publish" /\ mpc'[t] = "run"
      /\ \A s \in Threads \ {t} : mpc'[s] = mpc[s] /\ munit'[s] = munit[s]
  BY <1>w, Zenon DEF MarkPublish, Return, workerVars, UnitTypes
<1>2. q \in Seq([unit : Units, by : Threads, ready : BOOLEAN])
  BY Zenon DEF UnitTypes
<1>3. \A i \in DOMAIN q : q[i] \in [unit : Units, by : Threads, ready : BOOLEAN]
  <2>1. DOMAIN q = 1 .. Len(q)
    BY <1>2
  <2> QED
    BY <1>2, <2>1, SeqElement, Zenon
<1>4. /\ DOMAIN Published(q, t) = DOMAIN q
      /\ \A i \in DOMAIN q : Published(q, t)[i].unit = q[i].unit
  <2> HIDE DEF q
  <2> QED
    BY <1>3, Zenon DEF Published
<1>5. ASSUME NEW x, NEW i, NEW u PROVE Holds("queue", x, i, u)' <=> Holds("queue", x, i, u)
  <2>1. CASE x = w
    <3>1. queue'[w] = Published(q, t)
      BY <1>1, Zenon DEF UnitTypes
    <3>2. Holds("queue", w, i, u)' <=> i \in DOMAIN queue'[w] /\ queue'[w][i].unit = u
      BY HoldsQueue, Zenon
    <3>3. Holds("queue", w, i, u) <=> i \in DOMAIN q /\ q[i].unit = u
      BY HoldsQueue, Zenon
    <3> QED
      BY <1>4, <2>1, <3>1, <3>2, <3>3, Zenon
  <2>2. CASE x # w
    BY <1>1, <2>2, HoldsQueue, Zenon DEF UnitTypes
  <2> QED
    BY <2>1, <2>2, Zenon
<1>6. mpc[t] \notin Carrying /\ mpc'[t] \notin Carrying
  BY <1>1, Zenon DEF Carrying
<1>7. \A k \in {"scanning", "local_work", "call"} : \A x, i, u :
          Holds(k, x, i, u)' <=> Holds(k, x, i, u)
  BY <1>1, <1>6, HoldsScanning, HoldsLocal, HoldsCall
<1>8. ASSUME NEW k, NEW x, NEW i, NEW u PROVE Holds(k, x, i, u)' <=> Holds(k, x, i, u)
  <2>1. CASE k = "queue"
    BY <1>5, <2>1, Zenon
  <2>2. CASE k \in {"scanning", "local_work", "call"}
    BY <1>7, <2>2, Zenon
  <2>3. CASE k \notin Kinds
    BY <2>3, HoldsByKind, HoldsByKindNext, Zenon
  <2> QED
    BY <2>1, <2>2, <2>3, Zenon DEF Kinds
<1> QED
  BY <1>1, <1>8, GraySame, Zenon

\* The unit goes from the call into m_local_work.
LEMMA GrayPush ==
    ASSUME UnitTypes, Callers, GrayInv, NEW t \in Threads, MarkPush(t)
    PROVE  GrayInv'
<1>1. mpc[t] = "push" /\ munit[t] \in Units /\ mworker[t] \in Workers
  BY Zenon DEF MarkPush, UnitTypes, Callers
<1>v. PICK v \in Units : v = munit[t]
  BY <1>1, Zenon
<1>w. PICK w \in Workers : w = mworker[t]
  BY <1>1, Zenon
<1>n. PICK n : n = Len(local_work[w]) + 1
  BY Zenon
<1>2. /\ UNCHANGED <<life, scanning, queue>> /\ mpc'[t] = "run"
      /\ local_work' = [local_work EXCEPT ![w] = Append(local_work[w], v)]
      /\ \A s \in Threads \ {t} : mpc'[s] = mpc[s] /\ munit'[s] = munit[s]
  BY <1>v, <1>w, Zenon DEF MarkPush, Return, workerVars, UnitTypes
<1>3. mpc[t] \in Carrying /\ mpc'[t] \notin Carrying
  BY <1>1, <1>2, Zenon DEF Carrying
<1>4. \A x, i : \A u \in Units : Holds("call", x, i, u)' <=>
          Holds("call", x, i, u) /\ ~(x = t /\ i = 0)
  <2>1. CallLetsGo(t)
    BY <1>2, <1>3, CallPutsDown, Zenon
  <2> QED
    BY <2>1, Zenon DEF CallLetsGo
<1>5. \A x, i : \A u \in Units : Holds("local_work", x, i, u)' <=>
          Holds("local_work", x, i, u) \/ (x = w /\ i = n /\ u = v)
  <2>1. LocalTakesUp(w, n, v)
    BY <1>2, <1>n, LocalAppend, Zenon
  <2> QED
    BY <2>1, Zenon DEF LocalTakesUp
<1>6. Holds("call", t, 0, v)
  BY <1>3, <1>v, HoldsCall, Zenon
<1>7. \A k \in {"scanning", "queue"} : \A x, i, u : Holds(k, x, i, u)' <=> Holds(k, x, i, u)
  BY <1>2, HoldsScanning, HoldsQueue
<1>8. Moves("call", t, 0, "local_work", w, n, v)
  BY <1>4, <1>5, <1>7, MovesByKind, Zenon DEF Kinds
<1> QED
  BY <1>2, <1>6, <1>8, GrayMoves, Zenon

\* The CAS of mark_unit_to_gray and of mark_root_unit_to_gray.
LEMMA GrayShade ==
    ASSUME UnitTypes, Callers, GrayInv, NEW t \in Threads, MarkShade(t) \/ RootShade(t)
    PROVE  GrayInv'
<1>1. /\ mpc[t] \in {"shade", "root_shade"} /\ UNCHANGED <<scanning, local_work, queue>>
      /\ munit[t] \in Units
      /\ \A s \in Threads \ {t} : mpc'[s] = mpc[s] /\ munit'[s] = munit[s]
  BY Zenon DEF MarkShade, RootShade, Return, workerVars, UnitTypes, Callers
<1>v. PICK v \in Units : v = munit[t]
  BY <1>1, Zenon
<1>2. mpc[t] \notin Carrying
  BY <1>1, Zenon DEF Carrying
<1>3. CASE life[v] = "UNMARKED"
  <2>1. /\ life' = [life EXCEPT ![v] = "SELF_MARKED"]
        /\ mpc'[t] \in {"enqueue", "root_lock"} /\ munit' = munit
    BY <1>3, <1>v, Zenon DEF MarkShade, RootShade, UnitTypes
  <2>2. mpc'[t] \in Carrying
    BY <2>1, Zenon DEF Carrying
  <2>3. TakesUp("call", t, 0, v)
    BY <1>1, <1>2, <1>v, <2>1, <2>2, CallTakesUp, Zenon
  <2> QED
    BY <1>3, <2>1, <2>3, GrayBegins, Zenon DEF UnitTypes
<1>4. CASE life[v] # "UNMARKED"
  <2>1. mpc'[t] = "run" /\ life' = life
    BY <1>4, <1>v, Zenon DEF MarkShade, RootShade, Return, UnitTypes
  <2>2. mpc'[t] \notin Carrying
    BY <2>1, Zenon DEF Carrying
  <2> QED
    BY <1>1, <1>2, <2>1, <2>2, GrayCallOnly, Zenon
<1> QED
  BY <1>3, <1>4, Zenon

\* The steps of a marking call keep GrayInv.
LEMMA GrayCall ==
    ASSUME ControlInv, GrayInv, NEW t \in Threads,
           CallStep(t) \/ (\E u \in Units : MarkCall(t, u) \/ RootCall(t, u))
    PROVE  GrayInv'
<1>t. UnitTypes /\ Callers
  BY Zenon DEF ControlInv, TypeOK, UnitTypes
<1>1. ASSUME NEW u \in Units, MarkCall(t, u) \/ RootCall(t, u) PROVE GrayInv'
  <2>1. /\ UNCHANGED <<life, scanning, local_work, queue>>
        /\ mpc[t] = "run" /\ mpc'[t] \in {"shade", "root_shade"}
        /\ \A s \in Threads \ {t} : mpc'[s] = mpc[s] /\ munit'[s] = munit[s]
    BY <1>t, <1>1, Zenon DEF MarkCall, RootCall, Call, workerVars, UnitTypes
  <2>2. mpc[t] \notin Carrying /\ mpc'[t] \notin Carrying
    BY <2>1, Zenon DEF Carrying
  <2> QED
    BY <2>1, <2>2, GrayCallOnly, Zenon
<1>2. CASE RootLock(t) \/ MarkFull(t) \/ MarkLock(t) \/ MarkRecheck(t)
  <2>1. /\ UNCHANGED <<life, scanning, local_work, queue, munit>>
        /\ mpc[t] \in {"root_lock", "full", "lock", "locked"}
        /\ mpc'[t] \in {"push", "enqueue", "lock", "locked"}
        /\ \A s \in Threads \ {t} : mpc'[s] = mpc[s] /\ munit'[s] = munit[s]
    BY <1>t, <1>2, Zenon DEF RootLock, MarkFull, MarkLock, MarkRecheck, workerVars, UnitTypes
  <2>2. mpc[t] \in Carrying /\ mpc'[t] \in Carrying
    BY <2>1, Zenon DEF Carrying
  <2> QED
    BY <2>1, <2>2, GrayCallOnly, Zenon
<1>3. CASE MarkShade(t) \/ RootShade(t)
  BY <1>t, <1>3, GrayShade, Zenon
<1>4. CASE MarkEnqueue(t)
  BY <1>t, <1>4, GrayEnqueue, Zenon
<1>5. CASE MarkPublish(t)
  BY <1>t, <1>5, GrayPublish
<1>6. CASE MarkPush(t)
  BY <1>t, <1>6, GrayPush, Zenon
<1> QED
  BY <1>1, <1>2, <1>3, <1>4, <1>5, <1>6, Zenon DEF CallStep

\* Every step keeps GrayInv.
LEMMA GrayNext ==
    ASSUME ControlInv, GrayInv, DrainedInv, [Next]_vars
    PROVE  GrayInv'
<1>1. ASSUME NEW m \in Mutators, Acknowledge(m) PROVE GrayInv'
  BY <1>1, GrayUntouched, Zenon DEF Acknowledge, workerVars, callVars
<1>2. CASE UNCHANGED vars
  BY <1>2, GrayUntouched, Zenon DEF vars
<1> QED
  BY <1>1, <1>2, GrayMain, GrayWorker, GrayCall, Zenon DEF Next

-----------------------------------------------------------------------------
(* Marks *)

\* Marks are made by three CAS and the end of a scan, and taken back by Sweep.
LEMMA LifeSteps ==
    ASSUME ControlInv, [Next]_vars
    PROVE  \/ UNCHANGED life
           \/ \E v \in Units, colour \in {"SELF_MARKED", "FULL_MARKED"} :
                  life' = [life EXCEPT ![v] = colour]
           \/ \E w \in Workers : Sweep(w)
<1>t. UnitTypes /\ Places /\ Callers
  BY Zenon DEF ControlInv, TypeOK, UnitTypes
<1>1. CASE StartRound \/ MainStep
  BY <1>1, Zenon DEF MainStep, StartRound, BeginCallbackDone, RootLoop, LaunchParallelMark,
         StopMarking, LaunchFinalMark, LaunchSweep, EndRound
<1>2. ASSUME NEW w \in Workers, WorkerStep(w)
      PROVE  \/ UNCHANGED life
             \/ \E v \in Units, colour \in {"SELF_MARKED", "FULL_MARKED"} :
                    life' = [life EXCEPT ![v] = colour]
             \/ Sweep(w)
  <2>1. CASE WorkerLaunch(w) \/ EnterDraining(w) \/ PopLocal(w) \/ StartDrain(w)
             \/ DrainTake(w) \/ DrainEnd(w) \/ LeaveDraining(w) \/ WorkerDone(w)
    BY <2>1, Zenon DEF WorkerLaunch, EnterDraining, PopLocal, StartDrain, DrainTake, DrainEnd,
           LeaveDraining, WorkerDone
  <2>2. ASSUME NEW c \in Units, ScanChild(w, c)
        PROVE  UNCHANGED life \/ life' = [life EXCEPT ![c] = "SELF_MARKED"]
    BY <2>2, Zenon DEF ScanChild
  <2>3. CASE ScanDone(w)
    <3>1. life' = [life EXCEPT ![scanning[w]] = "FULL_MARKED"] /\ scanning[w] \in Units
      BY <1>t, <2>3, Zenon DEF ScanDone, Places, UnitTypes
    <3> QED
      BY <3>1, Zenon
  <2> QED
    BY <1>2, <2>1, <2>2, <2>3, Zenon DEF WorkerStep
<1>3. ASSUME NEW t \in Threads,
             CallStep(t) \/ (\E u \in Units : MarkCall(t, u) \/ RootCall(t, u))
      PROVE  \/ UNCHANGED life
             \/ \E v \in Units, colour \in {"SELF_MARKED", "FULL_MARKED"} :
                    life' = [life EXCEPT ![v] = colour]
  <2>1. CASE MarkShade(t) \/ RootShade(t)
    <3>1. munit[t] \in Units
      BY <1>t, <2>1, Zenon DEF MarkShade, RootShade, Callers
    <3>2. UNCHANGED life \/ life' = [life EXCEPT ![munit[t]] = "SELF_MARKED"]
      BY <2>1, Zenon DEF MarkShade, RootShade
    <3> QED
      BY <3>1, <3>2, Zenon
  <2>2. CASE ~(MarkShade(t) \/ RootShade(t))
    BY <1>3, <2>2, Zenon DEF CallStep, MarkCall, RootCall, RootLock, MarkEnqueue, MarkPublish,
           MarkFull, MarkLock, MarkRecheck, MarkPush
  <2> QED
    BY <2>1, <2>2, Zenon
<1>4. ASSUME NEW m \in Mutators, Acknowledge(m) PROVE UNCHANGED life
  BY <1>4, Zenon DEF Acknowledge
<1>5. CASE UNCHANGED vars
  BY <1>5, Zenon DEF vars
<1> QED
  BY <1>1, <1>2, <1>3, <1>4, <1>5, Zenon DEF Next

\* A sweeping worker sweeps while the main thread waits for the sweep.
LEMMA SweepInSweep ==
    ASSUME ControlInv, NEW w \in Workers, wpc[w] = "sweep"
    PROVE  main_pc = "sweep" /\ phase[w] = "SWEEP"
<1>1. phase[w] = "SWEEP"
  BY Zenon DEF ControlInv, Places
<1> QED
  BY <1>1, BusyWorker, Zenon

\* Outside the sweep marks stay.
LEMMA MarksStay ==
    ASSUME ControlInv, [Next]_vars, main_pc # "sweep"
    PROVE  \A u \in Units : Marked(u) => Marked(u)'
<1>1. \A w \in Workers : ~Sweep(w)
  BY SweepInSweep, Zenon DEF Sweep
<1>2. life \in [Units -> {"UNMARKED", "SELF_MARKED", "FULL_MARKED"}]
  BY Zenon DEF ControlInv, TypeOK
<1>3. CASE UNCHANGED life
  BY <1>3, Zenon DEF Marked
<1>4. ASSUME NEW v \in Units, NEW colour \in {"SELF_MARKED", "FULL_MARKED"},
             life' = [life EXCEPT ![v] = colour]
      PROVE  \A u \in Units : Marked(u) => Marked(u)'
  BY <1>2, <1>4, Zenon DEF Marked
<1> QED
  BY <1>1, <1>3, <1>4, LifeSteps, Zenon

-----------------------------------------------------------------------------
(* The queues are empty when sweeping begins *)

\* Nobody marks when FINAL_MARK or SWEEP runs.
LEMMA NoCallsLate ==
    ASSUME ControlInv, main_pc \in {"final", "sweep"}, NEW t \in Threads
    PROVE  mpc[t] = "run" /\ ~CallStep(t) /\ ~\E u \in Units : MarkCall(t, u) \/ RootCall(t, u)
<1>1. mpc[t] = "run"
  BY Zenon DEF ControlInv, Callers
<1>2. ~CallStep(t)
  BY <1>1, Zenon DEF CallStep, RootShade, RootLock, MarkShade, MarkEnqueue, MarkPublish, MarkFull,
         MarkLock, MarkRecheck, MarkPush
<1>3. ~flag
  BY Zenon DEF ControlInv, Callers
<1>4. ~\E u \in Units : MarkCall(t, u) \/ RootCall(t, u)
  BY <1>3, Zenon DEF MarkCall, RootCall, MayMark, MayMarkRoot
<1> QED
  BY <1>1, <1>2, <1>4, Zenon

\* The entries of a queue.
LEMMA QueueEntries ==
    ASSUME UnitTypes, NEW w \in Workers
    PROVE  /\ queue[w] \in Seq([unit : Units, by : Threads, ready : BOOLEAN])
           /\ Len(queue[w]) \in Nat /\ DOMAIN queue[w] = 1 .. Len(queue[w])
           /\ \A i \in DOMAIN queue[w] :
                  queue[w][i] \in [unit : Units, by : Threads, ready : BOOLEAN]
<1>1. queue[w] \in Seq([unit : Units, by : Threads, ready : BOOLEAN])
  BY Zenon DEF UnitTypes
<1> DEFINE q == queue[w]
           Entries == [unit : Units, by : Threads, ready : BOOLEAN]
<1> HIDE DEF q, Entries
<1>2. Len(queue[w]) \in Nat /\ DOMAIN queue[w] = 1 .. Len(queue[w])
  <2>1. q \in Seq(Entries)
    BY <1>1, Zenon DEF q, Entries
  <2>2. Len(q) \in Nat /\ DOMAIN q = 1 .. Len(q)
    BY <2>1
  <2> QED
    BY <2>2, Zenon DEF q
<1> QED
  BY <1>1, <1>2, SeqElement, Zenon

\* A step that leaves the queues alone, and does not disturb a thread that is
\* about to publish, keeps PublishInv.
LEMMA PublishKept ==
    ASSUME UnitTypes, PublishInv, UNCHANGED queue,
           \A t \in Threads : mpc[t] = "publish" => mpc'[t] = "publish" /\ mworker'[t] = mworker[t]
    PROVE  PublishInv'
<1>1. \A w \in Workers : \A i \in DOMAIN queue[w] : queue[w][i].by \in Threads
  BY QueueEntries, Zenon
<1> QED
  BY <1>1, Zenon DEF PublishInv

\* What Append adds to a sequence.
LEMMA Appended ==
    ASSUME NEW S, NEW q \in Seq(S), NEW e
    PROVE  /\ DOMAIN q = 1 .. Len(q) /\ Len(q) \in Nat
           /\ DOMAIN Append(q, e) = 1 .. Len(q) + 1
           /\ \A j \in 1 .. Len(q) : Append(q, e)[j] = q[j]
           /\ Append(q, e)[Len(q) + 1] = e
  OBVIOUS

\* The step of try_enqueue keeps PublishInv.
LEMMA PublishEnqueue ==
    ASSUME UnitTypes, PublishInv, NEW t \in Threads, MarkEnqueue(t)
    PROVE  PublishInv'
<1>1. /\ mpc[t] = "enqueue" /\ UNCHANGED mworker
      /\ \A s \in Threads \ {t} : mpc'[s] = mpc[s]
  BY Zenon DEF MarkEnqueue, UnitTypes
<1>2. CASE ~HasRoom(queue[mworker[t]], Capacity)
  BY <1>1, <1>2, PublishKept, Zenon DEF MarkEnqueue
<1>3. CASE HasRoom(queue[mworker[t]], Capacity)
  <2>w. PICK w \in Workers : w = mworker[t]
    BY Zenon DEF UnitTypes
  <2> DEFINE q == queue[w]
             e == Entry(t, munit[t])
  <2>1. /\ queue' = [queue EXCEPT ![w] = Append(q, e)]
        /\ mpc'[t] = "publish"
    BY <1>3, <2>w, Zenon DEF MarkEnqueue, Claimed, UnitTypes
  <2>2. e.by = t
    BY Zenon DEF Entry
  <2>3. /\ DOMAIN q = 1 .. Len(q) /\ Len(q) \in Nat
        /\ DOMAIN Append(q, e) = 1 .. Len(q) + 1
        /\ \A j \in 1 .. Len(q) : Append(q, e)[j] = q[j]
        /\ Append(q, e)[Len(q) + 1] = e
    BY QueueEntries, Appended, Zenon
  <2>4. queue'[w] = Append(q, e) /\ \A x \in Workers \ {w} : queue'[x] = queue[x]
    BY <2>1, Zenon DEF UnitTypes
  <2>5. ASSUME NEW x \in Workers, NEW i \in DOMAIN queue[x], ~queue[x][i].ready
        PROVE  mpc'[queue[x][i].by] = "publish" /\ mworker'[queue[x][i].by] = x
    <3>1. mpc[queue[x][i].by] = "publish" /\ mworker[queue[x][i].by] = x
      BY <2>5, Zenon DEF PublishInv
    <3>2. queue[x][i].by \in Threads
      BY QueueEntries, Zenon
    <3> QED
      BY <1>1, <3>1, <3>2, Zenon
  <2> SUFFICES ASSUME NEW x \in Workers, NEW i \in DOMAIN queue'[x], ~queue'[x][i].ready
               PROVE  mpc'[queue'[x][i].by] = "publish" /\ mworker'[queue'[x][i].by] = x
    BY Zenon DEF PublishInv
  <2>6. CASE x # w
    BY <2>4, <2>5, <2>6
  <2>7. CASE x = w /\ i \in 1 .. Len(q)
    <3>1. queue'[x][i] = queue[x][i] /\ i \in DOMAIN queue[x]
      BY <2>3, <2>4, <2>7, Zenon
    <3> QED
      BY <2>5, <3>1
  <2>8. CASE x = w /\ i = Len(q) + 1
    <3>1. queue'[x][i] = e
      BY <2>3, <2>4, <2>8, Zenon
    <3> QED
      BY <1>1, <2>1, <2>2, <2>8, <2>w, <3>1, Zenon
  <2>9. x = w => i \in 1 .. Len(q) \/ i = Len(q) + 1
    BY <2>3, <2>4
  <2> QED
    BY <2>6, <2>7, <2>8, <2>9, Zenon
<1> QED
  BY <1>2, <1>3, Zenon

\* Publishing an entry keeps PublishInv.
LEMMA PublishPublish ==
    ASSUME UnitTypes, PublishInv, NEW t \in Threads, MarkPublish(t)
    PROVE  PublishInv'
<1>w. PICK w \in Workers : w = mworker[t]
  BY Zenon DEF UnitTypes
<1> DEFINE q == queue[w]
<1>1. /\ queue' = [queue EXCEPT ![w] = Published(q, t)]
      /\ \A s \in Threads \ {t} : mpc'[s] = mpc[s] /\ mworker'[s] = mworker[s]
  BY <1>w, Zenon DEF MarkPublish, Return, UnitTypes
<1>2. queue'[w] = Published(q, t) /\ \A x \in Workers \ {w} : queue'[x] = queue[x]
  BY <1>1, Zenon DEF UnitTypes
<1>3. /\ DOMAIN Published(q, t) = DOMAIN q
      /\ \A i \in DOMAIN q : IF q[i].by = t THEN Published(q, t)[i].ready
                                            ELSE Published(q, t)[i] = q[i]
  <2>1. \A i \in DOMAIN q : q[i] \in [unit : Units, by : Threads, ready : BOOLEAN]
    BY QueueEntries, Zenon
  <2> HIDE DEF q
  <2> QED
    BY <2>1, Zenon DEF Published
<1> SUFFICES ASSUME NEW x \in Workers, NEW i \in DOMAIN queue'[x], ~queue'[x][i].ready
             PROVE  mpc'[queue'[x][i].by] = "publish" /\ mworker'[queue'[x][i].by] = x
  BY Zenon DEF PublishInv
<1>4. i \in DOMAIN queue[x] /\ queue'[x][i] = queue[x][i] /\ ~queue[x][i].ready
  <2>1. CASE x = w
    BY <1>2, <1>3, <2>1, Zenon
  <2>2. CASE x # w
    BY <1>2, <2>2, Zenon
  <2> QED
    BY <2>1, <2>2, Zenon
<1>5. mpc[queue[x][i].by] = "publish" /\ mworker[queue[x][i].by] = x
  BY <1>4, Zenon DEF PublishInv
<1>6. queue[x][i].by \in Threads /\ queue[x][i].by # t
  <2>1. queue[x][i].by \in Threads
    BY <1>4, QueueEntries, Zenon
  <2>2. CASE x = w
    BY <1>2, <1>3, <1>4, <2>1, <2>2, Zenon
  <2>3. CASE x # w
    BY <1>5, <1>w, <2>1, <2>3, Zenon
  <2> QED
    BY <2>1, <2>2, <2>3, Zenon
<1> QED
  BY <1>1, <1>4, <1>5, <1>6, Zenon

\* Taking the first entry keeps PublishInv.
LEMMA PublishDrain ==
    ASSUME UnitTypes, PublishInv, NEW w \in Workers, DrainTake(w)
    PROVE  PublishInv'
<1> DEFINE q == queue[w]
<1>1. UNCHANGED <<mpc, mworker>> /\ queue' = [queue EXCEPT ![w] = Tail(q)] /\ q # << >>
  BY Zenon DEF DrainTake, MoreToDrain, HeadReady, callVars
<1>2. queue'[w] = Tail(q) /\ \A x \in Workers \ {w} : queue'[x] = queue[x]
  BY <1>1, Zenon DEF UnitTypes
<1>3. /\ Len(q) \in Nat \ {0} /\ DOMAIN q = 1 .. Len(q)
      /\ DOMAIN Tail(q) = 1 .. Len(q) - 1
      /\ \A i \in 1 .. Len(q) - 1 : Tail(q)[i] = q[i + 1]
  BY <1>1, QueueEntries
<1> SUFFICES ASSUME NEW x \in Workers, NEW i \in DOMAIN queue'[x], ~queue'[x][i].ready
             PROVE  mpc[queue'[x][i].by] = "publish" /\ mworker[queue'[x][i].by] = x
  BY <1>1, Zenon DEF PublishInv
<1>4. CASE x = w
  <2>1. i + 1 \in DOMAIN q /\ queue'[x][i] = q[i + 1]
    <3>1. i \in 1 .. Len(q) - 1 /\ queue'[x][i] = Tail(q)[i]
      BY <1>2, <1>3, <1>4, Zenon
    <3>2. i + 1 \in 1 .. Len(q)
      BY <1>3, <3>1
    <3> QED
      BY <1>3, <3>1, <3>2, Zenon
  <2>2. ~q[i + 1].ready
    BY <2>1, Zenon
  <2>3. mpc[q[i + 1].by] = "publish" /\ mworker[q[i + 1].by] = w
    BY <2>1, <2>2, Zenon DEF PublishInv
  <2> QED
    BY <1>4, <2>1, <2>3, Zenon
<1>5. CASE x # w
  BY <1>2, <1>5 DEF PublishInv
<1> QED
  BY <1>4, <1>5, Zenon

\* Every step keeps PublishInv.
LEMMA PublishNext ==
    ASSUME ControlInv, PublishInv, [Next]_vars
    PROVE  PublishInv'
<1>t. UnitTypes
  BY Zenon DEF ControlInv, TypeOK, UnitTypes
<1>0. ASSUME UNCHANGED <<queue, mpc, mworker>> PROVE PublishInv'
  BY <1>t, <1>0, PublishKept, Zenon
<1>1. CASE StartRound \/ MainStep
  <2>1. ASSUME NEW u \in Units, RootLoop(u) PROVE PublishInv'
    <3>1. /\ UNCHANGED queue /\ mpc[Main] = "run"
          /\ \A s \in Threads \ {Main} : mpc'[s] = mpc[s] /\ mworker'[s] = mworker[s]
      BY <1>t, <2>1, Zenon DEF RootLoop, Call, UnitTypes
    <3> QED
      BY <1>t, <3>1, PublishKept, Zenon
  <2>2. CASE ~\E u \in Units : RootLoop(u)
    <3>1. UNCHANGED <<queue, mpc, mworker>>
      BY <1>1, <2>2, Zenon DEF MainStep, StartRound, BeginCallbackDone, LaunchParallelMark,
             StopMarking, LaunchFinalMark, LaunchSweep, EndRound, callVars
    <3> QED
      BY <1>0, <3>1, Zenon
  <2> QED
    BY <2>1, <2>2, Zenon
<1>2. ASSUME NEW w \in Workers, WorkerStep(w) PROVE PublishInv'
  <2>1. CASE DrainTake(w)
    BY <1>t, <2>1, PublishDrain, Zenon
  <2>2. CASE ~DrainTake(w)
    <3>1. UNCHANGED <<queue, mpc, mworker>>
      BY <1>2, <2>2, Zenon DEF WorkerStep, WorkerLaunch, EnterDraining, PopLocal, ScanChild,
             ScanDone, StartDrain, DrainEnd, LeaveDraining, Sweep, WorkerDone, callVars
    <3> QED
      BY <1>0, <3>1, Zenon
  <2> QED
    BY <2>1, <2>2, Zenon
<1>3. ASSUME NEW t \in Threads,
             CallStep(t) \/ (\E u \in Units : MarkCall(t, u) \/ RootCall(t, u))
      PROVE  PublishInv'
  <2>1. CASE MarkEnqueue(t)
    BY <1>t, <2>1, PublishEnqueue, Zenon
  <2>2. CASE MarkPublish(t)
    BY <1>t, <2>2, PublishPublish, Zenon
  <2>3. CASE ~(MarkEnqueue(t) \/ MarkPublish(t))
    <3>1. /\ UNCHANGED queue /\ mpc[t] # "publish"
          /\ \A s \in Threads \ {t} : mpc'[s] = mpc[s] /\ mworker'[s] = mworker[s]
      <4>1. CASE \E u \in Units : MarkCall(t, u) \/ RootCall(t, u)
        BY <1>t, <4>1, Zenon DEF MarkCall, RootCall, Call, UnitTypes
      <4>2. CASE RootShade(t)
        BY <1>t, <4>2 DEF RootShade, Return, UnitTypes
      <4>3. CASE RootLock(t)
        BY <1>t, <4>3, Zenon DEF RootLock, Return, UnitTypes
      <4>4. CASE MarkShade(t)
        BY <1>t, <4>4 DEF MarkShade, Return, UnitTypes
      <4>5. CASE MarkFull(t)
        BY <1>t, <4>5, Zenon DEF MarkFull, Return, UnitTypes
      <4>6. CASE MarkLock(t)
        BY <1>t, <4>6, Zenon DEF MarkLock, Return, UnitTypes
      <4>7. CASE MarkRecheck(t)
        BY <1>t, <4>7, Zenon DEF MarkRecheck, Return, UnitTypes
      <4>8. CASE MarkPush(t)
        BY <1>t, <4>8, Zenon DEF MarkPush, Return, UnitTypes
      <4>9. QED
        BY <1>3, <2>3, <4>1, <4>2, <4>3, <4>4, <4>5, <4>6, <4>7, <4>8, Zenon DEF CallStep
    <3> QED
      BY <1>t, <3>1, PublishKept, Zenon
  <2> QED
    BY <2>1, <2>2, <2>3
<1>4. ASSUME NEW m \in Mutators, Acknowledge(m) PROVE PublishInv'
  BY <1>0, <1>4, Zenon DEF Acknowledge, callVars
<1>5. CASE UNCHANGED vars
  BY <1>0, <1>5, Zenon DEF vars
<1> QED
  BY <1>1, <1>2, <1>3, <1>4, <1>5, Zenon DEF Next

\* In FINAL_MARK every entry is published: a worker that finds nothing to drain
\* has drained everything.
LEMMA DrainEndsEmpty ==
    ASSUME ControlInv, PublishInv, main_pc = "final", NEW w \in Workers, DrainEnd(w),
           local_work[w] = << >>
    PROVE  queue[w] = << >>
<1>t. UnitTypes
  BY Zenon DEF ControlInv, TypeOK, UnitTypes
<1>1. Len(local_work[w]) < Capacity
  BY CapacityAssumption
<1>2. ~HeadReady(queue[w])
  BY <1>1, Zenon DEF DrainEnd, MoreToDrain
<1> SUFFICES ASSUME queue[w] # << >> PROVE FALSE
  BY Zenon
<1>3. 1 \in DOMAIN queue[w] /\ Head(queue[w]) = queue[w][1]
  BY <1>t, QueueEntries
<1>4. ~queue[w][1].ready
  BY <1>2, <1>3, Zenon DEF HeadReady
<1>5. mpc[queue[w][1].by] = "publish" /\ queue[w][1].by \in Threads
  BY <1>t, <1>3, <1>4, QueueEntries, Zenon DEF PublishInv
<1> QED
  BY <1>5, NoCallsLate, Zenon

\* A worker in process_gray_units is in a marking phase.
LEMMA WorkingWorker ==
    ASSUME ControlInv, NEW w \in Workers, wpc[w] \in {"loop", "scan", "drain", "leave"}
    PROVE  main_pc # "sweep" /\ phase[w] # "SWEEP"
<1>1. phase[w] # "SWEEP"
  BY Zenon DEF ControlInv, Places, InProcessGrayUnits
<1>2. main_pc = "sweep" => phase[w] = "SWEEP"
  BY BusyWorker, Zenon
<1> QED
  BY <1>1, <1>2, Zenon

\* The steps of a worker keep DrainedInv.
LEMMA DrainedWorker ==
    ASSUME ControlInv, PublishInv, DrainedInv, NEW w \in Workers, WorkerStep(w)
    PROVE  DrainedInv'
<1>t. /\ wpc \in [Workers -> {"wait", "enter", "loop", "scan", "drain", "leave", "sweep", "done"}]
      /\ phase \in [Workers -> {"PARALLEL_MARK", "FINAL_MARK", "SWEEP"}]
      /\ UnitTypes
  BY Zenon DEF ControlInv, TypeOK, UnitTypes
<1>0. UNCHANGED main_pc
  BY Zenon DEF WorkerStep, WorkerLaunch, EnterDraining, PopLocal, ScanChild, ScanDone, StartDrain,
         DrainTake, DrainEnd, LeaveDraining, Sweep, WorkerDone, mainVars
<1>1. \A x \in Workers \ {w} : /\ wpc'[x] = wpc[x] /\ phase'[x] = phase[x]
                               /\ local_work'[x] = local_work[x] /\ queue'[x] = queue[x]
  <2>1. CASE WorkerLaunch(w)
    BY <1>t, <2>1, Zenon DEF WorkerLaunch, workerVars, UnitTypes
  <2>2. CASE EnterDraining(w)
    BY <1>t, <2>2, Zenon DEF EnterDraining, workerVars, UnitTypes
  <2>3. CASE PopLocal(w)
    BY <1>t, <2>3, Zenon DEF PopLocal, workerVars, UnitTypes
  <2>4. CASE \E c \in Units : ScanChild(w, c)
    BY <1>t, <2>4, Zenon DEF ScanChild, workerVars, UnitTypes
  <2>5. CASE ScanDone(w)
    BY <1>t, <2>5, Zenon DEF ScanDone, workerVars, UnitTypes
  <2>6. CASE StartDrain(w)
    BY <1>t, <2>6, Zenon DEF StartDrain, workerVars, UnitTypes
  <2>7. CASE DrainTake(w)
    BY <1>t, <2>7, Zenon DEF DrainTake, workerVars, UnitTypes
  <2>8. CASE DrainEnd(w)
    BY <1>t, <2>8, Zenon DEF DrainEnd, workerVars, UnitTypes
  <2>9. CASE LeaveDraining(w)
    BY <1>t, <2>9, Zenon DEF LeaveDraining, workerVars, UnitTypes
  <2>10. CASE Sweep(w)
    BY <1>t, <2>10, Zenon DEF Sweep, workerVars, UnitTypes
  <2>11. CASE WorkerDone(w)
    BY <1>t, <2>11, Zenon DEF WorkerDone, workerVars, UnitTypes
  <2>12. QED
    BY <2>1, <2>2, <2>3, <2>4, <2>5, <2>6, <2>7, <2>8, <2>9, <2>10, <2>11 DEF WorkerStep
<1> SUFFICES ASSUME \/ main_pc = "final" /\ (phase'[w] = "SWEEP" \/ wpc'[w] \in {"leave", "done"})
                    \/ main_pc = "sweep"
             PROVE  NoWork(w)'
  BY <1>0, <1>1, Zenon DEF DrainedInv, NoWork
<1>2. CASE WorkerLaunch(w) \/ EnterDraining(w) \/ ScanDone(w) \/ StartDrain(w)
  <2>1. /\ UNCHANGED <<local_work, queue, phase>>
        /\ wpc'[w] \in {"enter", "sweep", "loop", "drain"}
    BY <1>2, <1>t, Zenon DEF WorkerLaunch, EnterDraining, ScanDone, StartDrain
  <2> QED
    BY <2>1, Zenon DEF DrainedInv, NoWork
<1>3. CASE PopLocal(w) \/ DrainTake(w) \/ \E c \in Units : ScanChild(w, c)
  <2>1. wpc[w] \in {"loop", "scan", "drain"} /\ wpc'[w] \in {"scan", "drain"} /\ phase' = phase
    BY <1>3, <1>t, Zenon DEF PopLocal, DrainTake, ScanChild, workerVars
  <2> QED
    BY <2>1, WorkingWorker, Zenon
<1>4. CASE DrainEnd(w)
  <2>1. UNCHANGED <<local_work, queue, phase>> /\ wpc[w] = "drain"
    BY <1>4, Zenon DEF DrainEnd
  <2>2. main_pc = "final" /\ wpc'[w] \in {"leave", "done"}
    BY <2>1, WorkingWorker, Zenon
  <2>3. local_work[w] = << >>
    BY <1>4, <1>t, <2>2, Zenon DEF DrainEnd
  <2> QED
    BY <1>4, <2>1, <2>2, <2>3, DrainEndsEmpty, Zenon DEF NoWork
<1>5. CASE LeaveDraining(w) \/ WorkerDone(w) \/ Sweep(w)
  <2>1. UNCHANGED <<local_work, queue>> /\ wpc[w] \in {"leave", "done", "sweep"}
    BY <1>5, Zenon DEF LeaveDraining, WorkerDone, Sweep
  <2>2. wpc[w] = "sweep" => main_pc = "sweep"
    BY SweepInSweep, Zenon
  <2> QED
    BY <2>1, <2>2, Zenon DEF DrainedInv, NoWork
<1> QED
  BY <1>2, <1>3, <1>4, <1>5, Zenon DEF WorkerStep

\* Every step keeps DrainedInv.
LEMMA DrainedNext ==
    ASSUME ControlInv, PublishInv, DrainedInv, [Next]_vars
    PROVE  DrainedInv'
<1>0. ASSUME UNCHANGED <<main_pc, phase, wpc, local_work, queue>> PROVE DrainedInv'
  BY <1>0, Zenon DEF DrainedInv, NoWork
<1>1. CASE StartRound \/ MainStep
  <2>1. CASE LaunchFinalMark
    <3>1. ParkedFor("FINAL_MARK")
      BY <2>1, Zenon DEF LaunchFinalMark, ControlInv, Barrier
    <3> QED
      BY <2>1, <3>1, Zenon DEF LaunchFinalMark, ParkedFor, DrainedInv, workerVars
  <2>2. CASE LaunchSweep
    <3>1. Running("FINAL_MARK") /\ AllWorkersDone /\ main_pc = "final"
      BY <2>2, Zenon DEF LaunchSweep, ControlInv, Barrier
    <3>2. ParkedFor("SWEEP")
      BY <3>1, AllParked, PhaseRing, Zenon
    <3>3. \A w \in Workers : NoWork(w)
      BY <3>1, <3>2, Zenon DEF ParkedFor, DrainedInv
    <3> QED
      BY <2>2, <3>3, Zenon DEF LaunchSweep, DrainedInv, NoWork
  <2>3. CASE StartRound \/ BeginCallbackDone \/ (\E u \in Units : RootLoop(u))
             \/ LaunchParallelMark \/ StopMarking \/ EndRound
    <3>1. main_pc' \notin {"final", "sweep"}
      BY <2>3, Zenon DEF StartRound, BeginCallbackDone, RootLoop, LaunchParallelMark, StopMarking,
             EndRound
    <3> QED
      BY <3>1, Zenon DEF DrainedInv
  <2> QED
    BY <1>1, <2>1, <2>2, <2>3, Zenon DEF MainStep
<1>2. ASSUME NEW w \in Workers, WorkerStep(w) PROVE DrainedInv'
  BY <1>2, DrainedWorker, Zenon
<1>3. ASSUME NEW t \in Threads,
             CallStep(t) \/ (\E u \in Units : MarkCall(t, u) \/ RootCall(t, u))
      PROVE  DrainedInv'
  <2>1. main_pc \notin {"final", "sweep"}
    BY <1>3, NoCallsLate, Zenon
  <2>2. UNCHANGED main_pc
    BY <1>3, Zenon DEF CallStep, MarkCall, RootCall, RootShade, RootLock, MarkShade, MarkEnqueue,
           MarkPublish, MarkFull, MarkLock, MarkRecheck, MarkPush, mainVars
  <2> QED
    BY <2>1, <2>2, Zenon DEF DrainedInv
<1>4. ASSUME NEW m \in Mutators, Acknowledge(m) PROVE DrainedInv'
  BY <1>0, <1>4, Zenon DEF Acknowledge, workerVars
<1>5. CASE UNCHANGED vars
  BY <1>0, <1>5, Zenon DEF vars
<1> QED
  BY <1>1, <1>2, <1>3, <1>4, <1>5, Zenon DEF Next

-----------------------------------------------------------------------------
(* Everything reachable is black when sweeping begins *)

\* When all workers have swept, no unit is marked.
LEMMA SweptClean ==
    ASSUME ControlInv, SweptInv, EndRound
    PROVE  \A u \in Units : ~Marked(u)
<1>1. Running("SWEEP") /\ AllWorkersDone /\ main_pc = "sweep"
  BY Zenon DEF EndRound, ControlInv, Barrier
<1>2. ParkedFor("PARALLEL_MARK")
  BY <1>1, AllParked, PhaseRing, Zenon
<1> QED
  BY <1>1, <1>2, GraphAssumption, Zenon DEF ParkedFor, SweptInv

\* What a step does to the scans under way.
LEMMA ScanSteps ==
    ASSUME ControlInv, [Next]_vars
    PROVE  \/ UNCHANGED <<wpc, scanning, todo>>
           \/ \E w \in Workers :
                /\ \A x \in Workers \ {w} :
                       wpc'[x] = wpc[x] /\ scanning'[x] = scanning[x] /\ todo'[x] = todo[x]
                /\ \/ wpc'[w] # "scan"
                   \/ todo'[w] = Children[scanning'[w]]
                   \/ /\ wpc[w] = "scan" /\ scanning'[w] = scanning[w]
                      /\ \E c \in Units : todo'[w] = todo[w] \ {c} /\ Marked(c)'
<1>t. /\ wpc \in [Workers -> {"wait", "enter", "loop", "scan", "drain", "leave", "sweep", "done"}]
      /\ scanning \in [Workers -> Units \cup {NoUnit}] /\ todo \in [Workers -> SUBSET Units]
      /\ life \in [Units -> {"UNMARKED", "SELF_MARKED", "FULL_MARKED"}]
  BY Zenon DEF ControlInv, TypeOK
<1> USE DEF workerVars
<1>1. CASE StartRound \/ MainStep
  BY <1>1, Zenon DEF MainStep, StartRound, BeginCallbackDone, RootLoop, LaunchParallelMark,
         StopMarking, LaunchFinalMark, LaunchSweep, EndRound
<1>2. ASSUME NEW w \in Workers, WorkerStep(w)
      PROVE  \/ UNCHANGED <<wpc, scanning, todo>>
             \/ /\ \A x \in Workers \ {w} :
                       wpc'[x] = wpc[x] /\ scanning'[x] = scanning[x] /\ todo'[x] = todo[x]
                /\ \/ wpc'[w] # "scan"
                   \/ todo'[w] = Children[scanning'[w]]
                   \/ /\ wpc[w] = "scan" /\ scanning'[w] = scanning[w]
                      /\ \E c \in Units : todo'[w] = todo[w] \ {c} /\ Marked(c)'
  <2>1. CASE DrainTake(w)
    BY <2>1, Zenon DEF DrainTake
  <2>2. CASE WorkerLaunch(w) \/ EnterDraining(w) \/ ScanDone(w) \/ StartDrain(w) \/ DrainEnd(w)
             \/ LeaveDraining(w) \/ Sweep(w) \/ WorkerDone(w)
    BY <1>t, <2>2, Zenon DEF WorkerLaunch, EnterDraining, ScanDone, StartDrain, DrainEnd, LeaveDraining,
           Sweep, WorkerDone
  <2>3. CASE PopLocal(w)
    BY <1>t, <2>3, Zenon DEF PopLocal
  <2>4. ASSUME NEW c \in Units, ScanChild(w, c)
        PROVE  /\ \A x \in Workers \ {w} :
                      wpc'[x] = wpc[x] /\ scanning'[x] = scanning[x] /\ todo'[x] = todo[x]
               /\ wpc[w] = "scan" /\ scanning'[w] = scanning[w]
               /\ todo'[w] = todo[w] \ {c} /\ Marked(c)'
    BY <1>t, <2>4, Zenon DEF ScanChild, Marked
  <2> QED
    BY <1>2, <2>1, <2>2, <2>3, <2>4, Zenon DEF WorkerStep
<1>3. ASSUME NEW t \in Threads,
             CallStep(t) \/ (\E u \in Units : MarkCall(t, u) \/ RootCall(t, u))
      PROVE  UNCHANGED <<wpc, scanning, todo>>
  BY <1>3, Zenon DEF CallStep, MarkCall, RootCall, RootShade, RootLock, MarkShade, MarkEnqueue,
         MarkPublish, MarkFull, MarkLock, MarkRecheck, MarkPush
<1>4. ASSUME NEW m \in Mutators, Acknowledge(m) PROVE UNCHANGED <<wpc, scanning, todo>>
  BY <1>4, Zenon DEF Acknowledge
<1>5. CASE UNCHANGED vars
  BY <1>5, Zenon DEF vars
<1> QED
  BY <1>1, <1>2, <1>3, <1>4, <1>5, Zenon DEF Next

\* Only the main thread moves main_pc.
LEMMA OnlyMainMoves ==
    ASSUME [Next]_vars
    PROVE  UNCHANGED main_pc \/ StartRound \/ MainStep
<1>2. ASSUME NEW w \in Workers, WorkerStep(w) PROVE UNCHANGED main_pc
  BY <1>2, Zenon DEF WorkerStep, WorkerLaunch, EnterDraining, PopLocal, ScanChild, ScanDone,
         StartDrain, DrainTake, DrainEnd, LeaveDraining, Sweep, WorkerDone, mainVars
<1>3. ASSUME NEW t \in Threads,
             CallStep(t) \/ (\E u \in Units : MarkCall(t, u) \/ RootCall(t, u))
      PROVE  UNCHANGED main_pc
  BY <1>3, Zenon DEF CallStep, MarkCall, RootCall, RootShade, RootLock, MarkShade, MarkEnqueue,
         MarkPublish, MarkFull, MarkLock, MarkRecheck, MarkPush, mainVars
<1>4. ASSUME NEW m \in Mutators, Acknowledge(m) PROVE UNCHANGED main_pc
  BY <1>4, Zenon DEF Acknowledge
<1>5. CASE UNCHANGED vars
  BY <1>5, Zenon DEF vars
<1> QED
  BY <1>2, <1>3, <1>4, <1>5, Zenon DEF Next

\* The sweep begins in LaunchSweep and ends in EndRound.
LEMMA SweepBeginsInLaunchSweep ==
    ASSUME [Next]_vars, main_pc # "sweep", main_pc' = "sweep"
    PROVE  LaunchSweep
  BY OnlyMainMoves, Zenon DEF MainStep, StartRound, BeginCallbackDone, RootLoop, LaunchParallelMark,
     StopMarking, LaunchFinalMark, EndRound

LEMMA SweepEndsInEndRound ==
    ASSUME [Next]_vars, main_pc = "sweep", main_pc' # "sweep"
    PROVE  EndRound
  BY OnlyMainMoves, Zenon DEF MainStep, StartRound, BeginCallbackDone, RootLoop, LaunchParallelMark,
     StopMarking, LaunchFinalMark, LaunchSweep

\* A unit becomes black only at the end of its scan.
LEMMA BlackSteps ==
    ASSUME ControlInv, [Next]_vars, main_pc # "sweep", NEW u \in Units,
           life[u] # "FULL_MARKED", life'[u] = "FULL_MARKED"
    PROVE  \E w \in Workers : wpc[w] = "scan" /\ scanning[w] = u /\ todo[w] = {}
<1>t. UnitTypes /\ Places /\ Callers
  BY Zenon DEF ControlInv, TypeOK, UnitTypes
<1>1. CASE StartRound \/ MainStep
  BY <1>1, Zenon DEF MainStep, StartRound, BeginCallbackDone, RootLoop, LaunchParallelMark,
         StopMarking, LaunchFinalMark, LaunchSweep, EndRound
<1>2. ASSUME NEW w \in Workers, WorkerStep(w)
      PROVE  wpc[w] = "scan" /\ scanning[w] = u /\ todo[w] = {}
  <2>1. CASE WorkerLaunch(w) \/ EnterDraining(w) \/ PopLocal(w) \/ StartDrain(w)
             \/ DrainTake(w) \/ DrainEnd(w) \/ LeaveDraining(w) \/ WorkerDone(w)
    BY <2>1, Zenon DEF WorkerLaunch, EnterDraining, PopLocal, StartDrain, DrainTake, DrainEnd,
           LeaveDraining, WorkerDone
  <2>2. ASSUME NEW c \in Units, ScanChild(w, c) PROVE FALSE
    BY <1>t, <2>2, Zenon DEF ScanChild, UnitTypes
  <2>3. CASE ScanDone(w)
    BY <1>t, <2>3, Zenon DEF ScanDone, UnitTypes
  <2>4. CASE Sweep(w)
    BY <2>4, SweepInSweep, Zenon DEF Sweep
  <2> QED
    BY <1>2, <2>1, <2>2, <2>3, <2>4, Zenon DEF WorkerStep
<1>3. ASSUME NEW t \in Threads,
             CallStep(t) \/ (\E v \in Units : MarkCall(t, v) \/ RootCall(t, v))
      PROVE  FALSE
  <2>1. CASE MarkShade(t) \/ RootShade(t)
    BY <1>t, <2>1, Zenon DEF MarkShade, RootShade, UnitTypes
  <2>2. CASE ~(MarkShade(t) \/ RootShade(t))
    BY <1>3, <2>2, Zenon DEF CallStep, MarkCall, RootCall, RootLock, MarkEnqueue, MarkPublish,
           MarkFull, MarkLock, MarkRecheck, MarkPush
  <2> QED
    BY <2>1, <2>2, Zenon
<1>4. ASSUME NEW m \in Mutators, Acknowledge(m) PROVE FALSE
  BY <1>4, Zenon DEF Acknowledge
<1>5. CASE UNCHANGED vars
  BY <1>5, Zenon DEF vars
<1> QED
  BY <1>1, <1>2, <1>3, <1>4, <1>5, Zenon DEF Next

\* Every step keeps BlackInv.
LEMMA BlackNext ==
    ASSUME ControlInv, ControlInv', BlackInv, SweptInv, [Next]_vars
    PROVE  BlackInv'
<1>g. \A u \in Units : Children[u] \subseteq Units
  BY GraphAssumption, Zenon
<1>1. ASSUME main_pc' # "sweep", NEW u \in Units, life'[u] = "FULL_MARKED", NEW c \in Children[u]
      PROVE  Marked(c)'
  <2>1. CASE main_pc = "sweep"
    <3>1. EndRound
      BY <1>1, <2>1, SweepEndsInEndRound, Zenon
    <3>2. ~Marked(u) /\ life' = life
      BY <3>1, SweptClean, Zenon DEF EndRound
    <3> QED
      BY <1>1, <3>2, Zenon DEF Marked
  <2>2. CASE main_pc # "sweep" /\ life[u] = "FULL_MARKED"
    <3>1. Marked(c) /\ c \in Units
      BY <1>g, <1>1, <2>2, Zenon DEF BlackInv
    <3> QED
      BY <2>2, <3>1, MarksStay, Zenon
  <2>3. CASE main_pc # "sweep" /\ life[u] # "FULL_MARKED"
    <3>1. PICK w \in Workers : wpc[w] = "scan" /\ scanning[w] = u /\ todo[w] = {}
      BY <1>1, <2>3, BlackSteps, Zenon
    <3>2. Marked(c) /\ c \in Units
      BY <1>g, <1>1, <3>1, Zenon DEF BlackInv
    <3> QED
      BY <2>3, <3>2, MarksStay, Zenon
  <2> QED
    BY <2>1, <2>2, <2>3, Zenon
<1>2. ASSUME NEW x \in Workers, wpc'[x] = "scan", NEW c \in Children[scanning'[x]] \ todo'[x]
      PROVE  Marked(c)'
  <2>0. c \in Units
    <3>1. scanning'[x] \in Units
      <4>1. scanning' \in [Workers -> Units \cup {NoUnit}]
        BY Zenon DEF ControlInv, TypeOK
      <4>2. scanning'[x] # NoUnit
        BY <1>2, Zenon DEF ControlInv, Places
      <4> QED
        BY <4>1, <4>2, Zenon
    <3> QED
      BY <1>g, <3>1, Zenon
  <2>1. ASSUME wpc[x] = "scan", scanning'[x] = scanning[x], c \notin todo[x] PROVE Marked(c)'
    <3>1. main_pc # "sweep"
      BY <2>1, WorkingWorker, Zenon
    <3>2. Marked(c)
      BY <1>2, <2>1, Zenon DEF BlackInv
    <3> QED
      BY <2>0, <3>1, <3>2, MarksStay, Zenon
  <2>2. CASE UNCHANGED <<wpc, scanning, todo>>
    BY <1>2, <2>1, <2>2, Zenon
  <2>3. ASSUME NEW w \in Workers,
               \A y \in Workers \ {w} :
                   wpc'[y] = wpc[y] /\ scanning'[y] = scanning[y] /\ todo'[y] = todo[y],
               \/ wpc'[w] # "scan"
               \/ todo'[w] = Children[scanning'[w]]
               \/ /\ wpc[w] = "scan" /\ scanning'[w] = scanning[w]
                  /\ \E d \in Units : todo'[w] = todo[w] \ {d} /\ Marked(d)'
        PROVE  Marked(c)'
    <3>1. CASE x # w
      BY <1>2, <2>1, <2>3, <3>1, Zenon
    <3>2. CASE x = w
      BY <1>2, <2>1, <2>3, <3>2, Zenon
    <3> QED
      BY <3>1, <3>2, Zenon
  <2> QED
    BY <2>2, <2>3, ScanSteps, Zenon
<1> QED
  BY <1>1, <1>2, Zenon DEF BlackInv

\* The call of the main thread goes on until its root is marked.
LEMMA MainCall ==
    ASSUME ControlInv, [Next]_vars, main_pc \in {"roots", "parallel", "stop", "final"},
           NEW v \in Units, mpc[Main] = "root_shade", munit[Main] = v
    PROVE  (mpc'[Main] = "root_shade" /\ munit'[Main] = v) \/ Marked(v)'
<1>t. UnitTypes /\ Main \in Threads
  BY Zenon DEF ControlInv, TypeOK, UnitTypes, Threads
<1>1. CASE StartRound \/ MainStep
  BY <1>1, Zenon DEF MainStep, StartRound, BeginCallbackDone, RootLoop, Call, LaunchParallelMark,
         StopMarking, LaunchFinalMark, LaunchSweep, EndRound, callVars
<1>2. ASSUME NEW w \in Workers, WorkerStep(w) PROVE UNCHANGED <<mpc, munit>>
  BY <1>2, Zenon DEF WorkerStep, WorkerLaunch, EnterDraining, PopLocal, ScanChild, ScanDone,
         StartDrain, DrainTake, DrainEnd, LeaveDraining, Sweep, WorkerDone, callVars
<1>3. ASSUME NEW t \in Threads, t # Main,
             CallStep(t) \/ (\E u \in Units : MarkCall(t, u) \/ RootCall(t, u))
      PROVE  mpc'[Main] = mpc[Main] /\ munit'[Main] = munit[Main]
  BY <1>t, <1>3, Zenon DEF CallStep, MarkCall, RootCall, Call, Return, RootShade, RootLock, MarkShade,
         MarkEnqueue, MarkPublish, MarkFull, MarkLock, MarkRecheck, MarkPush, UnitTypes
<1>4. CASE CallStep(Main) \/ (\E u \in Units : MarkCall(Main, u) \/ RootCall(Main, u))
  <2>1. RootShade(Main)
    BY <1>4, Zenon DEF CallStep, MarkCall, RootCall, Call, RootLock, MarkShade, MarkEnqueue, MarkPublish,
           MarkFull, MarkLock, MarkRecheck, MarkPush
  <2>2. life'[v] # "UNMARKED"
    BY <1>t, <2>1, Zenon DEF RootShade, UnitTypes
  <2> QED
    BY <2>2, Zenon DEF Marked
<1>5. ASSUME NEW m \in Mutators, Acknowledge(m) PROVE UNCHANGED <<mpc, munit>>
  BY <1>5, Zenon DEF Acknowledge, callVars
<1>6. CASE UNCHANGED vars
  BY <1>6, Zenon DEF vars
<1> QED
  BY <1>1, <1>2, <1>3, <1>4, <1>5, <1>6, Zenon DEF Next

\* Where the main thread is in Step 2 changes with its own steps only.
LEMMA RootSteps ==
    ASSUME [Next]_vars
    PROVE  \/ UNCHANGED <<main_pc, roots_left>>
           \/ BeginCallbackDone
           \/ \E u \in Units : RootLoop(u)
           \/ LaunchParallelMark /\ UNCHANGED roots_left
           \/ main_pc = "parallel" /\ main_pc' = "stop" /\ UNCHANGED roots_left
           \/ main_pc = "stop" /\ main_pc' = "final" /\ UNCHANGED roots_left
           \/ main_pc' \in {"idle", "begin", "sweep"}
<1>1. CASE StartRound \/ MainStep
  BY <1>1, Zenon DEF MainStep, StartRound, LaunchParallelMark, StopMarking, LaunchFinalMark,
         LaunchSweep, EndRound
<1>2. ASSUME NEW w \in Workers, WorkerStep(w) PROVE UNCHANGED <<main_pc, roots_left>>
  BY <1>2, Zenon DEF WorkerStep, WorkerLaunch, EnterDraining, PopLocal, ScanChild, ScanDone,
         StartDrain, DrainTake, DrainEnd, LeaveDraining, Sweep, WorkerDone, mainVars
<1>3. ASSUME NEW t \in Threads,
             CallStep(t) \/ (\E u \in Units : MarkCall(t, u) \/ RootCall(t, u))
      PROVE  UNCHANGED <<main_pc, roots_left>>
  BY <1>3, Zenon DEF CallStep, MarkCall, RootCall, RootShade, RootLock, MarkShade, MarkEnqueue,
         MarkPublish, MarkFull, MarkLock, MarkRecheck, MarkPush, mainVars
<1>4. ASSUME NEW m \in Mutators, Acknowledge(m) PROVE UNCHANGED <<main_pc, roots_left>>
  BY <1>4, Zenon DEF Acknowledge
<1>5. CASE UNCHANGED vars
  BY <1>5, Zenon DEF vars
<1> QED
  BY <1>1, <1>2, <1>3, <1>4, <1>5, Zenon DEF Next

\* Every step keeps RootInv.
LEMMA RootNext ==
    ASSUME ControlInv, RootInv, [Next]_vars
    PROVE  RootInv'
<1>t. /\ main_pc \in {"idle", "begin", "roots", "parallel", "stop", "final", "sweep"}
      /\ mpc \in [Threads -> {"run", "root_shade", "root_lock", "shade", "enqueue", "publish",
                              "full", "lock", "locked", "push"}]
      /\ munit \in [Threads -> Units \cup {NoUnit}] /\ Main \in Threads
  BY Zenon DEF ControlInv, TypeOK, Threads
<1>r. RootUnits \subseteq Units
  BY GraphAssumption, Zenon
<1>1. ASSUME UNCHANGED roots_left, main_pc \in {"roots", "parallel", "stop", "final"},
             NEW u \in RootUnits \ roots_left
      PROVE  Marked(u)' \/ (mpc'[Main] = "root_shade" /\ munit'[Main] = u)
  <2>1. Marked(u) \/ (mpc[Main] = "root_shade" /\ munit[Main] = u)
    BY <1>1, Zenon DEF RootInv
  <2>2. CASE Marked(u)
    BY <1>1, <1>r, <2>2, MarksStay, Zenon
  <2>3. CASE mpc[Main] = "root_shade" /\ munit[Main] = u
    BY <1>1, <1>r, <2>3, MainCall, Zenon
  <2> QED
    BY <2>1, <2>2, <2>3, Zenon
<1>2. CASE UNCHANGED <<main_pc, roots_left>>
  BY <1>1, <1>2, Zenon DEF RootInv
<1>3. CASE BeginCallbackDone
  BY <1>3, Zenon DEF BeginCallbackDone, RootInv
<1>4. ASSUME NEW v \in Units, RootLoop(v) PROVE RootInv'
  <2>1. /\ main_pc = "roots" /\ main_pc' = "roots" /\ roots_left' = roots_left \ {v}
        /\ mpc[Main] = "run" /\ mpc'[Main] = "root_shade" /\ munit'[Main] = v /\ life' = life
    BY <1>4, <1>t, Zenon DEF RootLoop, Call
  <2> QED
    BY <2>1, Zenon DEF RootInv, Marked
<1>5. CASE LaunchParallelMark /\ UNCHANGED roots_left
  <2>1. main_pc = "roots" /\ main_pc' = "parallel" /\ roots_left = {}
    BY <1>5, Zenon DEF LaunchParallelMark
  <2> QED
    BY <1>1, <1>5, <2>1, Zenon DEF RootInv
<1>6. CASE /\ main_pc \in {"parallel", "stop"} /\ main_pc' \in {"stop", "final"}
           /\ UNCHANGED roots_left
  BY <1>1, <1>6, Zenon DEF RootInv
<1>7. CASE main_pc' \in {"idle", "begin", "sweep"}
  BY <1>7, Zenon DEF RootInv
<1> QED
  BY <1>2, <1>3, <1>4, <1>5, <1>6, <1>7, RootSteps, Zenon

\* In the sweep only Sweep touches marks, and it takes them back.
LEMMA SweepSteps ==
    ASSUME ControlInv, [Next]_vars, main_pc = "sweep"
    PROVE  \/ UNCHANGED life
           \/ \E w \in Workers : Sweep(w)
<1>1. CASE StartRound \/ MainStep
  BY <1>1, Zenon DEF MainStep, StartRound, BeginCallbackDone, RootLoop, LaunchParallelMark,
         StopMarking, LaunchFinalMark, LaunchSweep, EndRound
<1>2. ASSUME NEW w \in Workers, WorkerStep(w) PROVE UNCHANGED life \/ Sweep(w)
  <2>1. ~ScanDone(w) /\ ~\E c \in Units : ScanChild(w, c)
    BY WorkingWorker, Zenon DEF ScanDone, ScanChild
  <2> QED
    BY <1>2, <2>1, Zenon DEF WorkerStep, WorkerLaunch, EnterDraining, PopLocal, StartDrain,
           DrainTake, DrainEnd, LeaveDraining, WorkerDone
<1>3. \A t \in Threads :
          ~CallStep(t) /\ ~\E u \in Units : MarkCall(t, u) \/ RootCall(t, u)
  BY NoCallsLate, Zenon
<1>4. ASSUME NEW m \in Mutators, Acknowledge(m) PROVE UNCHANGED life
  BY <1>4, Zenon DEF Acknowledge
<1>5. CASE UNCHANGED vars
  BY <1>5, Zenon DEF vars
<1> QED
  BY <1>1, <1>2, <1>3, <1>4, <1>5, Zenon DEF Next

\* A worker gets done with its sweep by Sweep.
LEMMA DoneSteps ==
    ASSUME ControlInv, [Next]_vars, main_pc = "sweep", NEW x \in Workers,
           phase'[x] = "PARALLEL_MARK" \/ wpc'[x] = "done"
    PROVE  phase[x] = "PARALLEL_MARK" \/ wpc[x] = "done" \/ Sweep(x)
<1>t. /\ wpc \in [Workers -> {"wait", "enter", "loop", "scan", "drain", "leave", "sweep", "done"}]
      /\ phase \in [Workers -> {"PARALLEL_MARK", "FINAL_MARK", "SWEEP"}]
  BY Zenon DEF ControlInv, TypeOK
<1>0. ASSUME wpc'[x] = wpc[x], phase'[x] = phase[x]
      PROVE  phase[x] = "PARALLEL_MARK" \/ wpc[x] = "done"
  BY <1>0, Zenon
<1> USE DEF workerVars
<1>1. CASE StartRound \/ MainStep
  <2>1. UNCHANGED <<wpc, phase>>
    BY <1>1, Zenon DEF MainStep, StartRound, BeginCallbackDone, RootLoop, LaunchParallelMark,
         StopMarking, LaunchFinalMark, LaunchSweep, EndRound
  <2> QED
    BY <1>0, <2>1, Zenon
<1>2. ASSUME NEW w \in Workers, WorkerStep(w)
      PROVE  phase[x] = "PARALLEL_MARK" \/ wpc[x] = "done" \/ Sweep(x)
  <2>1. CASE w # x
    <3>1. wpc'[x] = wpc[x] /\ phase'[x] = phase[x]
      BY <1>2, <1>t, <2>1, Zenon DEF WorkerStep, WorkerLaunch, EnterDraining, PopLocal, ScanChild,
             ScanDone, StartDrain, DrainTake, DrainEnd, LeaveDraining, Sweep, WorkerDone
    <3> QED
      BY <1>0, <3>1, Zenon
  <2>2. CASE w = x
    <3>1. ~LeaveDraining(x)
      BY WorkingWorker, Zenon DEF LeaveDraining
    <3>2. CASE WorkerDone(x)
      BY <3>2, Zenon DEF WorkerDone
    <3>3. CASE ~WorkerDone(x) /\ ~Sweep(x)
      <4>1. \/ phase' = phase /\ wpc'[x] # "done"
            \/ DrainTake(x)
            \/ \E c \in Units : ScanChild(x, c)
        BY <1>2, <1>t, <2>2, <3>1, <3>3 DEF WorkerStep, WorkerLaunch, EnterDraining, PopLocal,
               ScanDone, StartDrain, DrainEnd
      <4>2. CASE DrainTake(x) \/ \E c \in Units : ScanChild(x, c)
        BY <1>0, <4>2, Zenon DEF DrainTake, ScanChild
      <4> QED
        BY <4>1, <4>2, Zenon
    <3> QED
      BY <3>2, <3>3, Zenon
  <2> QED
    BY <2>1, <2>2, Zenon
<1>3. \A t \in Threads :
          ~CallStep(t) /\ ~\E u \in Units : MarkCall(t, u) \/ RootCall(t, u)
  BY NoCallsLate, Zenon
<1>4. ASSUME NEW m \in Mutators, Acknowledge(m) PROVE UNCHANGED <<wpc, phase>>
  BY <1>4, Zenon DEF Acknowledge
<1>5. CASE UNCHANGED vars
  BY <1>0, <1>5, Zenon DEF vars
<1> QED
  BY <1>0, <1>1, <1>2, <1>3, <1>4, <1>5, Zenon DEF Next

\* LaunchSweep finds every worker parked before its sweep, with nothing left.
LEMMA SweepBegins ==
    ASSUME ControlInv, DrainedInv, LaunchSweep
    PROVE  main_pc = "final" /\ ParkedFor("SWEEP") /\ \A w \in Workers : NoWork(w)
<1>1. Running("FINAL_MARK") /\ AllWorkersDone /\ main_pc = "final"
  BY Zenon DEF LaunchSweep, ControlInv, Barrier
<1>2. ParkedFor("SWEEP")
  BY <1>1, AllParked, PhaseRing, Zenon
<1>3. \A w \in Workers : NoWork(w)
  BY <1>1, <1>2, Zenon DEF ParkedFor, DrainedInv
<1> QED
  BY <1>1, <1>2, <1>3, Zenon

\* Every step keeps SweptInv.
LEMMA SweptNext ==
    ASSUME ControlInv, DrainedInv, SweptInv, [Next]_vars
    PROVE  SweptInv'
<1>t. life \in [Units -> {"UNMARKED", "SELF_MARKED", "FULL_MARKED"}]
  BY Zenon DEF ControlInv, TypeOK
<1> SUFFICES ASSUME main_pc' = "sweep", NEW w \in Workers,
                    phase'[w] = "PARALLEL_MARK" \/ wpc'[w] = "done",
                    NEW u \in Units, SweepOwner[u] = w
             PROVE  life'[u] = "UNMARKED"
  BY Zenon DEF SweptInv, Marked
<1>1. CASE main_pc # "sweep"
  <2>1. LaunchSweep
    BY <1>1, SweepBeginsInLaunchSweep, Zenon
  <2>2. phase[w] = "SWEEP" /\ wpc[w] = "wait"
    BY <2>1, SweepBegins, Zenon DEF ParkedFor
  <2>3. UNCHANGED <<phase, wpc>>
    BY <2>1, Zenon DEF LaunchSweep, workerVars
  <2> QED
    BY <2>2, <2>3, Zenon
<1>2. CASE main_pc = "sweep" /\ Sweep(w)
  BY <1>2, Zenon DEF Sweep
<1>3. CASE main_pc = "sweep" /\ ~Sweep(w)
  <2>1. phase[w] = "PARALLEL_MARK" \/ wpc[w] = "done"
    BY <1>3, DoneSteps, Zenon
  <2>2. life[u] = "UNMARKED"
    BY <1>3, <2>1, Zenon DEF SweptInv, Marked
  <2>3. CASE UNCHANGED life
    BY <2>2, <2>3, Zenon
  <2>4. ASSUME NEW x \in Workers, Sweep(x) PROVE life'[u] = "UNMARKED"
    BY <2>2, <2>4, Zenon DEF Sweep
  <2> QED
    BY <1>3, <2>3, <2>4, SweepSteps, Zenon
<1> QED
  BY <1>1, <1>2, <1>3, Zenon

-----------------------------------------------------------------------------
(* The invariant *)

\* Nothing is held, marked or under way at the start.
LEMMA UnitInit == Init => UnitInv
<1> SUFFICES ASSUME Init PROVE UnitInv
  BY Zenon
<1>1. GrayInv
  <2>0. /\ \A w \in Workers : scanning[w] = NoUnit
        /\ \A w \in Workers : local_work[w] = << >> /\ queue[w] = << >>
        /\ \A t \in Threads : mpc[t] = "run"
    BY Zenon DEF Init
  <2>1. ASSUME NEW u \in Units, NEW k, NEW x, NEW i PROVE ~Holds(k, x, i, u)
    BY <2>0, NamesAssumption DEF Holds, Carrying
  <2>2. \A u \in Units : life[u] = "UNMARKED"
    BY Zenon DEF Init
  <2> QED
    BY <2>1, <2>2, Zenon DEF GrayInv
<1>2. PublishInv
  <2>1. \A w \in Workers : DOMAIN queue[w] = {}
    BY DEF Init
  <2> QED
    BY <2>1, Zenon DEF PublishInv
<1>3. DrainedInv /\ RootInv /\ SweptInv
  BY Zenon DEF Init, DrainedInv, RootInv, SweptInv
<1>4. BlackInv
  BY Zenon DEF Init, BlackInv
<1> QED
  BY <1>1, <1>2, <1>3, <1>4, Zenon DEF UnitInv

\* The invariant of the units holds in every reachable state.
LEMMA UnitInvariant == Spec => [](ControlInv /\ UnitInv)
<1>1. Init => ControlInv /\ UnitInv
  BY ControlInit, UnitInit, Zenon
<1>2. ControlInv /\ UnitInv /\ [Next]_vars => (ControlInv /\ UnitInv)'
  <2> SUFFICES ASSUME ControlInv, UnitInv, [Next]_vars PROVE ControlInv' /\ UnitInv'
    BY Zenon
  <2>1. ControlInv'
    BY ControlNext, Zenon
  <2>2. GrayInv /\ PublishInv /\ DrainedInv /\ BlackInv /\ RootInv /\ SweptInv
    BY Zenon DEF UnitInv
  <2>3. GrayInv' /\ PublishInv' /\ DrainedInv'
    BY <2>2, GrayNext, PublishNext, DrainedNext, Zenon
  <2>4. BlackInv' /\ RootInv' /\ SweptInv'
    BY <2>1, <2>2, BlackNext, RootNext, SweptNext, Zenon
  <2> QED
    BY <2>1, <2>3, <2>4, Zenon DEF UnitInv
<1> QED
  BY <1>1, <1>2, PTL DEF Spec

-----------------------------------------------------------------------------
(* Theorems about the units *)

\* The members of Holders are the triples that Holds describes.
LEMMA HoldersByHolds ==
    ASSUME NEW u
    PROVE  /\ \A h \in Holders(u) : \E k, x, i : h = <<k, x, i>> /\ Holds(k, x, i, u)
           /\ \A k, x, i : Holds(k, x, i, u) => <<k, x, i>> \in Holders(u)
<1> DEFINE Scans == {<<"scanning", w, 0>> : w \in {x \in Workers : scanning[x] = u}}
           Locals(w) == {<<"local_work", w, i>> :
                           i \in {j \in DOMAIN local_work[w] : local_work[w][j] = u}}
           Queued(w) == {<<"queue", w, i>> :
                           i \in {j \in DOMAIN queue[w] : queue[w][j].unit = u}}
           Calls == {<<"call", t, 0>> : t \in {x \in Threads :
                           munit[x] = u /\ mpc[x] \in Carrying}}
<1>1. Holders(u) = Scans \cup (UNION {Locals(w) : w \in Workers})
                         \cup (UNION {Queued(w) : w \in Workers}) \cup Calls
  BY Zenon DEF Holders, Carrying
<1>2. \A h : h \in Scans <=> \E w \in Workers : scanning[w] = u /\ h = <<"scanning", w, 0>>
  BY Zenon
<1>3. \A w, h : h \in Locals(w) <=>
          \E j \in DOMAIN local_work[w] : local_work[w][j] = u /\ h = <<"local_work", w, j>>
  BY Zenon
<1>4. \A w, h : h \in Queued(w) <=>
          \E j \in DOMAIN queue[w] : queue[w][j].unit = u /\ h = <<"queue", w, j>>
  BY Zenon
<1>5. \A h : h \in Calls <=>
          \E t \in Threads : munit[t] = u /\ mpc[t] \in Carrying /\ h = <<"call", t, 0>>
  BY Zenon
<1> HIDE DEF Scans, Locals, Queued, Calls
<1>6. \A h : h \in Holders(u) <=>
          h \in Scans \/ h \in Calls \/ \E w \in Workers : h \in Locals(w) \/ h \in Queued(w)
  <2> SUFFICES ASSUME NEW h
               PROVE  h \in Holders(u) <=>
                        h \in Scans \/ h \in Calls
                          \/ \E w \in Workers : h \in Locals(w) \/ h \in Queued(w)
    BY Zenon
  <2> DEFINE AllLocals == UNION {Locals(w) : w \in Workers}
             AllQueued == UNION {Queued(w) : w \in Workers}
  <2>1. h \in AllLocals <=> \E w \in Workers : h \in Locals(w)
    BY Zenon
  <2>2. h \in AllQueued <=> \E w \in Workers : h \in Queued(w)
    BY Zenon
  <2>3. Holders(u) = Scans \cup AllLocals \cup AllQueued \cup Calls
    BY <1>1, Zenon
  <2> HIDE DEF AllLocals, AllQueued
  <2> QED
    BY <2>1, <2>2, <2>3, Zenon
<1>7. ASSUME NEW h \in Holders(u) PROVE \E k, x, i : h = <<k, x, i>> /\ Holds(k, x, i, u)
  <2>1. CASE h \in Scans
    BY <1>2, <2>1, Zenon DEF Holds
  <2>2. CASE h \in Calls
    BY <1>5, <2>2, Zenon DEF Holds
  <2>3. ASSUME NEW w \in Workers, h \in Locals(w)
        PROVE  \E k, x, i : h = <<k, x, i>> /\ Holds(k, x, i, u)
    <3>1. PICK j \in DOMAIN local_work[w] : local_work[w][j] = u /\ h = <<"local_work", w, j>>
      BY <1>3, <2>3, Zenon
    <3>2. Holds("local_work", w, j, u)
      BY <3>1, Zenon DEF Holds
    <3> QED
      BY <3>1, <3>2, Zenon
  <2>4. ASSUME NEW w \in Workers, h \in Queued(w)
        PROVE  \E k, x, i : h = <<k, x, i>> /\ Holds(k, x, i, u)
    <3>1. PICK j \in DOMAIN queue[w] : queue[w][j].unit = u /\ h = <<"queue", w, j>>
      BY <1>4, <2>4, Zenon
    <3>2. Holds("queue", w, j, u)
      BY <3>1, Zenon DEF Holds
    <3> QED
      BY <3>1, <3>2, Zenon
  <2> QED
    BY <1>6, <1>7, <2>1, <2>2, <2>3, <2>4, Zenon
<1>8. ASSUME NEW k, NEW x, NEW i, Holds(k, x, i, u) PROVE <<k, x, i>> \in Holders(u)
  <2>1. CASE k = "scanning" /\ x \in Workers /\ i = 0 /\ scanning[x] = u
    BY <1>2, <1>6, <2>1, Zenon
  <2>2. CASE /\ k = "local_work" /\ x \in Workers
             /\ i \in DOMAIN local_work[x] /\ local_work[x][i] = u
    BY <1>3, <1>6, <2>2, Zenon
  <2>3. CASE k = "queue" /\ x \in Workers /\ i \in DOMAIN queue[x] /\ queue[x][i].unit = u
    BY <1>4, <1>6, <2>3, Zenon
  <2>4. CASE k = "call" /\ x \in Threads /\ i = 0 /\ munit[x] = u /\ mpc[x] \in Carrying
    BY <1>5, <1>6, <2>4, Zenon
  <2> QED
    BY <1>8, <2>1, <2>2, <2>3, <2>4, Zenon DEF Holds
<1> QED
  BY <1>7, <1>8, Zenon

\* A unit is gray exactly while one call, scan, stack slot or queue slot holds it, so no
\* gray unit is lost or scanned twice, for any number of threads, workers and units.
THEOREM GrayIsHeldOnce == Spec => []GrayHeldOnce
<1>1. ControlInv /\ UnitInv => GrayHeldOnce
  <2> SUFFICES ASSUME GrayInv, NEW u \in Units
               PROVE  /\ life[u] = "SELF_MARKED" <=> Holders(u) # {}
                      /\ \A h, k \in Holders(u) : h = k
    BY Zenon DEF UnitInv, GrayHeldOnce
  <2>1. life[u] = "SELF_MARKED" <=> \E k, x, i : Holds(k, x, i, u)
    BY Zenon DEF GrayInv
  <2>2. (\E k, x, i : Holds(k, x, i, u)) <=> Holders(u) # {}
    BY HoldersByHolds, Zenon
  <2>3. ASSUME NEW h \in Holders(u), NEW g \in Holders(u) PROVE h = g
    <3>1. PICK k, x, i : h = <<k, x, i>> /\ Holds(k, x, i, u)
      BY HoldersByHolds, Zenon
    <3>2. PICK l, y, j : g = <<l, y, j>> /\ Holds(l, y, j, u)
      BY HoldersByHolds, Zenon
    <3>3. k = l /\ x = y /\ i = j
      BY <3>1, <3>2, Zenon DEF GrayInv
    <3> QED
      BY <3>1, <3>2, <3>3, Zenon
  <2> QED
    BY <2>1, <2>2, <2>3, Zenon
<1> QED
  BY <1>1, UnitInvariant, PTL

\* Sweeping meets no gray unit and no queued one, so the assertion in
\* check_and_free_unmarked_unit holds.
THEOREM NothingGrayWhenSweeping == Spec => []SweepSeesNoGray
<1>1. ControlInv /\ UnitInv => SweepSeesNoGray
  <2> SUFFICES ASSUME ControlInv, UnitInv, main_pc = "sweep"
               PROVE  /\ \A u \in Units : life[u] # "SELF_MARKED"
                      /\ \A w \in Workers : local_work[w] = << >> /\ queue[w] = << >>
    BY Zenon DEF SweepSeesNoGray
  <2>1. \A u \in Units : life[u] # "SELF_MARKED"
    BY NoGrayInSweep, Zenon DEF UnitInv
  <2>2. \A w \in Workers : local_work[w] = << >> /\ queue[w] = << >>
    BY Zenon DEF UnitInv, DrainedInv, NoWork
  <2> QED
    BY <2>1, <2>2, Zenon
<1> QED
  BY <1>1, UnitInvariant, PTL

\* No step outside the sweep takes a mark back.
THEOREM MarksAreKept == Spec => MarksKept
<1> DEFINE Kept == main_pc # "sweep" =>
                     \A u \in Units : life[u] # "UNMARKED" => life'[u] # "UNMARKED"
<1>1. ControlInv /\ [Next]_vars => [Kept]_vars
  BY MarksStay, Zenon DEF Marked
<1> QED
  BY <1>1, ControlInvariant, PTL DEF Spec, MarksKept

\* FINAL_MARK ends only when every unit reachable from the roots is black, for any object
\* graph: the black units then hold the roots and the children of their members.
THEOREM MarkingIsComplete == Spec => MarkingComplete
<1> DEFINE Complete == main_pc = "final" /\ main_pc' = "sweep" =>
                         \A u \in Reachable : life[u] = "FULL_MARKED"
<1>1. ControlInv /\ UnitInv /\ [Next]_vars => [Complete]_vars
  <2> SUFFICES ASSUME ControlInv, UnitInv, [Next]_vars, main_pc = "final", main_pc' = "sweep",
                      NEW u \in Reachable
               PROVE  life[u] = "FULL_MARKED"
    BY Zenon
  <2>1. GrayInv /\ DrainedInv /\ BlackInv /\ RootInv
    BY Zenon DEF UnitInv
  <2>2. life \in [Units -> {"UNMARKED", "SELF_MARKED", "FULL_MARKED"}]
    BY Zenon DEF ControlInv, TypeOK
  <2>3. LaunchSweep
    BY SweepBeginsInLaunchSweep, Zenon
  <2>4. \A w \in Workers : NoWork(w) /\ wpc[w] # "scan"
    BY <2>1, <2>3, SweepBegins, Zenon DEF ParkedFor
  <2>5. \A v \in Units : Marked(v) => life[v] = "FULL_MARKED"
    BY <2>1, <2>2, <2>4, NothingGray, Zenon DEF Marked
  <2> DEFINE Black == {v \in Units : life[v] = "FULL_MARKED"}
  <2>6. RootUnits \subseteq Black
    <3>1. mpc[Main] = "run"
      BY NoCallsLate, Zenon DEF Threads
    <3>2. \A v \in RootUnits : Marked(v)
      BY <2>1, <3>1, Zenon DEF RootInv
    <3> QED
      BY <2>5, <3>2, GraphAssumption, Zenon
  <2>7. \A v \in Black : Children[v] \subseteq Black
    BY <2>1, <2>5, GraphAssumption, Zenon DEF BlackInv
  <2>8. Black \in SUBSET Units
    BY Zenon
  <2>9. u \in Black
    <3> HIDE DEF Black
    <3> QED
      BY <2>6, <2>7, <2>8, Zenon DEF Reachable
  <2> QED
    BY <2>9, Zenon
<1> QED
  BY <1>1, UnitInvariant, PTL DEF Spec, MarkingComplete
=============================================================================
