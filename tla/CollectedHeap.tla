--------------------------- MODULE CollectedHeap ---------------------------
(***************************************************************************)
(* The collector and the heap it collects, over many rounds: which units   *)
(* the program can reach, which the sweep frees.  Each unit has one        *)
(* reference.  A gray unit is in the hands of a worker (GCMarking says     *)
(* how); a worker's phase ends when it finds nothing gray, while mutators  *)
(* may still shade.                                                        *)
(*                                                                         *)
(* The write barrier belongs to the runtime, which has only                *)
(* woomem_gc_marking_state_flag to go by.  It is modelled as the one the   *)
(* collector needs, since new units are not scanned and no stack is        *)
(* scanned twice: while the flag is set, a reference is marked before it   *)
(* is overwritten or taken off the root set.  The begin callback stops all *)
(* mutators between two such operations and marks what their stacks hold;  *)
(* the stop callback returns when no barrier is at work any more.          *)
(*                                                                         *)
(* Between Step 4 and the end of Step 5 the flag is down, the threads run, *)
(* and gray units may be left whose reference nobody has followed.  A      *)
(* program that overwrites such a reference then, without a barrier, can   *)
(* cut off from the collector what it still holds: lost says which units   *)
(* these are, and the sweep of the round may free them.                    *)
(*                                                                         *)
(* Of m_age only whether it is 15 matters, and m_timing only while it is.  *)
(***************************************************************************)
EXTENDS Integers, FiniteSets

CONSTANTS
    Units,
    Unswept,         \* those allocated without WOOMEM_ATTRIB_NEED_SWEEP
    RootUnits,       \* those allocated by woomem_allocate_end_as_root
    Mutators,
    WorkerCount,
    MarkingContext,  \* the worker each mutator shades for
    RoundModulus,    \* 256: woomem_gc_marking_round_counter is a uint8_t
    Null, RootSet

Workers == 0 .. WorkerCount - 1
Old == RoundModulus    \* instead of a timing: m_age is not 15

ASSUME HeapAssumption ==
    /\ IsFiniteSet(Units) /\ Unswept \subseteq Units /\ RootUnits \subseteq Units
    /\ Null \notin Units /\ RootSet \notin Units
    /\ WorkerCount \in Nat \ {0}
    /\ MarkingContext \in [Mutators -> Workers]
    /\ RoundModulus \in Nat /\ RoundModulus > 1

VARIABLES
    life,     \* UnitHead::m_life
    timing,   \* UnitHead::m_timing while m_age is 15, else Old
    ref,      \* the reference in each unit
    stack,    \* the units on the stacks of the mutators
    roots,    \* m_root_gc_unit_set
    op,       \* what each mutator is doing, where, and to which unit
    counter,  \* woomem_gc_marking_round_counter
    flag,     \* woomem_gc_marking_state_flag
    main_pc,  \* where main_thread_job is
    gray,     \* the gray units in the hands of each worker
    done,     \* the workers that are done with the running phase
    todo,     \* the units the sweep has still to visit
    dead,     \* history: garbage when the round began, and not freed yet
    lost,     \* history: what was cut off from the collector in this round
    broken    \* history: a unit was freed that the program could reach

heapVars == <<ref, stack, roots>>
roundVars == <<counter, flag, main_pc, done, todo>>
history == <<dead, lost, broken>>
vars == <<life, timing, heapVars, op, roundVars, gray, history>>

Idle == [pc |-> "idle", at |-> Null, unit |-> Null]

Init ==
    /\ life = [u \in Units |-> "RELEASED"]
    /\ timing = [u \in Units |-> Old]
    /\ ref = [u \in Units |-> Null] /\ stack = {} /\ roots = {}
    /\ op = [m \in Mutators |-> Idle]
    /\ counter = 0 /\ flag = FALSE /\ main_pc = "idle"
    /\ gray = [w \in Workers |-> {}]
    /\ done = {} /\ todo = {}
    /\ dead = {} /\ lost = {} /\ broken = FALSE

\* What the program holds, and what it can reach from there: the least set that
\* contains the one and is closed under references.
Held == stack \cup roots \cup {u \in Units : \E m \in Mutators : u \in {op[m].at, op[m].unit}}
Closed(S) == Held \subseteq S /\ \A u \in S : ref[u] = Null \/ ref[u] \in S
Reachable == {u \in Units : \A S \in SUBSET Units : Closed(S) => u \in S}

-----------------------------------------------------------------------------
(* Allocation *)

Go(m, label) == op' = [op EXCEPT ![m].pc = label]

\* woomem_allocate_begin.
AllocateBegin(m, u) ==
    /\ op[m] = Idle
    /\ life[u] = "RELEASED"
    /\ life' = [life EXCEPT ![u] = "PENDING"]
    /\ op' = [op EXCEPT ![m] = [Idle EXCEPT !.pc = IF u \in RootUnits THEN "root" ELSE "pending",
                                            !.unit = u]]
    /\ UNCHANGED <<timing, heapVars, roundVars, gray, history>>

\* register_root_unit_head, before woomem_allocate_end.
RegisterRoot(m) ==
    /\ op[m].pc = "root"
    /\ roots' = roots \cup {op[m].unit}
    /\ Go(m, "pending")
    /\ UNCHANGED <<life, timing, ref, stack, roundVars, gray, history>>

\* woomem_allocate_end up to its last store.  Before it the program has filled
\* the unit, or woomem_reallocate has copied another one.
AllocateEnd(m, v) ==
    /\ op[m].pc = "pending"
    /\ ref' = [ref EXCEPT ![op[m].unit] = v]
    /\ timing' = [timing EXCEPT ![op[m].unit] = counter]
    /\ Go(m, "timed")
    /\ UNCHANGED <<life, stack, roots, roundVars, gray, history>>

\* Its last store.
StoreUnmarked(m) ==
    /\ op[m].pc = "timed"
    /\ life' = [life EXCEPT ![op[m].unit] = "UNMARKED"]
    /\ stack' = stack \cup {op[m].unit}
    /\ op' = [op EXCEPT ![m] = Idle]
    /\ UNCHANGED <<timing, ref, roots, roundVars, gray, history>>

-----------------------------------------------------------------------------
(* The program, external but for marking and the root set *)

Load(u) ==
    /\ u \in (({ref[v] : v \in stack} \ {Null}) \cup roots) \ stack
    /\ life[u] # "PENDING"
    /\ stack' = stack \cup {u}
    /\ UNCHANGED <<life, timing, ref, roots, op, roundVars, gray, history>>

Drop(u) ==
    /\ u \in stack
    /\ stack' = stack \ {u}
    /\ UNCHANGED <<life, timing, ref, roots, op, roundVars, gray, history>>

\* A reference to old is overwritten, or unregister_root_unit_head erases a root.
Put(at, old, v) ==
    IF at = RootSet
    THEN roots' = roots \ {old} /\ UNCHANGED ref
    ELSE ref' = [ref EXCEPT ![at] = v] /\ UNCHANGED roots

\* The places a mutator may overwrite, and what is there.
Places == {<<x, ref[x]>> : x \in stack}
          \cup {<<RootSet, u>> : u \in {r \in roots : life[r] # "PENDING"}}

\* Step 4 has lowered the flag, Step 5 is not over, and nobody has followed the
\* reference in x yet.
Unguarded(x) == main_pc \in {"stop", "final"} /\ x # RootSet /\ life[x] # "FULL_MARKED"

\* The unmarked units that references lead to from v, by unmarked units only.
White == {u \in Units : life[u] = "UNMARKED"}
WhiteFrom(v) ==
    {u \in White : \A S \in SUBSET White : ({v} \cup {ref[x] : x \in S}) \cap White \subseteq S => u \in S}

\* The flag is down, or there is nothing to mark: the barrier does nothing.
Overwrite(m, at, old, v) ==
    /\ op[m] = Idle
    /\ ~flag \/ old = Null
    /\ Put(at, old, v)
    /\ lost' = IF Unguarded(at) THEN lost \cup WhiteFrom(old) ELSE lost
    /\ UNCHANGED <<life, timing, stack, op, roundVars, gray, dead, broken>>

\* The flag is up: the barrier is going to mark what is lost.
Barrier(m, at, old) ==
    /\ op[m] = Idle
    /\ flag /\ old # Null
    /\ op' = [op EXCEPT ![m] = [pc |-> "shade", at |-> at, unit |-> old]]
    /\ UNCHANGED <<life, timing, heapVars, roundVars, gray, history>>

\* mark_unit_to_gray: the CAS, ...
Shade(m) ==
    /\ op[m].pc = "shade"
    /\ IF life[op[m].unit] = "UNMARKED"
       THEN life' = [life EXCEPT ![op[m].unit] = "SELF_MARKED"] /\ Go(m, "enqueue")
       ELSE UNCHANGED life /\ Go(m, "write")
    /\ UNCHANGED <<timing, heapVars, roundVars, gray, history>>

\* ... and the unit handed to the worker.
Enqueue(m) ==
    /\ op[m].pc = "enqueue"
    /\ gray' = [gray EXCEPT ![MarkingContext[m]] = @ \cup {op[m].unit}]
    /\ Go(m, "write")
    /\ UNCHANGED <<life, timing, heapVars, roundVars, history>>

Write(m, v) ==
    /\ op[m].pc = "write"
    /\ Put(op[m].at, op[m].unit, v)
    /\ op' = [op EXCEPT ![m] = Idle]
    /\ UNCHANGED <<life, timing, stack, roundVars, gray, history>>

-----------------------------------------------------------------------------
(* The marking half of main_thread_job and of its workers *)

\* The units of S that are not marked become gray, in the hands of worker w.
ShadeAll(S, w) ==
    LET white == {u \in S : life[u] = "UNMARKED"}
    IN  /\ life' = [u \in Units |-> IF u \in white THEN "SELF_MARKED" ELSE life[u]]
        /\ gray' = [gray EXCEPT ![w] = @ \cup white]

\* Step 1.
BeginRound ==
    /\ main_pc = "idle"
    /\ counter' = (counter + 1) % RoundModulus
    /\ flag' = TRUE
    /\ main_pc' = "begin"
    /\ dead' = White \ (Unswept \cup Reachable)
    /\ UNCHANGED <<life, timing, heapVars, op, done, todo, gray, lost, broken>>

\* Step 2: the begin callback, with all mutators stopped ...
BeginCallback ==
    /\ main_pc = "begin"
    /\ \A m \in Mutators : op[m] = Idle
    /\ \E w \in Workers : ShadeAll(stack, w)
    /\ main_pc' = "roots"
    /\ UNCHANGED <<timing, heapVars, op, counter, flag, done, todo, history>>

\* ... and the loop over the root set, under its lock.
MarkRoots ==
    /\ main_pc = "roots"
    /\ \E w \in Workers : ShadeAll(roots, w)
    /\ done' = {}
    /\ main_pc' = "mark"
    /\ UNCHANGED <<timing, heapVars, op, counter, flag, todo, history>>

\* A worker marks what a gray unit refers to, then the unit itself.
Scan(w, u) ==
    /\ main_pc \in {"mark", "final"}
    /\ w \notin done
    /\ u \in gray[w]
    /\ LET white == {v \in {ref[u]} \ {Null, u} : life[v] = "UNMARKED"}
       IN  /\ life' = [v \in Units |-> IF v = u THEN "FULL_MARKED"
                                       ELSE IF v \in white THEN "SELF_MARKED" ELSE life[v]]
           /\ gray' = [gray EXCEPT ![w] = (@ \ {u}) \cup white]
    /\ UNCHANGED <<timing, heapVars, op, roundVars, history>>

WorkerDone(w) ==
    /\ main_pc \in {"mark", "final"}
    /\ w \notin done
    /\ gray[w] = {}
    /\ done' = done \cup {w}
    /\ UNCHANGED <<life, timing, heapVars, op, counter, flag, main_pc, todo, gray, history>>

\* Step 4.
LowerFlag ==
    /\ main_pc = "mark"
    /\ done = Workers
    /\ flag' = FALSE
    /\ main_pc' = "stop"
    /\ UNCHANGED <<life, timing, heapVars, op, counter, done, todo, gray, history>>

\* The stop callback returns; Step 5.
StopCallback ==
    /\ main_pc = "stop"
    /\ \A m \in Mutators : op[m].pc \notin {"shade", "enqueue"}
    /\ done' = {}
    /\ main_pc' = "final"
    /\ UNCHANGED <<life, timing, heapVars, op, counter, flag, todo, gray, history>>

-----------------------------------------------------------------------------
(* The sweep *)

\* Step 6: every page with a unit in use is in the chain, others may be.
StartSweep ==
    /\ main_pc = "final"
    /\ done = Workers
    /\ todo' \in {Units, {u \in Units : life[u] \notin {"RELEASED", "PENDING"}}}
    /\ done' = {}
    /\ main_pc' = "sweep"
    /\ UNCHANGED <<life, timing, heapVars, op, counter, flag, gray, history>>

\* Mutation: a new unit that is not marked is freed all the same.
DyingThoughNew(u) == life[u] = "UNMARKED" /\ u \notin Unswept

\* The condition on which check_and_free_unmarked_unit frees a unit.
Dying(u) == life[u] = "UNMARKED" /\ timing[u] # counter /\ u \notin Unswept

\* Mutation: only unmarked units grow older.
AgedIfUnmarked(u) == [timing EXCEPT ![u] = IF life[u] = "UNMARKED" THEN Old ELSE @]

\* The age of a unit that stays falls below 15.
Aged(u) == [timing EXCEPT ![u] = Old]

\* check_and_free_unmarked_unit; the reference of a free unit means nothing.
Sweep(u) ==
    /\ u \in todo
    /\ todo' = todo \ {u}
    /\ CASE Dying(u) ->
              /\ life' = [life EXCEPT ![u] = "RELEASED"]
              /\ timing' = [timing EXCEPT ![u] = Old]
              /\ ref' = [ref EXCEPT ![u] = Null]
              /\ dead' = dead \ {u}
              /\ broken' = (broken \/ u \in Reachable)
              /\ UNCHANGED lost
         [] ~Dying(u) /\ life[u] \notin {"RELEASED", "PENDING"} ->
              /\ life' = [life EXCEPT ![u] = "UNMARKED"]
              /\ timing' = Aged(u)
              /\ UNCHANGED <<ref, history>>
         [] OTHER -> UNCHANGED <<life, timing, ref, history>>
    /\ UNCHANGED <<stack, roots, op, counter, flag, main_pc, done, gray>>

\* Step 7.
EndRound ==
    /\ main_pc = "sweep"
    /\ todo = {}
    /\ main_pc' = "idle"
    /\ lost' = {}
    /\ UNCHANGED <<life, timing, heapVars, op, counter, flag, done, todo, gray, dead, broken>>

-----------------------------------------------------------------------------
Mutate(m) ==
    \/ \E u \in Units : AllocateBegin(m, u)
    \/ RegisterRoot(m) \/ StoreUnmarked(m)
    \/ \E v \in stack \cup {Null} : AllocateEnd(m, v) \/ Write(m, v)
    \/ \E p \in Places : Barrier(m, p[1], p[2])
                         \/ \E v \in stack \cup {Null} : Overwrite(m, p[1], p[2], v)
    \/ Shade(m) \/ Enqueue(m)

Collect ==
    \/ BeginRound \/ BeginCallback \/ MarkRoots
    \/ \E w \in Workers : WorkerDone(w) \/ \E u \in Units : Scan(w, u)
    \/ LowerFlag \/ StopCallback
    \/ StartSweep \/ EndRound \/ \E u \in Units : Sweep(u)

Next ==
    \/ \E m \in Mutators : Mutate(m)
    \/ \E u \in Units : Load(u) \/ Drop(u)
    \/ Collect

Spec == Init /\ [][Next]_vars

-----------------------------------------------------------------------------
(* Properties *)

\* Every variable keeps its type.
TypeOK ==
    /\ life \in [Units -> {"RELEASED", "PENDING", "UNMARKED", "SELF_MARKED", "FULL_MARKED"}]
    /\ timing \in [Units -> 0 .. Old]
    /\ ref \in [Units -> Units \cup {Null}]
    /\ stack \in SUBSET Units /\ roots \in SUBSET Units
    /\ op \in [Mutators -> [pc : {"idle", "root", "pending", "timed", "shade", "enqueue", "write"},
                            at : Units \cup {RootSet, Null}, unit : Units \cup {Null}]]
    /\ counter \in 0 .. RoundModulus - 1
    /\ flag \in BOOLEAN
    /\ main_pc \in {"idle", "begin", "roots", "mark", "stop", "final", "sweep"}
    /\ gray \in [Workers -> SUBSET Units]
    /\ done \in SUBSET Workers
    /\ todo \in SUBSET Units
    /\ dead \in SUBSET Units /\ lost \in SUBSET Units /\ broken \in BOOLEAN

\* The first unit that check_and_free_unmarked_unit frees although the program can
\* reach it was cut off in this round: between Step 4, which lowers the flag while
\* the threads run, and the end of Step 5, the program overwrote, in a unit that no
\* worker had scanned, the first reference of an unmarked chain to it.  Any other
\* reachable unit is kept, in whatever round it was allocated and wherever its
\* references have moved while the workers were marking.
FreesGarbageOrLost ==
    [][~broken => \A u \in Units :
           life[u] = "UNMARKED" /\ life'[u] = "RELEASED" => u \notin Reachable \ lost]_vars

\* What was garbage when a round began is freed by the end of that round, in
\* particular when the round counter comes back to the timing of the unit.
GarbageFreed == main_pc = "idle" => dead = {}

=============================================================================
