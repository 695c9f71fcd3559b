------------------------- MODULE CollectedHeapProofs -------------------------
(***************************************************************************)
(* What the collector frees, whatever the heap, the mutators and the       *)
(* workers.  While it marks, the invariant is the one of a snapshot at the *)
(* beginning: a reachable unit that the sweep would free is protected, by  *)
(* a chain of references that starts at a gray unit and goes through       *)
(* unmarked ones, or it is lost.  A chain is said to exist by saying that  *)
(* every set closed under its links contains the unit.  All this is so as  *)
(* long as nothing reachable was freed; what is free or marked, and how    *)
(* garbage ends, does not depend on it.                                    *)
(***************************************************************************)
EXTENDS CollectedHeap, TLAPS

Marked == {"SELF_MARKED", "FULL_MARKED"}
Marking == {"roots", "mark", "stop", "final"}
AllocPcs == {"root", "pending", "timed"}
BarrierPcs == {"shade", "enqueue", "write"}

\* The flag, the sweep's list and the barriers follow the phases.
Control ==
    /\ flag <=> main_pc \in {"begin", "roots", "mark"}
    /\ main_pc # "sweep" => todo = {}
    /\ main_pc \in {"final", "sweep", "idle"} =>
         \A m \in Mutators : op[m].pc \notin {"shade", "enqueue"}

\* A unit is PENDING exactly while one mutator allocates it; its timing is that
\* of the round unless the round has just begun.
Allocating ==
    /\ \A m \in Mutators : op[m].pc \in AllocPcs =>
         /\ op[m].at = Null /\ op[m].unit \in Units /\ life[op[m].unit] = "PENDING"
         /\ op[m].pc = "timed" /\ main_pc # "begin" => timing[op[m].unit] = counter
    /\ \A m, n \in Mutators :
         m # n /\ op[m].pc \in AllocPcs /\ op[n].pc \in AllocPcs => op[m].unit # op[n].unit
    /\ \A u \in Units : life[u] = "PENDING" =>
         \E m \in Mutators : op[m].pc \in AllocPcs /\ op[m].unit = u

\* A barrier knows what it is about, and hands on what it has marked.
Barriers ==
    \A m \in Mutators : op[m].pc \in BarrierPcs =>
        /\ op[m].at \in Units \cup {RootSet} /\ op[m].unit \in Units
        /\ op[m].pc = "enqueue" => life[op[m].unit] \in Marked

\* What a barrier has marked stays marked until the sweep.
Shaded ==
    \A m \in Mutators : op[m].pc \in BarrierPcs =>
        /\ life[op[m].unit] # "PENDING"
        /\ op[m].pc = "write" /\ main_pc \in Marking => life[op[m].unit] \in Marked

\* Nothing within reach is free, or leads to a unit that is not filled yet.
Heap ==
    /\ \A u \in stack : life[u] # "PENDING"
    /\ \A u \in Reachable : life[u] # "RELEASED"
    /\ \A u \in Reachable : ref[u] # Null => life[ref[u]] # "PENDING"
    /\ \A u \in Units : life[u] = "RELEASED" => ref[u] = Null

\* Every gray unit is in somebody's hands; marks are gone when a round ends.
Colours ==
    /\ main_pc = "idle" => \A u \in Units : life[u] \notin Marked
    /\ main_pc = "begin" => \A u \in Units : life[u] # "FULL_MARKED"
    /\ main_pc = "sweep" => \A u \in Units : life[u] \in Marked => u \in todo
    /\ \A u \in Units : life[u] = "SELF_MARKED" =>
         \/ \E w \in Workers : u \in gray[w]
         \/ \E m \in Mutators : op[m].pc = "enqueue" /\ op[m].unit = u
    /\ \A w \in Workers : \A u \in gray[w] : life[u] \in Marked
    /\ main_pc = "final" => \A w \in done : gray[w] = {}
    /\ main_pc \in {"sweep", "idle"} => \A w \in Workers : gray[w] = {}

\* A write that is still to come may take away a reference which its barrier has
\* not seen; such references do not count.
Stale(x) ==
    \E m \in Mutators : op[m].pc \in BarrierPcs /\ op[m].at = x /\ op[m].unit # ref[x]
Link(x) == ref[x] # Null /\ ~Stale(x) /\ life[ref[x]] = "UNMARKED"

\* S contains all that the workers will still find, if no reference changes.
Follows(S) ==
    /\ main_pc = "roots" => \A u \in roots : life[u] = "UNMARKED" => u \in S
    /\ \A x \in Units :
         /\ life[x] = "SELF_MARKED" \/ (life[x] = "UNMARKED" /\ x \in S)
         /\ Link(x)
         => ref[x] \in S

Condemned(u) == life[u] = "UNMARKED" /\ timing[u] # counter

Protected ==
    main_pc \in Marking =>
        \A S \in SUBSET Units : Follows(S) =>
            \A u \in Reachable : Condemned(u) => u \in S \cup lost

SweepSafe ==
    main_pc = "sweep" => \A u \in Reachable : u \in todo /\ Condemned(u) => u \in lost

\* What always holds, and what holds until something reachable is freed.
BasicInv == TypeOK /\ Control /\ Allocating /\ Barriers /\ Colours
HeapInv == BasicInv /\ Shaded /\ Heap /\ Protected /\ SweepSafe

-----------------------------------------------------------------------------
(* Reachability *)

\* What is reachable is closed under references.
LEMMA ReachableClosed ==
    ASSUME TypeOK
    PROVE  /\ Reachable \in SUBSET Units /\ Held \subseteq Reachable
           /\ \A u \in Reachable : ref[u] = Null \/ ref[u] \in Reachable
<1>1. Held \subseteq Units
  BY Zenon DEF TypeOK, Held
<1>2. ASSUME NEW u \in Reachable, ref[u] # Null PROVE ref[u] \in Reachable
  BY <1>2, Zenon DEF Reachable, Closed, TypeOK
<1> QED
  BY <1>1, <1>2, Zenon DEF Reachable, Closed

\* What is reachable after a step lies in every set that is closed then.
LEMMA LeastNext ==
    ASSUME NEW T \in SUBSET Units, Held' \subseteq T,
           \A u \in T : ref'[u] = Null \/ ref'[u] \in T
    PROVE  Reachable' \subseteq T
  BY Zenon DEF Reachable, Closed

-----------------------------------------------------------------------------
(* Types *)

\* Every step keeps the types.
LEMMA TypeNext ==
    ASSUME TypeOK, Allocating, Barriers, Next
    PROVE  TypeOK'
<1>0. \A m \in Mutators : op[m].pc \in AllocPcs \cup BarrierPcs => op[m].unit \in Units
  BY Zenon DEF Allocating, Barriers
<1> USE HeapAssumption DEF heapVars, roundVars, history, Old, Idle, Go
<1>1. ASSUME NEW m \in Mutators, Mutate(m) PROVE TypeOK'
  <2>1. ASSUME NEW u \in Units, AllocateBegin(m, u) PROVE TypeOK'
    BY <2>1, Zenon DEF AllocateBegin, TypeOK
  <2>2. ASSUME RegisterRoot(m) PROVE TypeOK'
    BY <1>0, <2>2 DEF RegisterRoot, TypeOK, AllocPcs, BarrierPcs
  <2>3. ASSUME StoreUnmarked(m) PROVE TypeOK'
    BY <1>0, <2>3, Zenon DEF StoreUnmarked, TypeOK, AllocPcs, BarrierPcs
  <2>4. ASSUME NEW v \in stack \cup {Null}, AllocateEnd(m, v) PROVE TypeOK'
    <3>1. op[m].unit \in Units /\ v \in Units \cup {Null} /\ counter \in 0 .. Old
      BY <1>0, <2>4 DEF AllocateEnd, TypeOK, AllocPcs
    <3>2. ref' \in [Units -> Units \cup {Null}] /\ timing' \in [Units -> 0 .. Old]
      BY <2>4, <3>1, Zenon DEF AllocateEnd, TypeOK
    <3> QED
      BY <2>4, <3>2 DEF AllocateEnd, TypeOK
  <2>5. ASSUME NEW v \in stack \cup {Null}, Write(m, v) PROVE TypeOK'
    BY <2>5 DEF Write, Put, TypeOK
  <2>6. ASSUME NEW p \in Places, Barrier(m, p[1], p[2]) PROVE TypeOK'
    BY <2>6 DEF Barrier, Places, TypeOK
  <2>7. ASSUME NEW p \in Places, NEW v \in stack \cup {Null}, Overwrite(m, p[1], p[2], v)
        PROVE  TypeOK'
    <3>1. lost' \in SUBSET Units
      BY <2>7, Zenon DEF Overwrite, WhiteFrom, White, TypeOK
    <3> QED
      BY <2>7, <3>1 DEF Overwrite, Put, Places, TypeOK
  <2>8. ASSUME Shade(m) PROVE TypeOK'
    BY <2>8 DEF Shade, TypeOK
  <2>9. ASSUME Enqueue(m) PROVE TypeOK'
    <3>1. gray' \in [Workers -> SUBSET Units]
      BY <1>0, <2>9, Zenon DEF Enqueue, TypeOK, AllocPcs, BarrierPcs
    <3> QED
      BY <2>9, <3>1 DEF Enqueue, TypeOK
  <2> QED
    BY <1>1, <2>1, <2>2, <2>3, <2>4, <2>5, <2>6, <2>7, <2>8, <2>9, Zenon DEF Mutate
<1>2. ASSUME NEW u \in Units, Load(u) \/ Drop(u) PROVE TypeOK'
  BY <1>2, Zenon DEF Load, Drop, TypeOK
<1>3. CASE BeginRound \/ LowerFlag \/ StopCallback \/ EndRound
  <2>1. CASE BeginRound
    BY <2>1 DEF BeginRound, White, TypeOK
  <2> QED
    BY <1>3, <2>1, Zenon DEF LowerFlag, StopCallback, EndRound, TypeOK
<1>4. CASE BeginCallback
  BY <1>4 DEF BeginCallback, ShadeAll, TypeOK
<1>5. CASE MarkRoots
  BY <1>5 DEF MarkRoots, ShadeAll, TypeOK
<1>6. ASSUME NEW w \in Workers, WorkerDone(w) PROVE TypeOK'
  BY <1>6, Zenon DEF WorkerDone, TypeOK
<1>7. ASSUME NEW w \in Workers, NEW u \in Units, Scan(w, u) PROVE TypeOK'
  BY <1>7 DEF Scan, TypeOK
<1>8. CASE StartSweep
  BY <1>8, Zenon DEF StartSweep, TypeOK
<1>9. ASSUME NEW u \in Units, Sweep(u) PROVE TypeOK'
  <2>1. broken' \in BOOLEAN /\ lost' \in SUBSET Units
    BY <1>9, Zenon DEF Sweep, TypeOK
  <2> QED
    <3>1. CASE Dying(u)
      BY <1>9, <2>1, <3>1 DEF Sweep, TypeOK
    <3>2. CASE ~Dying(u) /\ life[u] \notin {"RELEASED", "PENDING"}
      BY <1>9, <2>1, <3>2 DEF Sweep, Aged, TypeOK
    <3>3. CASE ~Dying(u) /\ life[u] \in {"RELEASED", "PENDING"}
      BY <1>9, <2>1, <3>3, Zenon DEF Sweep, TypeOK
    <3> QED
      BY <3>1, <3>2, <3>3, Zenon
<1> QED
  BY <1>1, <1>2, <1>3, <1>4, <1>5, <1>6, <1>7, <1>8, <1>9, Zenon DEF Next, Collect

-----------------------------------------------------------------------------
(* The conjuncts that do not speak of reachability *)

LocalInv == Control /\ Allocating /\ Barriers /\ Colours

\* A place is a unit on the stack with its reference, or a root.
LEMMA PlaceTypes ==
    ASSUME TypeOK, NEW p \in Places
    PROVE  /\ \/ p[1] \in stack /\ p[2] = ref[p[1]]
              \/ p[1] = RootSet /\ p[2] \in roots /\ life[p[2]] # "PENDING"
           /\ p[1] \in Units \cup {RootSet} /\ p[2] \in Units \cup {Null}
<1>1. CASE \E x \in stack : p = <<x, ref[x]>>
  <2>1. PICK x \in stack : p = <<x, ref[x]>>
    BY <1>1, Zenon
  <2>2. p[1] = x /\ p[2] = ref[x]
    BY <2>1, Zenon
  <2> QED
    BY <2>1, <2>2, Zenon DEF TypeOK
<1>2. CASE \E u \in {r \in roots : life[r] # "PENDING"} : p = <<RootSet, u>>
  <2>1. PICK u \in {r \in roots : life[r] # "PENDING"} : p = <<RootSet, u>>
    BY <1>2, Zenon
  <2>2. p[1] = RootSet /\ p[2] = u
    BY <2>1, Zenon
  <2> QED
    BY <2>1, <2>2, Zenon DEF TypeOK
<1> QED
  BY <1>1, <1>2, Zenon DEF Places

\* AllocateBegin keeps them.
LEMMA LocalAllocateBegin ==
    ASSUME BasicInv, NEW m \in Mutators, NEW u \in Units, AllocateBegin(m, u)
    PROVE  LocalInv'
<1> USE HeapAssumption DEF BasicInv, TypeOK, heapVars, roundVars
<1>1. Control'
  BY Zenon DEF AllocateBegin, Idle, Control
<1>2. Allocating'
  BY DEF AllocateBegin, Idle, Allocating, AllocPcs
<1>3. Barriers'
  BY DEF AllocateBegin, Idle, Barriers, BarrierPcs, Marked, Marking
<1>4. Colours'
  BY DEF AllocateBegin, Idle, Colours, Marked
<1> QED
  BY <1>1, <1>2, <1>3, <1>4, Zenon DEF LocalInv

\* RegisterRoot keeps them.
LEMMA LocalRegisterRoot ==
    ASSUME BasicInv, NEW m \in Mutators, RegisterRoot(m)
    PROVE  LocalInv'
<1> USE HeapAssumption DEF BasicInv, TypeOK, heapVars, roundVars
<1>1. Control'
  BY DEF RegisterRoot, Go, Control
<1>2. Allocating'
  BY DEF RegisterRoot, Go, Allocating, AllocPcs
<1>3. Barriers'
  BY DEF RegisterRoot, Go, Barriers, BarrierPcs, Marked, Marking
<1>4. Colours'
  BY Zenon DEF RegisterRoot, Go, Colours, Marked
<1> QED
  BY <1>1, <1>2, <1>3, <1>4, Zenon DEF LocalInv

\* AllocateEnd keeps them.
LEMMA LocalAllocateEnd ==
    ASSUME BasicInv, NEW m \in Mutators, NEW v \in stack \cup {Null}, AllocateEnd(m, v)
    PROVE  LocalInv'
<1> USE HeapAssumption DEF BasicInv, TypeOK, heapVars, roundVars
<1>1. Control'
  BY DEF AllocateEnd, Go, Control
<1>2. Allocating'
  BY DEF AllocateEnd, Go, Allocating, AllocPcs
<1>3. Barriers'
  BY DEF AllocateEnd, Go, Barriers, BarrierPcs, Marked, Marking
<1>4. Colours'
  BY Zenon DEF AllocateEnd, Go, Colours, Marked
<1> QED
  BY <1>1, <1>2, <1>3, <1>4, Zenon DEF LocalInv

\* StoreUnmarked keeps them.
LEMMA LocalStoreUnmarked ==
    ASSUME BasicInv, NEW m \in Mutators, StoreUnmarked(m)
    PROVE  LocalInv'
<1> USE HeapAssumption DEF BasicInv, TypeOK, heapVars, roundVars
<1>1. Control'
  BY Zenon DEF StoreUnmarked, Idle, Control
<1>2. Allocating'
  BY DEF StoreUnmarked, Idle, Allocating, AllocPcs
<1>3. Barriers'
  BY DEF StoreUnmarked, Idle, Allocating, AllocPcs, Barriers, BarrierPcs, Marked, Marking
<1>4. Colours'
  BY DEF StoreUnmarked, Idle, Allocating, AllocPcs, Colours, Marked
<1> QED
  BY <1>1, <1>2, <1>3, <1>4, Zenon DEF LocalInv

\* Overwrite keeps them.
LEMMA LocalOverwrite ==
    ASSUME BasicInv, NEW m \in Mutators, NEW p \in Places, NEW v \in stack \cup {Null}, Overwrite(m, p[1], p[2], v)
    PROVE  LocalInv'
<1> USE HeapAssumption DEF BasicInv, TypeOK, heapVars, roundVars
<1>1. Control'
  BY Zenon DEF Overwrite, Control
<1>2. Allocating'
  BY DEF Overwrite, Allocating, AllocPcs
<1>3. Barriers'
  BY Zenon DEF Overwrite, Barriers, BarrierPcs, Marked, Marking
<1>4. Colours'
  BY Zenon DEF Overwrite, Colours, Marked
<1> QED
  BY <1>1, <1>2, <1>3, <1>4, Zenon DEF LocalInv

\* Barrier keeps them.
LEMMA LocalBarrier ==
    ASSUME BasicInv, NEW m \in Mutators, NEW p \in Places, Barrier(m, p[1], p[2])
    PROVE  LocalInv'
<1> DEFINE x == p[1]
           y == p[2]
<1>0. /\ x \in Units \cup {RootSet} /\ y \in Units
      /\ op' = [op EXCEPT ![m] = [pc |-> "shade", at |-> x, unit |-> y]]
      /\ op[m].pc = "idle" /\ flag
      /\ UNCHANGED <<life, timing, heapVars, roundVars, gray, dead>>
  BY PlaceTypes DEF Barrier, BasicInv, Idle, history
<1> HIDE DEF x, y
<1> USE HeapAssumption, <1>0 DEF BasicInv, TypeOK, heapVars, roundVars
<1>1. Control'
  BY Zenon DEF Control
<1>2. Allocating'
  BY DEF Allocating, AllocPcs
<1>3. Barriers'
  BY DEF Barriers, BarrierPcs, Marked, Marking
<1>4. Colours'
  BY Zenon DEF Colours, Marked
<1> QED
  BY <1>1, <1>2, <1>3, <1>4, Zenon DEF LocalInv

\* Shade keeps them.
LEMMA LocalShade ==
    ASSUME BasicInv, NEW m \in Mutators, Shade(m)
    PROVE  LocalInv'
<1> DEFINE u == op[m].unit
<1>0. /\ u \in Units /\ op[m].pc = "shade"
      /\ main_pc \in {"begin", "roots", "mark", "stop"}
      /\ UNCHANGED <<timing, heapVars, roundVars, gray, dead>>
  BY Zenon DEF Shade, BasicInv, Barriers, BarrierPcs, Control, TypeOK, history
<1>1. CASE life[u] = "UNMARKED"
  <2>0. /\ life' = [life EXCEPT ![u] = "SELF_MARKED"] /\ op' = [op EXCEPT ![m].pc = "enqueue"]
        /\ u = op[m].unit
    BY <1>1, Zenon DEF Shade, Go
  <2> HIDE DEF u
  <2> USE HeapAssumption, <1>0, <1>1, <2>0 DEF BasicInv, TypeOK, heapVars, roundVars
  <2>1. Control'
    BY Zenon DEF Control
  <2>2. Allocating'
    BY DEF Allocating, AllocPcs
  <2>3. Barriers'
    BY DEF Barriers, BarrierPcs, Marked, Marking
  <2>4. Colours'
    BY DEF Colours, Marked
  <2> QED
    BY <2>1, <2>2, <2>3, <2>4, Zenon DEF LocalInv
<1>2. CASE life[u] # "UNMARKED"
  <2>0. life' = life /\ op' = [op EXCEPT ![m].pc = "write"] /\ u = op[m].unit
    BY <1>0, <1>2, Zenon DEF Shade, Go
  <2> HIDE DEF u
  <2> USE HeapAssumption, <1>0, <1>2, <2>0 DEF BasicInv, TypeOK, heapVars, roundVars
  <2>1. Control'
    BY Zenon DEF Control
  <2>2. Allocating'
    BY DEF Allocating, AllocPcs
  <2>3. Barriers'
    BY DEF Barriers, BarrierPcs, Marking
  <2>4. Colours'
    BY Zenon DEF Colours
  <2> QED
    BY <2>1, <2>2, <2>3, <2>4, Zenon DEF LocalInv
<1> QED
  BY <1>1, <1>2, Zenon

\* Enqueue keeps them.
LEMMA LocalEnqueue ==
    ASSUME BasicInv, NEW m \in Mutators, Enqueue(m)
    PROVE  LocalInv'
<1> USE HeapAssumption DEF BasicInv, TypeOK, heapVars, roundVars
<1>1. Control'
  BY Zenon DEF Enqueue, Go, Control
<1>2. Allocating'
  BY DEF Enqueue, Go, Allocating, AllocPcs
<1>3. Barriers'
  BY DEF Enqueue, Go, Barriers, BarrierPcs, Marked, Marking
<1>4. Colours'
  <2>1. PICK w \in Workers : gray' = [gray EXCEPT ![w] = @ \cup {op[m].unit}]
    BY Zenon DEF Enqueue
  <2>2. /\ op' = [op EXCEPT ![m].pc = "write"] /\ op[m].pc = "enqueue" /\ op[m].unit \in Units
        /\ life' = life /\ main_pc' = main_pc /\ todo' = todo /\ done' = done
        /\ main_pc \notin {"final", "sweep", "idle"} /\ life[op[m].unit] \in Marked
    BY Zenon DEF Enqueue, Go, Barriers, BarrierPcs, Control
  <2>3. ASSUME NEW u \in Units, life'[u] = "SELF_MARKED"
        PROVE  \/ \E v \in Workers : u \in gray'[v]
               \/ \E n \in Mutators : op'[n].pc = "enqueue" /\ op'[n].unit = u
    <3>1. CASE u = op[m].unit
      BY <2>1, <3>1, Zenon
    <3>2. CASE u # op[m].unit
      <4>1. ASSUME NEW v \in Workers, u \in gray[v] PROVE u \in gray'[v]
        BY <2>1, <4>1, Zenon
      <4>2. ASSUME NEW n \in Mutators, op[n].pc = "enqueue", op[n].unit = u
            PROVE  op'[n].pc = "enqueue" /\ op'[n].unit = u
        BY <2>2, <3>2, <4>2, Zenon
      <4> QED
        BY <2>2, <2>3, <4>1, <4>2, Zenon DEF Colours
    <3> QED
      BY <3>1, <3>2, Zenon
  <2>4. ASSUME NEW v \in Workers, NEW u \in gray'[v] PROVE life'[u] \in Marked
    BY <2>1, <2>2, <2>4 DEF Colours
  <2> QED
    BY <2>2, <2>3, <2>4, Zenon DEF Colours
<1> QED
  BY <1>1, <1>2, <1>3, <1>4, Zenon DEF LocalInv

\* Write keeps them.
LEMMA LocalWrite ==
    ASSUME BasicInv, NEW m \in Mutators, NEW v \in stack \cup {Null}, Write(m, v)
    PROVE  LocalInv'
<1> USE HeapAssumption DEF BasicInv, TypeOK, heapVars, roundVars
<1>1. Control'
  BY Zenon DEF Write, Idle, Control
<1>2. Allocating'
  BY DEF Write, Idle, Allocating, AllocPcs
<1>3. Barriers'
  BY Zenon DEF Write, Idle, Barriers, BarrierPcs, Marked, Marking
<1>4. Colours'
  BY Zenon DEF Write, Idle, Colours, Marked
<1> QED
  BY <1>1, <1>2, <1>3, <1>4, Zenon DEF LocalInv

\* The collector's steps between two phases keep them.
LEMMA LocalPhase ==
    ASSUME BasicInv, BeginRound \/ LowerFlag \/ StopCallback \/ StartSweep \/ EndRound
    PROVE  LocalInv'
<1> USE HeapAssumption DEF BasicInv, TypeOK, heapVars, roundVars, BeginRound, LowerFlag, StopCallback,
        StartSweep, EndRound
<1>0. UNCHANGED <<life, timing, op, gray>>
  BY Zenon
<1>1. Control'
  BY DEF Control
<1>2. Allocating'
  BY DEF Allocating, AllocPcs
<1>3. Barriers'
  BY Zenon DEF Barriers, BarrierPcs, Marked, Marking
<1>4. Colours'
  BY DEF Colours, Marked
<1> QED
  BY <1>1, <1>2, <1>3, <1>4, Zenon DEF LocalInv

\* Marking the stacks or the roots keeps them.
LEMMA LocalShadeAll ==
    ASSUME BasicInv, BeginCallback \/ MarkRoots
    PROVE  LocalInv'
<1>1. PICK S \in SUBSET Units, w \in Workers : ShadeAll(S, w)
  BY Zenon DEF BeginCallback, MarkRoots, BasicInv, TypeOK
<1> DEFINE white == {u \in S : life[u] = "UNMARKED"}
<1>2. /\ life' = [u \in Units |-> IF u \in white THEN "SELF_MARKED" ELSE life[u]]
      /\ gray' = [gray EXCEPT ![w] = @ \cup white]
      /\ white \in SUBSET Units /\ \A u \in white : life[u] = "UNMARKED"
  BY <1>1, Zenon DEF ShadeAll
<1>3. /\ \/ main_pc = "begin" /\ main_pc' = "roots"
         \/ main_pc = "roots" /\ main_pc' = "mark"
      /\ main_pc = "begin" => \A m \in Mutators : op[m].pc = "idle"
      /\ UNCHANGED <<timing, heapVars, op, counter, flag, todo, dead>>
  BY DEF BeginCallback, MarkRoots, Idle, history
<1> HIDE DEF white
<1> USE HeapAssumption, <1>2, <1>3 DEF BasicInv, TypeOK, heapVars
<1>4. Control'
  BY Zenon DEF Control
<1>5. Allocating'
  BY DEF Allocating, AllocPcs
<1>6. Barriers'
  BY Zenon DEF Barriers, BarrierPcs, Marked, Marking
<1>7. Colours'
  <2>1. ASSUME NEW u \in Units, life'[u] = "SELF_MARKED"
        PROVE  \/ \E v \in Workers : u \in gray'[v]
               \/ \E n \in Mutators : op'[n].pc = "enqueue" /\ op'[n].unit = u
    BY <2>1 DEF Colours
  <2>2. ASSUME NEW v \in Workers, NEW u \in gray'[v] PROVE life'[u] \in Marked
    BY <2>2 DEF Colours, Marked
  <2> QED
    BY <2>1, <2>2, Zenon DEF Colours
<1> QED
  BY <1>4, <1>5, <1>6, <1>7, Zenon DEF LocalInv

\* A worker's steps keep them.
LEMMA LocalWorker ==
    ASSUME BasicInv, NEW w \in Workers, WorkerDone(w) \/ \E u \in Units : Scan(w, u)
    PROVE  LocalInv'
<1>1. CASE WorkerDone(w)
  <2> USE <1>1 DEF BasicInv, TypeOK, heapVars, WorkerDone
  <2>1. Control' /\ Allocating' /\ Barriers'
    BY Zenon DEF Control, Allocating, Barriers
  <2>2. Colours'
    BY Zenon DEF Colours
  <2> QED
    BY <2>1, <2>2, Zenon DEF LocalInv
<1>2. ASSUME NEW u \in Units, Scan(w, u) PROVE LocalInv'
  <2> DEFINE white == {v \in {ref[u]} \ {Null, u} : life[v] = "UNMARKED"}
  <2>1. /\ life' = [v \in Units |-> IF v = u THEN "FULL_MARKED"
                                    ELSE IF v \in white THEN "SELF_MARKED" ELSE life[v]]
        /\ gray' = [gray EXCEPT ![w] = (@ \ {u}) \cup white]
        /\ white \in SUBSET Units /\ \A v \in white : life[v] = "UNMARKED"
        /\ main_pc \in {"mark", "final"} /\ w \notin done /\ u \in gray[w]
        /\ UNCHANGED <<timing, heapVars, op, roundVars, dead>>
    BY <1>2 DEF Scan, BasicInv, TypeOK, history
  <2> HIDE DEF white
  <2>2. life[u] \in Marked
    BY <2>1, Zenon DEF BasicInv, Colours
  <2> USE HeapAssumption, <2>1, <2>2 DEF BasicInv, TypeOK, heapVars, roundVars
  <2>3. Control'
    BY Zenon DEF Control
  <2>4. Allocating'
    BY DEF Allocating, AllocPcs, Marked
  <2>5. Barriers'
    BY Zenon DEF Barriers, BarrierPcs, Marked, Marking
  <2>6. Colours'
    <3>1. ASSUME NEW x \in Units, life'[x] = "SELF_MARKED"
          PROVE  \/ \E v \in Workers : x \in gray'[v]
                 \/ \E n \in Mutators : op'[n].pc = "enqueue" /\ op'[n].unit = x
      BY <3>1 DEF Colours
    <3>2. ASSUME NEW v \in Workers, NEW x \in gray'[v] PROVE life'[x] \in Marked
      BY <3>2 DEF Colours, Marked
    <3>3. main_pc' = "final" => \A v \in done' : gray'[v] = {}
      BY Zenon DEF Colours
    <3> QED
      BY <3>1, <3>2, <3>3, Zenon DEF Colours
  <2> QED
    BY <2>3, <2>4, <2>5, <2>6, Zenon DEF LocalInv
<1> QED
  BY <1>1, <1>2, Zenon

\* The sweep of a unit keeps them.
LEMMA LocalSweep ==
    ASSUME BasicInv, NEW u \in Units, Sweep(u)
    PROVE  LocalInv'
<1>1. /\ main_pc = "sweep" /\ main_pc' = "sweep" /\ todo' = todo \ {u}
      /\ UNCHANGED <<stack, roots, op, counter, flag, done, gray>>
  BY Zenon DEF Sweep, BasicInv, Control
<1>2. \/ /\ life[u] \in {"UNMARKED", "SELF_MARKED", "FULL_MARKED"}
         /\ \/ Dying(u) /\ life' = [life EXCEPT ![u] = "RELEASED"]
            \/ life' = [life EXCEPT ![u] = "UNMARKED"]
         /\ timing' = [timing EXCEPT ![u] = Old]
      \/ life[u] \in {"RELEASED", "PENDING"} /\ UNCHANGED <<life, timing>>
  BY Zenon DEF Sweep, Dying, Aged, BasicInv, TypeOK
<1> USE HeapAssumption, <1>1, <1>2 DEF BasicInv, TypeOK
<1>3. Control'
  BY Zenon DEF Control
<1>4. Allocating'
  BY DEF Allocating, AllocPcs
<1>5. Barriers'
  BY Zenon DEF Barriers, BarrierPcs, Marking, Control
<1>6. Colours'
  BY DEF Colours, Marked
<1> QED
  BY <1>3, <1>4, <1>5, <1>6, Zenon DEF LocalInv

\* Every step keeps them.
LEMMA LocalNext ==
    ASSUME BasicInv, [Next]_vars
    PROVE  LocalInv'
<1>0. ASSUME UNCHANGED <<life, timing, op, flag, counter, main_pc, done, todo, gray>>
      PROVE  LocalInv'
  <2>1. Control' /\ Barriers'
    BY <1>0, Zenon DEF BasicInv, Control, Barriers
  <2>2. Allocating'
    BY <1>0, Zenon DEF BasicInv, Allocating
  <2>3. Colours'
    BY <1>0, Zenon DEF BasicInv, Colours
  <2> QED
    BY <2>1, <2>2, <2>3, Zenon DEF LocalInv
<1>1. ASSUME NEW u \in Units, Load(u) \/ Drop(u) PROVE LocalInv'
  BY <1>0, <1>1, Zenon DEF Load, Drop, roundVars
<1>2. CASE UNCHANGED vars
  BY <1>0, <1>2, Zenon DEF vars, roundVars
<1>3. ASSUME NEW m \in Mutators, Mutate(m) PROVE LocalInv'
  BY <1>3, LocalAllocateBegin, LocalRegisterRoot, LocalAllocateEnd, LocalStoreUnmarked,
     LocalOverwrite, LocalBarrier, LocalShade, LocalEnqueue, LocalWrite, Zenon DEF Mutate
<1>4. CASE Collect
  BY <1>4, LocalPhase, LocalShadeAll, LocalWorker, LocalSweep, Zenon DEF Collect
<1> QED
  BY <1>1, <1>2, <1>3, <1>4, Zenon DEF Next

-----------------------------------------------------------------------------
(* What can be reached, and what is allocated *)

\* What the program holds is allocated.
LEMMA HeldFacts ==
    ASSUME HeapInv
    PROVE  /\ \A m \in Mutators : op[m].unit \in Units =>
                op[m].unit \in Reachable /\ life[op[m].unit] # "RELEASED"
           /\ \A u \in stack : u \in Reachable /\ life[u] \notin {"RELEASED", "PENDING"}
           /\ \A u \in roots : u \in Reachable /\ life[u] # "RELEASED"
<1>1. /\ \A m \in Mutators : op[m].unit \in Units => op[m].unit \in Held
      /\ stack \subseteq Held /\ roots \subseteq Held
  BY Zenon DEF Held
<1> QED
  BY <1>1, ReachableClosed, Zenon DEF HeapInv, BasicInv, Heap

\* What a mutator may overwrite is allocated and filled.
LEMMA PlaceFacts ==
    ASSUME HeapInv, NEW p \in Places
    PROVE  p[2] # Null => p[2] \in Reachable /\ life[p[2]] \notin {"RELEASED", "PENDING"}
<1>0. TypeOK
  BY Zenon DEF HeapInv, BasicInv
<1>1. CASE p[1] \in stack /\ p[2] = ref[p[1]]
  <2>1. p[1] \in Reachable
    BY <1>1, HeldFacts, Zenon
  <2> QED
    BY <1>0, <1>1, <2>1, ReachableClosed, Zenon DEF HeapInv, Heap
<1>2. CASE p[2] \in roots /\ life[p[2]] # "PENDING"
  BY <1>2, HeldFacts, Zenon
<1> QED
  BY <1>0, <1>1, <1>2, PlaceTypes, Zenon

\* A step makes nothing reachable but the unit that woomem_allocate_begin returns.
LEMMA ReachableNext ==
    ASSUME HeapInv, [Next]_vars
    PROVE  \A u \in Reachable' :
             u \in Reachable \/ (life[u] = "RELEASED" /\ life'[u] = "PENDING" /\ UNCHANGED ref)
<1>0. /\ Reachable \in SUBSET Units /\ Held \subseteq Reachable
      /\ \A u \in Reachable : ref[u] = Null \/ ref[u] \in Reachable
      /\ stack \subseteq Reachable /\ roots \subseteq Reachable
      /\ \A m \in Mutators : /\ op[m].unit \in Units => op[m].unit \in Reachable
                             /\ op[m].at \in Units => op[m].at \in Reachable
  BY ReachableClosed, Zenon DEF HeapInv, BasicInv, Held
<1>1. ASSUME NEW m \in Mutators, NEW u \in Units, AllocateBegin(m, u)
      PROVE  Reachable' \subseteq Reachable \cup {u} /\ life[u] = "RELEASED"
             /\ life'[u] = "PENDING" /\ UNCHANGED ref
  <2>1. life[u] = "RELEASED" /\ life'[u] = "PENDING" /\ UNCHANGED ref /\ ref[u] = Null
    BY <1>1, Zenon DEF AllocateBegin, heapVars, HeapInv, BasicInv, Heap, TypeOK
  <2> DEFINE T == Reachable \cup {u}
  <2>2. Held' \subseteq T
    BY <1>0, <1>1 DEF AllocateBegin, Held, Idle, heapVars, HeapInv, BasicInv, TypeOK
  <2>3. T \in SUBSET Units /\ \A x \in T : ref'[x] = Null \/ ref'[x] \in T
    BY <1>0, <2>1, Zenon
  <2>4. Reachable' \subseteq T
    <3> HIDE DEF T
    <3> QED
      BY <2>2, <2>3, LeastNext, Zenon
  <2> QED
    BY <2>1, <2>4, Zenon
<1>2. ASSUME Held' \subseteq Reachable, \A u \in Reachable : ref'[u] = Null \/ ref'[u] \in Reachable
      PROVE  Reachable' \subseteq Reachable
  BY <1>0, <1>2, LeastNext, Zenon
<1>3. ASSUME NEW m \in Mutators,
             RegisterRoot(m) \/ StoreUnmarked(m) \/ Shade(m) \/ Enqueue(m)
      PROVE  Reachable' \subseteq Reachable
  <2>1. op[m].unit \in Units
    BY <1>3, Zenon DEF RegisterRoot, StoreUnmarked, Shade, Enqueue, HeapInv, BasicInv, Allocating, AllocPcs,
                Barriers, BarrierPcs
  <2>2. UNCHANGED ref
    BY <1>3, Zenon DEF RegisterRoot, StoreUnmarked, Shade, Enqueue, heapVars
  <2>3. Held' \subseteq Reachable
    <3>1. \A n \in Mutators : /\ op'[n].at \in {op[n].at, Null}
                              /\ op'[n].unit \in {op[n].unit, Null}
      BY <1>3 DEF RegisterRoot, StoreUnmarked, Shade, Enqueue, Idle, Go, HeapInv, BasicInv, TypeOK
    <3>2. stack' \subseteq stack \cup {op[m].unit} /\ roots' \subseteq roots \cup {op[m].unit}
      BY <1>3, Zenon DEF RegisterRoot, StoreUnmarked, Shade, Enqueue, heapVars
    <3>3. \A n \in Mutators : {op'[n].at, op'[n].unit} \cap Units \subseteq Reachable
      BY <1>0, <3>1, HeapAssumption
    <3> QED
      BY <1>0, <2>1, <3>2, <3>3, Zenon DEF Held
  <2> QED
    BY <1>0, <1>2, <2>2, <2>3, Zenon
<1>4. ASSUME NEW m \in Mutators, NEW v \in stack \cup {Null}, AllocateEnd(m, v) \/ Write(m, v)
      PROVE  Reachable' \subseteq Reachable
  <2>1. Held' \subseteq Reachable
    <3>1. \A n \in Mutators : /\ op'[n].at \in {op[n].at, Null}
                              /\ op'[n].unit \in {op[n].unit, Null}
      BY <1>4 DEF AllocateEnd, Write, Idle, Go, HeapInv, BasicInv, TypeOK
    <3>2. stack' = stack /\ roots' \subseteq roots
      BY <1>4, Zenon DEF AllocateEnd, Write, Put
    <3> QED
      BY <1>0, <3>1, <3>2, HeapAssumption DEF Held
  <2>2. \A u \in Reachable : ref'[u] = ref[u] \/ ref'[u] = v
    BY <1>0, <1>4, Zenon DEF AllocateEnd, Write, Put, HeapInv, BasicInv, TypeOK
  <2> QED
    BY <1>0, <1>2, <2>1, <2>2, Zenon
<1>5. ASSUME NEW m \in Mutators, NEW p \in Places, Barrier(m, p[1], p[2])
      PROVE  Reachable' \subseteq Reachable
  <2>1. /\ p[1] \in Units => p[1] \in Reachable
        /\ p[2] \in Units => p[2] \in Reachable
    BY <1>0, PlaceTypes, PlaceFacts, HeapAssumption, Zenon DEF HeapInv, BasicInv
  <2>2. Held' \subseteq Reachable /\ UNCHANGED ref
    <3>1. /\ UNCHANGED <<ref, stack, roots>>
          /\ op' = [op EXCEPT ![m] = [pc |-> "shade", at |-> p[1], unit |-> p[2]]]
      BY <1>5, Zenon DEF Barrier, heapVars
    <3>2. \A n \in Mutators : {op'[n].at, op'[n].unit} \cap Units \subseteq Reachable
      BY <1>0, <2>1, <3>1 DEF HeapInv, BasicInv, TypeOK
    <3> QED
      BY <1>0, <3>1, <3>2, Zenon DEF Held
  <2> QED
    BY <1>0, <1>2, <2>2, Zenon
<1>6. ASSUME NEW m \in Mutators, NEW p \in Places, NEW v \in stack \cup {Null},
             Overwrite(m, p[1], p[2], v)
      PROVE  Reachable' \subseteq Reachable
  <2>1. Held' \subseteq Reachable
    BY <1>0, <1>6, Zenon DEF Overwrite, Put, Held
  <2>2. \A u \in Reachable : ref'[u] = ref[u] \/ ref'[u] = v
    BY <1>0, <1>6, Zenon DEF Overwrite, Put, HeapInv, BasicInv, TypeOK
  <2> QED
    BY <1>0, <1>2, <2>1, <2>2, Zenon
<1>7. ASSUME NEW u \in Units, Load(u) \/ Drop(u) PROVE Reachable' \subseteq Reachable
  <2>1. Held' \subseteq Reachable /\ UNCHANGED ref
    BY <1>0, <1>7 DEF Load, Drop, Held
  <2> QED
    BY <1>0, <1>2, <2>1, Zenon
<1>8. ASSUME NEW u \in Units, Sweep(u) PROVE Reachable' \subseteq Reachable
  <2>1. Held' \subseteq Reachable
    BY <1>0, <1>8, Zenon DEF Sweep, Held
  <2>2. \A x \in Reachable : ref'[x] = ref[x] \/ ref'[x] = Null
    BY <1>0, <1>8, Zenon DEF Sweep, HeapInv, BasicInv, TypeOK
  <2> QED
    BY <1>0, <1>2, <2>1, <2>2, Zenon
<1>9. ASSUME UNCHANGED <<ref, stack, roots, op>> PROVE Reachable' \subseteq Reachable
  <2>1. Held' = Held
    BY <1>9, Zenon DEF Held
  <2> QED
    BY <1>0, <1>2, <1>9, <2>1, Zenon
<1>10. CASE Collect
  <2>1. (\E u \in Units : Sweep(u)) \/ UNCHANGED <<ref, stack, roots, op>>
    BY <1>10, Zenon DEF Collect, BeginRound, BeginCallback, MarkRoots, WorkerDone, Scan, LowerFlag,
                 StopCallback, StartSweep, EndRound, heapVars
  <2> QED
    BY <1>8, <1>9, <2>1, Zenon
<1>11. ASSUME NEW m \in Mutators, Mutate(m)
       PROVE  \A u \in Reachable' :
                u \in Reachable \/ (life[u] = "RELEASED" /\ life'[u] = "PENDING" /\ UNCHANGED ref)
  BY <1>1, <1>3, <1>4, <1>5, <1>6, <1>11, Zenon DEF Mutate
<1>12. CASE UNCHANGED vars
  BY <1>9, <1>12, Zenon DEF vars, heapVars
<1> QED
  BY <1>7, <1>10, <1>11, <1>12, Zenon DEF Next

\* What a step may do to a unit: fill a reference with what is on the stack,
\* allocate what is free, free what the sweep finds dead.
UnitStep(u) ==
    /\ ref'[u] = ref[u] \/ ref'[u] \in stack \cup {Null}
    /\ life'[u] = "PENDING" => life[u] \in {"PENDING", "RELEASED"}
    /\ life'[u] = "RELEASED" =>
         \/ life[u] = "RELEASED" /\ ref'[u] = ref[u]
         \/ u \in todo /\ Dying(u) /\ ref'[u] = Null /\ (u \in Reachable => broken')

\* Every step does no more than that.
LEMMA UnitSteps ==
    ASSUME HeapInv, [Next]_vars, NEW u \in Units
    PROVE  UnitStep(u)
<1> USE DEF UnitStep
<1>0. TypeOK
  BY Zenon DEF HeapInv, BasicInv
<1>1. ASSUME NEW m \in Mutators, NEW x \in Units, AllocateBegin(m, x) PROVE UnitStep(u)
  BY <1>0, <1>1, Zenon DEF AllocateBegin, heapVars, TypeOK
<1>2. ASSUME NEW m \in Mutators, RegisterRoot(m) \/ Enqueue(m) PROVE UnitStep(u)
  BY <1>2, Zenon DEF RegisterRoot, Enqueue, heapVars
<1>3. ASSUME NEW m \in Mutators, StoreUnmarked(m) \/ Shade(m) PROVE UnitStep(u)
  BY <1>0, <1>3, Zenon DEF StoreUnmarked, Shade, heapVars, TypeOK
<1>4. ASSUME NEW m \in Mutators, NEW v \in stack \cup {Null}, AllocateEnd(m, v) PROVE UnitStep(u)
  <2>1. op[m].unit \in Units /\ life[op[m].unit] = "PENDING"
    BY <1>4, Zenon DEF AllocateEnd, HeapInv, BasicInv, Allocating, AllocPcs
  <2> QED
    BY <1>0, <1>4, <2>1, Zenon DEF AllocateEnd, TypeOK
<1>5. ASSUME NEW m \in Mutators, NEW v \in stack \cup {Null}, Write(m, v) PROVE UnitStep(u)
  <2>1. op[m].at \in Units => life[op[m].at] # "RELEASED"
    BY ReachableClosed, Zenon DEF HeapInv, BasicInv, Heap, Held
  <2> QED
    BY <1>0, <1>5, <2>1, Zenon DEF Write, Put, TypeOK
<1>6. ASSUME NEW m \in Mutators, NEW p \in Places, NEW v \in stack \cup {Null},
             Overwrite(m, p[1], p[2], v)
      PROVE  UnitStep(u)
  <2>1. p[1] \in Units => life[p[1]] # "RELEASED"
    BY <1>0, PlaceTypes, HeldFacts, HeapAssumption, Zenon
  <2> QED
    BY <1>0, <1>6, <2>1, Zenon DEF Overwrite, Put, TypeOK
<1>7. ASSUME NEW m \in Mutators, NEW p \in Places, Barrier(m, p[1], p[2]) PROVE UnitStep(u)
  BY <1>7, Zenon DEF Barrier, heapVars
<1>8. ASSUME NEW m \in Mutators, Mutate(m) PROVE UnitStep(u)
  BY <1>1, <1>2, <1>3, <1>4, <1>5, <1>6, <1>7, <1>8, Zenon DEF Mutate
<1>9. ASSUME NEW x \in Units, Load(x) \/ Drop(x) PROVE UnitStep(u)
  BY <1>9, Zenon DEF Load, Drop
<1>10. CASE BeginRound \/ LowerFlag \/ StopCallback \/ StartSweep \/ EndRound
  BY <1>10, Zenon DEF BeginRound, LowerFlag, StopCallback, StartSweep, EndRound, heapVars
<1>11. CASE BeginCallback \/ MarkRoots
  BY <1>0, <1>11, Zenon DEF BeginCallback, MarkRoots, ShadeAll, heapVars, TypeOK
<1>12. ASSUME NEW w \in Workers, WorkerDone(w) \/ \E x \in Units : Scan(w, x) PROVE UnitStep(u)
  BY <1>0, <1>12, Zenon DEF WorkerDone, Scan, heapVars, TypeOK
<1>13. ASSUME NEW x \in Units, Sweep(x) PROVE UnitStep(u)
  BY <1>0, <1>13, Zenon DEF Sweep, TypeOK
<1>14. CASE UNCHANGED vars
  BY <1>14, Zenon DEF vars, heapVars
<1> QED
  BY <1>8, <1>9, <1>10, <1>11, <1>12, <1>13, <1>14, Zenon DEF Next, Collect

\* Nothing within reach becomes free, or leads to a unit that is not filled.
LEMMA HeapNext ==
    ASSUME HeapInv, [Next]_vars, TypeOK', ~broken'
    PROVE  Heap'
<1>0. /\ Reachable \in SUBSET Units /\ stack \subseteq Reachable
      /\ \A u \in Reachable : ref[u] = Null \/ ref[u] \in Reachable
      /\ \A u \in stack : life[u] \notin {"RELEASED", "PENDING"}
      /\ Reachable' \subseteq Units
  BY ReachableClosed, HeldFacts, Zenon DEF HeapInv, BasicInv, Reachable
<1>1. \A u \in stack' : life'[u] # "PENDING"
  <2>1. ASSUME NEW m \in Mutators, StoreUnmarked(m)
        PROVE  stack' \subseteq stack \cup {op[m].unit} /\ life'[op[m].unit] = "UNMARKED"
    <3>1. op[m].unit \in Units
      BY <2>1, Zenon DEF StoreUnmarked, HeapInv, BasicInv, Allocating, AllocPcs
    <3> QED
      BY <2>1, <3>1, Zenon DEF StoreUnmarked, HeapInv, BasicInv, TypeOK
  <2>2. ASSUME NEW u \in Units, Load(u)
        PROVE  stack' = stack \cup {u} /\ life'[u] # "PENDING"
    BY <2>2, Zenon DEF Load
  <2>3. \/ \E m \in Mutators : StoreUnmarked(m)
        \/ \E u \in Units : Load(u)
        \/ stack' \subseteq stack
    <3>1. ASSUME NEW m \in Mutators, Mutate(m), ~StoreUnmarked(m) PROVE stack' = stack
      BY <3>1, Zenon DEF Mutate, AllocateBegin, RegisterRoot, AllocateEnd, Overwrite, Barrier, Shade,
                  Enqueue, Write, heapVars
    <3>2. ASSUME Collect PROVE stack' = stack
      BY <3>2, Zenon DEF Collect, BeginRound, BeginCallback, MarkRoots, WorkerDone, Scan, LowerFlag,
                  StopCallback, StartSweep, Sweep, EndRound, heapVars
    <3> QED
      BY <3>1, <3>2, Zenon DEF Next, Drop, vars, heapVars
  <2>4. \A u \in stack : life'[u] # "PENDING"
    BY <1>0, UnitSteps, Zenon DEF UnitStep
  <2> QED
    BY <2>1, <2>2, <2>3, <2>4, Zenon
<1>2. ASSUME NEW u \in Reachable', life'[u] = "RELEASED" PROVE FALSE
  <2>1. u \in Reachable
    BY <1>2, ReachableNext, Zenon
  <2> QED
    BY <1>0, <1>2, <2>1, UnitSteps, Zenon DEF UnitStep, HeapInv, Heap
<1>3. ASSUME NEW u \in Reachable', ref'[u] # Null, life'[ref'[u]] = "PENDING" PROVE FALSE
  <2>1. CASE u \in Reachable
    <3>1. ref'[u] = ref[u] \/ ref'[u] \in stack
      BY <1>0, <1>3, UnitSteps, Zenon DEF UnitStep
    <3>2. ref'[u] \in Reachable /\ life[ref'[u]] \notin {"RELEASED", "PENDING"}
      BY <1>0, <1>3, <2>1, <3>1, Zenon DEF HeapInv, BasicInv, Heap
    <3> QED
      BY <1>0, <1>3, <3>2, UnitSteps, Zenon DEF UnitStep
  <2>2. CASE u \notin Reachable
    <3>1. life[u] = "RELEASED" /\ UNCHANGED ref
      BY <2>2, ReachableNext, Zenon
    <3> QED
      BY <1>0, <1>3, <3>1, Zenon DEF HeapInv, BasicInv, Heap
  <2> QED
    BY <2>1, <2>2, Zenon
<1>4. ASSUME NEW u \in Units, life'[u] = "RELEASED" PROVE ref'[u] = Null
  BY <1>4, UnitSteps, Zenon DEF UnitStep, HeapInv, BasicInv, Heap
<1> QED
  BY <1>1, <1>2, <1>3, <1>4, Zenon DEF Heap

\* What a barrier has marked stays marked until the sweep.
LEMMA ShadedNext ==
    ASSUME HeapInv, [Next]_vars
    PROVE  Shaded'
<1>0. TypeOK /\ Barriers
  BY Zenon DEF HeapInv, BasicInv
<1> SUFFICES ASSUME NEW m \in Mutators, op'[m].pc \in BarrierPcs
             PROVE  /\ life'[op'[m].unit] # "PENDING"
                    /\ op'[m].pc = "write" /\ main_pc' \in Marking => life'[op'[m].unit] \in Marked
  BY Zenon DEF Shaded
<1> DEFINE u == op[m].unit
<1>1. ASSUME op[m].pc \in BarrierPcs, op'[m].unit = u
      PROVE  u \in Units /\ life[u] \notin {"PENDING", "RELEASED"} /\ life'[u] # "PENDING"
  <2>1. u \in Units /\ life[u] \notin {"PENDING", "RELEASED"}
    BY <1>0, <1>1, HeldFacts, Zenon DEF HeapInv, Shaded, Barriers
  <2> QED
    BY <2>1, UnitSteps, Zenon DEF UnitStep
<1>2. ASSUME op[m].pc \in BarrierPcs, op'[m].unit = u, life[u] \in Marked, main_pc' \in Marking
      PROVE  life'[u] \in Marked
  <2>1. u \in Units /\ life[u] \notin {"PENDING", "RELEASED"}
    BY <1>1, <1>2, Zenon
  <2> HIDE DEF u
  <2>2. ASSUME NEW n \in Mutators, Mutate(n) PROVE life'[u] \in Marked
    <3>1. ASSUME StoreUnmarked(n) PROVE op[n].unit # u /\ op[n].unit \in Units
      BY <2>1, <3>1 DEF StoreUnmarked, HeapInv, BasicInv, Allocating, AllocPcs
    <3> QED
      BY <1>0, <1>2, <2>1, <2>2, <3>1, Zenon DEF Mutate, AllocateBegin, RegisterRoot, StoreUnmarked,
         AllocateEnd, Write, Barrier, Overwrite, Shade, Enqueue, TypeOK, Marked
  <2>3. ASSUME NEW x \in Units PROVE ~Sweep(x)
    BY <1>2, Zenon DEF Sweep, HeapInv, BasicInv, Control, Marking
  <2>4. CASE Collect
    <3>1. CASE BeginCallback \/ MarkRoots
      BY <1>2, <2>1, <3>1, Zenon DEF BeginCallback, MarkRoots, ShadeAll, Marked
    <3>2. ASSUME NEW w \in Workers, NEW x \in Units, Scan(w, x) PROVE life'[u] \in Marked
      BY <1>2, <2>1, <3>2, Zenon DEF Scan, Marked
    <3> QED
      BY <1>2, <2>3, <2>4, <3>1, <3>2, Zenon DEF Collect, BeginRound, WorkerDone, LowerFlag, StopCallback,
         StartSweep, EndRound
  <2> QED
    BY <1>2, <2>2, <2>4, Zenon DEF Next, Load, Drop, vars
<1>3. CASE UNCHANGED op
  <2>1. main_pc' \in Marking => main_pc \in Marking \/ op[m].pc # "write"
    <3>1. BeginCallback => op[m].pc # "write"
      BY DEF BeginCallback, Idle
    <3> QED
      BY <3>1, Zenon DEF Next, Mutate, AllocateBegin, RegisterRoot, StoreUnmarked, AllocateEnd, Write,
         Barrier, Overwrite, Shade, Enqueue, Load, Drop, Collect, BeginRound, MarkRoots, WorkerDone, Scan,
         LowerFlag, StopCallback, StartSweep, EndRound, Sweep, roundVars, vars, Marking
  <2> QED
    BY <1>1, <1>2, <1>3, <2>1, Zenon DEF HeapInv, Shaded
<1>4. ASSUME NEW n \in Mutators, Mutate(n), ~UNCHANGED op
      PROVE  /\ life'[op'[m].unit] # "PENDING"
             /\ op'[m].pc = "write" /\ main_pc' \in Marking => life'[op'[m].unit] \in Marked
  <2>0. main_pc' = main_pc
    BY <1>4, Zenon DEF Mutate, AllocateBegin, RegisterRoot, StoreUnmarked, AllocateEnd, Write, Barrier,
                Overwrite, Shade, Enqueue, roundVars
  <2>1. CASE n # m
    <3>1. op'[m] = op[m]
      BY <1>0, <1>4, <2>1, Zenon DEF Mutate, AllocateBegin, RegisterRoot, StoreUnmarked, AllocateEnd, Write,
                  Barrier, Overwrite, Shade, Enqueue, Go, TypeOK
    <3> QED
      BY <1>1, <1>2, <2>0, <3>1, Zenon DEF HeapInv, Shaded
  <2>2. ASSUME NEW p \in Places, Barrier(m, p[1], p[2])
        PROVE  op'[m].pc = "shade" /\ life'[op'[m].unit] # "PENDING"
    <3>1. op'[m].pc = "shade" /\ op'[m].unit = p[2] /\ life' = life /\ p[2] # Null
      BY <1>0, <2>2 DEF Barrier, TypeOK
    <3> QED
      BY <3>1, PlaceFacts
  <2>3. CASE Shade(m)
    <3>1. op[m].pc = "shade" /\ op'[m].unit = op[m].unit /\ op[m].pc \in BarrierPcs
      BY <1>0, <2>3 DEF Shade, Go, TypeOK, BarrierPcs
    <3>2. op'[m].pc = "write" => life[u] # "UNMARKED"
      BY <1>0, <2>3 DEF Shade, Go, TypeOK
    <3>3. life[u] # "UNMARKED" => life[u] \in Marked
      BY <1>0, <1>1, <3>1, Zenon DEF TypeOK, Marked
    <3> QED
      BY <1>1, <1>2, <3>1, <3>2, <3>3, Zenon
  <2>4. CASE Enqueue(m)
    <3>1. /\ op[m].pc = "enqueue" /\ op'[m].unit = op[m].unit /\ op[m].pc \in BarrierPcs
      BY <1>0, <2>4, Zenon DEF Enqueue, Go, TypeOK, BarrierPcs
    <3>2. life[u] \in Marked
      BY <1>0, <3>1, Zenon DEF Barriers
    <3> QED
      BY <1>1, <1>2, <3>1, <3>2, Zenon
  <2>5. ASSUME \/ \E x \in Units : AllocateBegin(m, x)
               \/ RegisterRoot(m) \/ StoreUnmarked(m)
               \/ \E v \in stack \cup {Null} : AllocateEnd(m, v) \/ Write(m, v)
        PROVE  FALSE
    <3>1. CASE \E x \in Units : AllocateBegin(m, x)
      BY <1>0, <3>1 DEF AllocateBegin, Idle, BarrierPcs, TypeOK
    <3>2. CASE RegisterRoot(m) \/ \E v \in stack \cup {Null} : AllocateEnd(m, v)
      BY <1>0, <3>2 DEF RegisterRoot, AllocateEnd, Go, BarrierPcs, TypeOK
    <3>3. CASE StoreUnmarked(m) \/ \E v \in stack \cup {Null} : Write(m, v)
      BY <1>0, <3>3 DEF StoreUnmarked, Write, Idle, BarrierPcs, TypeOK
    <3> QED
      BY <2>5, <3>1, <3>2, <3>3, Zenon
  <2> QED
    BY <1>4, <2>1, <2>2, <2>3, <2>4, <2>5, Zenon DEF Mutate, Overwrite
<1> QED
  <2>1. UNCHANGED op \/ \E n \in Mutators : Mutate(n)
    BY Zenon DEF Next, Load, Drop, Collect, BeginRound, BeginCallback, MarkRoots, WorkerDone, Scan, LowerFlag,
           StopCallback, StartSweep, EndRound, Sweep, vars
  <2> QED
    BY <1>3, <1>4, <2>1, Zenon

-----------------------------------------------------------------------------
(* Marking *)

\* All that references lead to from v by unmarked units is in WhiteFrom(v).
LEMMA WhiteFromClosed ==
    ASSUME NEW v
    PROVE  /\ WhiteFrom(v) \in SUBSET Units
           /\ v \in White => v \in WhiteFrom(v)
           /\ \A x \in WhiteFrom(v) : ref[x] \in White => ref[x] \in WhiteFrom(v)
<1>1. WhiteFrom(v) \in SUBSET Units /\ (v \in White => v \in WhiteFrom(v))
  BY Zenon DEF WhiteFrom, White
<1>2. ASSUME NEW x \in WhiteFrom(v), ref[x] \in White PROVE ref[x] \in WhiteFrom(v)
  <2> SUFFICES ASSUME NEW S \in SUBSET White, ({v} \cup {ref[y] : y \in S}) \cap White \subseteq S
               PROVE  ref[x] \in S
    BY <1>2, Zenon DEF WhiteFrom
  <2>1. x \in S
    BY Zenon DEF WhiteFrom
  <2> QED
    BY <1>2, <2>1, Zenon
<1> QED
  BY <1>1, <1>2, Zenon

\* A step that loses W protects what was protected if it marks units only by shading
\* them, follows the reference of a unit before it blackens it, leaves alone the
\* references that count and do not lead to W, and does not forget an unmarked root
\* before Step 2 is over.
LEMMA ProtectionOrLoss ==
    ASSUME HeapInv, [Next]_vars, main_pc \in Marking, counter' = counter,
           NEW W \in SUBSET Units, lost' = lost \cup W,
           \A x \in W : ref[x] \in White => ref[x] \in W,
           \A u \in Units : life[u] = "UNMARKED" => life'[u] \in {"UNMARKED", "SELF_MARKED"},
           \A x \in Units : life[x] = "SELF_MARKED" =>
               life'[x] = "SELF_MARKED" \/ (Link(x) => life'[ref[x]] # "UNMARKED"),
           \A x \in Units : life[x] \in {"SELF_MARKED", "UNMARKED"} /\ Link(x) =>
               (ref'[x] = ref[x] /\ ~Stale(x)') \/ ref[x] \in W,
           main_pc = "roots" => \A u \in roots : life[u] = "UNMARKED" =>
               life'[u] # "UNMARKED" \/ (main_pc' = "roots" /\ u \in roots'),
           \A u \in Units : Condemned(u)' => Condemned(u)
    PROVE  Protected'
<1> SUFFICES ASSUME NEW S \in SUBSET Units, Follows(S)', NEW u \in Reachable', Condemned(u)'
             PROVE  u \in S \cup lost'
  BY Zenon DEF Protected
<1> DEFINE X == {x \in Units : life[x] = "UNMARKED" /\ life'[x] # "UNMARKED"}
           T == S \cup X \cup W
<1>0. TypeOK
  BY Zenon DEF HeapInv, BasicInv
<1>1. u \in Units /\ Condemned(u)
  BY Zenon DEF Reachable
<1>2. u \in Reachable
  BY <1>1, ReachableNext, Zenon DEF Condemned
<1>3. main_pc = "roots" => \A r \in roots : life[r] = "UNMARKED" => r \in T
  BY <1>0, Zenon DEF Follows, TypeOK
<1>4. ASSUME NEW x \in Units, life[x] = "SELF_MARKED" \/ (life[x] = "UNMARKED" /\ x \in T), Link(x)
      PROVE  ref[x] \in T
  <2>1. ref[x] \in Units /\ life[ref[x]] = "UNMARKED" /\ ref[x] \in White
    BY <1>0, <1>4, Zenon DEF Link, TypeOK, White
  <2>2. CASE life'[ref[x]] # "UNMARKED"
    BY <2>1, <2>2, Zenon
  <2>3. CASE x \in W \/ ref[x] \in W
    BY <2>1, <2>3, Zenon
  <2>4. CASE life'[ref[x]] = "UNMARKED" /\ x \notin W /\ ref[x] \notin W
    <3>1. ref'[x] = ref[x] /\ ~Stale(x)'
      BY <1>4, <2>4, Zenon
    <3>2. life'[x] = "SELF_MARKED" \/ (life'[x] = "UNMARKED" /\ x \in S)
      BY <1>4, <2>4, Zenon
    <3>3. Link(x)'
      BY <1>4, <2>4, <3>1, Zenon DEF Link
    <3> QED
      BY <3>1, <3>2, <3>3, Zenon DEF Follows
  <2> QED
    BY <2>2, <2>3, <2>4, Zenon
<1>5. Follows(T)
  BY <1>3, <1>4, Zenon DEF Follows
<1>6. u \in T \cup lost
  <2> HIDE DEF T
  <2>1. T \in SUBSET Units
    BY Zenon DEF T
  <2> QED
    BY <1>1, <1>2, <1>5, <2>1, Zenon DEF HeapInv, Protected
<1> QED
  BY <1>6, Zenon DEF Condemned

\* The same for a step that loses nothing.
LEMMA ProtectionKept ==
    ASSUME HeapInv, [Next]_vars, main_pc \in Marking, counter' = counter, lost' = lost,
           \A u \in Units : life[u] = "UNMARKED" => life'[u] \in {"UNMARKED", "SELF_MARKED"},
           \A x \in Units : life[x] = "SELF_MARKED" =>
               life'[x] = "SELF_MARKED" \/ (Link(x) => life'[ref[x]] # "UNMARKED"),
           \A x \in Units : life[x] \in {"SELF_MARKED", "UNMARKED"} /\ Link(x) =>
               ref'[x] = ref[x] /\ ~Stale(x)',
           main_pc = "roots" => \A u \in roots : life[u] = "UNMARKED" =>
               life'[u] # "UNMARKED" \/ (main_pc' = "roots" /\ u \in roots'),
           \A u \in Units : Condemned(u)' => Condemned(u)
    PROVE  Protected'
<1>1. {} \in SUBSET Units /\ lost' = lost \cup {} /\ \A x \in {} : ref[x] \in White => ref[x] \in {}
  BY Zenon
<1> QED
  BY <1>1, ProtectionOrLoss, Zenon

\* No barrier begins in a step.
NoNewBarrier ==
    \A n \in Mutators : op'[n].pc \in BarrierPcs =>
        op[n].pc \in BarrierPcs /\ op'[n].at = op[n].at /\ op'[n].unit = op[n].unit

\* Then a reference that counts goes on counting.
LEMMA LinkKept ==
    ASSUME NoNewBarrier, NEW x \in Units, ref'[x] = ref[x], ~Stale(x)
    PROVE  ~Stale(x)'
  BY Zenon DEF NoNewBarrier, Stale

\* Allocation protects: a new unit is not condemned.
LEMMA ProtectedAllocate ==
    ASSUME HeapInv, [Next]_vars, main_pc \in Marking, NEW m \in Mutators,
           \/ \E u \in Units : AllocateBegin(m, u)
           \/ RegisterRoot(m) \/ StoreUnmarked(m)
           \/ \E v \in stack \cup {Null} : AllocateEnd(m, v)
    PROVE  Protected'
<1> USE DEF heapVars, roundVars, history
<1>0. TypeOK
  BY Zenon DEF HeapInv, BasicInv
<1>1. ASSUME NEW u \in Units, AllocateBegin(m, u) PROVE Protected'
  <2>1. /\ UNCHANGED <<timing, ref, stack, roots, counter, main_pc, lost>>
        /\ life[u] = "RELEASED" /\ life' = [life EXCEPT ![u] = "PENDING"]
    BY <1>1, Zenon DEF AllocateBegin
  <2>2. NoNewBarrier
    BY <1>0, <1>1, Zenon DEF AllocateBegin, NoNewBarrier, Idle, BarrierPcs, TypeOK
  <2>3. \A x \in Units : Link(x) => ref'[x] = ref[x] /\ ~Stale(x)'
    BY <2>1, <2>2, LinkKept, Zenon DEF Link
  <2> QED
    BY <1>0, <2>1, <2>3, ProtectionKept, Zenon DEF Condemned, TypeOK
<1>2. ASSUME RegisterRoot(m) PROVE Protected'
  <2>1. UNCHANGED <<life, timing, ref, stack, counter, main_pc, lost>> /\ roots \subseteq roots'
    BY <1>2, Zenon DEF RegisterRoot
  <2>2. NoNewBarrier
    BY <1>0, <1>2, Zenon DEF RegisterRoot, Go, NoNewBarrier, BarrierPcs, TypeOK
  <2>3. \A x \in Units : Link(x) => ref'[x] = ref[x] /\ ~Stale(x)'
    BY <2>1, <2>2, LinkKept, Zenon DEF Link
  <2> QED
    BY <1>0, <2>1, <2>3, ProtectionKept, Zenon DEF Condemned, TypeOK
<1>3. ASSUME StoreUnmarked(m) PROVE Protected'
  <2>1. /\ UNCHANGED <<timing, ref, roots, counter, main_pc, lost>>
        /\ life' = [life EXCEPT ![op[m].unit] = "UNMARKED"]
        /\ op[m].unit \in Units /\ life[op[m].unit] = "PENDING" /\ timing[op[m].unit] = counter
    BY <1>3, Zenon DEF StoreUnmarked, HeapInv, BasicInv, Allocating, AllocPcs, Marking
  <2>2. NoNewBarrier
    BY <1>0, <1>3, Zenon DEF StoreUnmarked, NoNewBarrier, Idle, BarrierPcs, TypeOK
  <2>3. \A x \in Units : Link(x) => ref'[x] = ref[x] /\ ~Stale(x)'
    BY <2>1, <2>2, LinkKept, Zenon DEF Link
  <2> QED
    BY <1>0, <2>1, <2>3, ProtectionKept, Zenon DEF Condemned, TypeOK
<1>4. ASSUME NEW v \in stack \cup {Null}, AllocateEnd(m, v) PROVE Protected'
  <2>1. /\ UNCHANGED <<life, roots, counter, main_pc, lost>>
        /\ op[m].unit \in Units /\ life[op[m].unit] = "PENDING"
        /\ timing' = [timing EXCEPT ![op[m].unit] = counter]
        /\ \A x \in Units : x # op[m].unit => ref'[x] = ref[x]
    <3>1. op[m].unit \in Units /\ life[op[m].unit] = "PENDING"
      BY <1>4, Zenon DEF AllocateEnd, HeapInv, BasicInv, Allocating, AllocPcs
    <3> QED
      BY <1>0, <1>4, <3>1, Zenon DEF AllocateEnd, roundVars, TypeOK
  <2>2. NoNewBarrier
    BY <1>0, <1>4 DEF AllocateEnd, Go, NoNewBarrier, BarrierPcs, TypeOK
  <2>3. \A x \in Units : x # op[m].unit /\ Link(x) => ref'[x] = ref[x] /\ ~Stale(x)'
    BY <2>1, <2>2, LinkKept, Zenon DEF Link
  <2>4. \A u \in Units : Condemned(u)' => Condemned(u)
    BY <1>0, <2>1, Zenon DEF Condemned, TypeOK
  <2> QED
    BY <1>0, <2>1, <2>3, <2>4, ProtectionKept, Zenon DEF TypeOK
<1> QED
  BY <1>1, <1>2, <1>3, <1>4, Zenon

\* So does the program behind its write barrier.
LEMMA ProtectedProgram ==
    ASSUME HeapInv, [Next]_vars, main_pc \in Marking, NEW m \in Mutators,
           \/ \E p \in Places : Barrier(m, p[1], p[2])
                                \/ \E v \in stack \cup {Null} : Overwrite(m, p[1], p[2], v)
           \/ Shade(m) \/ Enqueue(m)
           \/ \E v \in stack \cup {Null} : Write(m, v)
    PROVE  Protected'
<1> USE DEF heapVars, roundVars, history
<1>0. TypeOK
  BY Zenon DEF HeapInv, BasicInv
<1>1. ASSUME NEW p \in Places, Barrier(m, p[1], p[2]) PROVE Protected'
  <2>1. UNCHANGED <<life, timing, ref, stack, roots, counter, main_pc, lost>>
    BY <1>1, Zenon DEF Barrier
  <2>2. ASSUME NEW x \in Units, Link(x) PROVE ~Stale(x)'
    <3>1. p[1] = x => p[2] = ref[x]
      BY <1>0, PlaceTypes, HeapAssumption, Zenon
    <3>2. \A n \in Mutators : n # m => op'[n] = op[n]
      BY <1>0, <1>1, Zenon DEF Barrier, TypeOK
    <3>3. op'[m].at = p[1] /\ op'[m].unit = p[2]
      BY <1>0, <1>1, Zenon DEF Barrier, TypeOK
    <3> QED
      BY <2>1, <2>2, <3>1, <3>2, <3>3, Zenon DEF Link, Stale
  <2> QED
    BY <1>0, <2>1, <2>2, ProtectionKept, Zenon DEF Condemned, TypeOK
<1>2. ASSUME NEW p \in Places, NEW v \in stack \cup {Null}, Overwrite(m, p[1], p[2], v)
      PROVE  Protected'
  <2> DEFINE W == IF Unguarded(p[1]) THEN WhiteFrom(p[2]) ELSE {}
  <2>1. UNCHANGED <<life, timing, stack, op, counter, main_pc>> /\ lost' = lost \cup W
    BY <1>2, Zenon DEF Overwrite
  <2>2. W \in SUBSET Units /\ \A x \in W : ref[x] \in White => ref[x] \in W
    BY WhiteFromClosed, Zenon
  <2>3. p[2] = Null \/ main_pc \in {"stop", "final"}
    BY <1>2, Zenon DEF Overwrite, Marking, HeapInv, BasicInv, Control
  <2>4. NoNewBarrier
    BY <2>1, Zenon DEF NoNewBarrier
  <2>5. ASSUME NEW x \in Units, life[x] \in {"SELF_MARKED", "UNMARKED"}, Link(x)
        PROVE  (ref'[x] = ref[x] /\ ~Stale(x)') \/ ref[x] \in W
    <3>1. CASE x = p[1]
      <4>1. p[2] = ref[x] /\ p[1] # RootSet /\ ref[x] \in White /\ ref[x] # Null
        BY <1>0, <2>5, <3>1, PlaceTypes, HeapAssumption, Zenon DEF Link, White, TypeOK
      <4>2. Unguarded(p[1])
        BY <2>3, <2>5, <3>1, <4>1, Zenon DEF Unguarded
      <4> QED
        BY <4>1, <4>2, WhiteFromClosed, Zenon
    <3>2. CASE x # p[1]
      <4>1. ref'[x] = ref[x]
        BY <1>0, <1>2, <3>2, Zenon DEF Overwrite, Put, TypeOK
      <4> QED
        BY <2>4, <2>5, <4>1, LinkKept, Zenon DEF Link
    <3> QED
      BY <3>1, <3>2, Zenon
  <2>6. main_pc = "roots" => roots' = roots
    <3>1. main_pc = "roots" => p[1] # RootSet
      BY <1>0, <2>3, PlaceTypes, HeapAssumption, Zenon DEF TypeOK
    <3> QED
      BY <1>2, <3>1, Zenon DEF Overwrite, Put
  <2>7. \A u \in Units : Condemned(u)' => Condemned(u)
    BY <2>1, Zenon DEF Condemned
  <2> HIDE DEF W
  <2> QED
    BY <2>1, <2>2, <2>5, <2>6, <2>7, ProtectionOrLoss, Zenon
<1>3. ASSUME Shade(m) PROVE Protected'
  <2>1. /\ UNCHANGED <<timing, ref, stack, roots, counter, main_pc, lost>>
        /\ \/ life[op[m].unit] = "UNMARKED" /\ life' = [life EXCEPT ![op[m].unit] = "SELF_MARKED"]
           \/ life' = life
    BY <1>3, Zenon DEF Shade
  <2>2. NoNewBarrier
    BY <1>0, <1>3 DEF Shade, Go, NoNewBarrier, BarrierPcs, TypeOK
  <2>3. \A x \in Units : Link(x) => ref'[x] = ref[x] /\ ~Stale(x)'
    BY <2>1, <2>2, LinkKept, Zenon DEF Link
  <2> QED
    BY <1>0, <2>1, <2>3, ProtectionKept, Zenon DEF Condemned, TypeOK
<1>4. ASSUME Enqueue(m) PROVE Protected'
  <2>1. UNCHANGED <<life, timing, ref, stack, roots, counter, main_pc, lost>>
    BY <1>4, Zenon DEF Enqueue
  <2>2. NoNewBarrier
    BY <1>0, <1>4, Zenon DEF Enqueue, Go, NoNewBarrier, BarrierPcs, TypeOK
  <2>3. \A x \in Units : Link(x) => ref'[x] = ref[x] /\ ~Stale(x)'
    BY <2>1, <2>2, LinkKept, Zenon DEF Link
  <2> QED
    BY <1>0, <2>1, <2>3, ProtectionKept, Zenon DEF Condemned, TypeOK
<1>5. ASSUME NEW v \in stack \cup {Null}, Write(m, v) PROVE Protected'
  <2>1. /\ UNCHANGED <<life, timing, stack, counter, main_pc, lost>>
        /\ \A x \in Units : x # op[m].at => ref'[x] = ref[x]
        /\ roots \subseteq roots' \cup {op[m].unit}
    BY <1>0, <1>5, Zenon DEF Write, Put, TypeOK
  <2>2. /\ op[m].pc = "write" /\ op[m].unit \in Units /\ life[op[m].unit] \in Marked
    BY <1>5, Zenon DEF Write, HeapInv, BasicInv, Barriers, Shaded, BarrierPcs
  <2>3. NoNewBarrier
    BY <1>0, <1>5, Zenon DEF Write, NoNewBarrier, Idle, BarrierPcs, TypeOK
  <2>4. ASSUME NEW x \in Units, Link(x) PROVE x # op[m].at
    BY <2>2, <2>4, Zenon DEF Link, Stale, BarrierPcs, Marked
  <2>5. \A x \in Units : Link(x) => ref'[x] = ref[x] /\ ~Stale(x)'
    BY <2>1, <2>3, <2>4, LinkKept, Zenon DEF Link
  <2> QED
    BY <1>0, <2>1, <2>2, <2>5, ProtectionKept, Zenon DEF Condemned, TypeOK, Marked
<1> QED
  BY <1>1, <1>2, <1>3, <1>4, <1>5, Zenon

\* So do the workers and the end of the marking phases.
LEMMA ProtectedWorkers ==
    ASSUME HeapInv, [Next]_vars, main_pc \in Marking,
           \/ MarkRoots \/ LowerFlag \/ StopCallback
           \/ \E w \in Workers : WorkerDone(w) \/ \E u \in Units : Scan(w, u)
    PROVE  Protected'
<1> USE DEF heapVars, roundVars, history
<1>0. TypeOK
  BY Zenon DEF HeapInv, BasicInv
<1>1. UNCHANGED <<timing, ref, stack, roots, op, counter, lost>>
  BY Zenon DEF MarkRoots, LowerFlag, StopCallback, WorkerDone, Scan
<1>2. \A x \in Units : Link(x) => ref'[x] = ref[x] /\ ~Stale(x)'
  BY <1>1, Zenon DEF Link, Stale
<1>3. CASE MarkRoots
  <2>1. \A u \in Units : life'[u] = IF u \in roots /\ life[u] = "UNMARKED"
                                    THEN "SELF_MARKED" ELSE life[u]
    BY <1>3, Zenon DEF MarkRoots, ShadeAll
  <2> QED
    BY <1>0, <1>1, <1>2, <2>1, ProtectionKept, Zenon DEF Condemned, TypeOK
<1>4. ASSUME NEW w \in Workers, NEW u \in Units, Scan(w, u) PROVE Protected'
  <2>1. life[u] \in Marked /\ main_pc = main_pc' /\ main_pc # "roots"
    BY <1>4, Zenon DEF Scan, HeapInv, BasicInv, Colours
  <2>2. \A v \in Units : life'[v] = IF v = u THEN "FULL_MARKED"
                                    ELSE IF v = ref[u] /\ life[v] = "UNMARKED"
                                         THEN "SELF_MARKED" ELSE life[v]
    BY <1>0, <1>4, HeapAssumption, Zenon DEF Scan, TypeOK
  <2>3. Link(u) => life'[ref[u]] # "UNMARKED"
    BY <1>0, <2>2, Zenon DEF Link, TypeOK
  <2>4. \A v \in Units : life[v] = "UNMARKED" => life'[v] \in {"UNMARKED", "SELF_MARKED"}
    BY <2>1, <2>2, Zenon DEF Marked
  <2>5. \A v \in Units : life[v] = "SELF_MARKED" => life'[v] = "SELF_MARKED" \/ v = u
    BY <2>2, Zenon
  <2>6. \A v \in Units : Condemned(v)' => Condemned(v)
    BY <1>1, <2>2, Zenon DEF Condemned
  <2> QED
    BY <1>1, <1>2, <2>1, <2>3, <2>4, <2>5, <2>6, ProtectionKept, Zenon
<1>5. CASE LowerFlag \/ StopCallback \/ \E w \in Workers : WorkerDone(w)
  <2>1. life' = life /\ main_pc # "roots"
    BY <1>5, Zenon DEF LowerFlag, StopCallback, WorkerDone
  <2> QED
    BY <1>0, <1>1, <1>2, <2>1, ProtectionKept, Zenon DEF Condemned, TypeOK
<1> QED
  BY <1>3, <1>4, <1>5, Zenon

\* The begin callback protects all that is reachable, with no mutator at work.
LEMMA ProtectedBegin ==
    ASSUME HeapInv, BeginCallback
    PROVE  Protected'
<1> SUFFICES ASSUME NEW S \in SUBSET Units, Follows(S)', NEW u \in Reachable', Condemned(u)'
             PROVE  u \in S
  BY Zenon DEF Protected
<1>0. TypeOK
  BY Zenon DEF HeapInv, BasicInv
<1>1. /\ UNCHANGED <<timing, ref, stack, roots, op, counter>>
      /\ main_pc = "begin" /\ main_pc' = "roots"
      /\ \A m \in Mutators : op[m] = Idle
      /\ \A x \in Units : life'[x] = IF x \in stack /\ life[x] = "UNMARKED"
                                     THEN "SELF_MARKED" ELSE life[x]
  BY Zenon DEF BeginCallback, ShadeAll, heapVars
<1> DEFINE T == {x \in Reachable : life'[x] = "UNMARKED" => x \in S}
<1>2. Held' \subseteq T
  <2>1. Held' = Held /\ Held = stack \cup roots
    <3>1. \A m \in Mutators : op[m].at = Null /\ op[m].unit = Null /\ op' = op
      BY <1>1 DEF Idle
    <3>2. Held = stack \cup roots
      BY <3>1, HeapAssumption, Zenon DEF Held
    <3> QED
      BY <1>1, <3>2, Zenon DEF Held
  <2>2. \A x \in roots : life'[x] = "UNMARKED" => x \in S
    BY <1>1, Zenon DEF Follows
  <2>3. \A x \in stack : life'[x] # "UNMARKED"
    BY <1>0, <1>1, Zenon DEF TypeOK
  <2> QED
    BY <1>0, <2>1, <2>2, <2>3, ReachableClosed, Zenon
<1>3. ASSUME NEW x \in T, ref'[x] # Null PROVE ref'[x] \in T
  <2>1. x \in Units /\ ref[x] \in Reachable /\ ref[x] \in Units /\ ref'[x] = ref[x] /\ x \in Reachable
    BY <1>0, <1>1, <1>3, ReachableClosed, Zenon
  <2> SUFFICES ASSUME life'[ref[x]] = "UNMARKED" PROVE ref[x] \in S
    BY <2>1, Zenon
  <2>0. \A m \in Mutators : op'[m].pc = "idle" /\ op[m].pc = "idle"
    BY <1>1 DEF Idle
  <2>2. life[x] \notin {"RELEASED", "PENDING", "FULL_MARKED"}
    <3>1. life[x] # "RELEASED" /\ life[x] # "FULL_MARKED"
      BY <1>1, <2>1, Zenon DEF HeapInv, BasicInv, Heap, Colours
    <3>2. life[x] # "PENDING"
      BY <2>0, <2>1, Zenon DEF HeapInv, BasicInv, Allocating, AllocPcs
    <3> QED
      BY <3>1, <3>2, Zenon
  <2>3. life'[x] = "SELF_MARKED" \/ (life'[x] = "UNMARKED" /\ x \in S)
    BY <1>0, <1>1, <1>3, <2>1, <2>2, Zenon DEF TypeOK
  <2>4. Link(x)'
    <3>1. ~Stale(x)'
      BY <2>0, Zenon DEF Stale, BarrierPcs
    <3> QED
      BY <1>3, <2>1, <3>1, Zenon DEF Link
  <2> QED
    BY <2>1, <2>3, <2>4, Zenon DEF Follows
<1>4. T \in SUBSET Units
  BY <1>0, ReachableClosed, Zenon
<1>5. u \in T
  <2> HIDE DEF T
  <2> QED
    BY <1>2, <1>3, <1>4, LeastNext, Zenon
<1> QED
  BY <1>5, Zenon DEF Condemned

\* Every step keeps what the workers have still to find protected.
LEMMA ProtectedNext ==
    ASSUME HeapInv, [Next]_vars
    PROVE  Protected'
<1>1. CASE main_pc' \notin Marking
  BY <1>1, Zenon DEF Protected
<1>2. CASE BeginCallback
  BY <1>2, ProtectedBegin, Zenon
<1>3. CASE main_pc' \in Marking /\ ~BeginCallback
  <2>1. ~BeginRound /\ ~StartSweep /\ ~EndRound
    BY <1>3, Zenon DEF BeginRound, StartSweep, EndRound, Marking
  <2>2. ASSUME NEW u \in Units PROVE ~Sweep(u)
    BY <1>3, Zenon DEF Sweep, HeapInv, BasicInv, Control, Marking
  <2>3. main_pc \in Marking
    <3>1. CASE Collect
      BY <1>3, <2>1, <2>2, <3>1, Zenon DEF Collect, MarkRoots, WorkerDone, Scan, LowerFlag, StopCallback,
                               roundVars, Marking
    <3>2. ASSUME NEW m \in Mutators, Mutate(m) PROVE main_pc' = main_pc
      BY <3>2, Zenon DEF Mutate, AllocateBegin, RegisterRoot, AllocateEnd, StoreUnmarked, Overwrite,
                  Barrier, Shade, Enqueue, Write, roundVars
    <3>3. ASSUME NEW u \in Units, Load(u) \/ Drop(u) PROVE main_pc' = main_pc
      BY <3>3, Zenon DEF Load, Drop, roundVars
    <3> QED
      BY <1>3, <3>1, <3>2, <3>3, Zenon DEF Next, vars, roundVars
  <2>4. ASSUME NEW m \in Mutators, Mutate(m) PROVE Protected'
    BY <2>3, <2>4, ProtectedAllocate, ProtectedProgram, Zenon DEF Mutate
  <2>5. CASE Collect
    BY <1>3, <2>1, <2>2, <2>3, <2>5, ProtectedWorkers, Zenon DEF Collect
  <2>6. CASE UNCHANGED vars \/ \E u \in Units : Load(u) \/ Drop(u)
    <3>1. UNCHANGED <<life, timing, ref, roots, op, counter, main_pc, lost>>
      BY <2>6, Zenon DEF vars, heapVars, roundVars, history, Load, Drop
    <3>2. \A x \in Units : Link(x) => ref'[x] = ref[x] /\ ~Stale(x)'
      BY <3>1, Zenon DEF Link, Stale
    <3> QED
      BY <2>3, <3>1, <3>2, ProtectionKept, Zenon DEF Condemned, HeapInv, BasicInv, TypeOK
  <2> QED
    BY <2>4, <2>5, <2>6, Zenon DEF Next
<1> QED
  BY <1>1, <1>2, <1>3, Zenon

-----------------------------------------------------------------------------
(* The sweep *)

\* When the sweep starts nothing reachable is condemned but what is lost, and a step
\* of it, or of the program meanwhile, condemns nothing else.
LEMMA SweepSafeNext ==
    ASSUME HeapInv, [Next]_vars
    PROVE  SweepSafe'
<1> SUFFICES ASSUME main_pc' = "sweep", NEW u \in Reachable', u \in todo', Condemned(u)'
             PROVE  u \in lost'
  BY Zenon DEF SweepSafe
<1>0. TypeOK /\ u \in Units
  BY Zenon DEF HeapInv, BasicInv, Reachable
<1>1. u \in Reachable
  BY ReachableNext, Zenon DEF Condemned
<1>2. CASE StartSweep
  <2>1. UNCHANGED <<life, timing, counter, lost>> /\ main_pc = "final" /\ done = Workers
    BY <1>2, Zenon DEF StartSweep, history
  <2>2. \A x \in Units : life[x] # "SELF_MARKED"
    BY <2>1, Zenon DEF HeapInv, BasicInv, Colours, Control
  <2>3. Follows({})
    BY <2>1, <2>2, Zenon DEF Follows
  <2> QED
    BY <1>1, <2>1, <2>3 DEF HeapInv, BasicInv, Protected, Marking, Condemned
<1>3. CASE main_pc = "sweep" /\ todo' \subseteq todo /\ counter' = counter /\ lost' = lost
           /\ (Condemned(u)' => Condemned(u))
  BY <1>1, <1>3, Zenon DEF HeapInv, BasicInv, SweepSafe
<1>4. ASSUME NEW x \in Units, Sweep(x) PROVE u \in lost'
  <2>1. u # x /\ main_pc = "sweep" /\ todo' \subseteq todo /\ counter' = counter /\ lost' = lost
    BY <1>4, Zenon DEF Sweep, history, HeapInv, BasicInv, Control
  <2>2. life'[u] = life[u] /\ timing'[u] = timing[u]
    BY <1>0, <1>4, <2>1, Zenon DEF Sweep, Aged, TypeOK
  <2> QED
    BY <1>3, <2>1, <2>2, Zenon DEF Condemned
<1>5. ASSUME NEW m \in Mutators, Mutate(m) PROVE u \in lost'
  <2>0. UNCHANGED <<main_pc, todo, counter>>
    BY <1>5, Zenon DEF Mutate, AllocateBegin, RegisterRoot, AllocateEnd, StoreUnmarked, Overwrite,
                Barrier, Shade, Enqueue, Write, roundVars
  <2>1. UNCHANGED <<main_pc, todo, counter, lost>>
    BY <1>5, <2>0, Zenon DEF Mutate, AllocateBegin, RegisterRoot, AllocateEnd, StoreUnmarked, Overwrite,
                Barrier, Shade, Enqueue, Write, history, Unguarded
  <2>2. life'[u] = "UNMARKED" => life[u] = "UNMARKED" \/ StoreUnmarked(m)
    BY <1>0, <1>5, Zenon DEF Mutate, AllocateBegin, RegisterRoot, AllocateEnd, Overwrite,
                Barrier, Shade, Enqueue, Write, TypeOK
  <2>3. timing'[u] = timing[u] \/ timing'[u] = counter
    BY <1>0, <1>5, Zenon DEF Mutate, AllocateBegin, RegisterRoot, AllocateEnd, StoreUnmarked, Overwrite,
                Barrier, Shade, Enqueue, Write, TypeOK
  <2>4. ASSUME StoreUnmarked(m), life[u] # "UNMARKED" PROVE timing[u] = counter
    <3>1. u = op[m].unit /\ op[m].pc = "timed"
      BY <1>0, <2>4, Zenon DEF StoreUnmarked, TypeOK, Condemned
    <3>2. main_pc # "begin"
      BY <2>1, Zenon
    <3> QED
      BY <3>1, <3>2, Zenon DEF HeapInv, BasicInv, Allocating, AllocPcs
  <2> QED
    BY <1>3, <2>1, <2>2, <2>3, <2>4, Zenon DEF Condemned
<1>6. CASE UNCHANGED vars \/ \E x \in Units : Load(x) \/ Drop(x)
  <2>1. UNCHANGED <<life, timing, main_pc, todo, counter, lost>>
    BY <1>6, Zenon DEF vars, roundVars, history, Load, Drop
  <2> QED
    BY <1>3, <2>1, Zenon DEF Condemned
<1>7. CASE Collect
  <2>1. /\ ~BeginRound /\ ~BeginCallback /\ ~MarkRoots /\ ~LowerFlag /\ ~StopCallback /\ ~EndRound
        /\ \A w \in Workers : ~WorkerDone(w) /\ \A x \in Units : ~Scan(w, x)
    BY Zenon DEF BeginRound, BeginCallback, MarkRoots, LowerFlag, StopCallback, EndRound, WorkerDone,
           Scan, roundVars
  <2> QED
    BY <1>2, <1>4, <1>7, <2>1, Zenon DEF Collect
<1> QED
  BY <1>5, <1>6, <1>7, Zenon DEF Next

-----------------------------------------------------------------------------
(* The theorem *)

\* The invariant holds of the empty heap.
LEMMA HeapInvInit == Init => HeapInv
<1> SUFFICES ASSUME Init PROVE HeapInv
  BY Zenon
<1> USE HeapAssumption DEF Init, Idle, Old
<1>1. TypeOK
  <2>1. timing \in [Units -> 0 .. Old] /\ counter \in 0 .. RoundModulus - 1
    <3>1. RoundModulus \in 0 .. Old /\ 0 \in 0 .. RoundModulus - 1
      BY ONLY HeapAssumption DEF Old
    <3> QED
      BY <3>1, Zenon
  <2>2. op \in [Mutators -> [pc : {"idle", "root", "pending", "timed", "shade", "enqueue", "write"},
                             at : Units \cup {RootSet, Null}, unit : Units \cup {Null}]]
    BY Zenon
  <2>3. gray \in [Workers -> SUBSET Units]
    BY Zenon
  <2> QED
    BY <2>1, <2>2, <2>3, Zenon DEF TypeOK
<1>2. Control /\ Allocating /\ Barriers /\ Shaded /\ Colours
  BY Zenon DEF Control, Allocating, AllocPcs, Barriers, Shaded, BarrierPcs, Colours, Marked
<1>3. Reachable = {}
  <2>1. Held = {}
    BY Zenon DEF Held
  <2> QED
    BY <2>1, Zenon DEF Reachable, Closed
<1> QED
  BY <1>1, <1>2, <1>3, Zenon DEF HeapInv, BasicInv, Heap, Protected, Marking, SweepSafe

\* Every step keeps what always holds, ...
LEMMA BasicInvNext == BasicInv /\ [Next]_vars => BasicInv'
<1> SUFFICES ASSUME BasicInv, [Next]_vars PROVE BasicInv'
  BY Zenon
<1>1. TypeOK'
  <2>1. CASE UNCHANGED vars
    BY <2>1, Zenon DEF vars, heapVars, roundVars, history, BasicInv, TypeOK
  <2> QED
    BY <2>1, TypeNext, Zenon DEF BasicInv
<1> QED
  BY <1>1, LocalNext, Zenon DEF BasicInv, LocalInv

\* ... and the whole invariant unless it frees something reachable.
LEMMA HeapInvNext == HeapInv /\ [Next]_vars /\ ~broken' => HeapInv'
<1> SUFFICES ASSUME HeapInv, [Next]_vars, ~broken' PROVE HeapInv'
  BY Zenon
<1>1. BasicInv' /\ TypeOK'
  BY BasicInvNext, Zenon DEF HeapInv, BasicInv
<1> QED
  BY <1>1, ShadedNext, HeapNext, ProtectedNext, SweepSafeNext, Zenon DEF HeapInv

\* What has been broken stays so.
LEMMA BrokenStays == [Next]_vars /\ broken => broken'
<1> SUFFICES ASSUME [Next]_vars, broken PROVE broken'
  BY Zenon
<1>1. ASSUME NEW m \in Mutators, Mutate(m) PROVE broken'
  BY <1>1, Zenon DEF Mutate, AllocateBegin, RegisterRoot, AllocateEnd, StoreUnmarked, Overwrite, Barrier,
              Shade, Enqueue, Write, history
<1>2. ASSUME NEW u \in Units, Load(u) \/ Drop(u) \/ Sweep(u) PROVE broken'
  BY <1>2, Zenon DEF Load, Drop, Sweep, history
<1>3. CASE UNCHANGED vars
  BY <1>3, Zenon DEF vars, history
<1> QED
  BY <1>1, <1>2, <1>3, Zenon DEF Next, Collect, BeginRound, BeginCallback, MarkRoots, WorkerDone, Scan,
     LowerFlag, StopCallback, StartSweep, EndRound, history

\* Every variable keeps its type, in a broken heap too.
THEOREM TypeCorrect == Spec => []TypeOK
<1>1. HeapInv => BasicInv
  BY Zenon DEF HeapInv
<1>2. BasicInv => TypeOK
  BY Zenon DEF BasicInv
<1> QED
  BY <1>1, <1>2, HeapInvInit, BasicInvNext, PTL DEF Spec

\* A unit that is freed although it can be reached is lost.
LEMMA FreedOrLost ==
    ASSUME HeapInv, [Next]_vars, NEW u \in Units, life[u] = "UNMARKED", life'[u] = "RELEASED"
    PROVE  u \notin Reachable \ lost
<1>1. u \in todo /\ Dying(u)
  BY UnitSteps, Zenon DEF UnitStep
<1> QED
  BY <1>1, Zenon DEF HeapInv, BasicInv, Control, SweepSafe, Condemned, Dying

\* However large the heap and however many mutators and workers, the first unit that
\* check_and_free_unmarked_unit takes from under the program is one that the program
\* had cut off from the collector in this round, after Step 4 and before the end of
\* Step 5.  All other reachable units are kept, whatever moves while they are marked.
THEOREM OnlyGarbageOrLostIsFreed == Spec => FreesGarbageOrLost
<1> DEFINE Inv == BasicInv /\ (broken \/ HeapInv)
<1>1. Init => Inv
  BY HeapInvInit, Zenon DEF HeapInv
<1>2. Inv /\ [Next]_vars => Inv'
  BY BasicInvNext, HeapInvNext, BrokenStays, Zenon
<1>3. Inv /\ [Next]_vars =>
        [~broken => \A u \in Units :
             life[u] = "UNMARKED" /\ life'[u] = "RELEASED" => u \notin Reachable \ lost]_vars
  BY FreedOrLost, Zenon
<1> QED
  BY <1>1, <1>2, <1>3, PTL DEF Spec, FreesGarbageOrLost

\* A program that cuts nothing off in that time is safe: nothing it can reach is ever
\* freed.
THEOREM NothingLostNothingBroken ==
    Spec /\ [](lost = {}) =>
        [][\A u \in Units : life[u] = "UNMARKED" /\ life'[u] = "RELEASED" => u \notin Reachable]_vars
<1> DEFINE Step == \A u \in Units : life[u] = "UNMARKED" /\ life'[u] = "RELEASED" => u \notin Reachable
           Inv == HeapInv /\ ~broken
           Nothing == lost = {}
<1>1. Init => Inv
  BY HeapInvInit, Zenon DEF Init
<1>2. ASSUME Inv, Nothing, [Next]_vars PROVE [Step]_vars
  BY <1>2, FreedOrLost, Zenon
<1>3. ASSUME Inv, Nothing, [Next]_vars PROVE Inv'
  <2>1. ASSUME NEW u \in Units, Sweep(u) PROVE ~broken'
    <3>1. CASE Dying(u)
      <4>1. u \in todo /\ main_pc = "sweep" /\ Condemned(u)
        BY <1>3, <2>1, <3>1, Zenon DEF Sweep, HeapInv, BasicInv, Control, Dying, Condemned
      <4>2. u \notin Reachable
        BY <1>3, <4>1, Zenon DEF HeapInv, SweepSafe
      <4> QED
        BY <1>3, <2>1, <3>1, <4>2, Zenon DEF Sweep
    <3>2. CASE ~Dying(u)
      BY <1>3, <2>1, <3>2, Zenon DEF Sweep, history
    <3> QED
      BY <3>1, <3>2, Zenon
  <2>2. ASSUME NEW m \in Mutators, Mutate(m) PROVE broken' = broken
    BY <2>2, Zenon DEF Mutate, AllocateBegin, RegisterRoot, AllocateEnd, StoreUnmarked, Overwrite,
                Barrier, Shade, Enqueue, Write, history
  <2>3. ASSUME UNCHANGED vars PROVE broken' = broken
    BY <2>3, Zenon DEF vars, history
  <2>4. ~broken'
    BY <1>3, <2>1, <2>2, <2>3, Zenon DEF Next, Load, Drop, Collect, BeginRound, BeginCallback, MarkRoots,
       WorkerDone, Scan, LowerFlag, StopCallback, StartSweep, EndRound, history
  <2> QED
    BY <1>3, <2>4, HeapInvNext, Zenon
<1>4. Nothing <=> lost = {}
  OBVIOUS
<1>5. Inv /\ Nothing /\ [Next]_vars => Inv' /\ [Step]_vars
  BY <1>2, <1>3, Zenon
<1> HIDE DEF Inv, Nothing, Step
<1>6. Spec /\ []Nothing => [][Step]_vars
  BY <1>1, <1>5, PTL DEF Spec
<1> QED
  BY <1>4, <1>6, PTL DEF Step

-----------------------------------------------------------------------------
(* Garbage *)

\* After a sweep, a unit that is not from the last round is not in its first year
\* any more: a counter that comes round again cannot be taken for its timing.
Ages ==
    \A u \in Units : life[u] = "UNMARKED" =>
        /\ main_pc = "idle" => timing[u] \in {Old, counter}
        /\ main_pc = "sweep" /\ u \notin todo => timing[u] \in {Old, counter}

\* What a unit contains means nothing while it is handed out and not filled yet.
Unfilled(u) == u \notin stack /\ \E m \in Mutators : op[m].pc \in {"root", "pending"} /\ op[m].unit = u

\* T is out of reach of what was garbage when the round began.
Separates(T) ==
    /\ Held \subseteq T /\ \A u \in T : ref[u] = Null \/ ref[u] \in T \/ Unfilled(u)
    /\ \A u \in Units : life[u] \in Marked => u \in T
    /\ T \cap dead = {}

\* Such a set exists, so that nothing dead is ever marked; the sweep will come to
\* all that is dead.
Dead ==
    /\ \A u \in dead : life[u] = "UNMARKED" /\ timing[u] # counter /\ u \notin Unswept
    /\ main_pc = "sweep" => dead \subseteq todo
    /\ main_pc = "idle" => dead = {}
    /\ \E T \in SUBSET Units : Separates(T)

GarbageInv == BasicInv /\ Ages /\ Dead

\* The next round has another number.
LEMMA CounterMoves ==
    ASSUME TypeOK
    PROVE  (counter + 1) % RoundModulus \notin {counter, Old}
<1>1. counter \in Nat /\ RoundModulus \in Nat /\ RoundModulus > 1 /\ counter < RoundModulus
  BY HeapAssumption DEF TypeOK
<1>2. CASE counter + 1 < RoundModulus
  <2>1. (counter + 1) % RoundModulus = counter + 1
    BY <1>1, <1>2
  <2> QED
    BY <1>1, <1>2, <2>1 DEF Old
<1>3. CASE counter + 1 = RoundModulus
  <2>1. RoundModulus % RoundModulus = 0
    BY <1>1
  <2> QED
    BY <1>1, <1>3, <2>1 DEF Old
<1> QED
  BY <1>1, <1>2, <1>3

\* What a step may do to marks, timings and the dead.
ColourStep ==
    /\ \A u \in Units : life'[u] \in Marked => life[u] \in Marked \/ u \in Held
                          \/ \E x \in Units : life[x] \in Marked /\ ref[x] = u
    /\ \A u \in Units : life[u] = "UNMARKED" /\ life'[u] # "UNMARKED" =>
         life'[u] \in Marked \/ (Dying(u) /\ u \notin dead')
    /\ \A u \in Units : life[u] = "UNMARKED" => timing'[u] \in {timing[u], Old}
    /\ dead' \subseteq dead

\* Every step but the beginning of a round does no more than that.
LEMMA ColourSteps ==
    ASSUME BasicInv, [Next]_vars, ~BeginRound
    PROVE  ColourStep
<1> USE DEF ColourStep
<1>0. TypeOK /\ stack \subseteq Held /\ roots \subseteq Held
      /\ \A m \in Mutators : op[m].unit \in Units => op[m].unit \in Held
  BY Zenon DEF BasicInv, Held
<1>1. ASSUME NEW m \in Mutators, NEW x \in Units, AllocateBegin(m, x) PROVE ColourStep
  BY <1>0, <1>1, Zenon DEF AllocateBegin, Marked, TypeOK, history
<1>2. ASSUME NEW m \in Mutators, RegisterRoot(m) \/ Enqueue(m) PROVE ColourStep
  BY <1>2, Zenon DEF RegisterRoot, Enqueue, history
<1>3. ASSUME NEW m \in Mutators, StoreUnmarked(m) PROVE ColourStep
  BY <1>0, <1>3, Zenon DEF StoreUnmarked, Marked, TypeOK, history
<1>4. ASSUME NEW m \in Mutators, Shade(m) PROVE ColourStep
  <2>1. op[m].unit \in Units
    BY <1>4 DEF Shade, BasicInv, Barriers, BarrierPcs
  <2> QED
    BY <1>0, <1>4, <2>1, Zenon DEF Shade, Marked, TypeOK, history
<1>5. ASSUME NEW m \in Mutators, NEW v \in stack \cup {Null}, AllocateEnd(m, v) PROVE ColourStep
  <2>1. op[m].unit \in Units /\ life[op[m].unit] = "PENDING"
    BY <1>5, Zenon DEF AllocateEnd, BasicInv, Allocating, AllocPcs
  <2> QED
    BY <1>0, <1>5, <2>1, Zenon DEF AllocateEnd, Marked, TypeOK, history
<1>6. ASSUME UNCHANGED <<life, timing, dead>> PROVE ColourStep
  BY <1>6, Zenon
<1>7. ASSUME NEW m \in Mutators, Mutate(m) PROVE ColourStep
  <2>1. ASSUME NEW p \in Places, NEW v \in stack \cup {Null},
               Barrier(m, p[1], p[2]) \/ Overwrite(m, p[1], p[2], v) \/ Write(m, v)
        PROVE  UNCHANGED <<life, timing, dead>>
    BY <2>1, Zenon DEF Barrier, Overwrite, Write, history
  <2>2. ASSUME NEW p \in Places, Barrier(m, p[1], p[2]) PROVE UNCHANGED <<life, timing, dead>>
    BY <2>2, Zenon DEF Barrier, history
  <2>3. ASSUME NEW v \in stack \cup {Null}, Write(m, v) PROVE UNCHANGED <<life, timing, dead>>
    BY <2>3, Zenon DEF Write, history
  <2> QED
    BY <1>1, <1>2, <1>3, <1>4, <1>5, <1>6, <1>7, <2>1, <2>2, <2>3, Zenon DEF Mutate
<1>8. CASE BeginCallback \/ MarkRoots
  BY <1>0, <1>8, Zenon DEF BeginCallback, MarkRoots, ShadeAll, Marked, TypeOK, history
<1>9. ASSUME NEW w \in Workers, NEW x \in Units, Scan(w, x) PROVE ColourStep
  <2>1. life[x] \in Marked
    BY <1>9, Zenon DEF Scan, BasicInv, Colours
  <2>2. /\ \A v \in Units : life'[v] = IF v = x THEN "FULL_MARKED"
                                       ELSE IF v = ref[x] /\ life[v] = "UNMARKED"
                                            THEN "SELF_MARKED" ELSE life[v]
        /\ UNCHANGED <<timing, dead>>
    BY <1>0, <1>9, HeapAssumption, Zenon DEF Scan, TypeOK, history
  <2> QED
    BY <2>1, <2>2, Zenon DEF Marked
<1>10. ASSUME NEW x \in Units, Sweep(x) PROVE ColourStep
  BY <1>0, <1>10, Zenon DEF Sweep, Aged, Marked, TypeOK, history
<1>11. CASE LowerFlag \/ StopCallback \/ StartSweep \/ EndRound \/ UNCHANGED vars
            \/ (\E w \in Workers : WorkerDone(w)) \/ (\E u \in Units : Load(u) \/ Drop(u))
  <2>1. UNCHANGED <<life, timing, dead>>
    BY <1>11, Zenon DEF LowerFlag, StopCallback, StartSweep, EndRound, vars, WorkerDone, Load, Drop,
                history
  <2> QED
    BY <1>6, <2>1, Zenon
<1> QED
  BY <1>7, <1>8, <1>9, <1>10, <1>11, Zenon DEF Next, Collect

\* A unit that is not filled is PENDING.
LEMMA UnfilledPending ==
    ASSUME Allocating, NEW u, Unfilled(u)
    PROVE  life[u] = "PENDING"
  BY DEF Unfilled, Allocating, AllocPcs

\* What the program comes to hold was within its reach, or free; references come
\* from the stack.
LEMMA HeldSteps ==
    ASSUME BasicInv, [Next]_vars
    PROVE  /\ \A u \in Held' : u \in Held \/ (\E x \in stack : ref[x] = u)
                                \/ (life[u] = "RELEASED" /\ Unfilled(u)')
                                \/ (life[u] = "RELEASED" /\ u \in stack)
           /\ \A u \in Units : ref'[u] = ref[u] \/ ref'[u] \in stack \cup {Null}
           /\ \A u \in Units : Unfilled(u) => Unfilled(u)' \/ ref'[u] \in stack \cup {Null}
<1> DEFINE Goal == /\ \A u \in Held' : u \in Held \/ (\E x \in stack : ref[x] = u)
                                        \/ (life[u] = "RELEASED" /\ Unfilled(u)')
                                        \/ (life[u] = "RELEASED" /\ u \in stack)
                   /\ \A u \in Units : ref'[u] = ref[u] \/ ref'[u] \in stack \cup {Null}
                   /\ \A u \in Units : Unfilled(u) => Unfilled(u)' \/ ref'[u] \in stack \cup {Null}
<1>0. TypeOK /\ Allocating /\ Barriers
  BY Zenon DEF BasicInv
<1>00. /\ stack \subseteq Held /\ roots \subseteq Held
       /\ \A m \in Mutators : \A x \in Units : x \in {op[m].at, op[m].unit} => x \in Held
  BY Zenon DEF Held
<1>1. ASSUME NEW m \in Mutators, NEW u \in Units, AllocateBegin(m, u) PROVE Goal
  <2>1. /\ UNCHANGED <<stack, roots, ref>> /\ life[u] = "RELEASED" /\ op[m] = Idle
        /\ op'[m].unit = u /\ op'[m].at = Null /\ op'[m].pc \in {"root", "pending"}
        /\ \A n \in Mutators : n # m => op'[n] = op[n]
    BY <1>0, <1>1, Zenon DEF AllocateBegin, heapVars, Idle, TypeOK
  <2>2. op[m].pc = "idle"
    BY <2>1 DEF Idle
  <2>3. \A x \in Units : Unfilled(x) => Unfilled(x)'
    BY <2>1, <2>2, Zenon DEF Unfilled
  <2>4. Unfilled(u)' \/ u \in stack
    BY <2>1, Zenon DEF Unfilled
  <2>5. ASSUME NEW x \in Held' PROVE x \in Held \/ x = u
    <3>1. ASSUME NEW n \in Mutators, x \in Units, x \in {op'[n].at, op'[n].unit} PROVE x \in Held \/ x = u
      BY <1>00, <2>1, <3>1, HeapAssumption, Zenon
    <3>2. x \in stack \/ x \in roots => x \in Held
      BY <1>00, Zenon
    <3> QED
      BY <2>1, <3>1, <3>2, Zenon DEF Held
  <2> QED
    BY <2>1, <2>3, <2>4, <2>5, Zenon
<1>2. ASSUME NEW m \in Mutators,
             RegisterRoot(m) \/ StoreUnmarked(m) \/ Shade(m) \/ Enqueue(m)
             \/ (\E v \in stack \cup {Null} : AllocateEnd(m, v) \/ Write(m, v))
      PROVE  Goal
  <2>1. op[m].unit \in Units
    BY <1>0, <1>2, Zenon DEF RegisterRoot, StoreUnmarked, Shade, Enqueue, AllocateEnd, Write, Allocating,
                AllocPcs, Barriers, BarrierPcs
  <2>2. /\ \A n \in Mutators : n # m => op'[n] = op[n]
        /\ op'[m].at \in {op[m].at, Null} /\ op'[m].unit \in {op[m].unit, Null}
    BY <1>0, <1>2 DEF RegisterRoot, StoreUnmarked, Shade, Enqueue, AllocateEnd, Write, Idle, Go, TypeOK
  <2>3. stack' \subseteq stack \cup {op[m].unit} /\ roots' \subseteq roots \cup {op[m].unit}
    BY <1>2, Zenon DEF RegisterRoot, StoreUnmarked, Shade, Enqueue, AllocateEnd, Write, Put, heapVars
  <2>4. Held' \subseteq Held
    <3>1. \A n \in Mutators : \A x \in Units : x \in {op'[n].at, op'[n].unit} => x \in Held
      BY <1>00, <2>2, HeapAssumption, Zenon
    <3> QED
      BY <1>00, <2>1, <2>3, <3>1, Zenon DEF Held
  <2>5. \A u \in Units : ref'[u] = ref[u] \/ ref'[u] \in stack \cup {Null}
    BY <1>0, <1>2, Zenon DEF RegisterRoot, StoreUnmarked, Shade, Enqueue, AllocateEnd, Write, Put, heapVars, TypeOK
  <2>6. ASSUME NEW u \in Units, Unfilled(u) PROVE Unfilled(u)' \/ ref'[u] \in stack \cup {Null}
    <3>1. PICK n \in Mutators : op[n].pc \in {"root", "pending"} /\ op[n].unit = u
      BY <2>6, Zenon DEF Unfilled
    <3>2. u \notin stack
      BY <2>6, Zenon DEF Unfilled
    <3>3. CASE n # m
      <4>1. StoreUnmarked(m) => op[m].unit # u
        BY <1>0, <3>1, <3>3, Zenon DEF StoreUnmarked, Allocating, AllocPcs
      <4>2. u \notin stack'
        BY <1>2, <3>2, <4>1, Zenon DEF RegisterRoot, StoreUnmarked, Shade, Enqueue, AllocateEnd, Write, heapVars
      <4> QED
        BY <2>2, <3>1, <3>3, <4>2, Zenon DEF Unfilled
    <3>4. CASE n = m /\ RegisterRoot(m)
      <4>1. op'[m].pc = "pending" /\ op'[m].unit = u /\ stack' = stack
        BY <1>0, <3>1, <3>4, Zenon DEF RegisterRoot, Go, TypeOK
      <4> QED
        BY <3>2, <4>1, Zenon DEF Unfilled
    <3>5. ASSUME NEW v \in stack \cup {Null}, AllocateEnd(m, v), n = m PROVE ref'[u] \in stack \cup {Null}
      BY <1>0, <3>1, <3>5, Zenon DEF AllocateEnd, TypeOK
    <3> QED
      BY <1>2, <3>1, <3>3, <3>4, <3>5, Zenon DEF StoreUnmarked, Shade, Enqueue, Write
  <2> QED
    BY <2>4, <2>5, <2>6, Zenon
<1>3. ASSUME NEW m \in Mutators, NEW p \in Places, Barrier(m, p[1], p[2]) PROVE Goal
  <2>1. /\ UNCHANGED <<stack, roots, ref>>
        /\ \A n \in Mutators : n # m => op'[n] = op[n]
        /\ op'[m].at = p[1] /\ op'[m].unit = p[2] /\ op[m] = Idle
    BY <1>0, <1>3, Zenon DEF Barrier, heapVars, TypeOK
  <2>2. op[m].pc = "idle"
    BY <2>1 DEF Idle
  <2>3. \A x \in Units : Unfilled(x) => Unfilled(x)'
    BY <2>1, <2>2, Zenon DEF Unfilled
  <2>4. ASSUME NEW x \in Units, x \in {p[1], p[2]} PROVE x \in Held \/ \E y \in stack : ref[y] = x
    BY <1>0, <1>00, <2>4, PlaceTypes, HeapAssumption, Zenon
  <2>5. ASSUME NEW x \in Held' PROVE x \in Held \/ \E y \in stack : ref[y] = x
    BY <1>00, <2>1, <2>4, Zenon DEF Held
  <2> QED
    BY <2>1, <2>3, <2>5, Zenon
<1>4. ASSUME NEW m \in Mutators, NEW p \in Places, NEW v \in stack \cup {Null}, Overwrite(m, p[1], p[2], v)
      PROVE  Goal
  <2>1. UNCHANGED <<stack, op>> /\ roots' \subseteq roots
    BY <1>4, Zenon DEF Overwrite, Put
  <2>2. \A u \in Units : ref'[u] = ref[u] \/ ref'[u] \in stack \cup {Null}
    BY <1>0, <1>4, Zenon DEF Overwrite, Put, TypeOK
  <2> QED
    BY <2>1, <2>2, Zenon DEF Held, Unfilled
<1>5. ASSUME NEW u \in Units, Load(u) PROVE Goal
  <2>1. /\ UNCHANGED <<roots, ref, op>> /\ stack' = stack \cup {u} /\ life[u] # "PENDING"
        /\ u \in roots \/ \E x \in stack : ref[x] = u
    BY <1>5, Zenon DEF Load
  <2>2. \A x \in Units : Unfilled(x) => life[x] = "PENDING"
    BY <1>0, UnfilledPending, Zenon
  <2>3. \A x \in Units : Unfilled(x) => Unfilled(x)'
    BY <2>1, <2>2, Zenon DEF Unfilled
  <2> QED
    BY <1>00, <2>1, <2>3, Zenon DEF Held
<1>6. ASSUME UNCHANGED <<roots, op>>, stack' \subseteq stack, \A u \in Units : ref'[u] \in {ref[u], Null}
      PROVE  Goal
  BY <1>6, Zenon DEF Held, Unfilled
<1>7. ASSUME Collect \/ UNCHANGED vars \/ \E u \in Units : Drop(u) PROVE Goal
  <2>1. UNCHANGED <<roots, op>> /\ stack' \subseteq stack
    BY <1>7, Zenon DEF Collect, BeginRound, BeginCallback, MarkRoots, WorkerDone, Scan, LowerFlag, StopCallback,
                StartSweep, EndRound, Sweep, Drop, vars, heapVars
  <2>2. ASSUME NEW u \in Units, Sweep(u) PROVE \A x \in Units : ref'[x] \in {ref[x], Null}
    BY <1>0, <2>2, Zenon DEF Sweep, TypeOK
  <2>3. \A u \in Units : ref'[u] \in {ref[u], Null}
    BY <1>7, <2>2, Zenon DEF Collect, BeginRound, BeginCallback, MarkRoots, WorkerDone, Scan, LowerFlag,
                StopCallback, StartSweep, EndRound, Drop, vars, heapVars
  <2> QED
    BY <1>6, <2>1, <2>3, Zenon
<1> HIDE DEF Goal
<1>8. ASSUME NEW m \in Mutators, Mutate(m) PROVE Goal
  <2>1. CASE \E v \in stack \cup {Null} : AllocateEnd(m, v) \/ Write(m, v)
    BY <1>2, <2>1, Zenon
  <2>2. CASE RegisterRoot(m) \/ StoreUnmarked(m) \/ Shade(m) \/ Enqueue(m)
    BY <1>2, <2>2, Zenon
  <2> QED
    BY <1>1, <1>3, <1>4, <1>8, <2>1, <2>2, Zenon DEF Mutate
<1>9. Goal
  BY <1>5, <1>7, <1>8, Zenon DEF Next
<1> QED
  BY <1>9, Zenon DEF Goal

\* The set that keeps garbage apart grows with what the program allocates.
LEMMA SeparatesNext ==
    ASSUME BasicInv, TypeOK', Dead, [Next]_vars, ~BeginRound
    PROVE  \E T \in SUBSET Units : Separates(T)'
<1>1. PICK T \in SUBSET Units : Separates(T)
  BY Zenon DEF Dead
<1>2. stack \subseteq T /\ Held \subseteq T
  BY <1>1, Zenon DEF Separates, Held
<1>3. \A x \in stack : ref[x] = Null \/ ref[x] \in T
  BY <1>1, <1>2, Zenon DEF Separates, Unfilled
<1>4. Held' \subseteq Units
  BY Zenon DEF TypeOK, Held
<1> DEFINE F == {u \in Units : life[u] = "RELEASED" /\ Unfilled(u)'}
           N == T \cup F
<1>5. N \in SUBSET Units /\ Held' \subseteq N
  BY <1>2, <1>3, <1>4, HeldSteps, HeapAssumption, Zenon
<1>6. \A u \in N : ref'[u] = Null \/ ref'[u] \in N \/ Unfilled(u)'
  BY <1>1, <1>2, HeldSteps, Zenon DEF Separates
<1>7. \A u \in Units : life'[u] \in Marked => u \in N
  <2>1. \A u \in Units : life'[u] \in Marked => life[u] \in Marked \/ u \in Held
                           \/ \E x \in Units : life[x] \in Marked /\ ref[x] = u
    BY ColourSteps, Zenon DEF ColourStep
  <2>2. \A x \in Units : life[x] \in Marked => x \in T /\ ~Unfilled(x)
    <3>1. \A x \in Units : Unfilled(x) => life[x] = "PENDING"
      BY UnfilledPending, Zenon DEF BasicInv
    <3> QED
      BY <1>1, <3>1, Zenon DEF Separates, Marked
  <2> QED
    <3> SUFFICES ASSUME NEW u \in Units, life'[u] \in Marked PROVE u \in T
      BY Zenon
    <3>1. life[u] \in Marked \/ u \in Held => u \in T
      BY <1>1, Zenon DEF Separates
    <3>2. ASSUME NEW x \in Units, life[x] \in Marked, ref[x] = u PROVE u \in T
      BY <1>1, <2>2, <3>2, HeapAssumption, Zenon DEF Separates
    <3> QED
      BY <2>1, <3>1, <3>2, Zenon
<1>8. N \cap dead' = {}
  <2>1. dead' \subseteq dead
    BY ColourSteps, Zenon DEF ColourStep
  <2>2. \A u \in dead : life[u] # "RELEASED"
    BY Zenon DEF Dead
  <2> QED
    BY <1>1, <2>1, <2>2, Zenon DEF Separates
<1> HIDE DEF N
<1> QED
  BY <1>5, <1>6, <1>7, <1>8, Zenon DEF Separates

\* No unit misses its ageing.
LEMMA AgesNext ==
    ASSUME BasicInv, Ages, [Next]_vars
    PROVE  Ages'
<1>0. TypeOK
  BY Zenon DEF BasicInv
<1> SUFFICES ASSUME NEW u \in Units, life'[u] = "UNMARKED",
                    main_pc' = "idle" \/ (main_pc' = "sweep" /\ u \notin todo')
             PROVE  timing'[u] \in {Old, counter'}
  BY Zenon DEF Ages
<1>1. ASSUME NEW m \in Mutators, Mutate(m)
      PROVE  timing'[u] \in {Old, counter'}
  <2>1. CASE StoreUnmarked(m)
    <3>1. /\ timing' = timing /\ counter' = counter /\ main_pc' = main_pc /\ todo' = todo
          /\ life[u] = "UNMARKED" \/ u = op[m].unit
      BY <1>0, <2>1, Zenon DEF StoreUnmarked, roundVars, TypeOK
    <3>2. op[m].pc = "timed" /\ op[m].pc \in AllocPcs
      BY <2>1, Zenon DEF StoreUnmarked, AllocPcs
    <3>3. u = op[m].unit => timing[u] = counter
      BY <3>1, <3>2, Zenon DEF BasicInv, Allocating
    <3> QED
      BY <3>1, <3>3, Zenon DEF Ages
  <2>2. ASSUME NEW v \in stack \cup {Null}, AllocateEnd(m, v)
        PROVE  timing'[u] \in {Old, counter'}
    <3>1. life[op[m].unit] = "PENDING"
      BY <2>2, Zenon DEF AllocateEnd, BasicInv, Allocating, AllocPcs
    <3> QED
      BY <1>0, <2>2, <3>1, Zenon DEF AllocateEnd, roundVars, TypeOK, Ages
  <2>3. ASSUME UNCHANGED <<timing, roundVars>>, life[u] = "UNMARKED"
        PROVE  timing'[u] \in {Old, counter'}
    BY <2>3, Zenon DEF roundVars, Ages
  <2>4. ASSUME NEW x \in Units, AllocateBegin(m, x)
        PROVE  UNCHANGED <<timing, roundVars>> /\ life[u] = "UNMARKED"
    BY <1>0, <2>4, Zenon DEF AllocateBegin, TypeOK
  <2>5. ASSUME RegisterRoot(m) \/ Enqueue(m) \/ Shade(m)
        PROVE  UNCHANGED <<timing, roundVars>> /\ life[u] = "UNMARKED"
    BY <1>0, <2>5, Zenon DEF RegisterRoot, Enqueue, Shade, TypeOK
  <2>6. ASSUME NEW v \in stack \cup {Null}, Write(m, v)
        PROVE  UNCHANGED <<timing, roundVars>> /\ life[u] = "UNMARKED"
    BY <2>6, Zenon DEF Write
  <2>7. ASSUME NEW p \in Places, NEW v \in stack \cup {Null}, Overwrite(m, p[1], p[2], v)
        PROVE  UNCHANGED <<timing, roundVars>> /\ life[u] = "UNMARKED"
    BY <2>7, Zenon DEF Overwrite
  <2>8. ASSUME NEW p \in Places, Barrier(m, p[1], p[2])
        PROVE  UNCHANGED <<timing, roundVars>> /\ life[u] = "UNMARKED"
    BY <2>8, Zenon DEF Barrier
  <2> QED
    BY <1>1, <2>1, <2>2, <2>3, <2>4, <2>5, <2>6, <2>7, <2>8, Zenon DEF Mutate
<1>2. ASSUME NEW x \in Units, Load(x) \/ Drop(x)
      PROVE  timing'[u] \in {Old, counter'}
  BY <1>2, Zenon DEF Load, Drop, roundVars, Ages
<1>3. ASSUME NEW x \in Units, Sweep(x)
      PROVE  timing'[u] \in {Old, counter'}
  <2>1. x \in todo /\ main_pc = "sweep"
    BY <1>3, Zenon DEF Sweep, BasicInv, Control
  <2>2. CASE u = x
    BY <1>0, <1>3, <2>2, Zenon DEF Sweep, Aged, TypeOK
  <2>3. CASE u # x
    BY <1>0, <1>3, <2>1, <2>3, Zenon DEF Sweep, Aged, TypeOK, Ages
  <2> QED
    BY <2>2, <2>3, Zenon
<1>4. CASE EndRound
  BY <1>4, Zenon DEF EndRound, Ages
<1>5. CASE StartSweep
  BY <1>5, Zenon DEF StartSweep
<1>6. CASE BeginRound \/ BeginCallback \/ MarkRoots \/ LowerFlag \/ StopCallback
           \/ \E w \in Workers : WorkerDone(w) \/ \E x \in Units : Scan(w, x)
  BY <1>6, Zenon DEF BeginRound, BeginCallback, MarkRoots, LowerFlag, StopCallback, WorkerDone, Scan,
              roundVars
<1>7. CASE UNCHANGED vars
  BY <1>7, Zenon DEF vars, roundVars, Ages
<1> QED
  BY <1>1, <1>2, <1>3, <1>4, <1>5, <1>6, <1>7, Zenon DEF Next, Collect

\* Nothing that was dead when the round began comes alive before the sweep frees it.
LEMMA DeadNext ==
    ASSUME BasicInv, BasicInv', Ages, Dead, [Next]_vars
    PROVE  Dead'
<1>0. TypeOK
  BY Zenon DEF BasicInv
<1>1. CASE BeginRound
  <2>1. /\ UNCHANGED <<life, timing, heapVars, op>> /\ main_pc = "idle" /\ main_pc' = "begin"
        /\ counter' = (counter + 1) % RoundModulus
        /\ dead' = White \ (Unswept \cup Reachable)
    BY <1>1, Zenon DEF BeginRound
  <2>2. \A u \in dead' : timing'[u] # counter'
    BY <1>0, <2>1, CounterMoves, Zenon DEF Ages, White
  <2>3. Separates(Reachable)'
    <3>1. Held' = Held /\ Reachable' = Reachable /\ ref' = ref /\ life' = life
      BY <2>1, Zenon DEF Held, Reachable, Closed, heapVars
    <3>2. \A u \in Units : life[u] \notin Marked
      BY <2>1, Zenon DEF BasicInv, Colours
    <3> QED
      BY <1>0, <2>1, <3>1, <3>2, ReachableClosed, Zenon DEF Separates
  <2>4. Reachable' \in SUBSET Units
    BY Zenon DEF Reachable
  <2>5. \E T \in SUBSET Units : Separates(T)'
    <3>1. Reachable' = Reachable
      BY <2>1, Zenon DEF Held, Reachable, Closed, heapVars
    <3> QED
      BY <2>3, <2>4, <3>1, Zenon DEF Separates
  <2> QED
    BY <2>1, <2>2, <2>5, Zenon DEF Dead, White
<1>2. CASE ~BeginRound
  <2>1. ColourStep
    BY <1>2, ColourSteps, Zenon
  <2>2. \E T \in SUBSET Units : Separates(T)'
    BY <1>2, SeparatesNext, Zenon DEF BasicInv
  <2>3. \A u \in dead' : u \in Units /\ u \in dead /\ life'[u] = "UNMARKED"
    <3>1. PICK T \in SUBSET Units : Separates(T)'
      BY <2>2, Zenon
    <3>2. \A u \in Units : life'[u] \in Marked => u \notin dead'
      BY <3>1, Zenon DEF Separates
    <3> QED
      BY <1>0, <2>1, <3>2, Zenon DEF Dead, ColourStep, TypeOK
  <2>4. counter' = counter
    BY <1>2, Zenon DEF Next, Mutate, Collect, AllocateBegin, RegisterRoot, StoreUnmarked, AllocateEnd, Write,
        Barrier, Overwrite, Shade, Enqueue, Load, Drop, BeginCallback, MarkRoots, WorkerDone, Scan,
        LowerFlag, StopCallback, StartSweep, EndRound, Sweep, roundVars, vars
  <2>5. \A u \in dead' : timing'[u] # counter'
    <3>1. Old # counter
      BY <1>0, HeapAssumption DEF TypeOK, Old
    <3>2. \A u \in dead' : u \in Units /\ life[u] = "UNMARKED" /\ timing[u] # counter
      BY <2>3, Zenon DEF Dead
    <3>3. \A u \in dead' : timing'[u] \in {timing[u], Old}
      BY <2>1, <3>2, Zenon DEF ColourStep
    <3> QED
      BY <2>4, <3>1, <3>2, <3>3, Zenon
  <2>6. main_pc' = "sweep" => dead' \subseteq todo'
    <3>1. CASE StartSweep
      BY <1>0, <2>3, <3>1, Zenon DEF StartSweep, Dead
    <3>2. ASSUME NEW x \in Units, Sweep(x) PROVE dead' \subseteq todo'
      <4>1. main_pc = "sweep" /\ todo' = todo \ {x}
        BY <3>2, Zenon DEF Sweep, BasicInv, Control
      <4>2. x \in dead => Dying(x)
        BY Zenon DEF Dead, Dying
      <4>3. x \notin dead'
        BY <2>3, <3>2, <4>2, Zenon DEF Sweep
      <4> QED
        BY <2>3, <4>1, <4>3, Zenon DEF Dead
    <3>3. CASE ~StartSweep /\ \A x \in Units : ~Sweep(x)
      <4>1. main_pc' = "sweep" => main_pc = "sweep" /\ todo' = todo
        BY <1>2, <3>3 DEF Next, Mutate, Collect, AllocateBegin, RegisterRoot, StoreUnmarked,
            AllocateEnd, Write, Barrier, Overwrite, Shade, Enqueue, Load, Drop, BeginCallback,
            MarkRoots, WorkerDone, Scan, LowerFlag, StopCallback, EndRound, roundVars, vars
      <4> QED
        BY <2>3, <4>1, Zenon DEF Dead
    <3> QED
      BY <3>1, <3>2, <3>3, Zenon
  <2>7. main_pc' = "idle" => dead' = {}
    <3>1. CASE EndRound
      BY <2>3, <3>1, Zenon DEF EndRound, Dead
    <3>2. CASE ~EndRound
      <4>1. main_pc' = "idle" => main_pc = "idle"
        BY <1>2, <3>2 DEF Next, Mutate, Collect, AllocateBegin, RegisterRoot, StoreUnmarked,
            AllocateEnd, Write, Barrier, Overwrite, Shade, Enqueue, Load, Drop, BeginCallback,
            MarkRoots, WorkerDone, Scan, LowerFlag, StopCallback, StartSweep, Sweep, roundVars, vars
      <4> QED
        BY <2>3, <4>1, Zenon DEF Dead
    <3> QED
      BY <3>1, <3>2, Zenon
  <2>8. \A u \in dead' : u \notin Unswept
    BY <2>3, Zenon DEF Dead
  <2> QED
    BY <2>2, <2>3, <2>5, <2>6, <2>7, <2>8, Zenon DEF Dead
<1> QED
  BY <1>1, <1>2, Zenon

\* Whatever was garbage when a round of main_thread_job began is freed when the
\* round is over, however often the 8-bit round counter has come round.
THEOREM AllGarbageIsFreed == Spec => []GarbageFreed
<1>1. Init => GarbageInv
  <2> SUFFICES ASSUME Init PROVE GarbageInv
    BY Zenon
  <2>1. BasicInv
    BY HeapInvInit, Zenon DEF HeapInv
  <2>2. Ages
    BY Zenon DEF Init, Ages
  <2>3. Separates({})
    BY HeapAssumption, Zenon DEF Init, Separates, Held, Idle, Marked
  <2> QED
    BY <2>1, <2>2, <2>3, Zenon DEF GarbageInv, Dead, Init
<1>2. GarbageInv /\ [Next]_vars => GarbageInv'
  BY BasicInvNext, AgesNext, DeadNext, Zenon DEF GarbageInv
<1>3. GarbageInv => GarbageFreed
  BY Zenon DEF GarbageInv, Dead, GarbageFreed
<1> QED
  BY <1>1, <1>2, <1>3, PTL DEF Spec

=============================================================================
