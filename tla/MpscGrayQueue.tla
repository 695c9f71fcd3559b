--------------------------- MODULE MpscGrayQueue ---------------------------
(***************************************************************************)
(* woomem_mpsc_queue.hpp: the bounded multi-producer single-consumer ring  *)
(* through which mutator threads hand gray units to a GC worker.           *)
(*                                                                         *)
(* One action per atomic access.  A relaxed load that returns an old value *)
(* is the same as an earlier load, so interleaving covers it.  Positions   *)
(* are 64-bit in the code; MaxPos keeps the model far from wrap-around.    *)
(***************************************************************************)
EXTENDS Integers, Sequences

CONSTANTS
    Producers,  \* threads that call try_enqueue
    Units,      \* the pointers that are passed through
    NoUnit,     \* content of a slot that was never written
    Capacity,
    MaxPos      \* bound: no try_enqueue starts once MaxPos places are claimed

\* The static_assert of the class: Capacity is a positive power of two.
ASSUME CapacityAssumption ==
    Capacity \in Nat \ {0} /\ \E k \in 0 .. Capacity : Capacity = 2^k
ASSUME MaxPosAssumption == MaxPos \in Nat
ASSUME NoUnitAssumption == NoUnit \notin Units

VARIABLES
    sequence,     \* m_slots[i].sequence
    item,         \* m_slots[i].item
    enqueue_pos,  \* m_enqueue_pos
    dequeue_pos,  \* m_dequeue_pos
    pc,           \* where each producer is in try_enqueue
    pos,          \* its local pos
    arg,          \* its argument
    cpc,          \* where the consumer is in drain (or dequeue)
    room,         \* how many more items this drain may take
    claimed,      \* history: [unit, by] of every successful CAS, by position
    output        \* history: every item the consumer has read

prodVars == <<pc, pos, arg>>
consVars == <<cpc, room, output>>
vars == <<sequence, item, enqueue_pos, dequeue_pos, pc, pos, arg,
          cpc, room, claimed, output>>

Slots == 0 .. Capacity - 1
Slot(n) == n % Capacity     \* pos & MASK, Capacity being a power of two

Init ==
    /\ sequence = [i \in Slots |-> i]
    /\ item = [i \in Slots |-> NoUnit]
    /\ enqueue_pos = 0
    /\ dequeue_pos = 0
    /\ pc = [p \in Producers |-> "idle"]
    /\ pos = [p \in Producers |-> 0]
    /\ arg = [p \in Producers |-> NoUnit]
    /\ cpc = "idle"
    /\ room = 0
    /\ claimed = << >>
    /\ output = << >>

-----------------------------------------------------------------------------
(* try_enqueue *)

TryEnqueueCall(p, u) ==
    /\ pc[p] = "idle"
    /\ enqueue_pos < MaxPos
    /\ arg' = [arg EXCEPT ![p] = u]
    /\ pos' = [pos EXCEPT ![p] = enqueue_pos]
    /\ pc' = [pc EXCEPT ![p] = "check"]
    /\ UNCHANGED <<sequence, item, enqueue_pos, dequeue_pos, claimed, consVars>>

\* Mutation: a position that is merely out of date counts as a full queue.
TryEnqueueFullOnAnyDifference(p) ==
    /\ pc[p] = "check"
    /\ sequence[Slot(pos[p])] # pos[p]
    /\ pc' = [pc EXCEPT ![p] = "idle"]
    /\ UNCHANGED <<sequence, item, enqueue_pos, dequeue_pos, pos, arg, claimed, consVars>>

\* The slot still holds the entry of the previous lap: return false.
TryEnqueueFull(p) ==
    /\ pc[p] = "check"
    /\ sequence[Slot(pos[p])] < pos[p]
    /\ pc' = [pc EXCEPT ![p] = "idle"]
    /\ UNCHANGED <<sequence, item, enqueue_pos, dequeue_pos, pos, arg, claimed, consVars>>

\* Mutation: the slot is claimed without looking at its sequence number.
TryEnqueueUnchecked(p) ==
    /\ pc[p] = "check"
    /\ pc' = [pc EXCEPT ![p] = "cas"]
    /\ UNCHANGED <<sequence, item, enqueue_pos, dequeue_pos, pos, arg, claimed, consVars>>

TryEnqueueCheck(p) ==
    /\ pc[p] = "check"
    /\ sequence[Slot(pos[p])] >= pos[p]
    /\ pc' = [pc EXCEPT ![p] = "cas"]
    /\ UNCHANGED <<sequence, item, enqueue_pos, dequeue_pos, pos, arg, claimed, consVars>>

TryEnqueueClaim(p) ==
    /\ pc[p] = "cas"
    /\ enqueue_pos = pos[p]
    /\ enqueue_pos' = pos[p] + 1
    /\ claimed' = Append(claimed, [unit |-> arg[p], by |-> p])
    /\ pc' = [pc EXCEPT ![p] = "write"]
    /\ UNCHANGED <<sequence, item, dequeue_pos, pos, arg, consVars>>

\* The CAS fails, because the position moved or spuriously (it is the weak
\* form), and reloads pos.
TryEnqueueRetry(p) ==
    /\ pc[p] = "cas"
    /\ pos' = [pos EXCEPT ![p] = enqueue_pos]
    /\ pc' = [pc EXCEPT ![p] = "check"]
    /\ UNCHANGED <<sequence, item, enqueue_pos, dequeue_pos, arg, claimed, consVars>>

TryEnqueueWrite(p) ==
    /\ pc[p] = "write"
    /\ item' = [item EXCEPT ![Slot(pos[p])] = arg[p]]
    /\ pc' = [pc EXCEPT ![p] = "publish"]
    /\ UNCHANGED <<sequence, enqueue_pos, dequeue_pos, pos, arg, claimed, consVars>>

TryEnqueuePublish(p) ==
    /\ pc[p] = "publish"
    /\ sequence' = [sequence EXCEPT ![Slot(pos[p])] = pos[p] + 1]
    /\ pc' = [pc EXCEPT ![p] = "idle"]
    /\ UNCHANGED <<item, enqueue_pos, dequeue_pos, pos, arg, claimed, consVars>>

-----------------------------------------------------------------------------
(* drain; dequeue is a drain of at most one item *)

DrainCall(max_count) ==
    /\ cpc = "idle"
    /\ room' = max_count
    /\ cpc' = "check"
    /\ UNCHANGED <<sequence, item, enqueue_pos, dequeue_pos, claimed, output, prodVars>>

\* Mutation: a slot counts as published one step too early.
DrainUnpublished ==
    /\ cpc = "check"
    /\ cpc' = IF room > 0 /\ sequence[Slot(dequeue_pos)] >= dequeue_pos
              THEN "take" ELSE "idle"
    /\ UNCHANGED <<sequence, item, enqueue_pos, dequeue_pos, room, claimed, output, prodVars>>

DrainCheck ==
    /\ cpc = "check"
    /\ cpc' = IF room > 0 /\ sequence[Slot(dequeue_pos)] = dequeue_pos + 1
              THEN "take" ELSE "idle"
    /\ UNCHANGED <<sequence, item, enqueue_pos, dequeue_pos, room, claimed, output, prodVars>>

DrainTake ==
    /\ cpc = "take"
    /\ output' = Append(output, item[Slot(dequeue_pos)])
    /\ cpc' = "release"
    /\ UNCHANGED <<sequence, item, enqueue_pos, dequeue_pos, room, claimed, prodVars>>

DrainRelease ==
    /\ cpc = "release"
    /\ sequence' = [sequence EXCEPT ![Slot(dequeue_pos)] = dequeue_pos + Capacity]
    /\ cpc' = "advance"
    /\ UNCHANGED <<item, enqueue_pos, dequeue_pos, room, claimed, output, prodVars>>

DrainAdvance ==
    /\ cpc = "advance"
    /\ dequeue_pos' = dequeue_pos + 1
    /\ room' = room - 1
    /\ cpc' = "check"
    /\ UNCHANGED <<sequence, item, enqueue_pos, claimed, output, prodVars>>

-----------------------------------------------------------------------------
TryEnqueue(p) ==
    \/ \E u \in Units : TryEnqueueCall(p, u)
    \/ TryEnqueueFull(p)
    \/ TryEnqueueCheck(p)
    \/ TryEnqueueClaim(p)
    \/ TryEnqueueRetry(p)
    \/ TryEnqueueWrite(p)
    \/ TryEnqueuePublish(p)

Drain ==
    \/ \E max_count \in {1, Capacity} : DrainCall(max_count)
    \/ DrainCheck
    \/ DrainTake
    \/ DrainRelease
    \/ DrainAdvance

Next == (\E p \in Producers : TryEnqueue(p)) \/ Drain

Spec == Init /\ [][Next]_vars

-----------------------------------------------------------------------------
(* Properties *)

\* Every variable keeps its type.
TypeOK ==
    /\ sequence \in [Slots -> Nat]
    /\ item \in [Slots -> Units \cup {NoUnit}]
    /\ enqueue_pos \in Nat
    /\ dequeue_pos \in Nat
    /\ pc \in [Producers -> {"idle", "check", "cas", "write", "publish"}]
    /\ pos \in [Producers -> Nat]
    /\ arg \in [Producers -> Units \cup {NoUnit}]
    /\ cpc \in {"idle", "check", "take", "release", "advance"}
    /\ room \in 0 .. Capacity
    /\ claimed \in Seq([unit : Units \cup {NoUnit}, by : Producers])
    /\ output \in Seq(Units \cup {NoUnit})

Writing(p) == pc[p] \in {"write", "publish"}
Reading == cpc \in {"take", "release"}

\* The plain field Slot::item has no lock: while a producer is between its CAS
\* and its publishing store it is the only thread that may touch the slot,
\* neither another producer nor the consumer is on the same slot.
SlotExclusive ==
    \A p \in Producers : Writing(p) =>
        /\ Reading => Slot(pos[p]) # Slot(dequeue_pos)
        /\ \A r \in Producers \ {p} : Writing(r) => Slot(pos[p]) # Slot(pos[r])

\* The consumer reads the claimed units in claim order, none lost, repeated,
\* overwritten or read before it was written.
Fifo ==
    /\ Len(output) <= Len(claimed)
    /\ \A i \in DOMAIN output : output[i] = claimed[i].unit

\* Positions whose slot the consumer has given back to the producers.
Released == IF cpc = "advance" THEN dequeue_pos + 1 ELSE dequeue_pos

\* try_enqueue returns false only when, at that moment, Capacity places are
\* claimed and not released; mark_unit_to_gray takes "false" for "full".
FalseOnlyIfFull ==
    [][\A p \in Producers :
          pc[p] = "check" /\ pc'[p] = "idle" => enqueue_pos - Released = Capacity]_vars

\* The entries of the abstract queue: the positions claimed and not released.
AbstractQueue ==
    [i \in 1 .. enqueue_pos - Released |->
        LET n == Released + i - 1
        IN  [unit  |-> claimed[n + 1].unit,
             by    |-> claimed[n + 1].by,
             ready |-> sequence[Slot(n)] = n + 1]]

Abstract == INSTANCE GrayQueue WITH
    q <- AbstractQueue, taken <- SubSeq(output, 1, Released)

\* The ring implements the bounded queue the markers rely on.
ImplementsGrayQueue == Abstract!Spec

=============================================================================
