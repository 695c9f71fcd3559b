------------------------ MODULE MpscGrayQueueProofs ------------------------
(***************************************************************************)
(* Proofs about MpscGrayQueue for every set of producers and units, every  *)
(* capacity of at least two and every bound.  The inductive invariant says *)
(* what the sequence number of each slot of the current window             *)
(* Released .. Released + Capacity - 1 means: equal to its position n for  *)
(* a free or still unwritten slot, n + 1 for a published one.              *)
(***************************************************************************)
EXTENDS MpscGrayQueue, SequenceTheorems, TLAPS

-----------------------------------------------------------------------------
\* What the proofs use of the static_assert on Capacity.
LEMMA CapacityNat == Capacity \in Nat \ {0}
  BY CapacityAssumption, Zenon

-----------------------------------------------------------------------------
(* Arithmetic of ring positions *)

\* Euclidean division, used for pos & MASK.
LEMMA DivMod ==
    ASSUME NEW c \in Nat \ {0}, NEW n \in Nat
    PROVE  /\ n \div c \in Nat
           /\ (n % c) \in 0 .. c - 1
           /\ n = c * (n \div c) + (n % c)
  OBVIOUS

\* Two different multiples of c are at least c apart.
LEMMA MultGap ==
    ASSUME NEW c \in Nat \ {0}, NEW j \in Int, NEW k \in Int, j < k
    PROVE  c * k >= c * j + c
<1>1. PICK d \in Nat : k = j + 1 + d
  <2>1. k - j - 1 \in Nat
    OBVIOUS
  <2> QED
    BY <2>1
<1>2. c * k = c * j + c + c * d
  BY <1>1
<1>3. c * d >= 0
  OBVIOUS
<1> QED
  BY <1>2, <1>3

\* Within one lap of the ring, different positions use different slots.
LEMMA SlotInjective ==
    ASSUME NEW r \in Nat, NEW m \in r .. r + Capacity - 1,
           NEW n \in r .. r + Capacity - 1, Slot(m) = Slot(n)
    PROVE  m = n
<1> DEFINE c == Capacity
<1>0. c \in Nat \ {0} /\ m \in Nat /\ n \in Nat /\ m % c = n % c
  BY CapacityNat DEF Slot
<1> HIDE DEF c
<1>1. /\ m \div c \in Nat /\ n \div c \in Nat
      /\ m = c * (m \div c) + (m % c)
      /\ n = c * (n \div c) + (n % c)
  BY <1>0, DivMod, Zenon
<1>2. m \in r .. r + c - 1 /\ n \in r .. r + c - 1
  BY Zenon DEF c
<1>3. CASE m \div c = n \div c
  BY <1>0, <1>1, <1>3, Zenon
<1>4. CASE m \div c < n \div c
  <2>1. c * (n \div c) >= c * (m \div c) + c
    BY <1>0, <1>1, <1>4, MultGap
  <2> QED
    BY <1>0, <1>1, <1>2, <2>1
<1>5. CASE n \div c < m \div c
  <2>1. c * (m \div c) >= c * (n \div c) + c
    BY <1>0, <1>1, <1>5, MultGap
  <2> QED
    BY <1>0, <1>1, <1>2, <2>1
<1> QED
  BY <1>1, <1>3, <1>4, <1>5

\* One lap later the same slot is used again.
LEMMA SlotPeriodic ==
    ASSUME NEW n \in Nat
    PROVE  Slot(n + Capacity) = Slot(n)
<1> DEFINE c == Capacity
<1>0. c \in Nat \ {0}
  BY CapacityNat, Zenon
<1> HIDE DEF c
<1>1. PICK k \in Nat, r \in 0 .. c - 1 : n = c * k + r
  BY <1>0, DivMod, Zenon
<1>2. n + c = c * (k + 1) + r
  BY <1>0, <1>1
<1>3. (c * (k + 1) + r) % c = r
  BY <1>0
<1>4. (c * k + r) % c = r
  BY <1>0
<1> QED
  BY <1>1, <1>2, <1>3, <1>4, Zenon DEF Slot, c

\* Every position has a slot.
LEMMA SlotType ==
    ASSUME NEW n \in Nat
    PROVE  Slot(n) \in Slots
  BY CapacityNat DEF Slot, Slots

-----------------------------------------------------------------------------
(* The inductive invariant *)

\* A drain that is handling an item was allowed to take it.
RoomLeft == cpc \in {"take", "release", "advance"} => room > 0

Types == TypeOK /\ RoomLeft

Bounds ==
    /\ Released <= enqueue_pos
    /\ enqueue_pos <= Released + Capacity
    /\ Len(claimed) = enqueue_pos
    /\ Len(output) = IF cpc = "release" THEN dequeue_pos + 1 ELSE Released

\* The slots of the unclaimed positions of the window are free.
FreeSlots == \A n \in enqueue_pos .. Released + Capacity - 1 : sequence[Slot(n)] = n

\* The slots of the claimed positions are unpublished, or hold their unit.
HeldSlots ==
    \A n \in Released .. enqueue_pos - 1 :
        \/ sequence[Slot(n)] = n
        \/ sequence[Slot(n)] = n + 1 /\ item[Slot(n)] = claimed[n + 1].unit

\* A producer past its CAS owns an unpublished position of the window.
Writers ==
    \A p \in Producers : Writing(p) =>
        /\ pos[p] \in Released .. enqueue_pos - 1
        /\ sequence[Slot(pos[p])] = pos[p]
        /\ claimed[pos[p] + 1] = [unit |-> arg[p], by |-> p]
        /\ pc[p] = "publish" => item[Slot(pos[p])] = arg[p]

\* A producer before its CAS has a position that is not ahead of m_enqueue_pos
\* and, once past the check or overtaken by the consumer, a slot that has caught
\* up with it.
Claimers ==
    \A p \in Producers :
        /\ pc[p] \in {"check", "cas"} => pos[p] <= enqueue_pos
        /\ pc[p] = "cas" \/ (pc[p] = "check" /\ pos[p] < Released)
             => sequence[Slot(pos[p])] >= pos[p]

\* The consumer is on a published slot.
Reader ==
    Reading => dequeue_pos < enqueue_pos /\ sequence[Slot(dequeue_pos)] = dequeue_pos + 1

Order == \A i \in 1 .. Len(output) : output[i] = claimed[i].unit

QueueInv == Types /\ Bounds /\ FreeSlots /\ HeldSlots /\ Writers /\ Claimers /\ Reader /\ Order

-----------------------------------------------------------------------------
(* Type correctness *)

\* The constructor gives every variable its type.
LEMMA TypesInit == Init => Types
  BY CapacityNat DEF Init, Types, TypeOK, RoomLeft, Slots

\* Every step of try_enqueue and drain keeps the types.
LEMMA TypesNext == Types /\ [Next]_vars => Types'
<1> SUFFICES ASSUME Types, [Next]_vars PROVE Types'
  BY Zenon
<1> USE CapacityNat DEF Types, TypeOK, RoomLeft, prodVars, consVars
<1>1. ASSUME NEW p \in Producers, NEW u \in Units, TryEnqueueCall(p, u) PROVE Types'
  BY <1>1, Zenon DEF TryEnqueueCall
<1>2. ASSUME NEW p \in Producers, TryEnqueueFull(p) PROVE Types'
  BY <1>2, Zenon DEF TryEnqueueFull
<1>3. ASSUME NEW p \in Producers, TryEnqueueCheck(p) PROVE Types'
  BY <1>3, Zenon DEF TryEnqueueCheck
<1>4. ASSUME NEW p \in Producers, TryEnqueueClaim(p) PROVE Types'
  BY <1>4 DEF TryEnqueueClaim
<1>5. ASSUME NEW p \in Producers, TryEnqueueRetry(p) PROVE Types'
  BY <1>5, Zenon DEF TryEnqueueRetry
<1>6. ASSUME NEW p \in Producers, TryEnqueueWrite(p) PROVE Types'
  BY <1>6, Zenon DEF TryEnqueueWrite
<1>7. ASSUME NEW p \in Producers, TryEnqueuePublish(p) PROVE Types'
  <2>1. sequence' \in [Slots -> Nat]
    <3>1. sequence' = [sequence EXCEPT ![Slot(pos[p])] = pos[p] + 1]
      BY <1>7, Zenon DEF TryEnqueuePublish
    <3>2. pos[p] + 1 \in Nat /\ sequence \in [Slots -> Nat]
      OBVIOUS
    <3> QED
      BY ONLY <3>1, <3>2, Zenon
  <2> QED
    BY <1>7, <2>1, Zenon DEF TryEnqueuePublish
<1>8. ASSUME NEW max_count \in {1, Capacity}, DrainCall(max_count) PROVE Types'
  BY <1>8 DEF DrainCall
<1>9. CASE DrainCheck
  BY <1>9, Zenon DEF DrainCheck
<1>10. CASE DrainTake
  <2>1. item[Slot(dequeue_pos)] \in Units \cup {NoUnit}
    BY SlotType, Zenon
  <2>2. output' \in Seq(Units \cup {NoUnit})
    BY <1>10, <2>1 DEF DrainTake
  <2> QED
    BY <1>10, <2>2, Zenon DEF DrainTake
<1>11. CASE DrainRelease
  <2>1. sequence' \in [Slots -> Nat]
    BY <1>11, SlotType DEF DrainRelease
  <2> QED
    BY <1>11, <2>1, Zenon DEF DrainRelease
<1>12. CASE DrainAdvance
  BY <1>12 DEF DrainAdvance
<1>13. CASE UNCHANGED vars
  BY <1>13, Zenon DEF vars
<1> QED
  BY <1>1, <1>2, <1>3, <1>4, <1>5, <1>6, <1>7, <1>8, <1>9, <1>10, <1>11, <1>12, <1>13, Zenon
     DEF Next, TryEnqueue, Drain

\* Every reachable state of the queue is well typed.
THEOREM TypeCorrect == Spec => []TypeOK
<1>1. Types => TypeOK
  BY Zenon DEF Types
<1> QED
  BY <1>1, TypesInit, TypesNext, PTL DEF Spec

-----------------------------------------------------------------------------
(* Slot ownership and order *)

Rest == Bounds /\ FreeSlots /\ HeldSlots /\ Writers /\ Claimers /\ Reader /\ Order

\* The constructor establishes the invariant: slot i waits for position i.
LEMMA QueueInvInit == Init => QueueInv
<1> SUFFICES ASSUME Init PROVE Rest
  BY TypesInit, Zenon DEF QueueInv, Rest
<1> USE CapacityNat DEF Init, Released
<1>1. \A n \in 0 .. Capacity - 1 : Slot(n) = n
  BY DEF Slot
<1>2. FreeSlots
  BY <1>1 DEF FreeSlots, Slots
<1>3. Bounds /\ HeldSlots /\ Order
  BY DEF Bounds, HeldSlots, Order
<1>4. Writers /\ Claimers /\ Reader
  BY Zenon DEF Writers, Claimers, Reader, Writing, Reading
<1> QED
  BY <1>2, <1>3, <1>4, Zenon DEF Rest

\* Steps of try_enqueue that change only the producer's own variables.
LEMMA LocalStep ==
    ASSUME QueueInv, Types', NEW p \in Producers,
           UNCHANGED <<sequence, item, enqueue_pos, dequeue_pos, claimed, cpc, room, output>>,
           \A r \in Producers \ {p} : pc'[r] = pc[r] /\ pos'[r] = pos[r] /\ arg'[r] = arg[r],
           pc'[p] \in {"idle", "check", "cas"},
           pc'[p] = "check" => pos'[p] = enqueue_pos,
           pc'[p] = "cas" => pos'[p] <= enqueue_pos,
           pc'[p] = "cas" => sequence[Slot(pos'[p])] >= pos'[p]
    PROVE  Rest'
<1> USE DEF QueueInv, Released
<1>1. Bounds' /\ FreeSlots' /\ HeldSlots' /\ Order'
  BY Zenon DEF Bounds, FreeSlots, HeldSlots, Order
<1>2. Writers'
  BY Zenon DEF Writers, Writing
<1>3. Claimers'
  <2> SUFFICES ASSUME NEW r \in Producers
               PROVE  /\ pc'[r] \in {"check", "cas"} => pos'[r] <= enqueue_pos
                      /\ pc'[r] = "cas" \/ (pc'[r] = "check" /\ pos'[r] < Released)
                           => sequence[Slot(pos'[r])] >= pos'[r]
    BY Zenon DEF Claimers
  <2>1. CASE r = p
    BY <2>1 DEF Types, TypeOK, Bounds
  <2>2. CASE r # p
    BY <2>2, Zenon DEF Claimers
  <2> QED
    BY <2>1, <2>2, Zenon
<1>4. Reader'
  BY Zenon DEF Reader, Reading
<1> QED
  BY <1>1, <1>2, <1>3, <1>4, Zenon DEF Rest

\* The consumer has read no more than the producers have claimed.
LEMMA OutputWithinClaimed == QueueInv => Len(output) \in Nat /\ Len(output) <= Len(claimed)
  BY DEF QueueInv, Types, TypeOK, Bounds, Reader, Reading, Released

\* Two producers past their CAS never own the same position.
LEMMA WritersDiffer ==
    ASSUME QueueInv, NEW p \in Producers, NEW r \in Producers, p # r,
           Writing(p), Writing(r)
    PROVE  pos[p] # pos[r]
<1>1. claimed[pos[p] + 1].by = p
  <2>1. claimed[pos[p] + 1] = [unit |-> arg[p], by |-> p]
    BY Zenon DEF QueueInv, Writers
  <2> QED
    BY <2>1
<1>2. claimed[pos[r] + 1].by = r
  <2>1. claimed[pos[r] + 1] = [unit |-> arg[r], by |-> r]
    BY Zenon DEF QueueInv, Writers
  <2> QED
    BY <2>1
<1> QED
  BY <1>1, <1>2, Zenon

\* The claimed positions lie in the window.
LEMMA WindowBounds ==
    ASSUME QueueInv, NEW n \in Released .. enqueue_pos - 1
    PROVE  n \in Released .. Released + Capacity - 1
<1>1. Released \in Nat /\ enqueue_pos \in Nat /\ enqueue_pos <= Released + Capacity
  BY DEF QueueInv, Types, TypeOK, Released, Bounds
<1> QED
  BY ONLY <1>1, CapacityNat, n \in Released .. enqueue_pos - 1

\* Positions of the current window that share a slot are the same position.
LEMMA WindowInjective ==
    ASSUME QueueInv, NEW m \in Released .. Released + Capacity - 1,
           NEW n \in Released .. Released + Capacity - 1, m # n
    PROVE  Slot(m) # Slot(n)
<1>1. Released \in Nat
  BY DEF QueueInv, Types, TypeOK, Released
<1> QED
  BY <1>1, SlotInjective, Zenon

\* The successful compare-exchange: the producer now owns its position, whose slot
\* was free because the sequence number it saw cannot have moved since.
LEMMA ClaimStep ==
    ASSUME QueueInv, Types', Capacity # 1, NEW p \in Producers, TryEnqueueClaim(p)
    PROVE  Rest'
<1> USE CapacityNat DEF Types, TypeOK, consVars
<1>1. /\ enqueue_pos' = enqueue_pos + 1 /\ Released' = Released /\ Released \in Nat
      /\ UNCHANGED <<sequence, item, dequeue_pos, pos, arg, cpc, room, output>>
      /\ pc' = [pc EXCEPT ![p] = "write"]
      /\ pos[p] = enqueue_pos
      /\ sequence[Slot(enqueue_pos)] >= enqueue_pos
  BY DEF TryEnqueueClaim, Released, QueueInv, Claimers
<1>2. enqueue_pos < Released + Capacity
  <2> SUFFICES ASSUME enqueue_pos = Released + Capacity PROVE FALSE
    BY <1>1 DEF QueueInv, Bounds
  <2>1. Slot(enqueue_pos) = Slot(Released)
    BY <1>1, SlotPeriodic, Zenon
  <2>2. Released \in Released .. enqueue_pos - 1
    BY <1>1
  <2>3. sequence[Slot(Released)] \in {Released, Released + 1}
    BY <2>2, Zenon DEF QueueInv, HeldSlots
  <2>4. Capacity >= 2
    OBVIOUS
  <2> QED
    BY <1>1, <2>1, <2>3, <2>4
<1>3. sequence[Slot(enqueue_pos)] = enqueue_pos
  BY <1>1, <1>2 DEF QueueInv, FreeSlots
<1>4. /\ Len(claimed') = Len(claimed) + 1
      /\ \A i \in 1 .. Len(claimed) : claimed'[i] = claimed[i]
      /\ claimed'[enqueue_pos + 1] = [unit |-> arg[p], by |-> p]
  BY DEF TryEnqueueClaim, QueueInv, Bounds
<1>5. Bounds'
  BY <1>1, <1>2, <1>4 DEF QueueInv, Bounds
<1>6. FreeSlots'
  BY <1>1 DEF QueueInv, FreeSlots
<1>7. HeldSlots'
  BY <1>1, <1>3, <1>4 DEF QueueInv, HeldSlots, Bounds
<1>8. Writers'
  BY <1>1, <1>3, <1>4, SMTT(20) DEF QueueInv, Writers, Writing, Bounds
<1>9. Claimers'
  BY <1>1 DEF QueueInv, Claimers
<1>10. Reader'
  BY <1>1 DEF QueueInv, Reader, Reading
<1>11. Order'
  BY <1>1, <1>4, OutputWithinClaimed, SMTT(20) DEF QueueInv, Order, Bounds
<1> QED
  BY <1>5, <1>6, <1>7, <1>8, <1>9, <1>10, <1>11, Zenon DEF Rest

\* Storing Slot::item: only the owner of the position touches the slot.
LEMMA WriteStep ==
    ASSUME QueueInv, Types', NEW p \in Producers, TryEnqueueWrite(p)
    PROVE  Rest'
<1> USE CapacityNat DEF Types, TypeOK, consVars
<1>1. /\ Released' = Released /\ Released \in Nat
      /\ UNCHANGED <<sequence, enqueue_pos, dequeue_pos, pos, arg, cpc, room, claimed, output>>
      /\ pc' = [pc EXCEPT ![p] = "publish"]
      /\ item' = [item EXCEPT ![Slot(pos[p])] = arg[p]]
      /\ pos[p] \in Released .. enqueue_pos - 1
      /\ sequence[Slot(pos[p])] = pos[p]
      /\ Writing(p)
  <2>1. Writing(p)
    BY Zenon DEF TryEnqueueWrite, Writing
  <2>2. pos[p] \in Released .. enqueue_pos - 1 /\ sequence[Slot(pos[p])] = pos[p]
    BY <2>1, Zenon DEF QueueInv, Writers
  <2>3. Released' = Released /\ Released \in Nat
    BY DEF TryEnqueueWrite, Released, QueueInv
  <2> QED
    BY <2>1, <2>2, <2>3, Zenon DEF TryEnqueueWrite
<1>2. ASSUME NEW n \in Released .. enqueue_pos - 1, n # pos[p]
      PROVE  item'[Slot(n)] = item[Slot(n)]
  <2>1. Slot(n) # Slot(pos[p])
    <3>1. pos[p] \in Released .. Released + Capacity - 1
      BY <1>1, WindowBounds, Zenon
    <3>2. n \in Released .. Released + Capacity - 1
      BY <1>2, WindowBounds, Zenon
    <3> QED
      BY <1>2, <3>1, <3>2, WindowInjective, Zenon
  <2>2. Slot(n) \in Slots
    BY <1>1, SlotType
  <2> QED
    BY <1>1, <2>1, <2>2, Zenon
<1>3. Bounds' /\ FreeSlots' /\ Order'
  BY <1>1, Zenon DEF QueueInv, Bounds, FreeSlots, Order
<1>4. HeldSlots'
  <2> SUFFICES ASSUME NEW n \in Released .. enqueue_pos - 1
               PROVE  \/ sequence[Slot(n)] = n
                      \/ sequence[Slot(n)] = n + 1 /\ item'[Slot(n)] = claimed[n + 1].unit
    BY <1>1, Zenon DEF HeldSlots
  <2>1. CASE n = pos[p]
    BY <1>1, <2>1, Zenon
  <2>2. CASE n # pos[p]
    BY <1>2, <2>2, Zenon DEF QueueInv, HeldSlots
  <2> QED
    BY <2>1, <2>2, Zenon
<1>5. Writers'
  <2> SUFFICES ASSUME NEW r \in Producers, Writing(r)'
               PROVE  /\ pos[r] \in Released .. enqueue_pos - 1
                      /\ sequence[Slot(pos[r])] = pos[r]
                      /\ claimed[pos[r] + 1] = [unit |-> arg[r], by |-> r]
                      /\ pc'[r] = "publish" => item'[Slot(pos[r])] = arg[r]
    BY <1>1 DEF Writers
  <2>1. CASE r = p
    BY <1>1, <2>1 DEF QueueInv, Writers, Writing, TryEnqueueWrite
  <2>2. CASE r # p
    <3>1. Writing(r) /\ pc'[r] = pc[r]
      BY <1>1, <2>2, Zenon DEF Writing
    <3>2. pos[r] # pos[p]
      BY <1>1, <2>2, <3>1, WritersDiffer, Zenon
    <3> QED
      BY <1>2, <3>1, <3>2, Zenon DEF QueueInv, Writers
  <2> QED
    BY <2>1, <2>2, Zenon
<1>6. Claimers'
  BY <1>1, Zenon DEF QueueInv, Claimers
<1>7. Reader'
  BY <1>1, Zenon DEF QueueInv, Reader, Reading
<1> QED
  BY <1>3, <1>4, <1>5, <1>6, <1>7, Zenon DEF Rest

\* The publishing store of try_enqueue raises the sequence number of its own slot
\* and leaves the other slots of the window alone.
LEMMA PublishStep ==
    ASSUME QueueInv, Types', NEW p \in Producers, TryEnqueuePublish(p)
    PROVE  Rest'
<1> USE CapacityNat DEF Types, TypeOK, consVars
<1>1. /\ Released' = Released /\ Released \in Nat
      /\ UNCHANGED <<item, enqueue_pos, dequeue_pos, pos, arg, cpc, room, claimed, output>>
      /\ pc' = [pc EXCEPT ![p] = "idle"]
      /\ sequence' = [sequence EXCEPT ![Slot(pos[p])] = pos[p] + 1]
      /\ pos[p] \in Released .. enqueue_pos - 1
      /\ sequence[Slot(pos[p])] = pos[p]
      /\ Slot(pos[p]) \in Slots
      /\ item[Slot(pos[p])] = claimed[pos[p] + 1].unit
      /\ Writing(p)
  <2>1. Writing(p)
    BY Zenon DEF TryEnqueuePublish, Writing
  <2>2. pos[p] \in Released .. enqueue_pos - 1 /\ sequence[Slot(pos[p])] = pos[p]
    BY <2>1, Zenon DEF QueueInv, Writers
  <2>3. Released' = Released /\ Released \in Nat
    BY DEF TryEnqueuePublish, Released, QueueInv
  <2>4. claimed[pos[p] + 1] = [unit |-> arg[p], by |-> p] /\ item[Slot(pos[p])] = arg[p]
    BY <2>1, Zenon DEF QueueInv, Writers, TryEnqueuePublish
  <2> QED
    BY <2>1, <2>2, <2>3, <2>4, SlotType DEF TryEnqueuePublish
<1>2. ASSUME NEW n \in Released .. Released + Capacity - 1, n # pos[p]
      PROVE  sequence'[Slot(n)] = sequence[Slot(n)]
  <2>1. Slot(n) # Slot(pos[p])
    <3>1. pos[p] \in Released .. Released + Capacity - 1
      BY <1>1, WindowBounds, Zenon
    <3> QED
      BY <1>2, <3>1, WindowInjective, Zenon
  <2>2. Slot(n) \in Slots
    BY <1>1, SlotType
  <2> QED
    BY <1>1, <2>1, <2>2, Zenon DEF QueueInv
<1>3. sequence'[Slot(pos[p])] = pos[p] + 1
  BY <1>1, Zenon DEF QueueInv
<1>4. Bounds' /\ Order'
  BY <1>1, Zenon DEF QueueInv, Bounds, Order
<1>5. FreeSlots'
  BY <1>1, <1>2 DEF QueueInv, FreeSlots, Bounds
<1>6. HeldSlots'
  <2> SUFFICES ASSUME NEW n \in Released .. enqueue_pos - 1
               PROVE  \/ sequence'[Slot(n)] = n
                      \/ sequence'[Slot(n)] = n + 1 /\ item[Slot(n)] = claimed[n + 1].unit
    BY <1>1, Zenon DEF HeldSlots
  <2>1. CASE n = pos[p]
    BY <1>1, <1>3, <2>1, Zenon
  <2>2. CASE n # pos[p]
    BY <1>1, <1>2, <2>2 DEF QueueInv, HeldSlots, Bounds
  <2> QED
    BY <2>1, <2>2, Zenon
<1>7. Writers'
  <2> SUFFICES ASSUME NEW r \in Producers, Writing(r)'
               PROVE  /\ pos[r] \in Released .. enqueue_pos - 1
                      /\ sequence'[Slot(pos[r])] = pos[r]
                      /\ claimed[pos[r] + 1] = [unit |-> arg[r], by |-> r]
                      /\ pc'[r] = "publish" => item[Slot(pos[r])] = arg[r]
    BY <1>1, Zenon DEF Writers
  <2>1. r # p /\ Writing(r) /\ pc'[r] = pc[r]
    BY <1>1, Zenon DEF Writing, QueueInv
  <2>2. pos[r] # pos[p]
    BY <1>1, <2>1, WritersDiffer, Zenon
  <2>3. /\ pos[r] \in Released .. enqueue_pos - 1
        /\ sequence[Slot(pos[r])] = pos[r]
        /\ claimed[pos[r] + 1] = [unit |-> arg[r], by |-> r]
        /\ pc'[r] = "publish" => item[Slot(pos[r])] = arg[r]
    BY <2>1, Zenon DEF QueueInv, Writers
  <2>4. pos[r] \in Released .. Released + Capacity - 1
    BY <2>3, WindowBounds, Zenon
  <2> QED
    BY <1>2, <2>2, <2>3, <2>4, Zenon
<1>8. Claimers'
  <2> SUFFICES ASSUME NEW r \in Producers
               PROVE  /\ pc'[r] \in {"check", "cas"} => pos[r] <= enqueue_pos
                      /\ pc'[r] = "cas" \/ (pc'[r] = "check" /\ pos[r] < Released)
                           => sequence'[Slot(pos[r])] >= pos[r]
    BY <1>1, Zenon DEF Claimers
  <2>1. CASE r = p
    BY <1>1, <2>1, Zenon DEF QueueInv
  <2>2. CASE r # p
    <3>1. pc'[r] = pc[r] /\ Slot(pos[r]) \in Slots
      BY <1>1, <2>2, SlotType, Zenon DEF QueueInv
    <3>2. sequence'[Slot(pos[r])] >= sequence[Slot(pos[r])]
      BY <1>1, <3>1 DEF QueueInv
    <3> QED
      BY <1>1, <3>1, <3>2 DEF QueueInv, Claimers
  <2> QED
    BY <2>1, <2>2, Zenon
<1>9. Reader'
  <2> SUFFICES ASSUME Reading
               PROVE  dequeue_pos < enqueue_pos
                      /\ sequence'[Slot(dequeue_pos)] = dequeue_pos + 1
    BY <1>1, Zenon DEF Reader, Reading
  <2>1. dequeue_pos = Released /\ dequeue_pos < enqueue_pos
        /\ sequence[Slot(dequeue_pos)] = dequeue_pos + 1
    BY Zenon DEF QueueInv, Reader, Reading, Released
  <2>2. dequeue_pos \in Released .. Released + Capacity - 1 /\ dequeue_pos # pos[p]
    BY <1>1, <2>1 DEF QueueInv
  <2>3. sequence'[Slot(dequeue_pos)] = sequence[Slot(dequeue_pos)]
    BY <1>2, <2>2, Zenon
  <2> QED
    BY <2>1, <2>3, Zenon
<1> QED
  BY <1>4, <1>5, <1>6, <1>7, <1>8, <1>9, Zenon DEF Rest

\* Steps of drain that only move the consumer between call, check and return.
LEMMA ConsumerStep ==
    ASSUME QueueInv, Types', (\E max_count \in {1, Capacity} : DrainCall(max_count)) \/ DrainCheck
    PROVE  Rest'
<1> USE CapacityNat DEF Types, TypeOK, prodVars
<1>1. /\ UNCHANGED <<sequence, item, enqueue_pos, dequeue_pos, claimed, output, pc, pos, arg>>
      /\ cpc \in {"idle", "check"} /\ cpc' \in {"idle", "check", "take"}
      /\ cpc' = "take" => sequence[Slot(dequeue_pos)] = dequeue_pos + 1
  BY Zenon DEF DrainCall, DrainCheck
<1>2. Released' = Released /\ Released = dequeue_pos
  BY <1>1, Zenon DEF Released
<1>3. Bounds' /\ FreeSlots' /\ HeldSlots' /\ Order'
  BY <1>1, <1>2, Zenon DEF QueueInv, Bounds, FreeSlots, HeldSlots, Order
<1>4. Writers' /\ Claimers'
  BY <1>1, <1>2, Zenon DEF QueueInv, Writers, Claimers, Writing
<1>5. Reader'
  <2> SUFFICES ASSUME cpc' = "take" PROVE dequeue_pos < enqueue_pos
    BY <1>1, Zenon DEF Reader, Reading
  <2> SUFFICES ASSUME dequeue_pos = enqueue_pos PROVE FALSE
    BY <1>2 DEF QueueInv, Bounds
  <2>1. dequeue_pos \in enqueue_pos .. Released + Capacity - 1
    BY <1>2 DEF QueueInv
  <2>2. sequence[Slot(dequeue_pos)] = dequeue_pos
    BY <2>1, Zenon DEF QueueInv, FreeSlots
  <2> QED
    BY <1>1, <2>2 DEF QueueInv
<1> QED
  BY <1>3, <1>4, <1>5, Zenon DEF Rest

\* drain reads the item of the oldest position, which is published.
LEMMA TakeStep ==
    ASSUME QueueInv, Types', DrainTake
    PROVE  Rest'
<1> USE CapacityNat DEF Types, TypeOK, prodVars
<1>1. /\ UNCHANGED <<sequence, item, enqueue_pos, dequeue_pos, claimed, pc, pos, arg>>
      /\ cpc = "take" /\ cpc' = "release"
      /\ dequeue_pos < enqueue_pos /\ sequence[Slot(dequeue_pos)] = dequeue_pos + 1
      /\ Released' = Released /\ Released = dequeue_pos
  BY Zenon DEF DrainTake, QueueInv, Reader, Reading, Released
<1>2. item[Slot(dequeue_pos)] = claimed[dequeue_pos + 1].unit
  BY <1>1 DEF QueueInv, HeldSlots
<1>3. /\ Len(output) = dequeue_pos /\ Len(output') = dequeue_pos + 1
      /\ \A i \in 1 .. Len(output) : output'[i] = output[i]
      /\ output'[dequeue_pos + 1] = claimed[dequeue_pos + 1].unit
  <2>1. output' = Append(output, item[Slot(dequeue_pos)])
    BY Zenon DEF DrainTake
  <2>2. Len(output) = dequeue_pos
    BY <1>1, Zenon DEF QueueInv, Bounds
  <2>3. item[Slot(dequeue_pos)] \in Units \cup {NoUnit} /\ output \in Seq(Units \cup {NoUnit})
    BY SlotType, Zenon DEF QueueInv
  <2> QED
    BY <1>2, <2>1, <2>2, <2>3, AppendProperties DEF QueueInv
<1>4. Bounds'
  BY <1>1, <1>3, Zenon DEF QueueInv, Bounds
<1>5. FreeSlots' /\ HeldSlots'
  BY <1>1, Zenon DEF QueueInv, FreeSlots, HeldSlots
<1>6. Writers' /\ Claimers' /\ Reader'
  BY <1>1, Zenon DEF QueueInv, Writers, Claimers, Reader, Reading, Writing
<1>7. Order'
  <2>1. \A i \in 1 .. dequeue_pos : output'[i] = claimed'[i].unit
    BY <1>1, <1>3, Zenon DEF QueueInv, Order
  <2>2. \A i \in 1 .. dequeue_pos + 1 : i \in 1 .. dequeue_pos \/ i = dequeue_pos + 1
    BY DEF QueueInv
  <2>3. output'[dequeue_pos + 1] = claimed'[dequeue_pos + 1].unit /\ Len(output') = dequeue_pos + 1
    BY <1>1, <1>3, Zenon
  <2> QED
    BY ONLY <2>1, <2>2, <2>3, Zenon DEF Order
<1> QED
  BY <1>4, <1>5, <1>6, <1>7, Zenon DEF Rest

\* The consumer gives the slot of position Released to position Released + Capacity.
LEMMA ReleaseStep ==
    ASSUME QueueInv, Types', DrainRelease
    PROVE  Rest'
<1> USE CapacityNat DEF Types, TypeOK, prodVars
<1>1. /\ UNCHANGED <<item, enqueue_pos, dequeue_pos, claimed, output, pc, pos, arg>>
      /\ cpc = "release" /\ cpc' = "advance"
      /\ dequeue_pos < enqueue_pos /\ sequence[Slot(dequeue_pos)] = dequeue_pos + 1
      /\ Released = dequeue_pos /\ Released' = dequeue_pos + 1
      /\ sequence' = [sequence EXCEPT ![Slot(dequeue_pos)] = dequeue_pos + Capacity]
      /\ Slot(dequeue_pos) \in Slots
  BY SlotType, Zenon DEF DrainRelease, QueueInv, Reader, Reading, Released
<1>2. ASSUME NEW n \in dequeue_pos + 1 .. dequeue_pos + Capacity - 1
      PROVE  sequence'[Slot(n)] = sequence[Slot(n)]
  <2>1. Slot(n) # Slot(dequeue_pos)
    BY <1>1, WindowInjective DEF QueueInv
  <2>2. Slot(n) \in Slots
    BY SlotType DEF QueueInv
  <2> QED
    BY <1>1, <2>1, <2>2, Zenon DEF QueueInv
<1>3. sequence'[Slot(dequeue_pos + Capacity)] = dequeue_pos + Capacity
  BY <1>1, SlotPeriodic, Zenon DEF QueueInv
<1>4. Bounds' /\ Order'
  BY <1>1 DEF QueueInv, Bounds, Order
<1>5. FreeSlots'
  <2> SUFFICES ASSUME NEW n \in enqueue_pos .. dequeue_pos + Capacity
               PROVE  sequence'[Slot(n)] = n
    BY <1>1 DEF FreeSlots, QueueInv
  <2>1. CASE n = dequeue_pos + Capacity
    BY <1>3, <2>1, Zenon
  <2>2. CASE n # dequeue_pos + Capacity
    BY <1>1, <1>2, <2>2 DEF QueueInv, FreeSlots
  <2> QED
    BY <2>1, <2>2, Zenon
<1>6. HeldSlots'
  BY <1>1, <1>2 DEF QueueInv, HeldSlots, Bounds
<1>7. Writers'
  <2> SUFFICES ASSUME NEW r \in Producers, Writing(r)
               PROVE  pos[r] \in dequeue_pos + 1 .. enqueue_pos - 1
                      /\ sequence'[Slot(pos[r])] = pos[r]
    BY <1>1, Zenon DEF Writers, Writing, QueueInv
  <2>1. pos[r] \in dequeue_pos .. enqueue_pos - 1 /\ sequence[Slot(pos[r])] = pos[r]
    BY <1>1, Zenon DEF QueueInv, Writers
  <2>2. pos[r] # dequeue_pos
    BY <1>1, <2>1 DEF QueueInv
  <2> QED
    BY <1>1, <1>2, <2>1, <2>2 DEF QueueInv, Bounds
<1>8. Claimers'
  <2> SUFFICES ASSUME NEW r \in Producers,
                      pc[r] = "cas" \/ (pc[r] = "check" /\ pos[r] < dequeue_pos + 1)
               PROVE  sequence'[Slot(pos[r])] >= pos[r]
    BY <1>1, Zenon DEF Claimers, QueueInv
  <2>1. Slot(pos[r]) \in Slots
    BY SlotType, Zenon DEF QueueInv
  <2>2. sequence'[Slot(pos[r])] >= sequence[Slot(pos[r])]
    BY <1>1, <2>1 DEF QueueInv
  <2>3. CASE pos[r] = dequeue_pos
    BY <1>1, <2>3 DEF QueueInv
  <2>4. CASE pos[r] # dequeue_pos
    BY <1>1, <2>1, <2>2, <2>4, SMTT(20) DEF QueueInv, Claimers
  <2> QED
    BY <2>3, <2>4, Zenon
<1>9. Reader'
  BY <1>1, Zenon DEF Reader, Reading
<1> QED
  BY <1>4, <1>5, <1>6, <1>7, <1>8, <1>9, Zenon DEF Rest

\* drain moves m_dequeue_pos past a slot it has already given back.
LEMMA AdvanceStep ==
    ASSUME QueueInv, Types', DrainAdvance
    PROVE  Rest'
<1> USE DEF Types, TypeOK, prodVars
<1>1. /\ UNCHANGED <<sequence, item, enqueue_pos, claimed, output, pc, pos, arg>>
      /\ cpc = "advance" /\ cpc' = "check" /\ Released' = Released
      /\ dequeue_pos' = dequeue_pos + 1
  BY Zenon DEF DrainAdvance, Released
<1>2. Bounds' /\ FreeSlots' /\ HeldSlots' /\ Order'
  BY <1>1, Zenon DEF QueueInv, Bounds, FreeSlots, HeldSlots, Order
<1>3. Writers' /\ Claimers' /\ Reader'
  BY <1>1, Zenon DEF QueueInv, Writers, Claimers, Reader, Reading, Writing
<1> QED
  BY <1>2, <1>3, Zenon DEF Rest

\* Every step of try_enqueue and drain keeps the invariant, unless Capacity is 1.
LEMMA QueueInvNext ==
    ASSUME Capacity # 1, QueueInv, [Next]_vars
    PROVE  QueueInv'
<1>1. Types'
  BY TypesNext, Zenon DEF QueueInv
<1> SUFFICES Rest'
  BY <1>1, Zenon DEF QueueInv, Rest
<1>2. ASSUME NEW p \in Producers, NEW u \in Units, TryEnqueueCall(p, u) PROVE Rest'
  BY <1>1, <1>2, LocalStep, Zenon DEF TryEnqueueCall, consVars, QueueInv, Types, TypeOK
<1>3. ASSUME NEW p \in Producers, TryEnqueueFull(p) PROVE Rest'
  BY <1>1, <1>3, LocalStep, Zenon DEF TryEnqueueFull, consVars, QueueInv, Types, TypeOK
<1>4. ASSUME NEW p \in Producers, TryEnqueueCheck(p) PROVE Rest'
  <2>1. /\ UNCHANGED <<sequence, item, enqueue_pos, dequeue_pos, claimed, cpc, room, output>>
        /\ \A r \in Producers \ {p} : pc'[r] = pc[r] /\ pos'[r] = pos[r] /\ arg'[r] = arg[r]
        /\ pc[p] = "check" /\ pc'[p] \in {"idle", "check", "cas"}
        /\ pc'[p] = "check" => pos'[p] = enqueue_pos
        /\ pc'[p] = "cas" => pos'[p] = pos[p] /\ sequence[Slot(pos[p])] >= pos[p]
    BY <1>4, Zenon DEF TryEnqueueCheck, consVars, QueueInv, Types, TypeOK
  <2>2. pos[p] <= enqueue_pos
    BY <2>1, Zenon DEF QueueInv, Claimers
  <2> QED
    BY <1>1, <2>1, <2>2, LocalStep, Zenon
<1>5. ASSUME NEW p \in Producers, TryEnqueueRetry(p) PROVE Rest'
  BY <1>1, <1>5, LocalStep, Zenon DEF TryEnqueueRetry, consVars, QueueInv, Types, TypeOK
<1>6. CASE UNCHANGED vars
  <2> USE <1>6 DEF vars, QueueInv, Released
  <2>1. Bounds' /\ Order'
    BY Zenon DEF Bounds, Order
  <2>2. FreeSlots' /\ HeldSlots'
    BY Zenon DEF FreeSlots, HeldSlots
  <2>3. Writers'
    BY Zenon DEF Writers, Writing
  <2>4. Claimers' /\ Reader'
    BY Zenon DEF Claimers, Reader, Reading
  <2> QED
    BY <2>1, <2>2, <2>3, <2>4, Zenon DEF Rest
<1> QED
  BY <1>1, <1>2, <1>3, <1>4, <1>5, <1>6, ClaimStep, WriteStep, PublishStep, ConsumerStep,
     TakeStep, ReleaseStep, AdvanceStep, Zenon DEF Next, TryEnqueue, Drain

\* The invariant holds in every reachable state, unless Capacity is 1.
LEMMA QueueInvariant == ASSUME Capacity # 1 PROVE Spec => []QueueInv
  BY QueueInvInit, QueueInvNext, PTL DEF Spec

-----------------------------------------------------------------------------
(* The theorems *)

\* For every capacity of at least two (the class is instantiated with 8192) the
\* plain field Slot::item is never touched by two threads at once.
THEOREM SlotsAreExclusive == ASSUME Capacity # 1 PROVE Spec => []SlotExclusive
<1>1. QueueInv => SlotExclusive
  <2> SUFFICES ASSUME QueueInv, NEW p \in Producers, Writing(p)
               PROVE  /\ Reading => Slot(pos[p]) # Slot(dequeue_pos)
                      /\ \A r \in Producers \ {p} : Writing(r) => Slot(pos[p]) # Slot(pos[r])
    BY Zenon DEF SlotExclusive
  <2> USE CapacityNat DEF QueueInv, Types, TypeOK
  <2>0. \A r \in Producers : Writing(r) =>
           pos[r] \in Released .. Released + Capacity - 1 /\ sequence[Slot(pos[r])] = pos[r]
    <3>1. Released \in Nat /\ enqueue_pos <= Released + Capacity
      BY DEF Bounds, Released
    <3>2. ASSUME NEW r \in Producers, Writing(r)
          PROVE  pos[r] \in Released .. enqueue_pos - 1 /\ sequence[Slot(pos[r])] = pos[r]
      BY <3>2, Zenon DEF Writers
    <3> QED
      BY <3>1, <3>2
  <2>1. pos[p] \in Released .. Released + Capacity - 1 /\ sequence[Slot(pos[p])] = pos[p]
    BY <2>0, Zenon
  <2>2. ASSUME Reading PROVE Slot(pos[p]) # Slot(dequeue_pos)
    <3>1. dequeue_pos \in Released .. Released + Capacity - 1
          /\ sequence[Slot(dequeue_pos)] = dequeue_pos + 1
      BY <2>2 DEF Reader, Reading, Released
    <3>2. pos[p] # dequeue_pos
      BY <2>1, <3>1
    <3> QED
      BY <2>1, <3>1, <3>2, WindowInjective, Zenon
  <2>3. ASSUME NEW r \in Producers \ {p}, Writing(r) PROVE Slot(pos[p]) # Slot(pos[r])
    <3>1. pos[r] \in Released .. Released + Capacity - 1
      BY <2>0, <2>3, Zenon
    <3>2. pos[p] # pos[r]
      BY <2>3, WritersDiffer, Zenon
    <3> QED
      BY <2>1, <3>1, <3>2, WindowInjective, Zenon
  <2> QED
    BY <2>2, <2>3, Zenon
<1> QED
  BY <1>1, QueueInvariant, PTL

\* For every capacity of at least two, what drain hands to the worker is what
\* try_enqueue accepted, in the order of the successful compare-exchanges.
THEOREM QueueIsFifo == ASSUME Capacity # 1 PROVE Spec => []Fifo
<1>1. QueueInv => Fifo
  <2> SUFFICES ASSUME QueueInv PROVE Fifo
    BY Zenon
  <2>1. DOMAIN output = 1 .. Len(output)
    BY LenProperties, Zenon DEF QueueInv, Types, TypeOK
  <2> QED
    BY <2>1, OutputWithinClaimed, Zenon DEF QueueInv, Order, Fifo
<1> QED
  BY <1>1, QueueInvariant, PTL

\* For every capacity of at least two, a failed try_enqueue saw a full queue.
THEOREM FailureMeansFull == ASSUME Capacity # 1 PROVE Spec => FalseOnlyIfFull
<1>1. QueueInv /\ [Next]_vars =>
        [\A p \in Producers :
           pc[p] = "check" /\ pc'[p] = "idle" => enqueue_pos - Released = Capacity]_vars
  <2> SUFFICES ASSUME QueueInv, Next, NEW p \in Producers, pc[p] = "check", pc'[p] = "idle"
               PROVE  enqueue_pos - Released = Capacity
    BY Zenon
  <2> USE CapacityNat DEF QueueInv, Types, TypeOK
  <2>1. sequence[Slot(pos[p])] < pos[p]
    <3>1. ~ Drain
      BY Zenon DEF Drain, DrainCall, DrainCheck, DrainTake, DrainRelease, DrainAdvance, prodVars
    <3>2. PICK r \in Producers : TryEnqueue(r)
      BY <3>1, Zenon DEF Next
    <3>3. /\ ~ \E u \in Units : TryEnqueueCall(r, u)
          /\ ~ TryEnqueueCheck(r) /\ ~ TryEnqueueClaim(r) /\ ~ TryEnqueueRetry(r)
          /\ ~ TryEnqueueWrite(r) /\ ~ TryEnqueuePublish(r)
      BY Zenon DEF TryEnqueueCall, TryEnqueueCheck, TryEnqueueClaim, TryEnqueueRetry,
             TryEnqueueWrite, TryEnqueuePublish
    <3>4. TryEnqueueFull(r)
      BY <3>2, <3>3, Zenon DEF TryEnqueue
    <3> QED
      BY <3>4, Zenon DEF TryEnqueueFull
  <2>2. Released \in Nat /\ pos[p] <= enqueue_pos /\ enqueue_pos <= Released + Capacity
        /\ Released <= enqueue_pos
    BY DEF Claimers, Bounds, Released
  <2>3. ~ pos[p] \in Released .. enqueue_pos - 1
    <3> SUFFICES ASSUME pos[p] \in Released .. enqueue_pos - 1 PROVE FALSE
      BY Zenon
    <3>1. sequence[Slot(pos[p])] \in {pos[p], pos[p] + 1}
      BY Zenon DEF HeldSlots
    <3> QED
      BY <2>1, <3>1
  <2>4. ~ pos[p] \in enqueue_pos .. Released + Capacity - 1
    BY <2>1, <2>2 DEF FreeSlots
  <2>5. ~ pos[p] < Released
    <3> SUFFICES ASSUME pos[p] < Released PROVE FALSE
      BY Zenon
    <3>1. sequence[Slot(pos[p])] >= pos[p]
      BY Zenon DEF Claimers
    <3> QED
      BY <2>1, <3>1, SlotType
  <2> QED
    BY <2>2, <2>3, <2>4, <2>5
<1> QED
  BY <1>1, QueueInvariant, PTL DEF Spec, FalseOnlyIfFull

-----------------------------------------------------------------------------
(* Refinement.  The ring implements GrayQueue, for every capacity of at least  *)
(* two: the compare-exchange is Claim, the publishing store is Publish, the    *)
(* store with which drain gives a slot back is Take; all other steps stutter.  *)

Entries == [unit : Units \cup {NoUnit}, by : Producers, ready : BOOLEAN]

\* An unpublished position of the window has a producer that is going to publish
\* it; a call has a unit to pass.
Owned ==
    \A n \in Released .. enqueue_pos - 1 :
        sequence[Slot(n)] = n => Writing(claimed[n + 1].by) /\ pos[claimed[n + 1].by] = n
Arguments == \A p \in Producers : pc[p] # "idle" => arg[p] \in Units

RefinementInv == QueueInv /\ Owned /\ Arguments

-----------------------------------------------------------------------------
(* The invariant *)

\* What is known of a position of the window.
LEMMA WindowFacts ==
    ASSUME QueueInv
    PROVE  /\ Released \in Nat /\ enqueue_pos \in Nat /\ Released <= enqueue_pos
           /\ enqueue_pos <= Released + Capacity
           /\ \A n \in Released .. enqueue_pos - 1 :
                /\ n \in Nat /\ Slot(n) \in Slots
                /\ n + 1 \in 1 .. Len(claimed)
                /\ claimed[n + 1] \in [unit : Units \cup {NoUnit}, by : Producers]
<1>1. /\ Released \in Nat /\ enqueue_pos \in Nat /\ Released <= enqueue_pos
      /\ enqueue_pos <= Released + Capacity /\ Len(claimed) = enqueue_pos
  BY DEF QueueInv, Types, TypeOK, Bounds, Released
<1>2. ASSUME NEW n \in Released .. enqueue_pos - 1
      PROVE  /\ n \in Nat /\ Slot(n) \in Slots
             /\ n + 1 \in 1 .. Len(claimed)
             /\ claimed[n + 1] \in [unit : Units \cup {NoUnit}, by : Producers]
  <2>1. n \in Nat /\ n + 1 \in 1 .. Len(claimed)
    BY <1>1
  <2>2. Slot(n) \in Slots
    BY <2>1, SlotType, Zenon
  <2>3. claimed[n + 1] \in [unit : Units \cup {NoUnit}, by : Producers]
    BY <2>1, ElementOfSeq, Zenon DEF QueueInv, Types, TypeOK
  <2> QED
    BY <2>1, <2>2, <2>3, Zenon
<1> QED
  BY <1>1, <1>2, Zenon

\* Steps that leave the ring and the producers past their CAS alone.
LEMMA OwnedFrame ==
    ASSUME QueueInv, Owned, Released' = Released,
           UNCHANGED <<sequence, enqueue_pos, claimed>>,
           \A r \in Producers : Writing(r) => Writing(r)' /\ pos'[r] = pos[r]
    PROVE  Owned'
<1> SUFFICES ASSUME NEW n \in Released .. enqueue_pos - 1, sequence[Slot(n)] = n
             PROVE  Writing(claimed[n + 1].by)' /\ pos'[claimed[n + 1].by] = n
  BY Zenon DEF Owned
<1>1. claimed[n + 1].by \in Producers
  BY WindowFacts, Zenon
<1>2. Writing(claimed[n + 1].by) /\ pos[claimed[n + 1].by] = n
  BY Zenon DEF Owned
<1> QED
  BY <1>1, <1>2, Zenon

\* The steps of try_enqueue keep Owned.
LEMMA OwnedProducer ==
    ASSUME RefinementInv, QueueInv', NEW p \in Producers, TryEnqueue(p)
    PROVE  Owned'
<1> USE DEF RefinementInv, consVars
<1>0. pc \in [Producers -> {"idle", "check", "cas", "write", "publish"}]
  BY Zenon DEF QueueInv, Types, TypeOK
<1>1. CASE (\E u \in Units : TryEnqueueCall(p, u)) \/ TryEnqueueFull(p) \/ TryEnqueueCheck(p)
           \/ TryEnqueueRetry(p) \/ TryEnqueueWrite(p)
  <2>1. UNCHANGED <<sequence, enqueue_pos, claimed>> /\ Released' = Released
    BY <1>1, Zenon DEF TryEnqueueCall, TryEnqueueFull, TryEnqueueCheck, TryEnqueueRetry,
                TryEnqueueWrite, Released
  <2>2. \A r \in Producers : Writing(r) => Writing(r)' /\ pos'[r] = pos[r]
    BY <1>1, Zenon DEF TryEnqueueCall, TryEnqueueFull, TryEnqueueCheck, TryEnqueueRetry,
                TryEnqueueWrite, QueueInv, Types, TypeOK, Writing
  <2> QED
    BY <2>1, <2>2, OwnedFrame, Zenon
<1>2. CASE TryEnqueueClaim(p)
  <2>1. /\ Released' = Released /\ sequence' = sequence /\ pos' = pos
        /\ enqueue_pos' = enqueue_pos + 1 /\ pos[p] = enqueue_pos
        /\ claimed' = Append(claimed, [unit |-> arg[p], by |-> p])
        /\ pc' = [pc EXCEPT ![p] = "write"]
    BY <1>2, Zenon DEF TryEnqueueClaim, Released
  <2>2. /\ pc'[p] \in {"write", "publish"}
        /\ \A r \in Producers : Writing(r) => pc'[r] \in {"write", "publish"}
    BY ONLY <1>0, <2>1, p \in Producers, Zenon DEF Writing
  <2>3. /\ claimed \in Seq([unit : Units \cup {NoUnit}, by : Producers])
        /\ Len(claimed) = enqueue_pos
        /\ [unit |-> arg[p], by |-> p] \in [unit : Units \cup {NoUnit}, by : Producers]
    BY Zenon DEF QueueInv, Bounds, Types, TypeOK
  <2>4. /\ claimed'[enqueue_pos + 1] = [unit |-> arg[p], by |-> p]
        /\ \A i \in 1 .. Len(claimed) : claimed'[i] = claimed[i]
    BY <2>1, <2>3, AppendProperties
  <2>5. ASSUME NEW n \in Released .. enqueue_pos, sequence[Slot(n)] = n
        PROVE  /\ pc'[claimed'[n + 1].by] \in {"write", "publish"}
               /\ pos[claimed'[n + 1].by] = n
    <3>1. CASE n = enqueue_pos
      <4>1. claimed'[n + 1].by = p
        BY ONLY <2>4, <3>1
      <4> QED
        BY <2>1, <2>2, <3>1, <4>1, Zenon
    <3>2. CASE n # enqueue_pos
      <4>1. n \in Released .. enqueue_pos - 1
        BY <3>2, WindowFacts
      <4>2. claimed'[n + 1] = claimed[n + 1] /\ claimed[n + 1].by \in Producers
        BY <2>4, <4>1, WindowFacts, Zenon
      <4>3. Writing(claimed[n + 1].by) /\ pos[claimed[n + 1].by] = n
        BY <2>5, <4>1, Zenon DEF Owned
      <4> QED
        BY <2>2, <4>2, <4>3, Zenon
    <3> QED
      BY <3>1, <3>2, Zenon
  <2>6. Released' .. enqueue_pos' - 1 = Released .. enqueue_pos
    BY <2>1, WindowFacts
  <2> QED
    BY <2>1, <2>5, <2>6, Zenon DEF Owned, Writing
<1>3. CASE TryEnqueuePublish(p)
  <2> SUFFICES ASSUME NEW n \in Released .. enqueue_pos - 1, sequence'[Slot(n)] = n
               PROVE  Writing(claimed[n + 1].by)' /\ pos'[claimed[n + 1].by] = n
    BY <1>3, Zenon DEF Owned, TryEnqueuePublish, Released
  <2>1. /\ sequence' = [sequence EXCEPT ![Slot(pos[p])] = pos[p] + 1]
        /\ pc' = [pc EXCEPT ![p] = "idle"] /\ pos' = pos /\ claimed' = claimed
        /\ pos[p] \in Nat
    BY <1>3, Zenon DEF TryEnqueuePublish, QueueInv, Types, TypeOK
  <2>2. Slot(n) \in Slots /\ n \in Nat /\ claimed[n + 1].by \in Producers
    BY WindowFacts, Zenon
  <2>3. n # pos[p]
    BY <2>1, <2>2 DEF QueueInv, Types, TypeOK
  <2>4. Slot(n) # Slot(pos[p])
    <3>1. pos[p] \in Released .. enqueue_pos - 1
      BY <1>3, Zenon DEF TryEnqueuePublish, QueueInv, Writers, Writing
    <3> QED
      BY <2>3, <3>1, WindowBounds, WindowInjective, Zenon
  <2>5. sequence[Slot(n)] = n
    BY <2>1, <2>2, <2>4, Zenon DEF QueueInv, Types, TypeOK
  <2>6. Writing(claimed[n + 1].by) /\ pos[claimed[n + 1].by] = n
    BY <2>5, Zenon DEF Owned
  <2>7. claimed[n + 1].by # p
    BY <2>3, <2>6, Zenon
  <2>8. Writing(claimed[n + 1].by)'
    BY ONLY <1>0, <2>1, <2>2, <2>6, <2>7, Zenon DEF Writing
  <2> QED
    BY <2>1, <2>6, <2>8, Zenon
<1> QED
  BY <1>1, <1>2, <1>3, Zenon DEF TryEnqueue

\* The steps of drain keep Owned.
LEMMA OwnedConsumer ==
    ASSUME RefinementInv, Drain
    PROVE  Owned'
<1> USE DEF RefinementInv, prodVars
<1>1. CASE (\E max_count \in {1, Capacity} : DrainCall(max_count)) \/ DrainCheck \/ DrainTake
           \/ DrainAdvance
  <2>1. UNCHANGED <<sequence, enqueue_pos, claimed, pc, pos>> /\ Released' = Released
    BY <1>1, Zenon DEF DrainCall, DrainCheck, DrainTake, DrainAdvance, Released, QueueInv, Types, TypeOK
  <2> QED
    BY <2>1, OwnedFrame, Zenon DEF Writing
<1>2. CASE DrainRelease
  <2>1. /\ sequence' = [sequence EXCEPT ![Slot(Released)] = Released + Capacity]
        /\ UNCHANGED <<enqueue_pos, claimed, pc, pos>>
        /\ Released' = Released + 1 /\ Released < enqueue_pos
    BY <1>2, Zenon DEF DrainRelease, Released, QueueInv, Reader, Reading
  <2> SUFFICES ASSUME NEW n \in Released + 1 .. enqueue_pos - 1, sequence'[Slot(n)] = n
               PROVE  Writing(claimed[n + 1].by) /\ pos[claimed[n + 1].by] = n
    BY <2>1, Zenon DEF Owned, Writing
  <2>2. n \in Released .. enqueue_pos - 1 /\ Released \in Released .. enqueue_pos - 1 /\ n # Released
    BY <2>1, WindowFacts
  <2>3. Slot(n) # Slot(Released)
    BY <2>2, WindowBounds, WindowInjective, Zenon
  <2>4. sequence[Slot(n)] = n
    BY <2>1, <2>2, <2>3, WindowFacts, Zenon DEF QueueInv, Types, TypeOK
  <2> QED
    BY <2>2, <2>4, Zenon DEF Owned
<1> QED
  BY <1>1, <1>2, Zenon DEF Drain

\* A call passes a unit, from its first step to its last.
LEMMA ArgumentsNext ==
    ASSUME Types, Arguments, [Next]_vars
    PROVE  Arguments'
<1> USE DEF Types, TypeOK, Arguments, consVars, prodVars
<1>1. CASE \E p \in Producers : TryEnqueue(p)
  <2> SUFFICES ASSUME NEW p \in Producers, TryEnqueue(p) PROVE Arguments'
    BY <1>1, Zenon
  <2>1. ASSUME NEW u \in Units, TryEnqueueCall(p, u) PROVE Arguments'
    BY <2>1, Zenon DEF TryEnqueueCall
  <2>2. CASE \/ TryEnqueueFull(p) \/ TryEnqueueCheck(p) \/ TryEnqueueClaim(p)
             \/ TryEnqueueRetry(p) \/ TryEnqueueWrite(p) \/ TryEnqueuePublish(p)
    BY <2>2, Zenon DEF TryEnqueueFull, TryEnqueueCheck, TryEnqueueClaim, TryEnqueueRetry,
                TryEnqueueWrite, TryEnqueuePublish
  <2> QED
    BY <2>1, <2>2, Zenon DEF TryEnqueue
<1>2. CASE Drain
  BY <1>2, Zenon DEF Drain, DrainCall, DrainCheck, DrainTake, DrainRelease, DrainAdvance
<1>3. CASE UNCHANGED vars
  BY <1>3, Zenon DEF vars
<1> QED
  BY <1>1, <1>2, <1>3, Zenon DEF Next

\* The constructor establishes the invariant of the refinement.
LEMMA RefinementInvInit == Init => RefinementInv
<1> SUFFICES ASSUME Init PROVE Owned /\ Arguments
  BY QueueInvInit, Zenon DEF RefinementInv
<1> QED
  BY DEF Init, Owned, Arguments, Released

\* Every step keeps it.
LEMMA RefinementInvNext ==
    ASSUME Capacity # 1, RefinementInv, [Next]_vars
    PROVE  RefinementInv'
<1>1. QueueInv'
  BY QueueInvNext, Zenon DEF RefinementInv
<1>2. Arguments'
  BY ArgumentsNext, Zenon DEF RefinementInv, QueueInv
<1>3. Owned'
  <2>1. CASE UNCHANGED vars
    BY <2>1, OwnedFrame, Zenon DEF vars, Released, Writing, RefinementInv
  <2> QED
    BY <1>1, <2>1, OwnedProducer, OwnedConsumer, Zenon DEF Next
<1> QED
  BY <1>1, <1>2, <1>3, Zenon DEF RefinementInv

-----------------------------------------------------------------------------
(* The abstract queue *)

EntryAt(n) ==
    [unit |-> claimed[n + 1].unit, by |-> claimed[n + 1].by, ready |-> sequence[Slot(n)] = n + 1]

\* A function on 1 .. n is a sequence of length n.
LEMMA LenOfFunction ==
    ASSUME NEW S, NEW n \in Nat, NEW f \in [1 .. n -> S]
    PROVE  f \in Seq(S) /\ Len(f) = n
  OBVIOUS

\* The fields of an entry.
LEMMA EntryFields ==
    ASSUME NEW n
    PROVE  /\ EntryAt(n).unit = claimed[n + 1].unit /\ EntryAt(n).by = claimed[n + 1].by
           /\ EntryAt(n).ready <=> sequence[Slot(n)] = n + 1
  BY Zenon DEF EntryAt

QueueIsWindow ==
    /\ AbstractQueue \in Seq(Entries)
    /\ Len(AbstractQueue) = enqueue_pos - Released
    /\ \A i \in 1 .. enqueue_pos - Released : AbstractQueue[i] = EntryAt(Released + i - 1)

Taken == SubSeq(output, 1, Released)
TakenIsPrefix ==
    /\ Taken \in Seq(Units \cup {NoUnit})
    /\ Len(Taken) = Released
    /\ \A i \in 1 .. Released : Taken[i] = output[i]

\* The abstract queue is a sequence with one entry for each position of the window.
LEMMA QueueShape == QueueInv => QueueIsWindow
<1> SUFFICES ASSUME QueueInv PROVE QueueIsWindow
  BY Zenon
<1> DEFINE len == enqueue_pos - Released
<1>1. len \in Nat
  BY WindowFacts
<1>2. ASSUME NEW i \in 1 .. len
      PROVE  AbstractQueue[i] = EntryAt(Released + i - 1) /\ EntryAt(Released + i - 1) \in Entries
  <2>1. Released + i - 1 \in Released .. enqueue_pos - 1
    BY <1>1, WindowFacts
  <2> QED
    BY <2>1, WindowFacts, Zenon DEF AbstractQueue, EntryAt, Entries
<1>3. AbstractQueue \in [1 .. len -> Entries]
  <2>1. AbstractQueue = [i \in 1 .. len |-> EntryAt(Released + i - 1)]
    BY Zenon DEF AbstractQueue, EntryAt
  <2> QED
    BY <1>2, <2>1, Zenon
<1> QED
  BY <1>1, <1>2, <1>3, LenOfFunction, Zenon DEF QueueIsWindow

\* What the consumer has released is a prefix of what it has read.
LEMMA TakenShape == QueueInv => TakenIsPrefix
<1> SUFFICES ASSUME QueueInv PROVE TakenIsPrefix
  BY Zenon
<1>1. /\ Released \in Nat /\ Released <= Len(output)
      /\ output \in Seq(Units \cup {NoUnit})
  BY WindowFacts DEF QueueInv, Types, TypeOK, Bounds, Released
<1>2. \A i \in 1 .. Released : output[i] \in Units \cup {NoUnit}
  BY <1>1, ElementOfSeq
<1> QED
  BY <1>1, <1>2, SubSeqProperties DEF TakenIsPrefix, Taken

\* Both hold in the next state too.
LEMMA ShapesNext == QueueInv' => QueueIsWindow' /\ TakenIsPrefix'
  BY QueueShape, TakenShape, PTL

-----------------------------------------------------------------------------
(* Steps *)

\* Steps that neither claim, publish nor release a slot leave the abstract queue
\* alone: what drain has read but not yet released does not count as taken.
LEMMA StutterStep ==
    ASSUME QueueInv, QueueInv', Released' = Released,
           UNCHANGED <<sequence, enqueue_pos, claimed>>,
           \A i \in 1 .. Released : output'[i] = output[i]
    PROVE  UNCHANGED Abstract!vars
<1>1. AbstractQueue' = AbstractQueue
  BY Zenon DEF AbstractQueue
<1>2. Taken' = Taken
  <2>1. TakenIsPrefix /\ TakenIsPrefix' /\ Released \in Nat
    BY TakenShape, ShapesNext, WindowFacts, Zenon
  <2>2. \A i \in 1 .. Len(Taken) : Taken'[i] = Taken[i]
    BY <2>1, Zenon DEF TakenIsPrefix
  <2> QED
    BY <2>1, <2>2, SeqEqual, Zenon DEF TakenIsPrefix
<1> QED
  BY <1>1, <1>2, Zenon DEF Abstract!vars, Taken

\* The successful compare-exchange of try_enqueue is Claim.
LEMMA ClaimSimulates ==
    ASSUME Capacity # 1, RefinementInv, QueueInv', NEW p \in Producers, TryEnqueueClaim(p)
    PROVE  Abstract!Claim(p, arg[p])
<1> DEFINE e == [unit |-> arg[p], by |-> p, ready |-> FALSE]
<1>1. /\ Released' = Released /\ enqueue_pos' = enqueue_pos + 1 /\ pos[p] = enqueue_pos
      /\ UNCHANGED <<sequence, output, pos>> /\ pc[p] = "cas"
      /\ claimed' = Append(claimed, [unit |-> arg[p], by |-> p])
  BY Zenon DEF TryEnqueueClaim, Released, consVars
<1>2. QueueIsWindow /\ QueueIsWindow' /\ QueueInv
  BY QueueShape, ShapesNext, Zenon DEF RefinementInv
<1>3. /\ enqueue_pos \in Nat /\ Released \in Nat /\ Released <= enqueue_pos
      /\ enqueue_pos + 1 <= Released + Capacity
  BY <1>1, <1>2, WindowFacts, Zenon DEF QueueInv, Bounds
<1>4. Abstract!HasRoom(AbstractQueue, Capacity)
  BY <1>2, <1>3, CapacityNat DEF QueueIsWindow, Abstract!HasRoom
<1>5. ~Abstract!Unpublished(AbstractQueue, p)
  <2> SUFFICES ASSUME NEW i \in DOMAIN AbstractQueue, AbstractQueue[i].by = p,
                      ~AbstractQueue[i].ready
               PROVE  FALSE
    BY Zenon DEF Abstract!Unpublished
  <2>1. i \in 1 .. enqueue_pos - Released
    BY <1>2, LenProperties, Zenon DEF QueueIsWindow
  <2>2. PICK n \in Released .. enqueue_pos - 1 : n = Released + i - 1
    BY <1>3, <2>1
  <2>3. AbstractQueue[i] = EntryAt(n)
    BY <1>2, <2>1, <2>2, Zenon DEF QueueIsWindow
  <2>4. claimed[n + 1].by = p /\ sequence[Slot(n)] # n + 1
    BY <2>3, EntryFields, Zenon
  <2>5. sequence[Slot(n)] = n
    BY <1>2, <2>4, Zenon DEF QueueInv, HeldSlots
  <2>6. Writing(p)
    BY <2>4, <2>5, Zenon DEF RefinementInv, Owned
  <2> QED
    BY <1>1, <2>6, Zenon DEF Writing
<1>6. AbstractQueue' = Append(AbstractQueue, e)
  <2>1. /\ claimed'[enqueue_pos + 1] = [unit |-> arg[p], by |-> p]
        /\ \A i \in 1 .. enqueue_pos : claimed'[i] = claimed[i]
    <3>1. /\ claimed \in Seq([unit : Units \cup {NoUnit}, by : Producers])
          /\ Len(claimed) = enqueue_pos
          /\ [unit |-> arg[p], by |-> p] \in [unit : Units \cup {NoUnit}, by : Producers]
      BY <1>2, Zenon DEF QueueInv, Bounds, Types, TypeOK
    <3> QED
      BY <1>1, <3>1, AppendProperties
  <2>2. sequence[Slot(enqueue_pos)] = enqueue_pos
    BY <1>2, <1>3, CapacityNat DEF QueueInv, FreeSlots
  <2>3. e \in Entries
    BY <1>1, Zenon DEF RefinementInv, Arguments, Entries
  <2>4. ASSUME NEW i \in 1 .. enqueue_pos - Released PROVE AbstractQueue'[i] = AbstractQueue[i]
    <3>1. Released + i \in 1 .. enqueue_pos /\ i \in 1 .. enqueue_pos' - Released'
      BY <1>1, <1>3
    <3>2. claimed'[Released + i] = claimed[Released + i] /\ Released + i - 1 + 1 = Released + i
      BY <1>3, <2>1, <3>1
    <3>3. AbstractQueue'[i] = EntryAt(Released + i - 1)'
      BY <1>2, <3>1, Zenon DEF QueueIsWindow
    <3>4. AbstractQueue[i] = EntryAt(Released + i - 1)
      BY <1>2, Zenon DEF QueueIsWindow
    <3>5. EntryAt(Released + i - 1)' = EntryAt(Released + i - 1)
      BY <1>1, <3>2, Zenon DEF EntryAt
    <3> QED
      BY <3>3, <3>4, <3>5, Zenon
  <2>5. AbstractQueue'[enqueue_pos - Released + 1] = e
    <3> DEFINE i == enqueue_pos - Released + 1
    <3>1. i \in 1 .. enqueue_pos' - Released' /\ Released' + i - 1 = enqueue_pos
      BY <1>1, <1>3
    <3> HIDE DEF i
    <3>2. AbstractQueue'[i] = [unit |-> claimed'[enqueue_pos + 1].unit,
                               by |-> claimed'[enqueue_pos + 1].by,
                               ready |-> sequence[Slot(enqueue_pos)] = enqueue_pos + 1]
      <4>1. AbstractQueue'[i] = [unit |-> claimed'[Released' + i - 1 + 1].unit,
                                 by |-> claimed'[Released' + i - 1 + 1].by,
                                 ready |-> sequence'[Slot(Released' + i - 1)]
                                             = Released' + i - 1 + 1]
        BY <1>2, <3>1, Zenon DEF QueueIsWindow, EntryAt
      <4> QED
        BY <1>1, <3>1, <4>1, Zenon
    <3>3. (sequence[Slot(enqueue_pos)] = enqueue_pos + 1) = FALSE
      BY <1>3, <2>2
    <3>4. claimed'[enqueue_pos + 1].unit = arg[p] /\ claimed'[enqueue_pos + 1].by = p
      BY <2>1
    <3> QED
      BY <3>2, <3>3, <3>4, Zenon DEF i
  <2>6. /\ Append(AbstractQueue, e) \in Seq(Entries)
        /\ Len(Append(AbstractQueue, e)) = enqueue_pos - Released + 1
        /\ Append(AbstractQueue, e)[enqueue_pos - Released + 1] = e
        /\ \A i \in 1 .. enqueue_pos - Released : Append(AbstractQueue, e)[i] = AbstractQueue[i]
    BY <1>2, <2>3, AppendProperties DEF QueueIsWindow
  <2>7. /\ AbstractQueue' \in Seq(Entries) /\ Len(AbstractQueue') = enqueue_pos - Released + 1
    BY <1>1, <1>2, <1>3 DEF QueueIsWindow
  <2>8. \A i \in 1 .. enqueue_pos - Released + 1 : AbstractQueue'[i] = Append(AbstractQueue, e)[i]
    BY <1>3, <2>4, <2>5, <2>6
  <2> HIDE DEF e
  <2> QED
    BY <2>6, <2>7, <2>8, SeqEqual, Zenon
<1>7. Taken' = Taken
  BY <1>1, Zenon DEF Taken
<1> QED
  BY <1>4, <1>5, <1>6, <1>7, Zenon DEF Abstract!Claim, Abstract!Claimed, Abstract!Entry, Taken

\* The release store of try_enqueue is Publish.
LEMMA PublishSimulates ==
    ASSUME RefinementInv, QueueInv', NEW p \in Producers, TryEnqueuePublish(p)
    PROVE  Abstract!Publish(p)
<1> DEFINE len == enqueue_pos - Released
           New(i) == IF AbstractQueue[i].by = p
                     THEN [AbstractQueue[i] EXCEPT !.ready = TRUE] ELSE AbstractQueue[i]
<1>1. /\ Released' = Released /\ UNCHANGED <<enqueue_pos, output, claimed>>
      /\ sequence' = [sequence EXCEPT ![Slot(pos[p])] = pos[p] + 1]
  BY Zenon DEF TryEnqueuePublish, Released, consVars
<1>2. QueueIsWindow /\ QueueIsWindow' /\ QueueInv /\ Owned
  BY QueueShape, ShapesNext, Zenon DEF RefinementInv
<1>3. /\ enqueue_pos \in Nat /\ Released \in Nat /\ Released <= enqueue_pos
      /\ sequence \in [Slots -> Nat] /\ len \in Nat
  <2>1. enqueue_pos \in Nat /\ Released \in Nat /\ Released <= enqueue_pos
    BY <1>2, WindowFacts, Zenon
  <2>2. sequence \in [Slots -> Nat]
    BY <1>2, Zenon DEF QueueInv, Types, TypeOK
  <2> QED
    BY <2>1, <2>2
<1>4. /\ pos[p] \in Released .. enqueue_pos - 1 /\ sequence[Slot(pos[p])] = pos[p]
      /\ claimed[pos[p] + 1].by = p
  <2>1. /\ pos[p] \in Released .. enqueue_pos - 1 /\ sequence[Slot(pos[p])] = pos[p]
        /\ claimed[pos[p] + 1] = [unit |-> arg[p], by |-> p]
    BY <1>2, Zenon DEF TryEnqueuePublish, QueueInv, Writers, Writing
  <2> QED
    BY <2>1
<1>5. DOMAIN AbstractQueue = 1 .. len /\ DOMAIN AbstractQueue' = 1 .. len
  BY <1>1, <1>2, LenProperties, Zenon DEF QueueIsWindow
<1>6. \A i \in 1 .. len :
        /\ Released + i - 1 \in Released .. enqueue_pos - 1
        /\ AbstractQueue[i] = EntryAt(Released + i - 1)
        /\ AbstractQueue'[i] = EntryAt(Released + i - 1)'
  <2>1. \A i \in 1 .. len : Released + i - 1 \in Released .. enqueue_pos - 1
    BY <1>3
  <2>2. enqueue_pos' - Released' = len
    BY <1>1, Zenon
  <2> QED
    BY <1>2, <2>1, <2>2, Zenon DEF QueueIsWindow
<1>7. Abstract!Unpublished(AbstractQueue, p)
  <2>1. PICK i \in 1 .. len : Released + i - 1 = pos[p]
    <3>1. pos[p] - Released + 1 \in 1 .. len /\ Released + (pos[p] - Released + 1) - 1 = pos[p]
      BY <1>3, <1>4
    <3> QED
      BY <3>1, Zenon
  <2>2. AbstractQueue[i] = EntryAt(pos[p])
    BY <1>6, <2>1, Zenon
  <2>3. AbstractQueue[i].by = p
    BY <1>4, <2>2, EntryFields, Zenon
  <2>4. ~AbstractQueue[i].ready
    <3>1. sequence[Slot(pos[p])] # pos[p] + 1
      BY <1>3, <1>4
    <3> QED
      BY <2>2, <3>1, EntryFields, Zenon
  <2> QED
    BY <1>5, <2>3, <2>4, Zenon DEF Abstract!Unpublished
<1>8. ASSUME NEW i \in 1 .. len PROVE AbstractQueue'[i] = New(i)
  <2>1. PICK n \in Released .. enqueue_pos - 1 : n = Released + i - 1
    BY <1>6, Zenon
  <2>2. Slot(n) \in Slots /\ n \in Nat
    BY <1>2, WindowFacts, Zenon
  <2>3. AbstractQueue[i] = EntryAt(n)
    BY <1>6, <2>1, Zenon
  <2>4. AbstractQueue'[i] = [unit |-> claimed[n + 1].unit, by |-> claimed[n + 1].by,
                             ready |-> sequence'[Slot(n)] = n + 1]
    BY <1>1, <1>6, <2>1, Zenon DEF EntryAt
  <2>5. n # pos[p] => sequence'[Slot(n)] = sequence[Slot(n)]
    BY <1>1, <1>2, <1>3, <1>4, <2>2, WindowBounds, WindowInjective, Zenon
  <2>6. CASE claimed[n + 1].by = p
    <3>1. sequence'[Slot(n)] = n + 1
      <4>1. CASE n = pos[p]
        BY <1>1, <1>3, <2>2, <4>1, Zenon
      <4>2. CASE n # pos[p]
        <5>1. sequence[Slot(n)] # n
          BY <1>2, <2>6, <4>2, Zenon DEF Owned
        <5> QED
          BY <1>2, <2>5, <4>2, <5>1, Zenon DEF QueueInv, HeldSlots
      <4> QED
        BY <4>1, <4>2, Zenon
    <3>2. New(i) = [EntryAt(n) EXCEPT !.ready = TRUE]
      BY <2>3, <2>6, EntryFields, Zenon
    <3>3. (sequence'[Slot(n)] = n + 1) = TRUE
      BY <3>1, Zenon
    <3> QED
      BY <2>4, <3>2, <3>3, Zenon DEF EntryAt
  <2>7. CASE claimed[n + 1].by # p
    <3>1. sequence'[Slot(n)] = sequence[Slot(n)]
      BY <1>4, <2>5, <2>7, Zenon
    <3>2. New(i) = EntryAt(n)
      BY <2>3, <2>7, EntryFields, Zenon
    <3> QED
      BY <2>4, <3>1, <3>2, Zenon DEF EntryAt
  <2> QED
    BY <2>6, <2>7, Zenon
<1>9. AbstractQueue' = Abstract!Published(AbstractQueue, p)
  <2>1. Abstract!Published(AbstractQueue, p) = [i \in 1 .. len |-> New(i)]
    BY <1>5, Zenon DEF Abstract!Published
  <2>2. AbstractQueue' = [i \in 1 .. len |-> AbstractQueue'[i]]
    <3>1. AbstractQueue' \in [1 .. len -> Entries]
      BY <1>1, <1>2, LenProperties, Zenon DEF QueueIsWindow
    <3> QED
      BY <3>1, Zenon
  <2> QED
    BY <1>8, <2>1, <2>2, Zenon
<1> QED
  BY <1>1, <1>7, <1>9, Zenon DEF Abstract!Publish

\* The store with which drain gives a slot back is Take.
LEMMA TakeSimulates ==
    ASSUME RefinementInv, QueueInv', DrainRelease
    PROVE  Abstract!Take
<1> DEFINE len == enqueue_pos - Released
<1>1. /\ Released' = Released + 1 /\ UNCHANGED <<enqueue_pos, output, claimed>>
      /\ sequence' = [sequence EXCEPT ![Slot(Released)] = Released + Capacity]
      /\ Released < enqueue_pos /\ sequence[Slot(Released)] = Released + 1
      /\ Len(output) = Released + 1
  BY Zenon DEF DrainRelease, Released, prodVars, RefinementInv, QueueInv, Reader, Reading, Bounds
<1>2. QueueIsWindow /\ QueueIsWindow' /\ TakenIsPrefix /\ TakenIsPrefix' /\ QueueInv
  BY QueueShape, TakenShape, ShapesNext, Zenon DEF RefinementInv
<1>3. /\ enqueue_pos \in Nat /\ Released \in Nat /\ len \in Nat \ {0}
      /\ sequence \in [Slots -> Nat]
  BY <1>1, <1>2, WindowFacts DEF QueueInv, Types, TypeOK
<1>4. /\ AbstractQueue # << >> /\ AbstractQueue[1] = EntryAt(Released)
      /\ Head(AbstractQueue) = AbstractQueue[1]
  BY <1>2, <1>3 DEF QueueIsWindow
<1>5. Abstract!HeadReady(AbstractQueue)
  BY <1>1, <1>4, EntryFields, Zenon DEF Abstract!HeadReady
<1>6. AbstractQueue' = Tail(AbstractQueue)
  <2>1. /\ Tail(AbstractQueue) \in Seq(Entries) /\ Len(Tail(AbstractQueue)) = len - 1
        /\ \A i \in 1 .. len - 1 : Tail(AbstractQueue)[i] = AbstractQueue[i + 1]
    BY <1>2, <1>4, HeadTailProperties DEF QueueIsWindow
  <2>2. AbstractQueue' \in Seq(Entries) /\ Len(AbstractQueue') = len - 1
    BY <1>1, <1>2, <1>3 DEF QueueIsWindow
  <2>3. ASSUME NEW i \in 1 .. len - 1 PROVE AbstractQueue'[i] = Tail(AbstractQueue)[i]
    <3>1. PICK n \in Released .. enqueue_pos - 1 :
            n = Released + (i + 1) - 1 /\ n = Released' + i - 1 /\ n # Released
      BY <1>1, <1>3
    <3>2. AbstractQueue[i + 1] = EntryAt(n)
      BY <1>2, <1>3, <3>1 DEF QueueIsWindow
    <3>3. i \in 1 .. enqueue_pos' - Released'
      BY <1>1, <1>3
    <3>4. AbstractQueue'[i] = [unit |-> claimed[n + 1].unit, by |-> claimed[n + 1].by,
                               ready |-> sequence'[Slot(n)] = n + 1]
      BY <1>1, <1>2, <3>1, <3>3, Zenon DEF QueueIsWindow, EntryAt
    <3>5. sequence'[Slot(n)] = sequence[Slot(n)]
      <4>1. Released \in Released .. enqueue_pos - 1
        BY <1>1, <1>3
      <4>2. Slot(n) # Slot(Released)
        BY <1>2, <3>1, <4>1, WindowBounds, WindowInjective, Zenon
      <4> QED
        BY <1>1, <1>2, <1>3, <4>2, WindowFacts, Zenon
    <3> QED
      BY <2>1, <3>2, <3>4, <3>5, Zenon DEF EntryAt
  <2> QED
    BY <2>1, <2>2, <2>3, SeqEqual, Zenon
<1>7. Taken' = Append(Taken, Head(AbstractQueue).unit)
  <2> DEFINE u == output[Released + 1]
  <2>1. u \in Units \cup {NoUnit} /\ Head(AbstractQueue).unit = u
    <3>1. Released + 1 \in 1 .. Len(output)
      BY <1>1, <1>3
    <3>2. u = claimed[Released + 1].unit
      BY <1>2, <3>1, Zenon DEF QueueInv, Order
    <3> QED
      BY <1>2, <1>4, <3>1, <3>2, EntryFields, ElementOfSeq, Zenon DEF QueueInv, Types, TypeOK
  <2>2. /\ Append(Taken, u) \in Seq(Units \cup {NoUnit}) /\ Len(Append(Taken, u)) = Released + 1
        /\ Append(Taken, u)[Released + 1] = u
        /\ \A i \in 1 .. Released : Append(Taken, u)[i] = Taken[i]
    BY <1>2, <2>1, AppendProperties DEF TakenIsPrefix
  <2>3. /\ Taken' \in Seq(Units \cup {NoUnit}) /\ Len(Taken') = Released + 1
        /\ \A i \in 1 .. Released + 1 : Taken'[i] = output[i]
    BY <1>1, <1>2, Zenon DEF TakenIsPrefix
  <2>4. \A i \in 1 .. Released + 1 : Taken'[i] = Append(Taken, u)[i]
    BY <1>2, <1>3, <2>2, <2>3 DEF TakenIsPrefix
  <2> HIDE DEF u
  <2> QED
    BY <2>1, <2>2, <2>3, <2>4, SeqEqual, Zenon
<1> QED
  BY <1>5, <1>6, <1>7, Zenon DEF Abstract!Take, Taken

-----------------------------------------------------------------------------
(* The theorem *)

\* Every step of the ring is a step of the queue or leaves it alone.
LEMMA StepSimulates ==
    ASSUME Capacity # 1, RefinementInv, RefinementInv', [Next]_vars
    PROVE  [Abstract!Next]_(Abstract!vars)
<1> USE DEF RefinementInv
<1>1. ASSUME NEW p \in Producers, TryEnqueueClaim(p) PROVE Abstract!Next
  <2>1. arg[p] \in Units
    BY <1>1, Zenon DEF TryEnqueueClaim, Arguments
  <2> QED
    BY <1>1, <2>1, ClaimSimulates, Zenon DEF Abstract!Next
<1>2. ASSUME NEW p \in Producers, TryEnqueuePublish(p) PROVE Abstract!Next
  BY <1>2, PublishSimulates, Zenon DEF Abstract!Next
<1>3. CASE DrainRelease
  BY <1>3, TakeSimulates, Zenon DEF Abstract!Next
<1>4. ASSUME NEW p \in Producers,
             \/ \E u \in Units : TryEnqueueCall(p, u)
             \/ TryEnqueueFull(p) \/ TryEnqueueCheck(p) \/ TryEnqueueRetry(p) \/ TryEnqueueWrite(p)
      PROVE  UNCHANGED Abstract!vars
  <2>1. UNCHANGED <<sequence, enqueue_pos, claimed, output>> /\ Released' = Released
    BY <1>4, Zenon DEF TryEnqueueCall, TryEnqueueFull, TryEnqueueCheck, TryEnqueueRetry,
                TryEnqueueWrite, Released, consVars
  <2> QED
    BY <2>1, StutterStep, Zenon
<1>5. CASE (\E max_count \in {1, Capacity} : DrainCall(max_count)) \/ DrainCheck \/ DrainAdvance
  <2>1. UNCHANGED <<sequence, enqueue_pos, claimed, output>> /\ Released' = Released
    BY <1>5, Zenon DEF DrainCall, DrainCheck, DrainAdvance, Released, QueueInv, Types, TypeOK
  <2> QED
    BY <2>1, StutterStep, Zenon
<1>6. CASE DrainTake
  <2>1. /\ UNCHANGED <<sequence, enqueue_pos, claimed>> /\ Released' = Released
        /\ output' = Append(output, item[Slot(dequeue_pos)])
        /\ output \in Seq(Units \cup {NoUnit}) /\ Len(output) = Released
        /\ item[Slot(dequeue_pos)] \in Units \cup {NoUnit}
    BY <1>6, SlotType, Zenon DEF DrainTake, Released, QueueInv, Types, TypeOK, Bounds
  <2>2. \A i \in 1 .. Len(output) : output'[i] = output[i]
    BY ONLY <2>1, AppendProperties
  <2> QED
    BY <2>1, <2>2, StutterStep, Zenon
<1>7. CASE UNCHANGED vars
  <2>1. UNCHANGED <<sequence, enqueue_pos, claimed, output>> /\ Released' = Released
    BY <1>7, Zenon DEF vars, Released
  <2> QED
    BY <2>1, StutterStep, Zenon
<1> QED
  BY <1>1, <1>2, <1>3, <1>4, <1>5, <1>6, <1>7, Zenon DEF Next, TryEnqueue, Drain

\* The empty ring is the empty queue.
LEMMA InitSimulates == Init => Abstract!Init
<1> SUFFICES ASSUME Init PROVE Abstract!Init
  BY Zenon
<1>1. QueueIsWindow /\ TakenIsPrefix /\ enqueue_pos = 0 /\ Released = 0
  BY QueueInvInit, QueueShape, TakenShape, Zenon DEF Init, Released
<1>2. AbstractQueue = << >>
  BY <1>1, EmptySeq DEF QueueIsWindow
<1>3. Taken = << >>
  BY <1>1, EmptySeq, Zenon DEF TakenIsPrefix
<1> QED
  BY <1>2, <1>3, Zenon DEF Abstract!Init, Taken

\* For every capacity of at least two the ring of woomem_mpsc_queue.hpp behaves
\* as the bounded queue: units leave it in claim order, once, after publication,
\* and no more than Capacity are ever in it.
THEOREM RingImplementsQueue == ASSUME Capacity # 1 PROVE Spec => ImplementsGrayQueue
<1>1. RefinementInv /\ [Next]_vars => RefinementInv'
  BY RefinementInvNext, Zenon
<1>2. RefinementInv /\ RefinementInv' /\ [Next]_vars => [Abstract!Next]_(Abstract!vars)
  BY StepSimulates, Zenon
<1> QED
  BY <1>1, <1>2, RefinementInvInit, InitSimulates, PTL
     DEF Spec, ImplementsGrayQueue, Abstract!Spec

=============================================================================
