------------------------- MODULE ReadWriteSpinlock -------------------------
(***************************************************************************)
(* woomem_rwlock.hpp: the lock of the chunk.  Its word counts the readers  *)
(* and its top bit is the writer.  One action per atomic access.           *)
(***************************************************************************)
EXTENDS Integers, FiniteSets

CONSTANTS
    Threads,
    WRITE_LOCKED    \* the value of the top bit, 2^31 in the code

\* Each thread holds the lock at most once, so the count stays below the bit.
ASSUME LockAssumption ==
    /\ IsFiniteSet(Threads)
    /\ WRITE_LOCKED \in Nat
    /\ Cardinality(Threads) < WRITE_LOCKED

VARIABLES
    state_,   \* the lock's word
    pc,       \* where each thread is
    seen      \* its local copy of the word

vars == <<state_, pc, seen>>

Init ==
    /\ state_ = 0
    /\ pc = [t \in Threads |-> "out"]
    /\ seen = [t \in Threads |-> 0]

Readers(word) == word % WRITE_LOCKED        \* word & READERS_MASK
Locked(word) == word >= WRITE_LOCKED        \* word & WRITE_LOCKED

Go(t, label) == pc' = [pc EXCEPT ![t] = label]
Load(t) == seen' = [seen EXCEPT ![t] = state_]
Forget(t) == seen' = [seen EXCEPT ![t] = 0]    \* the copy goes out of scope

\* lock_read and lock_write begin with a load.
LockCall(t) ==
    /\ pc[t] = "out"
    /\ Go(t, "lock_read") \/ Go(t, "lock_write")
    /\ Load(t)
    /\ UNCHANGED state_

\* The condition of the inner loop, in which the thread loads until it is false.
MustWait(t) ==
    \/ pc[t] = "lock_read" /\ Locked(seen[t])
    \/ pc[t] = "lock_write" /\ (Locked(seen[t]) \/ Readers(seen[t]) # 0)

Spin(t) ==
    /\ MustWait(t)
    /\ Load(t)
    /\ UNCHANGED <<state_, pc>>

\* Mutation: the reader adds itself to whatever the word is now.
LockReadBlindly(t) ==
    /\ pc[t] = "lock_read"
    /\ ~MustWait(t)
    /\ state_' = state_ + 1
    /\ Go(t, "reading")
    /\ Forget(t)

\* Mutation: the new word is stored without comparing.
LockReadByStore(t) ==
    /\ pc[t] = "lock_read"
    /\ ~MustWait(t)
    /\ state_' = Readers(seen[t]) + 1
    /\ Go(t, "reading")
    /\ Forget(t)

LockRead(t) ==
    /\ pc[t] = "lock_read"
    /\ ~MustWait(t)
    /\ state_ = seen[t]
    /\ state_' = Readers(seen[t]) + 1
    /\ Go(t, "reading")
    /\ Forget(t)

LockWrite(t) ==
    /\ pc[t] = "lock_write"
    /\ ~MustWait(t)
    /\ state_ = seen[t]
    /\ state_' = seen[t] + WRITE_LOCKED
    /\ Go(t, "writing")
    /\ Forget(t)

\* The weak compare-exchange fails, spuriously or because the word has changed.
CasFails(t) ==
    /\ pc[t] \in {"lock_read", "lock_write"}
    /\ ~MustWait(t)
    /\ Load(t)
    /\ UNCHANGED <<state_, pc>>

\* fetch_sub, in 32 bits.
UnlockRead(t) ==
    /\ pc[t] = "reading"
    /\ state_' = (state_ - 1) % (2 * WRITE_LOCKED)
    /\ Go(t, "out")
    /\ UNCHANGED seen

\* Mutation: the bit is never cleared.
UnlockWriteKeepingBit(t) ==
    /\ pc[t] = "writing"
    /\ Go(t, "out")
    /\ UNCHANGED <<state_, seen>>

\* fetch_and with the complement of the bit.
UnlockWrite(t) ==
    /\ pc[t] = "writing"
    /\ state_' = Readers(state_)
    /\ Go(t, "out")
    /\ UNCHANGED seen

Step(t) == Spin(t) \/ LockRead(t) \/ LockWrite(t) \/ CasFails(t) \/ UnlockRead(t) \/ UnlockWrite(t)

Next == \E t \in Threads : LockCall(t) \/ Step(t)

Spec == Init /\ [][Next]_vars

\* Every thread inside the lock's code keeps running, and a compare-exchange
\* that could succeed again and again does not fail for ever.
FairSpec ==
    /\ Spec
    /\ \A t \in Threads : WF_vars(Step(t)) /\ SF_vars(LockRead(t) \/ LockWrite(t))

-----------------------------------------------------------------------------
(* Properties *)

\* Every variable keeps its type.
TypeOK ==
    /\ state_ \in 0 .. 2 * WRITE_LOCKED - 1
    /\ pc \in [Threads -> {"out", "lock_read", "lock_write", "reading", "writing"}]
    /\ seen \in [Threads -> 0 .. 2 * WRITE_LOCKED - 1]

At(label) == {t \in Threads : pc[t] = label}

\* The word always tells who holds the lock, whatever the order in which threads
\* load, compare, retry and release: a stale copy never becomes a wrong count.
WordCountsHolders ==
    state_ = Cardinality(At("reading")) + WRITE_LOCKED * Cardinality(At("writing"))

\* A writer of the chunk's tables is alone: allocate_pages and free_page meet
\* neither each other nor validate.
WriterAlone ==
    \A t \in Threads : pc[t] = "writing" => At("reading") = {} /\ At("writing") = {t}

\* Somebody who waits for the lock never waits while nobody gets it.
SomebodyGetsIn ==
    At("lock_read") \cup At("lock_write") # {} ~> At("reading") \cup At("writing") # {}

=============================================================================
