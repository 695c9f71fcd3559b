------------------------- MODULE ChunkAccessProofs -------------------------
(***************************************************************************)
(* From an address to its page and its unit.  ChunkAccess, for any number  *)
(* of pages, threads and requests: the lock excludes, the free list holds  *)
(* exactly the pages nobody has, validate finds the block of every page    *)
(* that is handed out and of no other, heads are read only once they are   *)
(* initialised, and the chunk implements PageMap.  UnitSizes, for every    *)
(* size and every address in a page.                                       *)
(***************************************************************************)
EXTENDS ChunkAccess, UnitSizes, FiniteSetTheorems, TLAPS

-----------------------------------------------------------------------------
(* The lock *)

\* The word, the holders and the writer's solitude are one inductive invariant.
LockInv == TypeOK /\ WordCountsHolders /\ WriterAlone

\* The holders are finitely many, fewer than the top bit's value.
LEMMA HoldersBounded ==
    ASSUME NEW label
    PROVE  /\ IsFiniteSet(At(label))
           /\ Cardinality(At(label)) \in Nat
           /\ Cardinality(At(label)) < WRITE_LOCKED
  <1>1. At(label) \subseteq Threads
    BY DEF At
  <1>2. IsFiniteSet(At(label)) /\ Cardinality(At(label)) <= Cardinality(Threads)
    BY <1>1, LockAssumption, FS_Subset
  <1>3. Cardinality(At(label)) \in Nat /\ Cardinality(Threads) \in Nat
    BY <1>2, LockAssumption, FS_CardinalityType
  <1> QED BY <1>2, <1>3, LockAssumption

\* The top bit is worth something.
LEMMA BitPositive == WRITE_LOCKED \in Nat /\ WRITE_LOCKED > 0
  <1>1. Cardinality(Threads) \in Nat
    BY LockAssumption, FS_CardinalityType
  <1> QED BY <1>1, LockAssumption

\* One holder more.
LEMMA OneMore ==
    ASSUME NEW label, NEW t, t \notin At(label), At(label)' = At(label) \cup {t}
    PROVE  Cardinality(At(label)') = Cardinality(At(label)) + 1
  BY HoldersBounded, FS_AddElement

\* One holder less.
LEMMA OneLess ==
    ASSUME NEW label, NEW t, t \in At(label), At(label)' = At(label) \ {t}
    PROVE  Cardinality(At(label)') = Cardinality(At(label)) - 1
  BY HoldersBounded, FS_RemoveElement

\* What the word says: without the bit nobody writes, and with no reader counted
\* nobody reads.
LEMMA WordTells ==
    ASSUME LockInv
    PROVE  /\ ~Locked(state_) => At("writing") = {} /\ state_ = Cardinality(At("reading"))
           /\ ~Locked(state_) /\ Readers(state_) = 0 => At("reading") = {} /\ state_ = 0
           /\ At("reading") # {} => At("writing") = {} /\ state_ = Cardinality(At("reading"))
           /\ \A t \in At("writing") : state_ = WRITE_LOCKED /\ At("writing") = {t}
  <1> DEFINE r == Cardinality(At("reading"))
             w == Cardinality(At("writing"))
  <1>1. r \in Nat /\ w \in Nat /\ r < WRITE_LOCKED /\ WRITE_LOCKED \in Nat
    BY HoldersBounded, LockAssumption
  <1>2. state_ = r + WRITE_LOCKED * w
    BY DEF LockInv, WordCountsHolders
  <1>3. w = 0 => At("writing") = {}
    BY HoldersBounded, FS_EmptySet
  <1>4. r = 0 => At("reading") = {}
    BY HoldersBounded, FS_EmptySet
  <1>5. ASSUME NEW t \in At("writing") PROVE At("writing") = {t} /\ At("reading") = {}
    BY <1>5 DEF LockInv, WriterAlone, At
  <1>6. ASSUME NEW t \in At("writing") PROVE w = 1 /\ r = 0
    BY <1>5, FS_Singleton, FS_EmptySet, Zenon
  <1>7. ASSUME NEW t \in At("writing") PROVE state_ = WRITE_LOCKED
    BY <1>6, <1>1, <1>2
  <1>8. At("writing") = {} => w = 0
    BY FS_EmptySet
  <1>9. At("writing") = {} => state_ = r
    BY <1>8, <1>1, <1>2
  <1>10. ~Locked(state_) => At("writing") = {}
    BY <1>7, <1>1 DEF Locked
  <1>11. r % WRITE_LOCKED = r
    BY <1>1
  <1> QED BY <1>4, <1>5, <1>7, <1>9, <1>10, <1>11 DEF Readers

\* A step that moves no holder keeps the invariant.
LEMMA NoHolderMoves ==
    ASSUME LockInv, TypeOK', state_' = state_,
           At("reading")' = At("reading"), At("writing")' = At("writing")
    PROVE  LockInv'
  BY Zenon DEF LockInv, WordCountsHolders, WriterAlone, At

\* The invariant holds when the lock is constructed.
LEMMA LockInvInit == Init => LockInv
  <1> SUFFICES ASSUME Init PROVE LockInv
    OBVIOUS
  <1>1. At("reading") = {} /\ At("writing") = {}
    BY DEF Init, At
  <1>2. Cardinality({}) = 0
    BY FS_EmptySet
  <1>3. WRITE_LOCKED \in Nat /\ WRITE_LOCKED > 0
    BY BitPositive
  <1>4. TypeOK
    BY <1>3 DEF Init, TypeOK
  <1>5. WordCountsHolders
    BY <1>1, <1>2, <1>3 DEF Init, WordCountsHolders
  <1> QED BY <1>4, <1>5 DEF Init, LockInv, WriterAlone

\* Every step of the lock keeps the invariant.
LEMMA LockInvNext == LockInv /\ [Next]_vars => LockInv'
  <1> SUFFICES ASSUME LockInv, [Next]_vars PROVE LockInv'
    OBVIOUS
  <1>0. TypeOK /\ WRITE_LOCKED \in Nat /\ WRITE_LOCKED > 0
    BY BitPositive DEF LockInv
  <1>1. ASSUME UNCHANGED vars PROVE LockInv'
    BY <1>1 DEF vars, LockInv, TypeOK, WordCountsHolders, WriterAlone, At
  <1>2. ASSUME NEW t \in Threads, LockCall(t) PROVE LockInv'
    <2>1. TypeOK'
      BY <1>0, <1>2 DEF LockCall, Go, Load, TypeOK
    <2>2. At("reading")' = At("reading") /\ At("writing")' = At("writing")
      BY <1>0, <1>2 DEF LockCall, Go, TypeOK, At
    <2> QED BY <1>2, <2>1, <2>2, NoHolderMoves DEF LockCall
  <1>3. ASSUME NEW t \in Threads, Spin(t) \/ CasFails(t) PROVE LockInv'
    <2>1. TypeOK'
      BY <1>0, <1>3 DEF Spin, CasFails, Load, TypeOK
    <2> QED BY <1>3, <2>1, NoHolderMoves DEF Spin, CasFails, At
  <1>4. ASSUME NEW t \in Threads, LockRead(t) PROVE LockInv'
    <2>1. ~Locked(state_) /\ state_' = Readers(state_) + 1
      BY <1>4 DEF LockRead, MustWait
    <2>2. /\ At("reading")' = At("reading") \cup {t} /\ t \notin At("reading")
          /\ At("writing")' = At("writing")
      <3>1. pc[t] = "lock_read" /\ pc' = [pc EXCEPT ![t] = "reading"]
        BY <1>4 DEF LockRead, Go
      <3> QED BY <3>1, <1>0 DEF TypeOK, At
    <2>3. At("writing") = {} /\ state_ = Cardinality(At("reading"))
      BY <2>1, WordTells
    <2>4. Cardinality(At("reading")') = Cardinality(At("reading")) + 1
      BY <2>2, OneMore
    <2>5. Cardinality(At("reading")) \in Nat /\ Cardinality(At("reading")) < WRITE_LOCKED
      BY HoldersBounded
    <2>6. Readers(state_) = state_
      BY <2>3, <2>5, <1>0 DEF Readers
    <2>7. TypeOK'
      <3>1. state_' \in 0 .. 2 * WRITE_LOCKED - 1
        BY <2>1, <2>3, <2>5, <2>6, <1>0
      <3> QED BY <3>1, <1>0, <1>4 DEF LockRead, Forget, Go, TypeOK
    <2>8. WordCountsHolders'
      <3>1. Cardinality(At("writing")') = 0
        BY <2>2, <2>3, FS_EmptySet
      <3>2. state_' = Cardinality(At("reading")') + WRITE_LOCKED * Cardinality(At("writing")')
        BY <3>1, <2>1, <2>3, <2>4, <2>5, <2>6, <1>0
      <3> QED BY <3>2 DEF WordCountsHolders
    <2>9. WriterAlone'
      BY <2>2, <2>3 DEF WriterAlone, At
    <2> QED BY <2>7, <2>8, <2>9 DEF LockInv
  <1>5. ASSUME NEW t \in Threads, LockWrite(t) PROVE LockInv'
    <2>1. ~Locked(state_) /\ Readers(state_) = 0 /\ state_' = state_ + WRITE_LOCKED
      BY <1>5 DEF LockWrite, MustWait
    <2>2. /\ At("writing")' = At("writing") \cup {t}
          /\ At("reading")' = At("reading")
      <3>1. pc[t] = "lock_write" /\ pc' = [pc EXCEPT ![t] = "writing"]
        BY <1>5 DEF LockWrite, Go
      <3> QED BY <3>1, <1>0 DEF TypeOK, At
    <2>3. At("reading") = {} /\ At("writing") = {} /\ state_ = 0
      BY <2>1, WordTells
    <2>4. At("reading")' = {} /\ At("writing")' = {t} /\ state_' = WRITE_LOCKED
      BY <2>1, <2>2, <2>3, <1>0
    <2>5. TypeOK'
      <3>1. state_' \in 0 .. 2 * WRITE_LOCKED - 1
        BY <2>4, <1>0
      <3> QED BY <3>1, <1>0, <1>5 DEF LockWrite, Forget, Go, TypeOK
    <2>6. WordCountsHolders'
      <3>1. Cardinality(At("reading")') = 0 /\ Cardinality(At("writing")') = 1
        BY <2>4, FS_EmptySet, FS_Singleton, Zenon
      <3> QED BY <3>1, <2>4, <1>0 DEF WordCountsHolders
    <2>7. WriterAlone'
      BY <2>4 DEF WriterAlone, At
    <2> QED BY <2>5, <2>6, <2>7 DEF LockInv
  <1>6. ASSUME NEW t \in Threads, UnlockRead(t) PROVE LockInv'
    <2>1. state_' = (state_ - 1) % (2 * WRITE_LOCKED)
      BY <1>6 DEF UnlockRead
    <2>2. /\ At("reading")' = At("reading") \ {t} /\ t \in At("reading")
          /\ At("writing")' = At("writing")
      <3>1. pc[t] = "reading" /\ pc' = [pc EXCEPT ![t] = "out"]
        BY <1>6 DEF UnlockRead, Go
      <3> QED BY <3>1, <1>0 DEF TypeOK, At
    <2>3. At("writing") = {} /\ state_ = Cardinality(At("reading"))
      BY <2>2, WordTells
    <2>4. Cardinality(At("reading")') = Cardinality(At("reading")) - 1
      BY <2>2, OneLess
    <2>5. /\ Cardinality(At("reading")) \in Nat /\ Cardinality(At("reading")) < WRITE_LOCKED
          /\ Cardinality(At("reading")') \in Nat
      <3>1. IsFiniteSet(At("reading")')
        BY <2>2, HoldersBounded, FS_RemoveElement
      <3> QED BY <3>1, HoldersBounded, FS_CardinalityType
    <2>6. state_' = Cardinality(At("reading")')
      <3>1. state_ - 1 \in 0 .. 2 * WRITE_LOCKED - 1
        BY <2>3, <2>4, <2>5, <1>0
      <3>2. (state_ - 1) % (2 * WRITE_LOCKED) = state_ - 1
        BY <3>1, <1>0
      <3> QED BY <3>2, <2>1, <2>3, <2>4
    <2>7. TypeOK'
      <3>1. state_' \in 0 .. 2 * WRITE_LOCKED - 1
        BY <2>4, <2>5, <2>6, <1>0
      <3> QED BY <3>1, <1>0, <1>6 DEF UnlockRead, Go, TypeOK
    <2>8. WordCountsHolders'
      <3>1. Cardinality(At("writing")') = 0
        BY <2>2, <2>3, FS_EmptySet
      <3> QED BY <3>1, <2>5, <2>6, <1>0 DEF WordCountsHolders
    <2>9. WriterAlone'
      BY <2>2, <2>3 DEF WriterAlone, At
    <2> QED BY <2>7, <2>8, <2>9 DEF LockInv
  <1>7. ASSUME NEW t \in Threads, UnlockWrite(t) PROVE LockInv'
    <2>1. state_' = Readers(state_)
      BY <1>7 DEF UnlockWrite
    <2>2. /\ At("writing")' = At("writing") \ {t} /\ t \in At("writing")
          /\ At("reading")' = At("reading")
      <3>1. pc[t] = "writing" /\ pc' = [pc EXCEPT ![t] = "out"]
        BY <1>7 DEF UnlockWrite, Go
      <3> QED BY <3>1, <1>0 DEF TypeOK, At
    <2>3. state_ = WRITE_LOCKED /\ At("writing") = {t} /\ At("reading") = {}
      BY <2>2, WordTells DEF LockInv, WriterAlone, At
    <2>4. state_' = 0 /\ At("writing")' = {} /\ At("reading")' = {}
      <3>1. WRITE_LOCKED % WRITE_LOCKED = 0
        BY <1>0
      <3> QED BY <3>1, <2>1, <2>2, <2>3 DEF Readers
    <2>5. TypeOK'
      <3>1. state_' \in 0 .. 2 * WRITE_LOCKED - 1
        BY <2>4, <1>0
      <3> QED BY <3>1, <1>0, <1>7 DEF UnlockWrite, Go, TypeOK
    <2>6. WordCountsHolders'
      BY <2>4, <1>0, FS_EmptySet DEF WordCountsHolders
    <2>7. WriterAlone'
      BY <2>4 DEF WriterAlone, At
    <2> QED BY <2>5, <2>6, <2>7 DEF LockInv
  <1> QED BY <1>1, <1>2, <1>3, <1>4, <1>5, <1>6, <1>7 DEF Next, Step

-----------------------------------------------------------------------------
(* The inductive invariant of the chunk *)

\* The free blocks: the head of the list and every block with a block before it.
Listed == {h \in C!Indices : h = free_head_ \/ free_prev_[h] # INDEX_NULL}

\* x is the first block of F at lo or above, INDEX_NULL when there is none.
FirstFrom(F, lo, x) ==
    \/ x = INDEX_NULL /\ \A h \in F : h < lo
    \/ x \in F /\ x >= lo /\ \A h \in F : h >= lo => x <= h

\* x is the last block of F below hi, INDEX_NULL when there is none.
LastBelow(F, hi, x) ==
    \/ x = INDEX_NULL /\ \A h \in F : h >= hi
    \/ x \in F /\ x < hi /\ \A h \in F : h < hi => h <= x

\* The links put the blocks of F in address order, in both directions.
Links(F, head, next, prev) ==
    /\ FirstFrom(F, 0, head)
    /\ \A h \in F : FirstFrom(F, h + 1, next[h]) /\ LastBelow(F, h, prev[h])

Run(i, n) == i .. i + n - 1

\* The pages that are free, that free_list_insert has, and that allocate_pages has.
FreePages == {i \in C!Indices : \E h \in Listed : i \in Run(h, count_[h])}
HeldPages == {i \in C!Indices : \E b \in held : i \in Run(b.page, b.pages)}
Loose == IF cpc = "insert" THEN Run(ins.idx, ins.count) ELSE {}
InHand == IF pages # 0 THEN Run(page, pages) ELSE {}

IndexOrNull == C!Indices \cup {INDEX_NULL}

TableTypes ==
    /\ count_ \in [C!Indices -> Nat]
    /\ free_prev_ \in [C!Indices -> IndexOrNull]
    /\ free_next_ \in [C!Indices -> IndexOrNull]
    /\ free_head_ \in IndexOrNull
    /\ held \subseteq [page : C!Indices, pages : Nat]

\* The operation under way: it has its pages, and a freed block has no page.
OperationInv ==
    /\ cpc \in {"idle", "insert", "take"}
    /\ ins \in [idx : C!Indices, count : Nat]
    /\ cpc = "insert" => ins.count > 0 /\ ins.idx + ins.count <= TotalPages
    /\ pages \in Nat
    /\ pages # 0 => pages \in Requests /\ page \in C!Indices /\ page + pages <= TotalPages
    /\ cpc = "idle" => pages = 0
    /\ cpc = "take" => pages # 0

\* The free blocks do not touch, and their sizes are in the table.
FreeBlocks ==
    /\ \A h \in Listed : count_[h] > 0 /\ h + count_[h] <= TotalPages
    /\ \A g, h \in Listed : g < h => g + count_[g] < h

\* The blocks handed out are in the table, with the flag and with zeroes inside.
HeldBlocks ==
    /\ \A b \in held :
        /\ b.pages > 0 /\ b.page + b.pages <= TotalPages
        /\ count_[b.page] = b.pages + ALLOCATED_FLAG
        /\ \A i \in Run(b.page, b.pages) \ {b.page} : count_[i] = 0
    /\ \A b, c \in held : b # c => Run(b.page, b.pages) \cap Run(c.page, c.pages) = {}

\* Every page is in one place.
Tiles ==
    /\ \A i \in C!Indices : i \in FreePages \cup HeldPages \cup Loose \cup InHand
    /\ \A i \in FreePages : i \notin HeldPages /\ i \notin Loose /\ i \notin InHand
    /\ \A i \in HeldPages : i \notin Loose /\ i \notin InHand
    /\ \A i \in Loose : i \notin InHand

\* No page outside a block that is handed out has the flag, whatever sizes
\* coalescing has left behind.
NoStrayFlag == \A i \in C!Indices : i \notin HeldPages => count_[i] < ALLOCATED_FLAG

ChunkInv ==
    /\ TableTypes
    /\ OperationInv
    /\ Links(Listed, free_head_, free_next_, free_prev_)
    /\ FreeBlocks
    /\ HeldBlocks
    /\ Tiles
    /\ NoStrayFlag

\* A thread with a page that is not linked yet, and one with a page it has looked up.
Owning == {"taken", "init", "publish"}
Looking == {"found", "test", "head"}
Jobs == {"none", "over", "allocate", "free"} \cup Owning \cup Looking

\* An operation on the tables is some writer's.
JobInv ==
    /\ job \in [Threads -> Jobs]
    /\ \A t \in Threads : job[t] \in {"allocate", "free"} =>
        /\ pc[t] = "writing"
        /\ cpc # "idle"
        /\ job[t] = "free" <=> pages = 0
    /\ cpc # "idle" => \E t \in Threads : job[t] \in {"allocate", "free"}

\* The head of every page that is handed out is flagged or initialised, a page that
\* is not linked yet has one owner and is not freed, and a page that was looked up is
\* freed only by overtaking the call.
HeadInv ==
    /\ mine \in [Threads -> IndexOrNull]
    /\ \A b \in held : b.page \in just \cup ready
    /\ \A t \in Threads : job[t] \in Owning => mine[t] \in just /\ \E b \in held : mine[t] = b.page
    /\ \A s, t \in Threads : s # t /\ job[s] \in Owning /\ job[t] \in Owning => mine[s] # mine[t]
    /\ \A t \in Threads : job[t] = "publish" => mine[t] \in ready
    /\ \A t \in Threads : job[t] \in Looking => t \in overtaken \/ \E b \in held : mine[t] = b.page
    /\ \A t \in Threads : job[t] = "head" => t \in overtaken \/ mine[t] \in ready

\* A set of natural numbers that is not empty has a least element.
LEMMA Least ==
    ASSUME NEW S \in SUBSET Nat, S # {}
    PROVE  \E m \in S : \A k \in S : m <= k
<1> DEFINE R == OpToRel(<, Nat)
<1>1. IsWellFoundedOn(R, Nat)
  BY NatLessThanWellFounded, Zenon
<1>2. \A x, y \in Nat : x < y => <<x, y>> \in R
  BY Zenon DEF OpToRel
<1> HIDE DEF R
<1>3. PICK m \in S : \A k \in S : ~(<<k, m>> \in R)
  BY <1>1, WFMin, Zenon
<1>4. \A k \in S : ~(k < m)
  BY <1>2, <1>3, Zenon
<1>5. QED
  BY <1>4

\* A set of numbers that holds 0 and with n also n + 1, up to a bound, holds all
\* numbers up to the bound.
LEMMA UpTo ==
    ASSUME NEW N \in Nat, NEW S, 0 \in S,
           \A n \in 0 .. N - 1 : n \in S => n + 1 \in S
    PROVE  \A n \in 0 .. N : n \in S
<1> DEFINE T == {n \in 0 .. N : n \notin S}
<1>1. SUFFICES ASSUME T # {}
               PROVE  FALSE
  BY Zenon
<1>2. T \in SUBSET Nat
  OBVIOUS
<1>3. PICK m \in T : \A k \in T : m <= k
  <2> HIDE DEF T
  <2>1. QED
    BY <1>1, <1>2, Least, Zenon
<1>4. m \in 0 .. N /\ m # 0 /\ m - 1 \in 0 .. N - 1 /\ m - 1 \in S
  BY <1>3
<1>5. QED
  BY <1>3, <1>4

-----------------------------------------------------------------------------
(* Walking along the list *)

\* The numbers the walks are bounded by.
LEMMA Bounds ==
    /\ TotalPages \in Nat /\ TotalPages > 0
    /\ ALLOCATED_FLAG \in Nat /\ ALLOCATED_FLAG > TotalPages
    /\ INDEX_NULL \in Int /\ INDEX_NULL \notin C!Indices
    /\ C!Indices = 0 .. TotalPages - 1
    /\ Requests \subseteq Nat \ {0}
  BY ChunkAssumption DEF C!Indices

\* Walk begins at the head of the list and follows free_next_.
LEMMA WalkSteps ==
    /\ C!Walk[0] = free_head_
    /\ \A n \in 0 .. TotalPages - 1 :
        C!Walk[n + 1] = IF C!Walk[n] = INDEX_NULL THEN INDEX_NULL ELSE free_next_[C!Walk[n]]
  <1> DEFINE Follow(x) == IF x = INDEX_NULL THEN INDEX_NULL ELSE free_next_[x]
  <1> DEFINE Steps(f, n) == [k \in 0 .. n |-> IF k = 0 THEN free_head_ ELSE Follow(f[k - 1])]
  <1>1. TotalPages \in Nat
    BY Bounds, Zenon
  <1>2. \E f : f = Steps(f, TotalPages)
    <2> HIDE DEF Follow
    <2> DEFINE Done == {n \in 0 .. TotalPages : \E f : f = Steps(f, n)}
    <2>1. 0 \in Done
      <3> DEFINE f == [k \in 0 .. 0 |-> free_head_]
      <3>1. f = Steps(f, 0)
        OBVIOUS
      <3> HIDE DEF f
      <3> QED BY <3>1, <1>1
    <2>2. ASSUME NEW n \in 0 .. TotalPages - 1, n \in Done
          PROVE  n + 1 \in Done
      <3>1. PICK f : f = Steps(f, n)
        BY <2>2, Zenon
      <3> DEFINE g == [k \in 0 .. n + 1 |-> IF k <= n THEN f[k] ELSE Follow(f[n])]
      <3>2. g = Steps(g, n + 1)
        <4>1. SUFFICES ASSUME NEW k \in 0 .. n + 1
                       PROVE  g[k] = Steps(g, n + 1)[k]
          BY Zenon
        <4>2. CASE k = n + 1
          <5>1. g[k] = Follow(f[n]) /\ k # 0 /\ k - 1 = n /\ g[k - 1] = f[n]
            BY <4>2
          <5> QED BY <4>2, <5>1, Zenon
        <4>3. CASE k \in 0 .. n
          <5>1. g[k] = f[k] /\ f[k] = IF k = 0 THEN free_head_ ELSE Follow(f[k - 1])
            BY <3>1, <4>3
          <5>2. k # 0 => g[k - 1] = f[k - 1]
            BY <4>3
          <5> QED BY <5>1, <5>2, Zenon
        <4> QED BY <4>2, <4>3
      <3> HIDE DEF g
      <3> QED BY <1>1, <3>2
    <2>3. \A n \in 0 .. TotalPages : n \in Done
      <3> HIDE DEF Done
      <3> QED BY <1>1, <2>1, <2>2, UpTo, Zenon
    <2> QED BY <1>1, <2>3
  <1>3. PICK at : at = Steps(at, TotalPages) /\ C!Walk = at
    <2> DEFINE K == CHOOSE f : f = Steps(f, TotalPages)
    <2>1. K = Steps(K, TotalPages)
      BY <1>2, Zenon
    <2>2. C!Walk = K
      BY DEF C!Walk
    <2> HIDE DEF K
    <2> QED BY <2>1, <2>2, Zenon
  <1> HIDE DEF Follow
  <1>4. ASSUME NEW k \in 0 .. TotalPages
        PROVE  at[k] = IF k = 0 THEN free_head_ ELSE Follow(at[k - 1])
    <2>1. at[k] = Steps(at, TotalPages)[k]
      BY <1>3, Zenon
    <2> QED BY <2>1, Zenon
  <1>5. at[0] = free_head_
    BY <1>1, <1>4
  <1>6. ASSUME NEW n \in 0 .. TotalPages - 1
        PROVE  at[n + 1] = Follow(at[n])
    <2>1. n + 1 \in 0 .. TotalPages /\ n + 1 # 0 /\ n + 1 - 1 = n
      BY <1>1
    <2>2. at[n + 1] = IF n + 1 = 0 THEN free_head_ ELSE Follow(at[(n + 1) - 1])
      BY <1>4, <2>1, Zenon
    <2>3. at[(n + 1) - 1] = at[n]
      OBVIOUS
    <2> QED BY <2>1, <2>2, <2>3, Zenon
  <1> QED BY <1>3, <1>5, <1>6, Zenon DEF Follow

\* What the links say of the list.
LEMMA WalkEntries ==
    ASSUME ChunkInv
    PROVE  /\ FirstFrom(Listed, 0, C!Walk[0])
           /\ \A n \in 0 .. TotalPages : C!Walk[n] \in Listed \cup {INDEX_NULL}
           /\ \A n \in 0 .. TotalPages - 1 :
                IF C!Walk[n] = INDEX_NULL THEN C!Walk[n + 1] = INDEX_NULL
                ELSE FirstFrom(Listed, C!Walk[n] + 1, C!Walk[n + 1])
  <1>1. /\ FirstFrom(Listed, 0, free_head_)
        /\ \A h \in Listed : FirstFrom(Listed, h + 1, free_next_[h])
    BY Zenon DEF ChunkInv, Links
  <1>2. \A lo, x : FirstFrom(Listed, lo, x) => x \in Listed \cup {INDEX_NULL}
    BY Zenon DEF FirstFrom
  <1> DEFINE T == {n \in 0 .. TotalPages : C!Walk[n] \in Listed \cup {INDEX_NULL}}
  <1>3. 0 \in T
    BY Bounds, WalkSteps, <1>1, <1>2
  <1>4. ASSUME NEW n \in 0 .. TotalPages - 1, n \in T
        PROVE  n + 1 \in T
    <2>1. n + 1 \in 0 .. TotalPages
      BY Bounds
    <2>2. C!Walk[n + 1] \in Listed \cup {INDEX_NULL}
      BY <1>1, <1>2, <1>4, WalkSteps, Zenon
    <2> QED BY <2>1, <2>2, Zenon
  <1>5. \A n \in 0 .. TotalPages : n \in T
    <2> HIDE DEF T
    <2> QED BY <1>3, <1>4, UpTo, Bounds, Zenon
  <1>6. \A n \in 0 .. TotalPages - 1 : n \in 0 .. TotalPages
    BY Bounds
  <1> QED BY <1>1, <1>5, <1>6, WalkSteps, Zenon

\* The blocks are numbers.
LEMMA ListedAreIndices ==
    /\ Listed \subseteq C!Indices
    /\ \A h \in Listed : h \in Nat /\ h < TotalPages /\ h # INDEX_NULL
  BY Bounds DEF Listed

\* The walk climbs, so it is over after TotalPages steps; and it stays over.
LEMMA WalkEnds ==
    ASSUME ChunkInv
    PROVE  /\ C!Walk[TotalPages] = INDEX_NULL
           /\ \A m \in 0 .. TotalPages : C!Walk[m] = INDEX_NULL =>
                \A n \in m .. TotalPages : C!Walk[n] = INDEX_NULL
  <1>1. TotalPages \in Nat
    BY Bounds, Zenon
  <1> DEFINE T == {n \in 0 .. TotalPages : C!Walk[n] # INDEX_NULL => C!Walk[n] >= n}
  <1>2. 0 \in T
    BY <1>1, WalkEntries, ListedAreIndices
  <1>3. ASSUME NEW n \in 0 .. TotalPages - 1, n \in T
        PROVE  n + 1 \in T
    <2>1. n + 1 \in 0 .. TotalPages /\ n \in 0 .. TotalPages
      BY <1>1
    <2>2. ASSUME C!Walk[n + 1] # INDEX_NULL PROVE C!Walk[n + 1] >= n + 1
      <3>1. C!Walk[n] # INDEX_NULL /\ FirstFrom(Listed, C!Walk[n] + 1, C!Walk[n + 1])
        BY <2>2, WalkEntries, Zenon
      <3>2. C!Walk[n + 1] >= C!Walk[n] + 1
        BY <2>2, <3>1, Zenon DEF FirstFrom
      <3>3. C!Walk[n] >= n
        BY <1>3, <3>1, Zenon
      <3>4. C!Walk[n] \in Nat /\ C!Walk[n + 1] \in Nat
        BY <2>1, <2>2, <3>1, WalkEntries, ListedAreIndices, Zenon
      <3> QED BY <3>2, <3>3, <3>4
    <2> QED BY <2>1, <2>2, Zenon
  <1>4. \A n \in 0 .. TotalPages : n \in T
    <2> HIDE DEF T
    <2> QED BY <1>1, <1>2, <1>3, UpTo, Zenon
  <1>5. C!Walk[TotalPages] = INDEX_NULL
    <2>1. TotalPages \in 0 .. TotalPages
      BY <1>1
    <2>2. C!Walk[TotalPages] # INDEX_NULL => C!Walk[TotalPages] >= TotalPages
      BY <1>4, <2>1, Zenon
    <2>3. C!Walk[TotalPages] \in Listed \cup {INDEX_NULL}
      BY <2>1, WalkEntries, Zenon
    <2> QED BY <1>1, <2>2, <2>3, ListedAreIndices
  <1>6. ASSUME NEW m \in 0 .. TotalPages, C!Walk[m] = INDEX_NULL,
               NEW j \in m .. TotalPages
        PROVE  C!Walk[j] = INDEX_NULL
    <2> DEFINE U == {n \in 0 .. TotalPages : n >= m => C!Walk[n] = INDEX_NULL}
    <2>1. 0 \in U
      BY <1>1, <1>6
    <2>2. ASSUME NEW n \in 0 .. TotalPages - 1, n \in U
          PROVE  n + 1 \in U
      <3>1. n + 1 \in 0 .. TotalPages
        BY <1>1
      <3>2. CASE n >= m
        <4>1. C!Walk[n + 1] = INDEX_NULL
          BY <2>2, <3>2, WalkEntries, Zenon
        <4> QED BY <3>1, <4>1, Zenon
      <3>3. CASE n < m
        <4>1. n + 1 >= m => n + 1 = m
          BY <3>3
        <4> QED BY <1>6, <3>1, <4>1, Zenon
      <3> QED BY <3>2, <3>3
    <2>3. \A n \in 0 .. TotalPages : n \in U
      <3> HIDE DEF U
      <3> QED BY <1>1, <2>1, <2>2, UpTo, Zenon
    <2>4. j \in 0 .. TotalPages /\ j >= m
      BY <1>1
    <2> QED BY <2>3, <2>4, Zenon
  <1> QED BY <1>5, <1>6, Zenon

-----------------------------------------------------------------------------
(* What free_list_insert and free_list_find_block find *)

\* The walk of free_list_insert stops at the first block that is not below idx.
LEMMA StopFound ==
    ASSUME ChunkInv, NEW idx
    PROVE  /\ C!Stop(idx) \in 0 .. TotalPages
           /\ C!Walk[C!Stop(idx)] = INDEX_NULL \/ C!Walk[C!Stop(idx)] >= idx
           /\ \A k \in 0 .. C!Stop(idx) - 1 : C!Walk[k] # INDEX_NULL /\ ~(C!Walk[k] >= idx)
  <1> DEFINE Stops(n) == C!Walk[n] = INDEX_NULL \/ C!Walk[n] >= idx
             S == {n \in 0 .. TotalPages : Stops(n)}
  <1>1. TotalPages \in S /\ S \in SUBSET Nat
    BY Bounds, WalkEnds
  <1>2. PICK m \in S : \A k \in S : m <= k
    <2> HIDE DEF S
    <2> QED BY <1>1, Least, Zenon
  <1>3. m \in 0 .. TotalPages /\ Stops(m)
    BY <1>2, Zenon
  <1>4. \A k \in 0 .. m - 1 : k \in 0 .. TotalPages /\ ~(m <= k)
    BY <1>3, Bounds
  <1>5. \A k \in 0 .. m - 1 : ~Stops(k)
    BY <1>2, <1>4, Zenon
  <1> HIDE DEF Stops
  <1>6. \E n \in 0 .. TotalPages : Stops(n) /\ \A k \in 0 .. n - 1 : ~Stops(k)
    BY <1>3, <1>5, Zenon
  <1>7. C!Stop(idx) = CHOOSE n \in 0 .. TotalPages : Stops(n) /\ \A k \in 0 .. n - 1 : ~Stops(k)
    BY DEF C!Stop, C!FirstWhere, Stops
  <1>8. /\ C!Stop(idx) \in 0 .. TotalPages
        /\ Stops(C!Stop(idx))
        /\ \A k \in 0 .. C!Stop(idx) - 1 : ~Stops(k)
    BY <1>6, <1>7, Zenon
  <1> QED BY <1>8, Zenon DEF Stops

\* The block before and the block after the place where idx belongs.
LEMMA Neighbours ==
    ASSUME ChunkInv, NEW idx \in Nat
    PROVE  /\ FirstFrom(Listed, idx, C!After(idx))
           /\ LastBelow(Listed, idx, C!Before(idx))
  <1> DEFINE m == C!Stop(idx)
  <1>1. /\ m \in 0 .. TotalPages
        /\ C!Walk[m] = INDEX_NULL \/ C!Walk[m] >= idx
        /\ \A k \in 0 .. m - 1 : C!Walk[k] # INDEX_NULL /\ ~(C!Walk[k] >= idx)
    BY StopFound, Zenon
  <1>2. C!After(idx) = C!Walk[m] /\ C!Before(idx) = IF m = 0 THEN INDEX_NULL ELSE C!Walk[m - 1]
    BY Zenon DEF C!After, C!Before
  <1> HIDE DEF m
  <1>3. \A h \in Listed : h \in Nat /\ h # INDEX_NULL
    BY ListedAreIndices, Zenon
  <1>4. CASE m = 0
    <2>1. FirstFrom(Listed, 0, C!Walk[m])
      BY <1>4, WalkEntries, Zenon
    <2> QED BY <1>1, <1>2, <1>3, <1>4, <2>1 DEF FirstFrom, LastBelow
  <1>5. CASE m # 0
    <2>1. m - 1 \in 0 .. TotalPages - 1 /\ m - 1 \in 0 .. m - 1 /\ m - 1 \in 0 .. TotalPages
          /\ (m - 1) + 1 = m
      BY <1>1, <1>5, Bounds
    <2>2. PICK p : p = C!Walk[m - 1]
      OBVIOUS
    <2>3. p # INDEX_NULL /\ ~(p >= idx) /\ p \in Listed
      BY <1>1, <2>1, <2>2, WalkEntries, Zenon
    <2>4. FirstFrom(Listed, p + 1, C!Walk[m])
      BY <2>1, <2>2, <2>3, WalkEntries, Zenon
    <2>5. p \in Nat /\ p < idx
      BY <1>3, <2>3
    <2>6. FirstFrom(Listed, idx, C!Walk[m])
      BY <1>1, <1>3, <2>4, <2>5 DEF FirstFrom
    <2>7. LastBelow(Listed, idx, p)
      <3>1. PICK x : x = C!Walk[m]
        OBVIOUS
      <3>2. ASSUME NEW h \in Listed, h < idx PROVE h <= p
        <4>1. h \in Nat
          BY <1>3
        <4>2. CASE \A g \in Listed : g < p + 1
          BY <4>1, <4>2, <2>5
        <4>3. CASE x \in Listed /\ x >= idx /\ \A g \in Listed : g >= p + 1 => x <= g
          BY <1>3, <3>2, <4>1, <4>3, <2>5
        <4> QED BY <1>1, <1>3, <2>4, <3>1, <4>2, <4>3, Zenon DEF FirstFrom
      <3> QED BY <2>3, <2>5, <3>2, Zenon DEF LastBelow
    <2> QED BY <1>2, <1>5, <2>2, <2>6, <2>7, Zenon
  <1> QED BY <1>4, <1>5

\* The walk meets every free block and nothing else.
LEMMA FreeHeadsListed ==
    ASSUME ChunkInv
    PROVE  /\ C!FreeHeads = Listed
           /\ \A h \in Listed : \E n \in 0 .. TotalPages : C!Walk[n] = h
  <1>1. ASSUME NEW h \in Listed
        PROVE  \E n \in 0 .. TotalPages : C!Walk[n] = h
    <2>1. h \in Nat
      BY ListedAreIndices, Zenon
    <2>2. FirstFrom(Listed, h, C!After(h))
      BY <2>1, Neighbours, Zenon
    <2>3. C!After(h) = h
      <3>1. ~(h < h) /\ h >= h
        BY <2>1
      <3>2. C!After(h) \in Listed /\ C!After(h) >= h /\ C!After(h) <= h
        BY <2>2, <3>1, Zenon DEF FirstFrom
      <3>3. C!After(h) \in Nat
        BY <3>2, ListedAreIndices, Zenon
      <3> QED BY <2>1, <3>2, <3>3
    <2>4. C!Stop(h) \in 0 .. TotalPages /\ C!Walk[C!Stop(h)] = h
      BY <2>3, StopFound, Zenon DEF C!After
    <2> QED BY <2>4, Zenon
  <1>2. \A n \in 0 .. TotalPages : C!Walk[n] \in Listed \cup {INDEX_NULL}
    BY WalkEntries, Zenon
  <1>3. INDEX_NULL \notin Listed
    BY ListedAreIndices, Zenon
  <1>4. C!FreeHeads = Listed
    BY <1>1, <1>2, <1>3, Zenon DEF C!FreeHeads
  <1> QED BY <1>1, <1>4, Zenon

\* A small number is its own remainder, and the flag is cut off.
LEMMA Masked ==
    ASSUME NEW n \in Nat, n < ALLOCATED_FLAG
    PROVE  n % ALLOCATED_FLAG = n /\ (n + ALLOCATED_FLAG) % ALLOCATED_FLAG = n
  <1>1. ALLOCATED_FLAG \in Nat /\ ALLOCATED_FLAG > 0
    BY Bounds
  <1> QED BY <1>1

\* The size of a free block is in the table as it is.
LEMMA SizeOfFree ==
    ASSUME ChunkInv, NEW h \in Listed
    PROVE  /\ C!Size(h) = count_[h] /\ ~C!Allocated(h)
           /\ count_[h] \in Nat /\ count_[h] > 0 /\ h + count_[h] <= TotalPages
  <1>1. count_[h] \in Nat /\ h \in Nat
    BY ListedAreIndices, Zenon DEF ChunkInv, TableTypes
  <1>2. count_[h] > 0 /\ h + count_[h] <= TotalPages
    BY Zenon DEF ChunkInv, FreeBlocks
  <1>3. count_[h] < ALLOCATED_FLAG
    BY <1>1, <1>2, Bounds
  <1> QED BY <1>1, <1>2, <1>3, Masked, Bounds DEF C!Size, C!Allocated

\* free_list_find_block returns a free block that is large enough, if there is one.
LEMMA BlockFound ==
    ASSUME ChunkInv, NEW required
    PROVE  \/ C!FindBlock(required) \in Listed /\ C!Size(C!FindBlock(required)) >= required
           \/ C!FindBlock(required) = INDEX_NULL
              /\ \A h \in Listed : ~(C!Size(h) >= required)
  <1> DEFINE Stops(n) == C!Walk[n] = INDEX_NULL \/ C!Size(C!Walk[n]) >= required
             S == {n \in 0 .. TotalPages : Stops(n)}
  <1>1. TotalPages \in S /\ S \in SUBSET Nat
    BY Bounds, WalkEnds
  <1>2. PICK m \in S : \A k \in S : m <= k
    <2> HIDE DEF S
    <2> QED BY <1>1, Least, Zenon
  <1>3. m \in 0 .. TotalPages /\ Stops(m)
    BY <1>2, Zenon
  <1>4. \A k \in 0 .. m - 1 : k \in 0 .. TotalPages /\ ~(m <= k)
    BY <1>3, Bounds
  <1>5. \A k \in 0 .. m - 1 : ~Stops(k)
    BY <1>2, <1>4, Zenon
  <1> DEFINE P(n) == Stops(n) /\ \A k \in 0 .. n - 1 : ~Stops(k)
             c == CHOOSE n \in 0 .. TotalPages : P(n)
  <1>6. C!FindBlock(required) = C!Walk[c]
    BY DEF C!FindBlock, C!FirstWhere
  <1>7. P(m)
    BY <1>3, <1>5, Zenon
  <1>8. c \in 0 .. TotalPages /\ P(c)
    <2> HIDE DEF P
    <2> QED BY <1>3, <1>7, Zenon
  <1> HIDE DEF c
  <1>9. CASE C!Walk[c] = INDEX_NULL
    <2>1. ASSUME NEW h \in Listed, C!Size(h) >= required
          PROVE  FALSE
      <3>1. PICK n \in 0 .. TotalPages : C!Walk[n] = h
        BY FreeHeadsListed, Zenon
      <3>2. h # INDEX_NULL
        BY ListedAreIndices, Zenon
      <3>3. ~(n \in c .. TotalPages)
        BY <1>8, <1>9, <3>1, <3>2, WalkEnds, Zenon
      <3>4. n \in 0 .. c - 1
        BY <1>8, <3>3, Bounds
      <3> QED BY <1>8, <2>1, <3>1, <3>4, Zenon
    <2> QED BY <1>6, <1>9, <2>1, Zenon
  <1>10. CASE C!Walk[c] # INDEX_NULL
    <2>1. C!Walk[c] \in Listed
      BY <1>8, <1>10, WalkEntries, Zenon
    <2> QED BY <1>6, <1>8, <1>10, <2>1, Zenon
  <1> QED BY <1>9, <1>10

-----------------------------------------------------------------------------
(* Taking a block out of the list and linking one *)

\* The neighbours of a block are neighbours in both directions.
LEMMA Adjacent ==
    ASSUME NEW F \in SUBSET Nat, INDEX_NULL \notin F, NEW h \in F, NEW idx \in F
    PROVE  /\ \A p : FirstFrom(F, h + 1, idx) /\ LastBelow(F, idx, p) => p = h
           /\ \A n : LastBelow(F, h, idx) /\ FirstFrom(F, idx + 1, n) => n = h
  <1>1. h \in Nat /\ idx \in Nat /\ idx # INDEX_NULL
    OBVIOUS
  <1>2. ASSUME NEW p, FirstFrom(F, h + 1, idx), LastBelow(F, idx, p)
        PROVE  p = h
    <2>1. idx >= h + 1 /\ \A g \in F : g >= h + 1 => idx <= g
      BY <1>1, <1>2, Zenon DEF FirstFrom
    <2>2. ~(h >= idx) /\ h < idx
      BY <1>1, <2>1
    <2>3. p \in F /\ p < idx /\ h <= p
      BY <1>2, <2>2, Zenon DEF LastBelow
    <2>4. p \in Nat
      BY <2>3
    <2>5. ~(p >= h + 1)
      BY <1>1, <2>1, <2>3, <2>4
    <2> QED BY <1>1, <2>3, <2>4, <2>5
  <1>3. ASSUME NEW n, LastBelow(F, h, idx), FirstFrom(F, idx + 1, n)
        PROVE  n = h
    <2>1. idx < h /\ \A g \in F : g < h => g <= idx
      BY <1>1, <1>3, Zenon DEF LastBelow
    <2>2. ~(h < idx + 1) /\ h >= idx + 1
      BY <1>1, <2>1
    <2>3. n \in F /\ n >= idx + 1 /\ n <= h
      BY <1>3, <2>2, Zenon DEF FirstFrom
    <2>4. n \in Nat
      BY <2>3
    <2>5. ~(n < h)
      BY <1>1, <2>1, <2>3, <2>4
    <2> QED BY <1>1, <2>3, <2>4, <2>5
  <1> QED BY <1>2, <1>3, Zenon

\* Without a block, its neighbours are next to each other.
LEMMA Joined ==
    ASSUME NEW F \in SUBSET Nat, INDEX_NULL \notin F, NEW idx \in F, NEW p, NEW n,
           LastBelow(F, idx, p), FirstFrom(F, idx + 1, n)
    PROVE  /\ p # INDEX_NULL => FirstFrom(F \ {idx}, p + 1, n)
           /\ n # INDEX_NULL => LastBelow(F \ {idx}, n, p)
           /\ p = INDEX_NULL => FirstFrom(F \ {idx}, 0, n)
  <1>1. idx \in Nat /\ \A g \in F : g \in Nat
    OBVIOUS
  <1>2. \/ p = INDEX_NULL /\ \A g \in F : g >= idx
        \/ p \in F /\ p < idx /\ \A g \in F : g < idx => g <= p
    BY Zenon DEF LastBelow
  <1>3. \/ n = INDEX_NULL /\ \A g \in F : g < idx + 1
        \/ n \in F /\ n >= idx + 1 /\ \A g \in F : g >= idx + 1 => n <= g
    BY Zenon DEF FirstFrom
  <1>4. \A g \in F \ {idx} : g < idx \/ g >= idx + 1
    BY <1>1
  <1>5. ASSUME p # INDEX_NULL PROVE FirstFrom(F \ {idx}, p + 1, n)
    <2>1. p \in Nat /\ p < idx /\ \A g \in F : g < idx => g <= p
      BY <1>1, <1>2, <1>5
    <2>2. CASE n = INDEX_NULL /\ \A g \in F : g < idx + 1
      <3>1. \A g \in F \ {idx} : g < p + 1
        BY <1>1, <1>4, <2>1, <2>2
      <3> QED BY <2>2, <3>1, Zenon DEF FirstFrom
    <2>3. CASE n \in F /\ n >= idx + 1 /\ \A g \in F : g >= idx + 1 => n <= g
      <3>1. n \in F \ {idx} /\ n >= p + 1
        BY <1>1, <2>1, <2>3
      <3>2. \A g \in F \ {idx} : g >= p + 1 => n <= g
        BY <1>1, <1>4, <2>1, <2>3
      <3> QED BY <3>1, <3>2, Zenon DEF FirstFrom
    <2> QED BY <1>3, <2>2, <2>3, Zenon
  <1>6. ASSUME n # INDEX_NULL PROVE LastBelow(F \ {idx}, n, p)
    <2>1. n \in Nat /\ n >= idx + 1 /\ \A g \in F : g >= idx + 1 => n <= g
      BY <1>1, <1>3, <1>6
    <2>2. CASE p = INDEX_NULL /\ \A g \in F : g >= idx
      <3>1. \A g \in F \ {idx} : g >= n
        BY <1>1, <1>4, <2>1, <2>2
      <3> QED BY <2>2, <3>1, Zenon DEF LastBelow
    <2>3. CASE p \in F /\ p < idx /\ \A g \in F : g < idx => g <= p
      <3>1. p \in F \ {idx} /\ p < n
        BY <1>1, <2>1, <2>3
      <3>2. \A g \in F \ {idx} : g < n => g <= p
        BY <1>1, <1>4, <2>1, <2>3
      <3> QED BY <3>1, <3>2, Zenon DEF LastBelow
    <2> QED BY <1>2, <2>2, <2>3, Zenon
  <1>7. ASSUME p = INDEX_NULL PROVE FirstFrom(F \ {idx}, 0, n)
    <2>1. \A g \in F : g >= idx
      BY <1>2, <1>7, Zenon
    <2>2. CASE n = INDEX_NULL /\ \A g \in F : g < idx + 1
      <3>1. \A g \in F \ {idx} : g < 0
        BY <1>1, <1>4, <2>1, <2>2
      <3> QED BY <2>2, <3>1, Zenon DEF FirstFrom
    <2>3. CASE n \in F /\ n >= idx + 1 /\ \A g \in F : g >= idx + 1 => n <= g
      <3>1. n \in F \ {idx} /\ n >= 0
        BY <1>1, <2>3
      <3>2. \A g \in F \ {idx} : n <= g
        BY <1>1, <1>4, <2>1, <2>3
      <3> QED BY <3>1, <3>2, Zenon DEF FirstFrom
    <2> QED BY <1>3, <2>2, <2>3, Zenon
  <1> QED BY <1>5, <1>6, <1>7, Zenon

\* free_list_remove takes the block out and leaves a list in order.
LEMMA Removed ==
    ASSUME ChunkInv, NEW idx \in Listed, C!Remove(idx)
    PROVE  /\ Listed' = Listed \ {idx}
           /\ Links(Listed, free_head_, free_next_, free_prev_)'
           /\ free_prev_' \in [C!Indices -> IndexOrNull]
           /\ free_next_' \in [C!Indices -> IndexOrNull]
           /\ free_head_' \in IndexOrNull
  <1> DEFINE F == Listed
             p == free_prev_[idx]
             n == free_next_[idx]
  <1>1. F \in SUBSET Nat /\ INDEX_NULL \notin F /\ F \subseteq C!Indices
    BY ListedAreIndices
  <1>2. /\ FirstFrom(F, 0, free_head_)
        /\ \A h \in F : FirstFrom(F, h + 1, free_next_[h]) /\ LastBelow(F, h, free_prev_[h])
    BY Zenon DEF ChunkInv, Links
  <1>3. FirstFrom(F, idx + 1, n) /\ LastBelow(F, idx, p)
    BY <1>2, Zenon
  <1>4. /\ free_prev_ \in [C!Indices -> IndexOrNull]
        /\ free_next_ \in [C!Indices -> IndexOrNull]
        /\ free_head_ \in IndexOrNull
    BY Zenon DEF ChunkInv, TableTypes
  <1>5. /\ \A h \in C!Indices : free_next_'[h] = IF h = idx THEN INDEX_NULL
                                                 ELSE IF h = p THEN n ELSE free_next_[h]
        /\ \A h \in C!Indices : free_prev_'[h] = IF h = idx THEN INDEX_NULL
                                                 ELSE IF h = n THEN p ELSE free_prev_[h]
        /\ free_head_' = IF p = INDEX_NULL THEN n ELSE free_head_
    BY Zenon DEF C!Remove
  <1>6. idx \in C!Indices /\ p \in IndexOrNull /\ n \in IndexOrNull /\ INDEX_NULL \in IndexOrNull
    BY <1>1, <1>4, Zenon DEF IndexOrNull
  <1>7. /\ free_prev_' \in [C!Indices -> IndexOrNull]
        /\ free_next_' \in [C!Indices -> IndexOrNull]
        /\ free_head_' \in IndexOrNull
    BY <1>4, <1>6 DEF C!Remove
  <1> HIDE DEF F, p, n
  <1>8. idx \in F /\ \A h : h \in F <=> h \in C!Indices /\ (h = free_head_ \/ free_prev_[h] # INDEX_NULL)
    BY Zenon DEF F, Listed
  <1>9. /\ p # INDEX_NULL => p \in F /\ p < idx
        /\ n # INDEX_NULL => n \in F /\ n >= idx + 1
        /\ p = INDEX_NULL => \A h \in F : h >= idx
    BY <1>1, <1>3, Zenon DEF FirstFrom, LastBelow
  <1>10. p # idx /\ n # idx
    BY <1>1, <1>8, <1>9
  <1>11. free_head_ \in F /\ \A h \in F : free_head_ <= h
    <2>1. idx >= 0 /\ ~(idx < 0) /\ \A h \in F : h >= 0
      BY <1>1, <1>8
    <2> QED BY <1>2, <1>8, <2>1, Zenon DEF FirstFrom
  <1>12. free_head_ = idx <=> p = INDEX_NULL
    <2>1. free_head_ \in Nat /\ idx \in Nat
      BY <1>1, <1>8, <1>11
    <2>2. CASE p = INDEX_NULL
      <3>1. free_head_ >= idx /\ free_head_ <= idx
        BY <1>8, <1>9, <1>11, <2>2, Zenon
      <3> QED BY <2>1, <2>2, <3>1
    <2>3. CASE p # INDEX_NULL
      <3>1. p \in F /\ p < idx /\ free_head_ <= p /\ p \in Nat
        BY <1>1, <1>9, <1>11, <2>3
      <3> QED BY <2>1, <2>3, <3>1
    <2> QED BY <2>2, <2>3
  <1>13. ASSUME NEW h \in C!Indices
         PROVE  h = free_head_' \/ free_prev_'[h] # INDEX_NULL <=> h \in F \ {idx}
    <2>1. h # INDEX_NULL
      BY Bounds, Zenon
    <2>2. CASE h = idx
      <3>1. free_prev_'[h] = INDEX_NULL
        BY <1>5, <2>2, Zenon
      <3>2. h # free_head_'
        BY <1>5, <1>10, <1>12, <2>2, Zenon
      <3> QED BY <2>2, <3>1, <3>2, Zenon
    <2>3. CASE h # idx /\ h \in F
      <3>1. CASE h = n
        BY <1>5, <2>3, <3>1, Zenon
      <3>2. CASE h # n
        <4>1. free_prev_'[h] = free_prev_[h]
          BY <1>5, <2>3, <3>2, Zenon
        <4>2. h = free_head_ => free_head_' = free_head_
          BY <1>5, <1>12, <2>3, Zenon
        <4> QED BY <1>8, <2>3, <4>1, <4>2, Zenon
      <3> QED BY <3>1, <3>2, Zenon
    <2>4. CASE h \notin F
      <3>1. h # n
        BY <1>9, <2>1, <2>4, Zenon
      <3>2. free_prev_[h] = INDEX_NULL /\ h # free_head_
        BY <1>8, <2>4, Zenon
      <3> QED BY <1>5, <2>4, <3>1, <3>2, Zenon
    <2> QED BY <2>2, <2>3, <2>4, Zenon
  <1>14. Listed' = F \ {idx}
    <2>1. Listed' = {h \in C!Indices : h = free_head_' \/ free_prev_'[h] # INDEX_NULL}
      BY Zenon DEF Listed, C!Indices
    <2> QED BY <1>1, <1>13, <2>1, Zenon
  <1>15. FirstFrom(F \ {idx}, 0, free_head_')
    <2>1. CASE p = INDEX_NULL
      <3>1. FirstFrom(F \ {idx}, 0, n)
        BY <1>1, <1>3, <1>8, <2>1, Joined, Zenon
      <3> QED BY <1>5, <2>1, <3>1, Zenon
    <2>2. CASE p # INDEX_NULL
      <3>1. free_head_' = free_head_ /\ free_head_ \in F \ {idx}
        BY <1>5, <1>11, <1>12, <2>2, Zenon
      <3>2. free_head_ >= 0
        BY <1>1, <1>11
      <3> QED BY <1>11, <3>1, <3>2, Zenon DEF FirstFrom
    <2> QED BY <2>1, <2>2, Zenon
  <1>16. ASSUME NEW h \in F \ {idx}
         PROVE  FirstFrom(F \ {idx}, h + 1, free_next_'[h])
    <2>1. CASE h = p
      <3>1. h # INDEX_NULL
        BY <1>1, Zenon
      <3>2. FirstFrom(F \ {idx}, p + 1, n)
        BY <1>1, <1>3, <1>8, <2>1, <3>1, Joined, Zenon
      <3> QED BY <1>1, <1>5, <2>1, <3>2, Zenon
    <2>2. CASE h # p
      <3>1. free_next_'[h] = free_next_[h] /\ FirstFrom(F, h + 1, free_next_[h])
        BY <1>1, <1>2, <1>5, <2>2, Zenon
      <3>2. free_next_[h] # idx
        BY <1>1, <1>3, <1>8, <2>2, <3>1, Adjacent, Zenon
      <3> QED BY <3>1, <3>2, Zenon DEF FirstFrom
    <2> QED BY <2>1, <2>2, Zenon
  <1>17. ASSUME NEW h \in F \ {idx}
         PROVE  LastBelow(F \ {idx}, h, free_prev_'[h])
    <2>1. CASE h = n
      <3>1. h # INDEX_NULL
        BY <1>1, Zenon
      <3>2. LastBelow(F \ {idx}, n, p)
        BY <1>1, <1>3, <1>8, <2>1, <3>1, Joined, Zenon
      <3> QED BY <1>1, <1>5, <2>1, <3>2, Zenon
    <2>2. CASE h # n
      <3>1. free_prev_'[h] = free_prev_[h] /\ LastBelow(F, h, free_prev_[h])
        BY <1>1, <1>2, <1>5, <2>2, Zenon
      <3>2. free_prev_[h] # idx
        BY <1>1, <1>3, <1>8, <2>2, <3>1, Adjacent, Zenon
      <3> QED BY <3>1, <3>2, Zenon DEF LastBelow
    <2> QED BY <2>1, <2>2, Zenon
  <1>18. Links(Listed', free_head_', free_next_', free_prev_')
    BY <1>14, <1>15, <1>16, <1>17, Zenon DEF Links
  <1> QED BY <1>7, <1>14, <1>18, Zenon DEF F, Links, FirstFrom, LastBelow

\* A block that is linked between its neighbours is next to them, and the other
\* neighbours stay.
LEMMA Inserted ==
    ASSUME NEW F \in SUBSET Nat, INDEX_NULL \notin F, NEW idx \in Nat, idx \notin F,
           NEW p, NEW n, LastBelow(F, idx, p), FirstFrom(F, idx, n)
    PROVE  /\ FirstFrom(F \cup {idx}, idx + 1, n) /\ LastBelow(F \cup {idx}, idx, p)
           /\ p # INDEX_NULL => FirstFrom(F \cup {idx}, p + 1, idx)
           /\ n # INDEX_NULL => LastBelow(F \cup {idx}, n, idx)
           /\ p = INDEX_NULL => FirstFrom(F \cup {idx}, 0, idx)
           /\ p # INDEX_NULL => \A x : FirstFrom(F, 0, x) => FirstFrom(F \cup {idx}, 0, x)
           /\ \A h \in F : h # p => \A x : FirstFrom(F, h + 1, x) => FirstFrom(F \cup {idx}, h + 1, x)
           /\ \A h \in F : h # n => \A x : LastBelow(F, h, x) => LastBelow(F \cup {idx}, h, x)
  <1> DEFINE G == F \cup {idx}
  <1>1. idx \in Nat /\ \A g \in G : g \in Nat
    OBVIOUS
  <1>2. \A g \in G : g = idx \/ g \in F
    BY Zenon
  <1>3. idx \in G /\ F \subseteq G
    BY Zenon
  <1>4. \A g \in F : g < idx \/ g > idx
    BY <1>1
  <1>5. \/ p = INDEX_NULL /\ \A g \in F : g >= idx
        \/ p \in F /\ p < idx /\ \A g \in F : g < idx => g <= p
    BY Zenon DEF LastBelow
  <1>6. \/ n = INDEX_NULL /\ \A g \in F : g < idx
        \/ n \in F /\ n >= idx /\ \A g \in F : g >= idx => n <= g
    BY Zenon DEF FirstFrom
  <1> HIDE DEF G
  <1>7. FirstFrom(G, idx + 1, n)
    <2>1. CASE n = INDEX_NULL /\ \A g \in F : g < idx
      <3>1. \A g \in G : g < idx + 1
        BY <1>1, <1>2, <2>1
      <3> QED BY <2>1, <3>1, Zenon DEF FirstFrom
    <2>2. CASE n \in F /\ n >= idx /\ \A g \in F : g >= idx => n <= g
      <3>1. n \in G /\ n >= idx + 1
        BY <1>1, <1>3, <1>4, <2>2
      <3>2. \A g \in G : g >= idx + 1 => n <= g
        BY <1>1, <1>2, <2>2
      <3> QED BY <3>1, <3>2, Zenon DEF FirstFrom
    <2> QED BY <1>6, <2>1, <2>2, Zenon
  <1>8. LastBelow(G, idx, p)
    <2>1. CASE p = INDEX_NULL /\ \A g \in F : g >= idx
      <3>1. \A g \in G : g >= idx
        BY <1>1, <1>2, <2>1
      <3> QED BY <2>1, <3>1, Zenon DEF LastBelow
    <2>2. CASE p \in F /\ p < idx /\ \A g \in F : g < idx => g <= p
      <3>1. \A g \in G : g < idx => g <= p
        BY <1>1, <1>2, <2>2
      <3> QED BY <1>3, <2>2, <3>1, Zenon DEF LastBelow
    <2> QED BY <1>5, <2>1, <2>2, Zenon
  <1>9. ASSUME p # INDEX_NULL PROVE FirstFrom(G, p + 1, idx)
    <2>1. p \in F /\ p \in Nat /\ p < idx /\ \A g \in F : g < idx => g <= p
      BY <1>5, <1>9
    <2>2. idx >= p + 1
      BY <1>1, <2>1
    <2>3. \A g \in G : g >= p + 1 => idx <= g
      BY <1>1, <1>2, <1>4, <2>1
    <2> QED BY <1>3, <2>2, <2>3, Zenon DEF FirstFrom
  <1>10. ASSUME n # INDEX_NULL PROVE LastBelow(G, n, idx)
    <2>1. n \in F /\ n \in Nat /\ n >= idx /\ \A g \in F : g >= idx => n <= g
      BY <1>6, <1>10
    <2>2. idx < n
      BY <1>1, <1>4, <2>1
    <2>3. \A g \in G : g < n => g <= idx
      BY <1>1, <1>2, <1>4, <2>1
    <2> QED BY <1>3, <2>2, <2>3, Zenon DEF LastBelow
  <1>11. ASSUME p = INDEX_NULL PROVE FirstFrom(G, 0, idx)
    <2>1. \A g \in F : g >= idx
      BY <1>5, <1>11, Zenon
    <2>2. idx >= 0 /\ \A g \in G : idx <= g
      BY <1>1, <1>2, <2>1
    <2> QED BY <1>3, <2>2, Zenon DEF FirstFrom
  <1>12. ASSUME p # INDEX_NULL, NEW x, FirstFrom(F, 0, x) PROVE FirstFrom(G, 0, x)
    <2>0. p \in F /\ p < idx
      BY <1>5, <1>12, Zenon
    <2>1. p \in F /\ p \in Nat /\ p < idx /\ p >= 0 /\ ~(p < 0)
      BY <2>0
    <2>2. x \in F /\ x >= 0 /\ x <= p /\ \A g \in F : g >= 0 => x <= g
      BY <1>12, <2>1, Zenon DEF FirstFrom
    <2>3. \A g \in G : g >= 0 => x <= g
      BY <1>1, <1>2, <2>1, <2>2
    <2> QED BY <1>3, <2>2, <2>3, Zenon DEF FirstFrom
  <1>13. ASSUME NEW h \in F, h # p, NEW x, FirstFrom(F, h + 1, x) PROVE FirstFrom(G, h + 1, x)
    <2>1. CASE h < idx
      <3>1. p \in F /\ p < idx /\ h <= p /\ h \in Nat
        BY <1>1, <1>5, <2>1
      <3>2. p \in Nat /\ p >= h + 1 /\ ~(p < h + 1)
        BY <1>13, <3>1
      <3>3. x \in F /\ x >= h + 1 /\ x <= p /\ \A g \in F : g >= h + 1 => x <= g
        BY <1>13, <3>1, <3>2, Zenon DEF FirstFrom
      <3>4. \A g \in G : g >= h + 1 => x <= g
        BY <1>1, <1>2, <3>1, <3>2, <3>3
      <3> QED BY <1>3, <3>3, <3>4, Zenon DEF FirstFrom
    <2>2. CASE h > idx
      <3>1. idx < h + 1 /\ ~(idx >= h + 1)
        BY <1>1, <2>2
      <3> QED BY <1>2, <1>3, <1>13, <3>1, Zenon DEF FirstFrom
    <2> QED BY <1>4, <2>1, <2>2, Zenon
  <1>14. ASSUME NEW h \in F, h # n, NEW x, LastBelow(F, h, x) PROVE LastBelow(G, h, x)
    <2>1. CASE h > idx
      <3>1. n \in F /\ n >= idx /\ n <= h /\ h \in Nat
        BY <1>1, <1>6, <2>1
      <3>2. n \in Nat /\ n < h /\ ~(n >= h)
        BY <1>14, <3>1
      <3>3. x \in F /\ x < h /\ n <= x /\ \A g \in F : g < h => g <= x
        BY <1>14, <3>1, <3>2, Zenon DEF LastBelow
      <3>4. \A g \in G : g < h => g <= x
        BY <1>1, <1>2, <3>1, <3>2, <3>3
      <3> QED BY <1>3, <3>3, <3>4, Zenon DEF LastBelow
    <2>2. CASE h < idx
      <3>1. ~(idx < h) /\ idx >= h
        BY <1>1, <2>2
      <3> QED BY <1>2, <1>3, <1>14, <3>1, Zenon DEF LastBelow
    <2> QED BY <1>4, <2>1, <2>2, Zenon
  <1> QED BY <1>7, <1>8, <1>9, <1>10, <1>11, <1>12, <1>13, <1>14, Zenon DEF G

\* free_list_insert links a block that is not in the list at its place.
LEMMA Linked ==
    ASSUME ChunkInv, NEW idx \in C!Indices, idx \notin Listed,
           NEW p, NEW n, LastBelow(Listed, idx, p), FirstFrom(Listed, idx, n),
           free_prev_' = [i \in C!Indices |-> IF i = idx THEN p
                                              ELSE IF i = n THEN idx ELSE free_prev_[i]],
           free_next_' = [i \in C!Indices |-> IF i = idx THEN n
                                              ELSE IF i = p THEN idx ELSE free_next_[i]],
           free_head_' = IF p = INDEX_NULL THEN idx ELSE free_head_
    PROVE  /\ Listed' = Listed \cup {idx}
           /\ Links(Listed, free_head_, free_next_, free_prev_)'
           /\ free_prev_' \in [C!Indices -> IndexOrNull]
           /\ free_next_' \in [C!Indices -> IndexOrNull]
           /\ free_head_' \in IndexOrNull
  <1> DEFINE F == Listed
  <1>1. F \in SUBSET Nat /\ INDEX_NULL \notin F /\ F \subseteq C!Indices /\ idx \in Nat
    BY ListedAreIndices, Bounds
  <1>2. /\ FirstFrom(F, 0, free_head_)
        /\ \A h \in F : FirstFrom(F, h + 1, free_next_[h]) /\ LastBelow(F, h, free_prev_[h])
    BY Zenon DEF ChunkInv, Links
  <1>3. FirstFrom(F, idx, n) /\ LastBelow(F, idx, p) /\ idx \notin F
    BY Zenon
  <1>4. /\ free_prev_ \in [C!Indices -> IndexOrNull]
        /\ free_next_ \in [C!Indices -> IndexOrNull]
        /\ free_head_ \in IndexOrNull
    BY Zenon DEF ChunkInv, TableTypes
  <1>5. /\ \A h \in C!Indices : free_next_'[h] = IF h = idx THEN n
                                                 ELSE IF h = p THEN idx ELSE free_next_[h]
        /\ \A h \in C!Indices : free_prev_'[h] = IF h = idx THEN p
                                                 ELSE IF h = n THEN idx ELSE free_prev_[h]
    BY Zenon
  <1>6. /\ p # INDEX_NULL => p \in F
        /\ n # INDEX_NULL => n \in F
        /\ p = INDEX_NULL => \A h \in F : h >= idx
    BY <1>1, <1>3, Zenon DEF FirstFrom, LastBelow
  <1>7. p \in IndexOrNull /\ n \in IndexOrNull /\ idx \in IndexOrNull
    BY <1>1, <1>6, Zenon DEF IndexOrNull
  <1>8. /\ free_prev_' \in [C!Indices -> IndexOrNull]
        /\ free_next_' \in [C!Indices -> IndexOrNull]
        /\ free_head_' \in IndexOrNull
    BY <1>4, <1>7
  <1> HIDE DEF F
  <1>9. \A h : h \in F <=> h \in C!Indices /\ (h = free_head_ \/ free_prev_[h] # INDEX_NULL)
    BY Zenon DEF F, Listed
  <1>10. p = INDEX_NULL /\ free_head_ # INDEX_NULL => free_head_ = n
    <2>1. SUFFICES ASSUME p = INDEX_NULL, free_head_ # INDEX_NULL PROVE free_head_ = n
      BY Zenon
    <2>2. free_head_ \in F /\ \A h \in F : h >= 0 => free_head_ <= h
      BY <1>2, <2>1, Zenon DEF FirstFrom
    <2>3. free_head_ \in Nat /\ free_head_ >= idx /\ ~(free_head_ < idx)
      BY <1>1, <1>6, <2>1, <2>2
    <2>4. n \in F /\ n <= free_head_
      BY <1>3, <2>2, <2>3, Zenon DEF FirstFrom
    <2>5. n \in Nat /\ n >= 0
      BY <1>1, <2>4
    <2>6. free_head_ <= n
      BY <2>2, <2>4, <2>5, Zenon
    <2> QED BY <2>3, <2>4, <2>5, <2>6
  <1>11. ASSUME NEW h \in C!Indices
         PROVE  h = free_head_' \/ free_prev_'[h] # INDEX_NULL <=> h \in F \cup {idx}
    <2>1. h # INDEX_NULL /\ idx # INDEX_NULL
      BY Bounds, Zenon
    <2>2. CASE h = idx
      <3>1. free_prev_'[h] = p
        BY <1>5, <2>2, Zenon
      <3> QED BY <2>2, <3>1, Zenon
    <2>3. CASE h # idx /\ h \in F
      <3>1. CASE h = n
        BY <1>5, <2>1, <2>3, <3>1, Zenon
      <3>2. CASE h # n
        <4>1. free_prev_'[h] = free_prev_[h]
          BY <1>5, <2>3, <3>2, Zenon
        <4>2. h = free_head_ => free_head_' = free_head_
          BY <1>10, <2>1, <3>2, Zenon
        <4> QED BY <1>9, <2>3, <4>1, <4>2, Zenon
      <3> QED BY <3>1, <3>2, Zenon
    <2>4. CASE h # idx /\ h \notin F
      <3>1. h # n
        BY <1>6, <2>1, <2>4, Zenon
      <3>2. free_prev_[h] = INDEX_NULL /\ h # free_head_
        BY <1>9, <2>4, Zenon
      <3> QED BY <1>5, <2>4, <3>1, <3>2, Zenon
    <2> QED BY <2>2, <2>3, <2>4, Zenon
  <1>12. Listed' = F \cup {idx}
    <2>1. Listed' = {h \in C!Indices : h = free_head_' \/ free_prev_'[h] # INDEX_NULL}
      BY Zenon DEF Listed, C!Indices
    <2> QED BY <1>1, <1>11, <2>1, Zenon
  <1>13. /\ FirstFrom(F \cup {idx}, idx + 1, n) /\ LastBelow(F \cup {idx}, idx, p)
         /\ p # INDEX_NULL => FirstFrom(F \cup {idx}, p + 1, idx)
         /\ n # INDEX_NULL => LastBelow(F \cup {idx}, n, idx)
         /\ p = INDEX_NULL => FirstFrom(F \cup {idx}, 0, idx)
         /\ p # INDEX_NULL => FirstFrom(F \cup {idx}, 0, free_head_)
         /\ \A h \in F : h # p => FirstFrom(F \cup {idx}, h + 1, free_next_[h])
         /\ \A h \in F : h # n => LastBelow(F \cup {idx}, h, free_prev_[h])
    BY <1>1, <1>2, <1>3, Inserted, Zenon
  <1>14. FirstFrom(F \cup {idx}, 0, free_head_')
    BY <1>13, Zenon
  <1>15. ASSUME NEW h \in F \cup {idx}
         PROVE  /\ FirstFrom(F \cup {idx}, h + 1, free_next_'[h])
                /\ LastBelow(F \cup {idx}, h, free_prev_'[h])
    <2>1. h \in C!Indices /\ h # INDEX_NULL
      BY <1>1, Bounds, Zenon
    <2>2. CASE h = idx
      BY <1>5, <1>13, <2>1, <2>2, Zenon
    <2>3. CASE h # idx /\ h \in F
      <3>1. FirstFrom(F \cup {idx}, h + 1, free_next_'[h])
        BY <1>5, <1>13, <2>1, <2>3, Zenon
      <3>2. LastBelow(F \cup {idx}, h, free_prev_'[h])
        BY <1>5, <1>13, <2>1, <2>3, Zenon
      <3> QED BY <3>1, <3>2, Zenon
    <2> QED BY <2>2, <2>3, Zenon
  <1>16. Links(Listed', free_head_', free_next_', free_prev_')
    BY <1>12, <1>14, <1>15, Zenon DEF Links
  <1> QED BY <1>8, <1>12, <1>16, Zenon DEF F, Links, FirstFrom, LastBelow

-----------------------------------------------------------------------------
(* Where the pages are *)

\* The blocks lie where their sizes say.
LEMMA Places ==
    ASSUME ChunkInv
    PROVE  /\ \A h \in Listed : h \in Run(h, count_[h]) /\ Run(h, count_[h]) \subseteq FreePages
           /\ \A b \in held : b.page \in Run(b.page, b.pages) /\ Run(b.page, b.pages) \subseteq HeldPages
           /\ \A g, h \in Listed : g # h => Run(g, count_[g]) \cap Run(h, count_[h]) = {}
           /\ \A b \in held : b.page \in C!Indices /\ b.page \in Nat /\ b.pages \in Nat /\ b.pages > 0
           /\ FreePages \subseteq C!Indices /\ HeldPages \subseteq C!Indices
  <1>1. ASSUME NEW h \in Listed
        PROVE  h \in Run(h, count_[h]) /\ Run(h, count_[h]) \subseteq FreePages
    <2>1. h \in Nat /\ count_[h] \in Nat /\ count_[h] > 0 /\ h + count_[h] <= TotalPages
      BY ListedAreIndices, SizeOfFree, Zenon
    <2>2. h \in Run(h, count_[h]) /\ Run(h, count_[h]) \subseteq C!Indices
      BY <2>1, Bounds DEF Run
    <2> QED BY <2>2, Zenon DEF FreePages
  <1>2. ASSUME NEW b \in held
        PROVE  /\ b.page \in C!Indices /\ b.page \in Nat /\ b.pages \in Nat /\ b.pages > 0
               /\ b.page \in Run(b.page, b.pages) /\ Run(b.page, b.pages) \subseteq HeldPages
    <2>1. b \in [page : C!Indices, pages : Nat]
      BY Zenon DEF ChunkInv, TableTypes
    <2>2. b.pages > 0 /\ b.page + b.pages <= TotalPages
      BY Zenon DEF ChunkInv, HeldBlocks
    <2>3. b.page \in C!Indices /\ b.page \in Nat /\ b.pages \in Nat
      BY <2>1, Bounds
    <2>4. b.page \in Run(b.page, b.pages) /\ Run(b.page, b.pages) \subseteq C!Indices
      BY <2>2, <2>3, Bounds DEF Run
    <2> QED BY <2>2, <2>3, <2>4, Zenon DEF HeldPages
  <1>3. ASSUME NEW g \in Listed, NEW h \in Listed, g # h
        PROVE  Run(g, count_[g]) \cap Run(h, count_[h]) = {}
    <2>1. g \in Nat /\ h \in Nat /\ count_[g] \in Nat /\ count_[h] \in Nat
      BY ListedAreIndices, SizeOfFree, Zenon
    <2>2. (g < h => g + count_[g] < h) /\ (h < g => h + count_[h] < g)
      BY Zenon DEF ChunkInv, FreeBlocks
    <2> QED BY <1>3, <2>1, <2>2 DEF Run
  <1> QED BY <1>1, <1>2, <1>3, Zenon DEF FreePages, HeldPages

\* What the next state says of the pages, from the tables alone.
LEMMA NextPages ==
    /\ FreePages' = {i \in C!Indices : \E h \in Listed' : i \in Run(h, count_'[h])}
    /\ HeldPages' = {i \in C!Indices : \E b \in held' : i \in Run(b.page, b.pages)}
    /\ Loose' = IF cpc' = "insert" THEN Run(ins'.idx, ins'.count) ELSE {}
    /\ InHand' = IF pages' # 0 THEN Run(page', pages') ELSE {}
    /\ IndexOrNull' = IndexOrNull
    /\ C!Indices' = C!Indices
  BY DEF FreePages, HeldPages, Loose, InHand, IndexOrNull, C!Indices, Run

\* A block that leaves the list takes its pages along.
LEMMA ListShrinks ==
    ASSUME ChunkInv, NEW idx \in Listed, Listed' = Listed \ {idx},
           \A h \in Listed \ {idx} : count_'[h] = count_[h]
    PROVE  FreePages' = FreePages \ Run(idx, count_[idx]) /\ FreeBlocks'
  <1>1. \A g \in Listed : g # idx => Run(g, count_[g]) \cap Run(idx, count_[idx]) = {}
    BY Places, Zenon
  <1>2. FreePages' = FreePages \ Run(idx, count_[idx])
    <2>1. FreePages' = {i \in C!Indices : \E h \in Listed \ {idx} : i \in Run(h, count_[h])}
      BY NextPages, Zenon
    <2>2. ASSUME NEW i PROVE i \in FreePages' <=> i \in FreePages /\ i \notin Run(idx, count_[idx])
      <3>1. \A h \in Listed \ {idx} : i \in Run(h, count_[h]) => i \notin Run(idx, count_[idx])
        BY <1>1, Zenon
      <3> QED BY <2>1, <3>1, Zenon DEF FreePages
    <2> QED BY <2>2, Zenon
  <1>3. FreeBlocks'
    BY Zenon DEF FreeBlocks, ChunkInv
  <1> QED BY <1>2, <1>3, Zenon

\* A block that joins the list brings its pages, and touches no other if it
\* touches neither neighbour.
LEMMA ListGrows ==
    ASSUME ChunkInv, NEW idx \in C!Indices, NEW n \in Nat, n > 0, idx + n <= TotalPages,
           Listed' = Listed \cup {idx}, idx \notin Listed,
           count_' = [count_ EXCEPT ![idx] = n],
           \A g \in Listed : g < idx => g + count_[g] < idx,
           \A h \in Listed : idx < h => idx + n < h
    PROVE  FreePages' = FreePages \cup Run(idx, n) /\ FreeBlocks'
  <1>1. count_ \in [C!Indices -> Nat] /\ idx \in Nat
    BY Bounds DEF ChunkInv, TableTypes
  <1>2. count_'[idx] = n /\ \A h \in Listed : count_'[h] = count_[h] /\ h \in Nat
    BY <1>1, ListedAreIndices
  <1>3. Run(idx, n) \subseteq C!Indices
    BY <1>1, Bounds DEF Run
  <1>4. FreePages' = FreePages \cup Run(idx, n)
    BY <1>2, <1>3, NextPages, Zenon DEF FreePages
  <1>5. ASSUME NEW h \in Listed' PROVE count_'[h] > 0 /\ h + count_'[h] <= TotalPages
    BY <1>2, Zenon DEF FreeBlocks, ChunkInv
  <1>6. ASSUME NEW g \in Listed', NEW h \in Listed', g < h
        PROVE  g + count_'[g] < h
    <2>1. ~(idx < idx)
      BY <1>1
    <2> QED BY <1>2, <1>6, <2>1, Zenon DEF FreeBlocks, ChunkInv
  <1> QED BY <1>4, <1>5, <1>6, Zenon DEF FreeBlocks

\* The free blocks stay as they are when neither the list nor their sizes change.
LEMMA ListStays ==
    ASSUME ChunkInv, UNCHANGED <<free_prev_, free_next_, free_head_>>,
           \A i \in FreePages : count_'[i] = count_[i]
    PROVE  /\ Listed' = Listed /\ FreePages' = FreePages
           /\ FreeBlocks' /\ Links(Listed, free_head_, free_next_, free_prev_)'
           /\ free_prev_' \in [C!Indices -> IndexOrNull]
           /\ free_next_' \in [C!Indices -> IndexOrNull]
           /\ free_head_' \in IndexOrNull
  <1>1. Listed' = Listed
    BY DEF Listed, C!Indices
  <1>2. \A h \in Listed : count_'[h] = count_[h]
    BY Places, Zenon
  <1>3. FreePages' = FreePages
    BY <1>1, <1>2, NextPages, Zenon DEF FreePages
  <1>4. FreeBlocks'
    BY <1>1, <1>2, Zenon DEF FreeBlocks, ChunkInv
  <1>5. Links(Listed', free_head_', free_next_', free_prev_')
    BY <1>1, Zenon DEF ChunkInv
  <1>6. /\ free_prev_' \in [C!Indices -> IndexOrNull]
        /\ free_next_' \in [C!Indices -> IndexOrNull]
        /\ free_head_' \in IndexOrNull
    BY Zenon DEF ChunkInv, TableTypes
  <1> QED BY <1>1, <1>3, <1>4, <1>5, <1>6, Zenon DEF Links, FirstFrom, LastBelow

\* The blocks handed out stay as they are when their part of the table does.
LEMMA HeldStays ==
    ASSUME ChunkInv, held' = held, \A i \in HeldPages : count_'[i] = count_[i]
    PROVE  /\ HeldPages' = HeldPages /\ HeldBlocks'
           /\ held' \subseteq [page : C!Indices, pages : Nat]
  <1>1. HeldPages' = HeldPages
    BY NextPages, Zenon DEF HeldPages
  <1>2. ASSUME NEW b \in held
        PROVE  /\ b.pages > 0 /\ b.page + b.pages <= TotalPages
               /\ count_'[b.page] = b.pages + ALLOCATED_FLAG
               /\ \A i \in Run(b.page, b.pages) \ {b.page} : count_'[i] = 0
    <2>1. \A i \in Run(b.page, b.pages) : count_'[i] = count_[i]
      BY Places, Zenon
    <2> QED BY <2>1, Places, Zenon DEF HeldBlocks, ChunkInv
  <1>3. HeldBlocks'
    BY <1>2, Zenon DEF HeldBlocks, ChunkInv, Run
  <1> QED BY <1>1, <1>3, Zenon DEF ChunkInv, TableTypes

-----------------------------------------------------------------------------
(* The operations keep the invariant *)

\* A step that leaves the tables and the operation alone.
LEMMA Untouched ==
    ASSUME ChunkInv,
           UNCHANGED <<count_, free_prev_, free_next_, free_head_, cpc, ins, page, pages, held>>
    PROVE  ChunkInv'
  <1>1. /\ Listed' = Listed /\ FreePages' = FreePages
        /\ FreeBlocks' /\ Links(Listed, free_head_, free_next_, free_prev_)'
        /\ free_prev_' \in [C!Indices -> IndexOrNull]
        /\ free_next_' \in [C!Indices -> IndexOrNull]
        /\ free_head_' \in IndexOrNull
    BY ListStays, Zenon
  <1>2. HeldPages' = HeldPages /\ HeldBlocks' /\ held' \subseteq [page : C!Indices, pages : Nat]
    BY HeldStays, Zenon
  <1>3. TableTypes'
    BY <1>1, <1>2, NextPages, Zenon DEF TableTypes, ChunkInv
  <1>4. OperationInv'
    BY NextPages, Zenon DEF OperationInv, ChunkInv
  <1>5. Loose' = Loose /\ InHand' = InHand
    BY NextPages, Zenon DEF Loose, InHand
  <1>6. Tiles'
    BY <1>1, <1>2, <1>5, NextPages, Zenon DEF Tiles, ChunkInv
  <1>7. NoStrayFlag'
    BY <1>2, NextPages, Zenon DEF NoStrayFlag, ChunkInv
  <1> QED BY <1>1, <1>2, <1>3, <1>4, <1>6, <1>7, Zenon DEF ChunkInv

\* allocate_pages takes the block off the list and puts the rest in the hands of
\* free_list_insert.
LEMMA AllocateKeeps ==
    ASSUME ChunkInv, NEW required \in Requests, C!AllocatePages(required)
    PROVE  ChunkInv'
  <1> DEFINE idx == C!FindBlock(required)
             all == count_[idx]
             rest == all - required
  <1>1. idx \in Listed /\ C!Size(idx) >= required
    BY BlockFound, Zenon DEF C!AllocatePages
  <1>2. /\ C!Size(idx) = all /\ all \in Nat /\ all >= required /\ idx + all <= TotalPages
        /\ idx \in Nat /\ idx \in C!Indices /\ required \in Nat /\ required > 0
    <2>1. C!Size(idx) = all /\ all \in Nat /\ idx + all <= TotalPages
      BY <1>1, SizeOfFree, Zenon
    <2>2. idx \in Nat /\ idx \in C!Indices
      BY <1>1, ListedAreIndices, Zenon
    <2>3. required \in Nat /\ required > 0
      BY Bounds
    <2> QED BY <1>1, <2>1, <2>2, <2>3, Zenon
  <1>3. /\ cpc = "idle" /\ C!Remove(idx) /\ page' = idx /\ pages' = required /\ held' = held
        /\ IF all > required
           THEN /\ count_' = C!Sized(idx + required, rest, rest)
                /\ ins' = [idx |-> idx + required, count |-> rest]
                /\ cpc' = "insert"
           ELSE cpc' = "take" /\ count_' = count_ /\ ins' = ins
    BY <1>2, Zenon DEF C!AllocatePages, C!HasRest
  <1> HIDE DEF idx
  <1>4. /\ Listed' = Listed \ {idx}
        /\ Links(Listed, free_head_, free_next_, free_prev_)'
        /\ free_prev_' \in [C!Indices -> IndexOrNull]
        /\ free_next_' \in [C!Indices -> IndexOrNull]
        /\ free_head_' \in IndexOrNull
    BY <1>1, <1>3, Removed, Zenon
  <1>5. count_ \in [C!Indices -> Nat]
    BY Zenon DEF ChunkInv, TableTypes
  <1>6. /\ count_' \in [C!Indices -> Nat]
        /\ \A i \in C!Indices : i \notin Run(idx, all) => count_'[i] = count_[i]
        /\ \A i \in C!Indices : count_'[i] <= count_[i] \/ count_'[i] <= rest
    <2>1. CASE all > required
      <3>1. rest \in Nat /\ rest > 0 /\ rest < all
        BY <1>2, <2>1
      <3>2. count_' = [i \in C!Indices |-> IF i = idx + required THEN rest
                          ELSE IF i \in idx + required + 1 .. idx + required + rest - 1
                          THEN 0 ELSE count_[i]]
        BY <1>3, <2>1, Zenon DEF C!Sized
      <3> HIDE DEF rest
      <3>3. \A i \in C!Indices : i \notin Run(idx, all) =>
              i # idx + required /\ i \notin idx + required + 1 .. idx + required + rest - 1
        BY <1>2, <2>1, Bounds DEF Run, rest
      <3> HIDE DEF all
      <3>4. count_' \in [C!Indices -> Nat]
        BY <1>5, <3>1, <3>2
      <3>5. \A i \in C!Indices : count_'[i] = rest \/ count_'[i] = 0 \/ count_'[i] = count_[i]
        BY <3>2, Zenon
      <3>6. \A i \in C!Indices : count_[i] \in Nat
        BY <1>5, Zenon
      <3>7. \A i \in C!Indices : count_'[i] <= count_[i] \/ count_'[i] <= rest
        BY <3>1, <3>5, <3>6
      <3> QED BY <3>2, <3>3, <3>4, <3>7, Zenon
    <2>2. CASE ~(all > required)
      <3>1. count_' = count_ /\ \A i \in C!Indices : count_[i] \in Nat
        BY <1>3, <1>5, <2>2, Zenon
      <3>2. \A i \in C!Indices : count_'[i] <= count_[i]
        BY <3>1
      <3> QED BY <1>5, <3>1, <3>2, Zenon
    <2> QED BY <2>1, <2>2, Zenon
  <1>7. /\ Run(idx, all) \subseteq FreePages
        /\ \A h \in Listed : h # idx => h \notin Run(idx, all)
    BY <1>1, Places, Zenon
  <1>8. FreePages' = FreePages \ Run(idx, all) /\ FreeBlocks'
    <2>1. \A h \in Listed \ {idx} : count_'[h] = count_[h]
      BY <1>6, <1>7, ListedAreIndices, Zenon
    <2> QED BY <1>1, <1>4, <2>1, ListShrinks, Zenon
  <1>9. HeldPages' = HeldPages /\ HeldBlocks' /\ held' \subseteq [page : C!Indices, pages : Nat]
    <2>1. \A i \in HeldPages : i \in C!Indices /\ i \notin Run(idx, all)
      BY <1>7, Places, Zenon DEF ChunkInv, Tiles
    <2> QED BY <1>3, <1>6, <2>1, HeldStays, Zenon
  <1>10. TableTypes'
    BY <1>4, <1>6, <1>9, NextPages, Zenon DEF TableTypes
  <1>11. pages = 0 /\ Loose = {} /\ InHand = {}
    BY <1>3, Zenon DEF ChunkInv, OperationInv, Loose, InHand
  <1>12. Loose' \cup InHand' = Run(idx, all) /\ Loose' \cap InHand' = {}
    <2>1. InHand' = Run(idx, required)
      BY <1>2, <1>3, NextPages
    <2>2. CASE all > required
      <3>1. Loose' = Run(idx + required, rest)
        BY <1>3, <2>2, NextPages
      <3> QED BY <1>2, <2>1, <2>2, <3>1 DEF Run
    <2>3. CASE ~(all > required)
      <3>1. Loose' = {} /\ all = required
        BY <1>2, <1>3, <2>3, NextPages
      <3> QED BY <2>1, <3>1, Zenon
    <2> QED BY <2>2, <2>3, Zenon
  <1>13. OperationInv'
    <2>1. ins \in [idx : C!Indices, count : Nat]
      BY Zenon DEF ChunkInv, OperationInv
    <2>2. idx + required <= TotalPages /\ required # 0
      BY <1>2, Bounds
    <2>3. CASE all > required
      <3>1. /\ ins' = [idx |-> idx + required, count |-> rest] /\ cpc' = "insert"
            /\ idx + required \in C!Indices /\ rest \in Nat /\ rest > 0
            /\ idx + required + rest <= TotalPages
        BY <1>2, <1>3, <2>3, Bounds
      <3> HIDE DEF rest, all
      <3> QED BY <1>2, <1>3, <2>2, <3>1, NextPages DEF OperationInv
    <2>4. CASE ~(all > required)
      BY <1>2, <1>3, <2>1, <2>2, <2>4, NextPages DEF OperationInv
    <2> QED BY <2>3, <2>4, Zenon
  <1> HIDE DEF all, rest
  <1>14. Tiles'
    <2>1. /\ \A i \in C!Indices : i \in FreePages \cup HeldPages
          /\ \A i \in FreePages : i \notin HeldPages
      BY <1>11, Zenon DEF ChunkInv, Tiles
    <2>2. \A i : i \in Run(idx, all) <=> i \in Loose' \/ i \in InHand'
      BY <1>12, Zenon
    <2>3. \A i : i \in FreePages' <=> i \in FreePages /\ i \notin Run(idx, all)
      BY <1>8, Zenon
    <2>4. \A i \in Loose' : i \notin InHand'
      BY <1>12, Zenon
    <2> QED BY <1>7, <1>9, <2>1, <2>2, <2>3, <2>4, NextPages, Zenon DEF Tiles
  <1>15. NoStrayFlag'
    <2>1. ASSUME NEW i \in C!Indices, i \notin HeldPages PROVE count_'[i] < ALLOCATED_FLAG
      <3>1. count_[i] < ALLOCATED_FLAG
        BY <2>1, Zenon DEF ChunkInv, NoStrayFlag
      <3>2. rest < ALLOCATED_FLAG
        BY <1>2, Bounds DEF rest
      <3>3. count_'[i] \in Nat /\ count_[i] \in Nat /\ rest \in Int
        BY <1>2, <1>5, <1>6 DEF rest
      <3>4. count_'[i] <= count_[i] \/ count_'[i] <= rest
        BY <1>6, Zenon
      <3> QED BY <3>1, <3>2, <3>3, <3>4, Bounds
    <2> QED BY <1>9, <2>1, NextPages, Zenon DEF NoStrayFlag
  <1> QED BY <1>4, <1>8, <1>9, <1>10, <1>13, <1>14, <1>15, Zenon DEF ChunkInv

\* The block in hand becomes a block that is handed out.
LEMMA TakeKeeps ==
    ASSUME ChunkInv, C!TakeBlock
    PROVE  ChunkInv'
  <1> DEFINE b == [page |-> page, pages |-> pages]
  <1>1. /\ cpc = "take" /\ cpc' = "idle" /\ pages' = 0
        /\ held' = held \cup {b} /\ ins' = ins
        /\ count_' = C!Sized(page, pages, pages + ALLOCATED_FLAG)
        /\ UNCHANGED <<free_prev_, free_next_, free_head_>>
    BY Zenon DEF C!TakeBlock, C!listVars
  <1>2. /\ pages \in Nat /\ pages > 0 /\ page \in C!Indices /\ page \in Nat
        /\ page + pages <= TotalPages
        /\ InHand = Run(page, pages) /\ Loose = {}
    <2>1. pages \in Nat /\ pages # 0 /\ page \in C!Indices /\ page + pages <= TotalPages
      BY <1>1, Zenon DEF ChunkInv, OperationInv
    <2>2. InHand = Run(page, pages) /\ Loose = {}
      BY <1>1, <2>1, Zenon DEF InHand, Loose
    <2> QED BY <2>1, <2>2, Bounds
  <1>3. /\ count_ \in [C!Indices -> Nat]
        /\ count_' = [i \in C!Indices |-> IF i = page THEN pages + ALLOCATED_FLAG
                          ELSE IF i \in page + 1 .. page + pages - 1 THEN 0 ELSE count_[i]]
    BY <1>1, Zenon DEF ChunkInv, TableTypes, C!Sized
  <1>4. /\ count_' \in [C!Indices -> Nat]
        /\ count_'[page] = pages + ALLOCATED_FLAG
        /\ \A i \in Run(page, pages) \ {page} : count_'[i] = 0
        /\ \A i \in C!Indices : i \notin Run(page, pages) => count_'[i] = count_[i]
    <2>1. /\ \A i \in Run(page, pages) : i = page \/ i \in page + 1 .. page + pages - 1
          /\ \A i \in C!Indices : i \notin Run(page, pages) =>
                i # page /\ i \notin page + 1 .. page + pages - 1
          /\ Run(page, pages) \subseteq C!Indices
      BY <1>2, Bounds DEF Run
    <2>2. count_' \in [C!Indices -> Nat]
      BY <1>2, <1>3, Bounds
    <2> QED BY <1>2, <1>3, <2>1, <2>2, Zenon
  <1>5. \A i \in Run(page, pages) : i \notin FreePages /\ i \notin HeldPages /\ i \in C!Indices
    <2>1. \A i \in InHand : i \notin FreePages /\ i \notin HeldPages
      BY Zenon DEF ChunkInv, Tiles
    <2>2. Run(page, pages) \subseteq C!Indices
      BY <1>2, Bounds DEF Run
    <2> QED BY <1>2, <2>1, <2>2, Zenon
  <1>6. \A i : i \in FreePages \/ i \in HeldPages => i \in C!Indices /\ count_'[i] = count_[i]
    BY <1>4, <1>5, Places, Zenon
  <1>7. /\ Listed' = Listed /\ FreePages' = FreePages
        /\ FreeBlocks' /\ Links(Listed, free_head_, free_next_, free_prev_)'
        /\ free_prev_' \in [C!Indices -> IndexOrNull]
        /\ free_next_' \in [C!Indices -> IndexOrNull]
        /\ free_head_' \in IndexOrNull
    BY <1>1, <1>6, ListStays, Zenon
  <1>8. b.page = page /\ b.pages = pages /\ b \in [page : C!Indices, pages : Nat]
    BY <1>2
  <1> HIDE DEF b
  <1>9. HeldPages' = HeldPages \cup Run(page, pages)
    <2>1. HeldPages' = {i \in C!Indices : \E c \in held \cup {b} : i \in Run(c.page, c.pages)}
      BY <1>1, NextPages, Zenon
    <2>2. ASSUME NEW i PROVE i \in HeldPages' <=> i \in HeldPages \/ i \in Run(page, pages)
      BY <1>5, <1>8, <2>1, Zenon DEF HeldPages
    <2> QED BY <2>2, Zenon
  <1>10. HeldBlocks'
    <2>1. ASSUME NEW c \in held'
          PROVE  /\ c.pages > 0 /\ c.page + c.pages <= TotalPages
                 /\ count_'[c.page] = c.pages + ALLOCATED_FLAG
                 /\ \A i \in Run(c.page, c.pages) \ {c.page} : count_'[i] = 0
      <3>1. CASE c = b
        BY <1>2, <1>4, <1>8, <3>1, Zenon
      <3>2. CASE c \in held
        <4>1. \A i \in Run(c.page, c.pages) : count_'[i] = count_[i]
          BY <1>6, <3>2, Places, Zenon
        <4> QED BY <3>2, <4>1, Places, Zenon DEF HeldBlocks, ChunkInv
      <3> QED BY <1>1, <3>1, <3>2, Zenon
    <2>2. ASSUME NEW c \in held', NEW d \in held', c # d
          PROVE  Run(c.page, c.pages) \cap Run(d.page, d.pages) = {}
      <3>1. ASSUME NEW e \in held PROVE Run(e.page, e.pages) \cap Run(b.page, b.pages) = {}
        BY <1>5, <1>8, Places, Zenon
      <3>2. CASE c \in held /\ d \in held
        BY <2>2, <3>2, Zenon DEF ChunkInv, HeldBlocks
      <3>3. CASE c = b \/ d = b
        BY <1>1, <2>2, <3>1, <3>3, Zenon
      <3> QED BY <1>1, <3>2, <3>3, Zenon
    <2> QED BY <2>1, <2>2, Zenon DEF HeldBlocks, Run
  <1>11. TableTypes'
    <2>1. held' \subseteq [page : C!Indices, pages : Nat]
      BY <1>1, <1>8, Zenon DEF ChunkInv, TableTypes
    <2> QED BY <1>4, <1>7, <2>1, NextPages, Zenon DEF TableTypes
  <1>12. OperationInv'
    BY <1>1, NextPages DEF OperationInv, ChunkInv
  <1>13. Loose' = {} /\ InHand' = {}
    BY <1>1, NextPages
  <1>14. Tiles'
    BY <1>2, <1>5, <1>7, <1>9, <1>13, NextPages, Zenon DEF Tiles, ChunkInv
  <1>15. NoStrayFlag'
    BY <1>4, <1>9, NextPages, Zenon DEF NoStrayFlag, ChunkInv
  <1> QED BY <1>7, <1>10, <1>11, <1>12, <1>14, <1>15, Zenon DEF ChunkInv

\* A block that is freed goes into the hands of free_list_insert.
LEMMA FreeKeeps ==
    ASSUME ChunkInv, NEW b \in held, C!FreePage(b)
    PROVE  ChunkInv' /\ C!Size(b.page) = b.pages
  <1>1. /\ b.page \in C!Indices /\ b.page \in Nat /\ b.pages \in Nat /\ b.pages > 0
        /\ b.page + b.pages <= TotalPages
        /\ count_[b.page] = b.pages + ALLOCATED_FLAG
    BY Places, Zenon DEF ChunkInv, HeldBlocks
  <1>2. C!Size(b.page) = b.pages
    <2>1. b.pages < ALLOCATED_FLAG
      BY <1>1, Bounds
    <2> QED BY <1>1, <2>1, Masked, Zenon DEF C!Size
  <1>3. /\ cpc = "idle" /\ cpc' = "insert" /\ pages' = pages /\ page' = page
        /\ held' = held \ {b} /\ ins' = [idx |-> b.page, count |-> b.pages]
        /\ count_' = C!Sized(b.page, b.pages, b.pages)
        /\ UNCHANGED <<free_prev_, free_next_, free_head_>>
    BY <1>2, Zenon DEF C!FreePage, C!listVars
  <1>4. pages = 0 /\ Loose = {} /\ InHand = {}
    BY <1>3, Zenon DEF ChunkInv, OperationInv, Loose, InHand
  <1>5. /\ count_ \in [C!Indices -> Nat]
        /\ count_' = [i \in C!Indices |-> IF i = b.page THEN b.pages
                          ELSE IF i \in b.page + 1 .. b.page + b.pages - 1 THEN 0 ELSE count_[i]]
    BY <1>3, Zenon DEF ChunkInv, TableTypes, C!Sized
  <1>6. /\ count_' \in [C!Indices -> Nat]
        /\ \A i \in Run(b.page, b.pages) : count_'[i] = b.pages \/ count_'[i] = 0
        /\ \A i \in C!Indices : i \notin Run(b.page, b.pages) => count_'[i] = count_[i]
        /\ Run(b.page, b.pages) \subseteq C!Indices
    <2>1. /\ \A i \in Run(b.page, b.pages) : i = b.page \/ i \in b.page + 1 .. b.page + b.pages - 1
          /\ \A i \in C!Indices : i \notin Run(b.page, b.pages) =>
                i # b.page /\ i \notin b.page + 1 .. b.page + b.pages - 1
          /\ Run(b.page, b.pages) \subseteq C!Indices
      BY <1>1, Bounds DEF Run
    <2>2. count_' \in [C!Indices -> Nat]
      BY <1>1, <1>5
    <2> QED BY <1>5, <2>1, <2>2, Zenon
  <1>7. /\ Listed' = Listed /\ FreePages' = FreePages
        /\ FreeBlocks' /\ Links(Listed, free_head_, free_next_, free_prev_)'
        /\ free_prev_' \in [C!Indices -> IndexOrNull]
        /\ free_next_' \in [C!Indices -> IndexOrNull]
        /\ free_head_' \in IndexOrNull
    <2>1. \A i \in FreePages : i \in C!Indices /\ i \notin Run(b.page, b.pages)
      BY Places, Zenon DEF ChunkInv, Tiles
    <2>2. \A i \in FreePages : count_'[i] = count_[i]
      BY <1>6, <2>1, Zenon
    <2> QED BY <1>3, <2>2, ListStays, Zenon
  <1>8. ASSUME NEW c \in held'
        PROVE  c \in held /\ c # b /\ Run(c.page, c.pages) \cap Run(b.page, b.pages) = {}
    BY <1>3, Zenon DEF ChunkInv, HeldBlocks
  <1>9. HeldPages' = HeldPages \ Run(b.page, b.pages)
    <2>1. HeldPages' = {i \in C!Indices : \E c \in held' : i \in Run(c.page, c.pages)}
      BY NextPages, Zenon
    <2>2. ASSUME NEW i \in HeldPages' PROVE i \in HeldPages /\ i \notin Run(b.page, b.pages)
      BY <1>8, <2>1, <2>2, Zenon DEF HeldPages
    <2>3. ASSUME NEW i \in HeldPages, i \notin Run(b.page, b.pages) PROVE i \in HeldPages'
      BY <1>3, <2>1, <2>3, Zenon DEF HeldPages
    <2> QED BY <2>2, <2>3, Zenon
  <1>10. HeldBlocks'
    <2>1. ASSUME NEW c \in held'
          PROVE  /\ c.pages > 0 /\ c.page + c.pages <= TotalPages
                 /\ count_'[c.page] = c.pages + ALLOCATED_FLAG
                 /\ \A i \in Run(c.page, c.pages) \ {c.page} : count_'[i] = 0
      <3>1. c \in held
        BY <1>8, Zenon
      <3>2. \A i \in Run(c.page, c.pages) : i \in C!Indices /\ i \notin Run(b.page, b.pages)
        BY <1>8, <3>1, Places, Zenon
      <3>3. \A i \in Run(c.page, c.pages) : count_'[i] = count_[i]
        BY <1>6, <3>2, Zenon
      <3> QED BY <3>1, <3>3, Places, Zenon DEF HeldBlocks, ChunkInv
    <2>2. ASSUME NEW c \in held', NEW d \in held', c # d
          PROVE  Run(c.page, c.pages) \cap Run(d.page, d.pages) = {}
      BY <1>8, <2>2, Zenon DEF ChunkInv, HeldBlocks
    <2> QED BY <2>1, <2>2, Zenon DEF HeldBlocks, Run
  <1>11. TableTypes'
    <2>1. held' \subseteq [page : C!Indices, pages : Nat]
      BY <1>8, Zenon DEF ChunkInv, TableTypes
    <2> QED BY <1>6, <1>7, <2>1, NextPages, Zenon DEF TableTypes
  <1>12. OperationInv'
    BY <1>1, <1>3, <1>4, NextPages DEF OperationInv
  <1>13. Loose' = Run(b.page, b.pages) /\ InHand' = {}
    BY <1>3, <1>4, NextPages
  <1>14. Tiles'
    <2>1. /\ \A i \in C!Indices : i \in FreePages \cup HeldPages
          /\ \A i \in FreePages : i \notin HeldPages
      BY <1>4, Zenon DEF ChunkInv, Tiles
    <2>2. Run(b.page, b.pages) \subseteq HeldPages
      BY Places, Zenon
    <2> QED BY <1>7, <1>9, <1>13, <2>1, <2>2, NextPages, Zenon DEF Tiles
  <1>15. NoStrayFlag'
    <2>1. ASSUME NEW i \in C!Indices, i \notin HeldPages' PROVE count_'[i] < ALLOCATED_FLAG
      <3>1. CASE i \in Run(b.page, b.pages)
        BY <1>1, <1>6, <3>1, Bounds
      <3>2. CASE i \notin Run(b.page, b.pages)
        BY <1>6, <1>9, <2>1, <3>2, Zenon DEF ChunkInv, NoStrayFlag
      <3> QED BY <3>1, <3>2, Zenon
    <2> QED BY <2>1, NextPages, Zenon DEF NoStrayFlag
  <1> QED BY <1>2, <1>7, <1>10, <1>11, <1>12, <1>14, <1>15, Zenon DEF ChunkInv

\* A free block leaves the list for the block that free_list_insert has.
LEMMA MergeKeeps ==
    ASSUME ChunkInv, cpc = "insert", NEW h \in Listed, C!Remove(h),
           ins' \in [idx : C!Indices, count : Nat], ins'.count > 0,
           ins'.idx + ins'.count <= TotalPages,
           Run(ins'.idx, ins'.count) = Run(h, count_[h]) \cup Run(ins.idx, ins.count),
           UNCHANGED <<count_, cpc, page, pages, held>>
    PROVE  ChunkInv'
  <1>1. /\ Listed' = Listed \ {h}
        /\ Links(Listed, free_head_, free_next_, free_prev_)'
        /\ free_prev_' \in [C!Indices -> IndexOrNull]
        /\ free_next_' \in [C!Indices -> IndexOrNull]
        /\ free_head_' \in IndexOrNull
    BY Removed, Zenon
  <1>2. FreePages' = FreePages \ Run(h, count_[h]) /\ FreeBlocks'
    BY <1>1, ListShrinks, Zenon
  <1>3. HeldPages' = HeldPages /\ HeldBlocks' /\ held' \subseteq [page : C!Indices, pages : Nat]
    BY HeldStays, Zenon
  <1>4. TableTypes'
    BY <1>1, <1>3, NextPages, Zenon DEF TableTypes, ChunkInv
  <1>5. OperationInv'
    BY NextPages, Zenon DEF OperationInv, ChunkInv
  <1>6. Loose' = Run(h, count_[h]) \cup Loose /\ InHand' = InHand
    BY NextPages, Zenon DEF Loose, InHand
  <1>7. Tiles'
    <2>1. Run(h, count_[h]) \subseteq FreePages
      BY Places, Zenon
    <2> QED BY <1>2, <1>3, <1>6, <2>1, NextPages, Zenon DEF Tiles, ChunkInv
  <1>8. NoStrayFlag'
    BY <1>3, NextPages, Zenon DEF NoStrayFlag, ChunkInv
  <1> QED BY <1>1, <1>2, <1>3, <1>4, <1>5, <1>7, <1>8, Zenon DEF ChunkInv

\* What free_list_insert has while it works.
LEMMA Inserting ==
    ASSUME ChunkInv, cpc = "insert"
    PROVE  /\ ins.idx \in C!Indices /\ ins.idx \in Nat /\ ins.count \in Nat /\ ins.count > 0
           /\ ins.idx + ins.count <= TotalPages /\ ins.idx \notin Listed
           /\ LastBelow(Listed, ins.idx, C!Before(ins.idx))
           /\ FirstFrom(Listed, ins.idx, C!After(ins.idx))
           /\ Run(ins.idx, ins.count) = Loose
           /\ \A i \in Run(ins.idx, ins.count) : i \in C!Indices /\ i \notin FreePages /\ i \notin HeldPages
  <1>1. /\ ins \in [idx : C!Indices, count : Nat]
        /\ ins.count > 0 /\ ins.idx + ins.count <= TotalPages
    BY Zenon DEF ChunkInv, OperationInv
  <1>2. ins.idx \in C!Indices /\ ins.idx \in Nat /\ ins.count \in Nat
    BY <1>1, Bounds
  <1>3. /\ LastBelow(Listed, ins.idx, C!Before(ins.idx))
        /\ FirstFrom(Listed, ins.idx, C!After(ins.idx))
    BY <1>2, Neighbours, Zenon
  <1>4. Run(ins.idx, ins.count) = Loose
    BY Zenon DEF Loose
  <1>5. \A i \in Run(ins.idx, ins.count) : i \notin FreePages /\ i \notin HeldPages
    BY <1>4, Zenon DEF ChunkInv, Tiles
  <1>6. ins.idx \in Run(ins.idx, ins.count) /\ Run(ins.idx, ins.count) \subseteq C!Indices
    BY <1>1, <1>2, Bounds DEF Run
  <1>7. ins.idx \notin Listed
    BY <1>5, <1>6, Places, Zenon
  <1> QED BY <1>1, <1>2, <1>3, <1>4, <1>5, <1>6, <1>7, Zenon

\* Merging with the block before takes it off the list and keeps the invariant.
LEMMA MergeBeforeKeeps ==
    ASSUME ChunkInv, C!MergeBefore
    PROVE  ChunkInv'
  <1> DEFINE p == C!Before(ins.idx)
  <1>1. /\ cpc = "insert" /\ p # INDEX_NULL /\ p + count_[p] = ins.idx /\ C!Remove(p)
        /\ ins' = [idx |-> p, count |-> count_[p] + ins.count]
        /\ UNCHANGED <<count_, cpc, page, pages, held>>
    BY Zenon DEF C!MergeBefore, C!JoinsBefore
  <1>2. /\ ins.idx \in Nat /\ ins.count \in Nat /\ ins.count > 0
        /\ ins.idx + ins.count <= TotalPages
        /\ LastBelow(Listed, ins.idx, p)
    BY <1>1, Inserting, Zenon
  <1> HIDE DEF p
  <1>3. p \in Listed
    BY <1>1, <1>2, Zenon DEF LastBelow
  <1>4. p \in C!Indices /\ p \in Nat /\ count_[p] \in Nat /\ count_[p] > 0
    BY <1>3, ListedAreIndices, SizeOfFree, Zenon
  <1>5. /\ ins' \in [idx : C!Indices, count : Nat]
        /\ ins'.idx = p /\ ins'.count = count_[p] + ins.count
    BY <1>1, <1>2, <1>4
  <1>6. ins'.count > 0 /\ ins'.idx + ins'.count <= TotalPages
    BY <1>1, <1>2, <1>4, <1>5, Bounds
  <1>7. Run(ins'.idx, ins'.count) = Run(p, count_[p]) \cup Run(ins.idx, ins.count)
    BY <1>1, <1>2, <1>4, <1>5 DEF Run
  <1> QED BY <1>1, <1>3, <1>5, <1>6, <1>7, MergeKeeps, Zenon

\* So does merging with the block after.
LEMMA MergeAfterKeeps ==
    ASSUME ChunkInv, C!MergeAfter
    PROVE  ChunkInv'
  <1> DEFINE n == C!After(ins.idx)
  <1>1. /\ cpc = "insert" /\ n # INDEX_NULL /\ ins.idx + ins.count = n /\ C!Remove(n)
        /\ ins' = [ins EXCEPT !.count = ins.count + count_[n]]
        /\ UNCHANGED <<count_, cpc, page, pages, held>>
    BY DEF C!MergeAfter, C!JoinsAfter
  <1>2. /\ ins.idx \in Nat /\ ins.count \in Nat /\ ins.count > 0
        /\ ins.idx \in C!Indices /\ FirstFrom(Listed, ins.idx, n)
    BY <1>1, Inserting, Zenon
  <1> HIDE DEF n
  <1>3. n \in Listed
    BY <1>1, <1>2, Zenon DEF FirstFrom
  <1>4. n \in Nat /\ count_[n] \in Nat /\ count_[n] > 0 /\ n + count_[n] <= TotalPages
    BY <1>3, ListedAreIndices, SizeOfFree, Zenon
  <1>5. /\ ins' \in [idx : C!Indices, count : Nat]
        /\ ins'.idx = ins.idx /\ ins'.count = ins.count + count_[n]
    <2>1. ins \in [idx : C!Indices, count : Nat]
      BY Zenon DEF ChunkInv, OperationInv
    <2> QED BY <1>1, <1>2, <1>4, <2>1
  <1>6. ins'.count > 0 /\ ins'.idx + ins'.count <= TotalPages
    BY <1>1, <1>2, <1>4, <1>5, Bounds
  <1>7. Run(ins'.idx, ins'.count) = Run(n, count_[n]) \cup Run(ins.idx, ins.count)
    BY <1>1, <1>2, <1>4, <1>5 DEF Run
  <1> QED BY <1>1, <1>3, <1>5, <1>6, <1>7, MergeKeeps, Zenon

\* A block that touches neither neighbour is linked between them.
LEMMA LinkKeeps ==
    ASSUME ChunkInv, C!LinkBlock
    PROVE  ChunkInv'
  <1> DEFINE idx == ins.idx
             n == ins.count
             before == C!Before(ins.idx)
             after == C!After(ins.idx)
  <1>1. /\ cpc = "insert" /\ cpc' = (IF pages = 0 THEN "idle" ELSE "take")
        /\ ins' = C!NoInsert /\ count_' = [count_ EXCEPT ![idx] = n]
        /\ UNCHANGED <<page, pages, held>>
        /\ free_prev_' = [i \in C!Indices |-> IF i = idx THEN before
                                              ELSE IF i = after THEN idx ELSE free_prev_[i]]
        /\ free_next_' = [i \in C!Indices |-> IF i = idx THEN after
                                              ELSE IF i = before THEN idx ELSE free_next_[i]]
        /\ free_head_' = IF before = INDEX_NULL THEN idx ELSE free_head_
    BY Zenon DEF C!LinkBlock
  <1>2. /\ before # INDEX_NULL => before + count_[before] # idx
        /\ after # INDEX_NULL => idx + n # after
    BY Zenon DEF C!LinkBlock, C!JoinsBefore, C!JoinsAfter
  <1>3. /\ idx \in C!Indices /\ idx \in Nat /\ n \in Nat /\ n > 0
        /\ idx + n <= TotalPages /\ idx \notin Listed
        /\ LastBelow(Listed, idx, before)
        /\ FirstFrom(Listed, idx, after)
        /\ Run(idx, n) = Loose
        /\ \A i \in Run(idx, n) : i \in C!Indices /\ i \notin FreePages /\ i \notin HeldPages
    BY <1>1, Inserting, Zenon
  <1> HIDE DEF idx, n, before, after
  <1>4. /\ Listed' = Listed \cup {idx}
        /\ Links(Listed, free_head_, free_next_, free_prev_)'
        /\ free_prev_' \in [C!Indices -> IndexOrNull]
        /\ free_next_' \in [C!Indices -> IndexOrNull]
        /\ free_head_' \in IndexOrNull
    BY <1>1, <1>3, Linked, Zenon
  <1>5. idx \in Run(idx, n)
    BY <1>3 DEF Run
  <1>6. ASSUME NEW g \in Listed, g < idx PROVE g + count_[g] < idx
    <2>1. before \in Listed /\ before < idx /\ g <= before
      BY <1>3, <1>6, ListedAreIndices DEF LastBelow
    <2>2. before \in Nat /\ g \in Nat /\ count_[g] \in Nat /\ count_[before] \in Nat
          /\ before # INDEX_NULL
      BY <2>1, ListedAreIndices, SizeOfFree, Zenon
    <2>3. idx \notin Run(before, count_[before])
      BY <1>3, <1>5, <2>1, Places, Zenon
    <2>4. before + count_[before] < idx
      BY <1>2, <1>3, <2>1, <2>2, <2>3 DEF Run
    <2>5. g < before => g + count_[g] < before
      BY <2>1, Zenon DEF ChunkInv, FreeBlocks
    <2> QED BY <1>3, <2>1, <2>2, <2>4, <2>5
  <1>7. ASSUME NEW h \in Listed, idx < h PROVE idx + n < h
    <2>1. h \in Nat /\ h >= idx
      BY <1>3, <1>7, ListedAreIndices
    <2>2. after \in Listed /\ after >= idx /\ after <= h
      BY <1>3, <2>1 DEF FirstFrom
    <2>3. after \in Nat /\ after # INDEX_NULL
      BY <2>2, ListedAreIndices, Zenon
    <2>4. after \notin Run(idx, n)
      BY <1>3, <2>2, Places, Zenon
    <2> QED BY <1>2, <1>3, <2>1, <2>2, <2>3, <2>4 DEF Run
  <1>8. FreePages' = FreePages \cup Run(idx, n) /\ FreeBlocks'
    BY <1>1, <1>3, <1>4, <1>6, <1>7, ListGrows, Zenon
  <1>9. /\ count_' \in [C!Indices -> Nat] /\ count_'[idx] = n
        /\ \A i \in C!Indices : i # idx => count_'[i] = count_[i]
    <2>1. count_ \in [C!Indices -> Nat]
      BY Zenon DEF ChunkInv, TableTypes
    <2> QED BY <1>1, <1>3, <2>1
  <1>10. HeldPages' = HeldPages /\ HeldBlocks' /\ held' \subseteq [page : C!Indices, pages : Nat]
    <2>1. \A i \in HeldPages : i \in C!Indices /\ i # idx
      BY <1>3, <1>5, Places, Zenon
    <2> QED BY <1>1, <1>9, <2>1, HeldStays, Zenon
  <1>11. TableTypes'
    BY <1>4, <1>9, <1>10, NextPages, Zenon DEF TableTypes
  <1>12. OperationInv'
    <2>1. ins' \in [idx : C!Indices, count : Nat]
      BY <1>1, Bounds DEF C!NoInsert
    <2>2. (cpc' = "idle" /\ pages = 0) \/ (cpc' = "take" /\ pages # 0)
      BY <1>1
    <2> QED BY <1>1, <2>1, <2>2, NextPages DEF OperationInv, ChunkInv
  <1>13. Loose' = {} /\ InHand' = InHand
    <2>1. cpc' # "insert"
      BY <1>1
    <2> QED BY <1>1, <2>1, NextPages, Zenon DEF InHand
  <1>14. Tiles'
    BY <1>3, <1>8, <1>10, <1>13, NextPages, Zenon DEF Tiles, ChunkInv
  <1>15. NoStrayFlag'
    <2>1. n < ALLOCATED_FLAG
      BY <1>3, Bounds
    <2> QED BY <1>9, <1>10, <2>1, NextPages, Zenon DEF NoStrayFlag, ChunkInv
  <1> QED BY <1>4, <1>8, <1>10, <1>11, <1>12, <1>14, <1>15, Zenon DEF ChunkInv

\* All pages are one free block in the beginning.
LEMMA ChunkInvInit ==
    ASSUME C!Init
    PROVE  ChunkInv
  <1>1. /\ count_ = [i \in C!Indices |-> IF i = 0 THEN TotalPages ELSE 0]
        /\ free_prev_ = [i \in C!Indices |-> INDEX_NULL]
        /\ free_next_ = [i \in C!Indices |-> INDEX_NULL]
        /\ free_head_ = 0 /\ cpc = "idle" /\ ins = [idx |-> 0, count |-> 0]
        /\ pages = 0 /\ held = {}
    BY Zenon DEF C!Init, C!NoInsert
  <1>2. 0 \in C!Indices /\ \A i \in C!Indices : i \in Nat /\ i < TotalPages
    BY Bounds
  <1>3. Listed = {0}
    BY <1>1, <1>2, Zenon DEF Listed
  <1>4. count_[0] = TotalPages
    BY <1>1, <1>2, Zenon
  <1>5. TableTypes
    <2>1. count_ \in [C!Indices -> Nat]
      BY <1>1, Bounds
    <2>2. free_prev_ \in [C!Indices -> IndexOrNull] /\ free_next_ \in [C!Indices -> IndexOrNull]
      BY <1>1, Zenon DEF IndexOrNull
    <2> QED BY <1>1, <1>2, <2>1, <2>2, Zenon DEF TableTypes, IndexOrNull
  <1>6. OperationInv
    BY <1>1, <1>2 DEF OperationInv
  <1>7. Links(Listed, free_head_, free_next_, free_prev_)
    <2>1. FirstFrom({0}, 0, 0) /\ FirstFrom({0}, 0 + 1, INDEX_NULL) /\ LastBelow({0}, 0, INDEX_NULL)
      BY DEF FirstFrom, LastBelow
    <2>2. free_next_[0] = INDEX_NULL /\ free_prev_[0] = INDEX_NULL
      BY <1>1, <1>2, Zenon
    <2> QED BY <1>1, <1>3, <2>1, <2>2 DEF Links
  <1>8. FreeBlocks
    BY <1>3, <1>4, Bounds DEF FreeBlocks
  <1>9. FreePages = C!Indices /\ HeldPages = {} /\ Loose = {} /\ InHand = {}
    <2>1. \A i \in C!Indices : i \in Run(0, TotalPages)
      BY Bounds DEF Run
    <2>2. FreePages = C!Indices
      BY <1>3, <1>4, <2>1, Zenon DEF FreePages
    <2> QED BY <1>1, <2>2 DEF HeldPages, Loose, InHand
  <1>10. NoStrayFlag
    BY <1>1, Bounds DEF NoStrayFlag
  <1> QED BY <1>1, <1>5, <1>6, <1>7, <1>8, <1>9, <1>10, Zenon DEF ChunkInv, HeldBlocks, Tiles

-----------------------------------------------------------------------------
(* What the invariant says of the properties *)

\* The sets of pages of the properties are the ones of the invariant.
LEMMA SamePages ==
    ASSUME ChunkInv
    PROVE  C!Free = FreePages /\ C!HeldPages = HeldPages /\ C!Map!InUse = HeldPages
  <1>1. C!FreeHeads = Listed
    BY FreeHeadsListed, Zenon
  <1>2. C!Free = UNION {Run(h, count_[h]) : h \in Listed}
    BY <1>1, Zenon DEF C!Free, Run
  <1>3. ASSUME NEW i PROVE i \in UNION {Run(h, count_[h]) : h \in Listed} <=> i \in FreePages
    <2>1. i \in UNION {Run(h, count_[h]) : h \in Listed} <=> \E h \in Listed : i \in Run(h, count_[h])
      OBVIOUS
    <2>2. \A h \in Listed : Run(h, count_[h]) \subseteq C!Indices
      BY Places, Zenon
    <2> QED BY <2>1, <2>2, Zenon DEF FreePages
  <1>4. C!HeldPages = UNION {Run(b.page, b.pages) : b \in held}
    BY Zenon DEF C!HeldPages, Run
  <1>5. C!Map!InUse = UNION {Run(b.page, b.pages) : b \in held}
    BY Zenon DEF C!Map!InUse, C!Map!Span, Run
  <1>6. ASSUME NEW i PROVE i \in UNION {Run(b.page, b.pages) : b \in held} <=> i \in HeldPages
    <2>1. i \in UNION {Run(b.page, b.pages) : b \in held} <=> \E b \in held : i \in Run(b.page, b.pages)
      OBVIOUS
    <2>2. \A b \in held : Run(b.page, b.pages) \subseteq C!Indices
      BY Places, Zenon
    <2> QED BY <2>1, <2>2, Zenon DEF HeldPages
  <1>7. C!Free = FreePages
    BY <1>2, <1>3, Zenon
  <1> QED BY <1>4, <1>5, <1>6, <1>7, Zenon

\* Between operations the free list holds exactly the pages nobody has.
LEMMA FreeListHolds ==
    ASSUME ChunkInv
    PROVE  FreeListExact
  <1>1. SUFFICES ASSUME cpc = "idle"
                 PROVE  /\ C!Free = C!Indices \ C!HeldPages
                        /\ \A h \in C!FreeHeads :
                            /\ ~C!Allocated(h)
                            /\ free_next_[h] # INDEX_NULL =>
                                h + count_[h] < free_next_[h] /\ free_prev_[free_next_[h]] = h
                        /\ free_head_ # INDEX_NULL => free_prev_[free_head_] = INDEX_NULL
    BY Zenon DEF FreeListExact, C!FreeListExact
  <1>2. Loose = {} /\ InHand = {}
    BY <1>1, Zenon DEF ChunkInv, OperationInv, Loose, InHand
  <1>3. C!Free = C!Indices \ C!HeldPages
    BY <1>2, SamePages, Places, Zenon DEF ChunkInv, Tiles
  <1>4. /\ FirstFrom(Listed, 0, free_head_)
        /\ \A h \in Listed : FirstFrom(Listed, h + 1, free_next_[h]) /\ LastBelow(Listed, h, free_prev_[h])
    BY Zenon DEF ChunkInv, Links
  <1>5. ASSUME NEW h \in Listed, free_next_[h] # INDEX_NULL
        PROVE  h + count_[h] < free_next_[h] /\ free_prev_[free_next_[h]] = h
    <2>1. PICK n : n = free_next_[h]
      OBVIOUS
    <2>2. n \in Listed /\ n >= h + 1 /\ FirstFrom(Listed, h + 1, n)
      BY <1>4, <1>5, <2>1, Zenon DEF FirstFrom
    <2>3. h \in Nat /\ n \in Nat
      BY <2>2, ListedAreIndices, Zenon
    <2>4. h < n
      BY <2>2, <2>3
    <2>5. h + count_[h] < n
      BY <2>2, <2>4, Zenon DEF ChunkInv, FreeBlocks
    <2>6. LastBelow(Listed, n, free_prev_[n]) /\ Listed \in SUBSET Nat /\ INDEX_NULL \notin Listed
      BY <1>4, <2>2, ListedAreIndices, Zenon
    <2>7. free_prev_[n] = h
      BY <2>2, <2>6, Adjacent, Zenon
    <2> QED BY <2>1, <2>5, <2>7, Zenon
  <1>6. ASSUME free_head_ # INDEX_NULL PROVE free_prev_[free_head_] = INDEX_NULL
    <2>1. PICK f, p : f = free_head_ /\ p = free_prev_[f]
      OBVIOUS
    <2>2. f \in Listed /\ \A h \in Listed : h >= 0 => f <= h
      BY <1>4, <1>6, <2>1, Zenon DEF FirstFrom
    <2>3. LastBelow(Listed, f, p) /\ f \in Nat
      BY <1>4, <2>1, <2>2, ListedAreIndices, Zenon
    <2>4. ~(p \in Listed /\ p < f)
      <3>1. SUFFICES ASSUME p \in Listed, p < f PROVE FALSE
        BY Zenon
      <3>2. p \in Nat
        BY <3>1, ListedAreIndices, Zenon
      <3>3. p >= 0
        BY <3>2
      <3>4. f <= p
        BY <2>2, <3>1, <3>3, Zenon
      <3> QED BY <2>3, <3>1, <3>2, <3>4
    <2> QED BY <2>1, <2>3, <2>4, Zenon DEF LastBelow
  <1>7. C!FreeHeads = Listed /\ \A h \in Listed : ~C!Allocated(h)
    BY FreeHeadsListed, SizeOfFree, Zenon
  <1> QED BY <1>3, <1>5, <1>6, <1>7, Zenon

\* Below a page there is a last one with a size, if there is one at all.
LEMMA LastSized ==
    ASSUME ChunkInv, NEW i \in C!Indices, ~ \A h \in 0 .. i : count_[h] = 0
    PROVE  \E h \in 0 .. i : count_[h] # 0 /\ \A k \in h + 1 .. i : count_[k] = 0
  <1>1. i \in Nat
    BY Bounds
  <1> DEFINE S == {k \in 0 .. i : count_[i - k] # 0}
  <1>2. S # {}
    <2>1. PICK h \in 0 .. i : count_[h] # 0
      BY Zenon
    <2>2. i - h \in 0 .. i /\ i - (i - h) = h
      BY <1>1
    <2> QED BY <2>1, <2>2
  <1>3. S \in SUBSET Nat
    OBVIOUS
  <1>4. PICK m \in S : \A k \in S : m <= k
    <2> HIDE DEF S
    <2> QED BY <1>2, <1>3, Least, Zenon
  <1>5. m \in 0 .. i /\ count_[i - m] # 0 /\ i - m \in 0 .. i
    BY <1>1, <1>4
  <1>6. ASSUME NEW k \in (i - m) + 1 .. i PROVE count_[k] = 0
    <2>1. i - k \in 0 .. i /\ ~(m <= i - k) /\ i - (i - k) = k
      BY <1>1, <1>5
    <2>2. i - k \notin S
      BY <1>4, <2>1, Zenon
    <2>3. count_[i - (i - k)] = 0
      BY <2>1, <2>2, Zenon
    <2> QED BY <2>1, <2>3, Zenon
  <1> QED BY <1>5, <1>6, Zenon

\* validate finds the block of a page that is handed out and rejects the others.
LEMMA ValidateHolds ==
    ASSUME ChunkInv, NEW i \in C!Indices
    PROVE  \/ \E b \in held : i \in Run(b.page, b.pages) /\ C!Validate(i) = b.page
           \/ i \notin HeldPages /\ C!Validate(i) = INDEX_NULL
  <1>1. i \in Nat
    BY Bounds
  <1> DEFINE Sized(h) == count_[h] # 0 /\ \A k \in h + 1 .. i : count_[k] = 0
             head == CHOOSE h \in 0 .. i : Sized(h)
  <1>2. C!Validate(i) = IF \A h \in 0 .. i : count_[h] = 0 THEN INDEX_NULL
                        ELSE IF C!Allocated(head) /\ i < head + C!Size(head) THEN head ELSE INDEX_NULL
    BY Zenon DEF C!Validate
  <1>3. (~ \A h \in 0 .. i : count_[h] = 0) => head \in 0 .. i /\ Sized(head)
    BY LastSized, Zenon
  <1> HIDE DEF head
  <1>4. \A b \in held : /\ b.page \in Nat /\ b.pages \in Nat /\ b.pages > 0 /\ b.page \in C!Indices
                        /\ b.page + b.pages <= TotalPages
                        /\ count_[b.page] = b.pages + ALLOCATED_FLAG
                        /\ \A k \in Run(b.page, b.pages) \ {b.page} : count_[k] = 0
    BY Places, Zenon DEF ChunkInv, HeldBlocks
  <1>5. \A b \in held : /\ C!Allocated(b.page) /\ C!Size(b.page) = b.pages
                        /\ count_[b.page] # 0
    <2> TAKE b \in held
    <2>1. b.pages < ALLOCATED_FLAG /\ b.pages \in Nat
      BY <1>4, Bounds
    <2>2. b.pages + ALLOCATED_FLAG >= ALLOCATED_FLAG /\ b.pages + ALLOCATED_FLAG # 0
      BY <2>1, Bounds
    <2> QED BY <1>4, <2>1, <2>2, Masked, Zenon DEF C!Allocated, C!Size
  <1>6. CASE i \in HeldPages
    <2>1. PICK b \in held : i \in Run(b.page, b.pages)
      BY <1>6, Zenon DEF HeldPages
    <2>2. b.page \in 0 .. i /\ i < b.page + b.pages
      BY <1>1, <1>4, <2>1 DEF Run
    <2>3. head \in 0 .. i /\ Sized(head)
      BY <1>3, <1>5, <2>2, Zenon
    <2>4. head = b.page
      <3>1. ~(head < b.page)
        <4>1. SUFFICES ASSUME head < b.page PROVE FALSE
          OBVIOUS
        <4>2. b.page \in head + 1 .. i
          BY <2>2, <2>3, <4>1
        <4> QED BY <1>5, <2>3, <4>2, Zenon
      <3>2. ~(head > b.page)
        <4>1. SUFFICES ASSUME head > b.page PROVE FALSE
          OBVIOUS
        <4>2. head \in Run(b.page, b.pages) \ {b.page}
          BY <1>1, <1>4, <2>2, <2>3, <4>1 DEF Run
        <4> QED BY <1>4, <2>3, <4>2, Zenon
      <3> QED BY <1>1, <2>2, <2>3, <3>1, <3>2
    <2> QED BY <1>2, <1>5, <2>1, <2>2, <2>4, Zenon
  <1>7. CASE i \notin HeldPages
    <2>1. ASSUME ~ \A h \in 0 .. i : count_[h] = 0, C!Allocated(head), i < head + C!Size(head)
          PROVE  FALSE
      <3>1. head \in 0 .. i /\ count_[head] # 0
        BY <1>3, <2>1, Zenon
      <3>2. head \in C!Indices
        BY <1>1, <3>1, Bounds
      <3>3. ~(count_[head] < ALLOCATED_FLAG)
        <4>1. count_[head] \in Nat /\ count_[head] >= ALLOCATED_FLAG
          BY <2>1, <3>2, Zenon DEF ChunkInv, TableTypes, C!Allocated
        <4> QED BY <4>1, Bounds
      <3>4. head \in HeldPages
        BY <3>2, <3>3, Zenon DEF ChunkInv, NoStrayFlag
      <3>5. PICK b \in held : head \in Run(b.page, b.pages)
        BY <3>4, Zenon DEF HeldPages
      <3>6. head = b.page
        BY <1>4, <3>1, <3>5, Zenon
      <3>7. i \in Run(b.page, b.pages)
        BY <1>1, <1>4, <1>5, <2>1, <3>1, <3>6 DEF Run
      <3> QED BY <1>7, <3>7, Places, Zenon
    <2> QED BY <1>2, <1>7, <2>1, Zenon
  <1> QED BY <1>6, <1>7, Zenon

\* When no block of the list is long enough, no run of free pages is: a run that
\* is free lies in one block.
LEMMA NoRunIsLongEnough ==
    ASSUME ChunkInv, cpc = "idle", NEW required \in Requests,
           C!FindBlock(required) = INDEX_NULL
    PROVE  \A p \in C!Indices : ~C!Map!Fits(p, required)
  <1>1. SUFFICES ASSUME NEW p \in C!Indices, C!Map!Fits(p, required) PROVE FALSE
    BY Zenon
  <1>2. p \in Nat /\ required \in Nat /\ required > 0
    BY Bounds
  <1>3. \A h \in Listed : ~(count_[h] >= required)
    BY BlockFound, SizeOfFree, ListedAreIndices, Zenon
  <1>4. \A i \in Run(p, required) : i \in FreePages
    <2>1. Loose = {} /\ InHand = {}
      BY Zenon DEF ChunkInv, OperationInv, Loose, InHand
    <2>2. \A i \in Run(p, required) : i \in C!Indices /\ i \notin HeldPages
      BY <1>1, SamePages, Zenon DEF C!Map!Fits, C!Map!Span, C!Map!Indices, C!Indices, Run
    <2> QED BY <2>1, <2>2, Zenon DEF ChunkInv, Tiles
  <1>5. p \in Run(p, required)
    BY <1>2 DEF Run
  <1>6. PICK h \in Listed : p \in Run(h, count_[h])
    BY <1>4, <1>5, Zenon DEF FreePages
  <1>7. h \in Nat /\ count_[h] \in Nat
    BY ListedAreIndices, SizeOfFree, Zenon
  <1>8. h + count_[h] \in Run(p, required) /\ h + count_[h] \notin Run(h, count_[h])
    BY <1>2, <1>3, <1>6, <1>7 DEF Run
  <1>9. PICK g \in Listed : h + count_[h] \in Run(g, count_[g])
    BY <1>4, <1>8, Zenon DEF FreePages
  <1>10. g \in Nat /\ count_[g] \in Nat
    BY ListedAreIndices, SizeOfFree, Zenon
  <1>11. (g < h => g + count_[g] < h) /\ (h < g => h + count_[h] < g)
    BY Zenon DEF ChunkInv, FreeBlocks
  <1> QED BY <1>7, <1>8, <1>9, <1>10, <1>11 DEF Run

\* A page of a run that is handed out belongs to one block.
LEMMA HeadsDiffer ==
    ASSUME ChunkInv, NEW b \in held, NEW c \in held, b.page = c.page
    PROVE  b = c
  BY Places, Zenon DEF ChunkInv, HeldBlocks

\* The page about to be handed out is nobody's.
LEMMA NewPage ==
    ASSUME ChunkInv, cpc = "take", NEW b \in held
    PROVE  b.page # page
  <1>1. pages \in Nat /\ pages # 0 /\ page \in C!Indices
    BY Zenon DEF ChunkInv, OperationInv
  <1>2. page \in Run(page, pages) /\ InHand = Run(page, pages)
    BY <1>1, Bounds DEF Run, InHand
  <1>3. page \notin HeldPages
    BY <1>2, Zenon DEF ChunkInv, Tiles
  <1> QED BY <1>3, Places, Zenon

-----------------------------------------------------------------------------
(* The threads at the chunk *)

AccessInv == LockInv /\ ChunkInv /\ JobInv /\ HeadInv

\* One thread's entry changes.
LEMMA Changed ==
    ASSUME NEW S, NEW f \in [Threads -> S], NEW t \in Threads, NEW x \in S, NEW g,
           g = [f EXCEPT ![t] = x]
    PROVE  g \in [Threads -> S] /\ g[t] = x /\ \A s \in Threads : s # t => g[s] = f[s]
  OBVIOUS

\* To the lock every step of AccessNext is a step of its own or none.
LEMMA LockSteps ==
    ASSUME [AccessNext]_allVars
    PROVE  [Next]_vars
  <1>1. ASSUME NEW t \in Threads, Call(t) \/ Wait(t) \/ GetIn(t) PROVE Next
    BY <1>1, Zenon DEF Call, Wait, GetIn, Next, Step
  <1>2. ASSUME NEW t \in Threads, Release(t) PROVE Next
    BY <1>2, Zenon DEF Release, Next, Step
  <1>3. ASSUME NEW t \in Threads, AllocatePages(t) \/ AllocateFails(t) \/ FreePage(t) \/ Insert(t) \/ TakeBlock(t)
        PROVE  UNCHANGED vars
    BY <1>3, Zenon DEF AllocatePages, AllocateFails, FreePage, Insert, TakeBlock, vars
  <1>4. ASSUME NEW t \in Threads, InitPage(t) \/ PublishPage(t) \/ Validate(t) \/ TestJustAllocated(t) \/ ReadHead(t)
        PROVE  UNCHANGED vars
    BY <1>4, Zenon DEF InitPage, PublishPage, Validate, TestJustAllocated, ReadHead, vars
  <1>5. ASSUME UNCHANGED allVars PROVE UNCHANGED vars
    BY <1>5, Zenon DEF allVars
  <1> QED BY <1>1, <1>2, <1>3, <1>4, <1>5, Zenon DEF AccessNext, Work

\* The steps that work on the tables.
ChunkStep ==
    \E t \in Threads : AllocatePages(t) \/ AllocateFails(t) \/ FreePage(t) \/ Insert(t) \/ TakeBlock(t)

\* The other steps leave the tables and the blocks alone.
LEMMA OtherSteps ==
    ASSUME [AccessNext]_allVars, ~ChunkStep
    PROVE  UNCHANGED <<count_, free_prev_, free_next_, free_head_, cpc, ins, page, pages, result, held>>
  <1>1. ASSUME NEW t \in Threads, Call(t) \/ Wait(t) \/ GetIn(t) \/ Release(t) PROVE UNCHANGED chunkVars
    BY <1>1, Zenon DEF Call, Wait, GetIn, Release
  <1>2. ASSUME NEW t \in Threads, InitPage(t) \/ PublishPage(t) \/ Validate(t) \/ TestJustAllocated(t) \/ ReadHead(t)
        PROVE  UNCHANGED chunkVars
    BY <1>2, Zenon DEF InitPage, PublishPage, Validate, TestJustAllocated, ReadHead
  <1>3. ASSUME UNCHANGED allVars PROVE UNCHANGED chunkVars
    BY <1>3, Zenon DEF allVars
  <1>4. UNCHANGED chunkVars
    BY <1>1, <1>2, <1>3, Zenon DEF AccessNext, Work, ChunkStep
  <1> QED BY <1>4, Zenon DEF chunkVars

\* Every step of the threads keeps the invariant of the tables.
LEMMA ChunkInvNext ==
    ASSUME ChunkInv, [AccessNext]_allVars
    PROVE  ChunkInv'
  <1>1. CASE ~ChunkStep
    BY <1>1, OtherSteps, Untouched, Zenon
  <1>2. ASSUME NEW t \in Threads, AllocatePages(t) PROVE ChunkInv'
    BY <1>2, AllocateKeeps, Zenon DEF AllocatePages
  <1>3. ASSUME NEW t \in Threads, AllocateFails(t) PROVE ChunkInv'
    BY <1>3, Untouched, Zenon DEF AllocateFails, C!AllocateFails, C!listVars
  <1>4. ASSUME NEW t \in Threads, FreePage(t) PROVE ChunkInv'
    BY <1>4, FreeKeeps, Zenon DEF FreePage
  <1>5. ASSUME NEW t \in Threads, Insert(t) PROVE ChunkInv'
    BY <1>5, MergeBeforeKeeps, MergeAfterKeeps, LinkKeeps, Zenon DEF Insert
  <1>6. ASSUME NEW t \in Threads, TakeBlock(t) PROVE ChunkInv'
    BY <1>6, TakeKeeps, Zenon DEF TakeBlock
  <1> QED BY <1>1, <1>2, <1>3, <1>4, <1>5, <1>6, Zenon DEF ChunkStep

\* Two threads with an operation on the tables are one thread.
LEMMA OneOperation ==
    ASSUME AccessInv, NEW s \in Threads, NEW t \in Threads,
           job[s] \in {"allocate", "free"}, job[t] \in {"allocate", "free"}
    PROVE  s = t
  <1>1. pc[s] = "writing" /\ pc[t] = "writing"
    BY Zenon DEF AccessInv, JobInv
  <1>2. At("writing") = {t} /\ s \in At("writing")
    BY <1>1, Zenon DEF AccessInv, LockInv, WriterAlone, At
  <1> QED BY <1>2, Zenon

\* A reader meets no operation on the tables.
LEMMA ReadersMeetNobody ==
    ASSUME AccessInv, NEW t \in Threads, pc[t] = "reading"
    PROVE  cpc = "idle"
  <1>1. SUFFICES ASSUME cpc # "idle" PROVE FALSE
    BY Zenon
  <1>2. PICK s \in Threads : pc[s] = "writing"
    BY <1>1, Zenon DEF AccessInv, JobInv
  <1>3. At("reading") = {} /\ t \in At("reading")
    BY <1>2, Zenon DEF AccessInv, LockInv, WriterAlone, At
  <1> QED BY <1>3, Zenon

\* A thread goes on to something else than an operation on the tables, and leaves
\* the lock, if at all, when it has none under way.
LEMMA JobGoesOn ==
    ASSUME JobInv, NEW t \in Threads, NEW x \in Jobs, x \notin {"allocate", "free"},
           job[t] \notin {"allocate", "free"}, Turn(t, x),
           \A s \in Threads : s # t => pc'[s] = pc[s],
           UNCHANGED <<cpc, pages>>
    PROVE  JobInv'
  <1>1. job' \in [Threads -> Jobs] /\ job'[t] = x /\ \A s \in Threads : s # t => job'[s] = job[s]
    BY Changed, Zenon DEF JobInv, Turn
  <1> QED BY <1>1, Zenon DEF JobInv, Jobs

\* The jobs stay as they are.
LEMMA JobStays ==
    ASSUME JobInv, UNCHANGED <<job, cpc, pages>>,
           \A s \in Threads : pc[s] = "writing" => pc'[s] = "writing"
    PROVE  JobInv'
  BY Zenon DEF JobInv, Jobs

\* Every step keeps the operation with the writer that began it.
LEMMA JobInvNext ==
    ASSUME AccessInv, [AccessNext]_allVars
    PROVE  JobInv'
  <1> DEFINE Busy == {"allocate", "free"}
  <1>0. JobInv /\ job \in [Threads -> Jobs] /\ pc \in [Threads -> {"out", "lock_read", "lock_write", "reading", "writing"}]
    BY Zenon DEF AccessInv, JobInv, LockInv, TypeOK
  <1>1. ASSUME NEW t \in Threads, NEW label \in {"out", "lock_read", "lock_write", "reading", "writing"}, Go(t, label)
        PROVE  pc'[t] = label /\ \A s \in Threads : s # t => pc'[s] = pc[s]
    BY <1>0, <1>1, Changed, Zenon DEF Go
  <1>2. ASSUME NEW t \in Threads, Call(t) PROVE JobInv'
    <2>1. pc[t] = "out" /\ UNCHANGED <<job, cpc, pages>>
      BY <1>2, Zenon DEF Call, LockCall, chunkVars
    <2>2. \A s \in Threads : s # t => pc'[s] = pc[s]
      BY <1>1, <1>2, Zenon DEF Call, LockCall
    <2>3. pc[t] # "writing"
      BY <2>1
    <2> QED BY <1>0, <2>1, <2>2, <2>3, JobStays, Zenon
  <1>3. ASSUME NEW t \in Threads, Wait(t) PROVE JobInv'
    <2>1. UNCHANGED <<pc, job, cpc, pages>>
      BY <1>3, Zenon DEF Wait, Spin, CasFails, chunkVars
    <2> QED BY <1>0, <2>1, JobStays, Zenon
  <1>4. ASSUME NEW t \in Threads, GetIn(t) PROVE JobInv'
    <2>1. pc[t] \in {"lock_read", "lock_write"} /\ UNCHANGED <<job, cpc, pages>>
      BY <1>4, Zenon DEF GetIn, LockRead, LockWrite, chunkVars
    <2>2. \A s \in Threads : s # t => pc'[s] = pc[s]
      BY <1>1, <1>4, Zenon DEF GetIn, LockRead, LockWrite
    <2>3. pc[t] # "writing"
      BY <2>1
    <2> QED BY <1>0, <2>1, <2>2, <2>3, JobStays, Zenon
  <1>5. ASSUME NEW t \in Threads, Release(t) PROVE JobInv'
    <2>1. job[t] \in {"over", "taken", "found"} /\ UNCHANGED <<cpc, pages>>
      BY <1>5, Zenon DEF Release, chunkVars
    <2>2. \A s \in Threads : s # t => pc'[s] = pc[s]
      BY <1>1, <1>5, Zenon DEF Release, UnlockRead, UnlockWrite
    <2>3. PICK x \in {"none", "init", "test"} : Turn(t, x)
      BY <1>5, <2>1 DEF Release
    <2>4. x \in Jobs /\ x \notin Busy /\ job[t] \notin Busy
      BY <2>1, <2>3 DEF Jobs, Owning, Looking
    <2> QED BY <1>0, <2>1, <2>2, <2>3, <2>4, JobGoesOn, Zenon
  <1>6. ASSUME NEW t \in Threads, InitPage(t) \/ PublishPage(t) \/ Validate(t) \/ TestJustAllocated(t) \/ ReadHead(t)
        PROVE  JobInv'
    <2>1. UNCHANGED <<pc, cpc, pages>>
      BY <1>6, Zenon DEF InitPage, PublishPage, Validate, TestJustAllocated, ReadHead, vars, chunkVars
    <2>2. job[t] \in {"init", "publish", "none", "test", "head"}
      BY <1>6, Zenon DEF InitPage, PublishPage, Validate, TestJustAllocated, ReadHead
    <2>3. PICK x \in {"publish", "none", "over", "found", "head"} : Turn(t, x)
      BY <1>6, Zenon DEF InitPage, PublishPage, Validate, TestJustAllocated, ReadHead, LookedUp
    <2>4. x \in Jobs /\ x \notin Busy /\ job[t] \notin Busy
      BY <2>2, <2>3 DEF Jobs, Owning, Looking
    <2> QED BY <1>0, <2>1, <2>3, <2>4, JobGoesOn, Zenon
  <1>7. ASSUME NEW t \in Threads, NEW x \in Busy, Begin(t), cpc = "idle", cpc' # "idle", Turn(t, x),
               x = "free" <=> pages' = 0, UNCHANGED vars
        PROVE  JobInv'
    <2>1. /\ job' \in [Threads -> Jobs] /\ job'[t] = x
          /\ \A s \in Threads : s # t => job'[s] = job[s]
      <3>1. x \in Jobs
        BY DEF Jobs
      <3> QED BY <1>0, <1>7, <3>1, Changed, Zenon DEF Turn
    <2>2. \A s \in Threads : job[s] \notin Busy
      BY <1>0, <1>7, Zenon DEF JobInv
    <2>3. pc' = pc /\ pc[t] = "writing"
      BY <1>7, Zenon DEF vars, Begin
    <2> QED BY <1>7, <2>1, <2>2, <2>3, Zenon DEF JobInv, Jobs
  <1>8. ASSUME NEW t \in Threads, AllocatePages(t) PROVE JobInv'
    <2>1. PICK required \in Requests : C!AllocatePages(required)
      BY <1>8, Zenon DEF AllocatePages
    <2>2. cpc = "idle" /\ pages' = required /\ cpc' \in {"insert", "take"}
      BY <2>1, Zenon DEF C!AllocatePages
    <2>3. cpc' # "idle" /\ pages' # 0 /\ "allocate" # "free"
      BY <2>2, Bounds
    <2> QED BY <1>7, <1>8, <2>2, <2>3, Zenon DEF AllocatePages
  <1>9. ASSUME NEW t \in Threads, FreePage(t) PROVE JobInv'
    <2>1. PICK b \in held : C!FreePage(b)
      BY <1>9, Zenon DEF FreePage
    <2>2. cpc = "idle" /\ cpc' = "insert" /\ pages' = pages
      BY <2>1, Zenon DEF C!FreePage
    <2>3. cpc' # "idle" /\ pages' = 0
      <3>1. pages = 0
        BY <2>2, Zenon DEF AccessInv, ChunkInv, OperationInv
      <3> QED BY <2>2, <3>1
    <2> QED BY <1>7, <1>9, <2>2, <2>3, Zenon DEF FreePage
  <1>10. ASSUME NEW t \in Threads, AllocateFails(t) PROVE JobInv'
    <2>1. UNCHANGED <<pc, cpc, pages>>
      BY <1>10, Zenon DEF AllocateFails, C!AllocateFails, vars
    <2>2. job[t] = "none" /\ Turn(t, "over")
      BY <1>10, Zenon DEF AllocateFails, Begin
    <2>3. "over" \in Jobs /\ "over" \notin Busy /\ job[t] \notin Busy
      BY <2>2 DEF Jobs
    <2> QED BY <1>0, <2>1, <2>2, <2>3, JobGoesOn, Zenon
  <1>11. ASSUME NEW t \in Threads, job[t] \in Busy, cpc' = "idle", NEW x \in {"over", "taken"}, Turn(t, x)
         PROVE  JobInv'
    <2>1. x \in Jobs /\ x \notin Busy
      BY DEF Jobs, Owning
    <2>2. /\ job' \in [Threads -> Jobs] /\ job'[t] = x
          /\ \A s \in Threads : s # t => job'[s] = job[s]
      BY <1>0, <1>11, <2>1, Changed, Zenon DEF Turn
    <2>3. \A s \in Threads : s # t => job[s] \notin Busy
      BY <1>11, OneOperation, Zenon
    <2>4. \A s \in Threads : job'[s] \notin Busy
      BY <2>1, <2>2, <2>3, Zenon
    <2> QED BY <1>11, <2>2, <2>4, Zenon DEF JobInv, Jobs
  <1>12. ASSUME NEW t \in Threads, Insert(t) PROVE JobInv'
    <2>1. job[t] \in Busy /\ pc' = pc
      BY <1>12, Zenon DEF Insert, vars
    <2>2. pages' = pages
      BY <1>12, Zenon DEF Insert, C!MergeBefore, C!MergeAfter, C!LinkBlock
    <2>3. cpc' = "insert" \/ cpc' = IF pages = 0 THEN "idle" ELSE "take"
      BY <1>12, Zenon DEF Insert, C!MergeBefore, C!MergeAfter, C!LinkBlock
    <2>4. CASE job[t] = "free" /\ cpc' = "idle"
      BY <1>11, <1>12, <2>1, <2>4, Zenon DEF Insert
    <2>5. CASE ~(job[t] = "free" /\ cpc' = "idle")
      <3>1. job' = job
        BY <1>12, <2>5, Zenon DEF Insert
      <3>2. cpc' # "idle"
        <4>1. job[t] = "free" <=> pages = 0
          BY <1>0, <2>1, Zenon DEF JobInv
        <4> QED BY <2>3, <2>5, <4>1
      <3> QED BY <1>0, <2>1, <2>2, <3>1, <3>2, Zenon DEF JobInv, Jobs
    <2> QED BY <2>4, <2>5, Zenon
  <1>13. ASSUME NEW t \in Threads, TakeBlock(t) PROVE JobInv'
    <2>1. job[t] = "allocate" /\ cpc' = "idle" /\ Turn(t, "taken")
      BY <1>13, Zenon DEF TakeBlock, C!TakeBlock
    <2> QED BY <1>11, <2>1, Zenon
  <1>14. ASSUME UNCHANGED allVars PROVE JobInv'
    <2>1. UNCHANGED <<pc, job, cpc, pages>>
      BY <1>14, Zenon DEF allVars, vars, chunkVars
    <2> QED BY <1>0, <2>1, JobStays, Zenon
  <1> QED BY <1>2, <1>3, <1>4, <1>5, <1>6, <1>8, <1>9, <1>10, <1>12, <1>13, <1>14, Zenon
          DEF AccessNext, Work

\* The labels are different.
LEMMA Labels ==
    /\ "none" \in Jobs /\ "over" \in Jobs /\ "allocate" \in Jobs /\ "free" \in Jobs
    /\ Owning \subseteq Jobs /\ Looking \subseteq Jobs /\ Owning \cap Looking = {}
    /\ \A x \in {"none", "over", "allocate", "free"} : x \notin Owning \cup Looking
    /\ "taken" \in Owning /\ "init" \in Owning /\ "publish" \in Owning
    /\ "found" \in Looking /\ "test" \in Looking /\ "head" \in Looking
    /\ "taken" # "publish" /\ "init" # "publish" /\ "found" # "head" /\ "test" # "head"
  BY DEF Jobs, Owning, Looking

\* A thread goes on to x.
LEMMA Turned ==
    ASSUME job \in [Threads -> Jobs], NEW t \in Threads, NEW x \in Jobs, Turn(t, x)
    PROVE  job'[t] = x /\ \A s \in Threads : s # t => job'[s] = job[s]
  BY Changed, Zenon DEF Turn

\* A thread goes on with its page, or with none; the heads of the pages stay as they
\* are.
LEMMA HeadStays ==
    ASSUME HeadInv, NEW t \in Threads, NEW x \in Jobs, job \in [Threads -> Jobs], Turn(t, x),
           x \in Owning => job[t] \in Owning, x \in Looking => job[t] \in Looking,
           x \notin {"publish", "head"}, UNCHANGED <<mine, just, ready, overtaken, held>>
    PROVE  HeadInv'
  <1>1. job'[t] = x /\ \A s \in Threads : s # t => job'[s] = job[s]
    BY Turned, Zenon
  <1>2. /\ \A s \in Threads : job'[s] \in Owning => job[s] \in Owning
        /\ \A s \in Threads : job'[s] \in Looking => job[s] \in Looking
        /\ \A s \in Threads : job'[s] \in {"publish", "head"} => job'[s] = job[s]
    BY <1>1, Zenon
  <1> QED BY <1>2, NextPages, Zenon DEF HeadInv

\* A thread lets its page go.
LEMMA PageLetGo ==
    ASSUME HeadInv, NEW t \in Threads, job \in [Threads -> Jobs], Turn(t, "none"), Keep(t, INDEX_NULL),
           UNCHANGED <<ready, held>>, \A b \in held : b.page \in just' \cup ready,
           \A s \in Threads : s # t /\ job[s] \in Owning => mine[s] \in just',
           \A s \in Threads : s # t => (s \in overtaken' <=> s \in overtaken)
    PROVE  HeadInv'
  <1>1. job'[t] = "none" /\ \A s \in Threads : s # t => job'[s] = job[s]
    <2>1. "none" \in Jobs
      BY Labels, Zenon
    <2> QED BY <2>1, Turned, Zenon
  <1>2. /\ mine' \in [Threads -> IndexOrNull] /\ mine'[t] = INDEX_NULL
        /\ \A s \in Threads : s # t => mine'[s] = mine[s]
    <2>1. INDEX_NULL \in IndexOrNull
      BY Zenon DEF IndexOrNull
    <2> QED BY <2>1, Changed, Zenon DEF Keep, HeadInv
  <1>3. \A s \in Threads : s = t => job'[s] \notin Owning \cup Looking
    BY <1>1, Labels, Zenon
  <1>4. \A s \in Threads : s = t => job'[s] \notin {"publish", "head"}
    BY <1>3, Labels, Zenon
  <1>5. \A s \in Threads : job'[s] \in Owning => s # t /\ mine'[s] \in just' /\ \E b \in held : mine'[s] = b.page
    BY <1>1, <1>2, <1>3, Zenon DEF HeadInv
  <1>6. \A s, u \in Threads : s # u /\ job'[s] \in Owning /\ job'[u] \in Owning => mine'[s] # mine'[u]
    BY <1>1, <1>2, <1>5, Zenon DEF HeadInv
  <1>7. \A s \in Threads : job'[s] \in Looking => s \in overtaken' \/ \E b \in held : mine'[s] = b.page
    BY <1>1, <1>2, <1>3, Zenon DEF HeadInv
  <1>8. /\ \A s \in Threads : job'[s] = "publish" => mine'[s] \in ready
        /\ \A s \in Threads : job'[s] = "head" => s \in overtaken' \/ mine'[s] \in ready
    BY <1>1, <1>2, <1>4, Zenon DEF HeadInv
  <1> QED BY <1>2, <1>5, <1>6, <1>7, <1>8, NextPages, Zenon DEF HeadInv

\* A page that is not linked yet stays with its owner, and every page that is handed
\* out is flagged or has its head.
LEMMA HeadInvNext ==
    ASSUME AccessInv, [AccessNext]_allVars
    PROVE  HeadInv'
  <1>0. HeadInv /\ ChunkInv /\ job \in [Threads -> Jobs] /\ mine \in [Threads -> IndexOrNull]
    BY Zenon DEF AccessInv, JobInv, HeadInv
  <1>1. ASSUME UNCHANGED <<job, mine, just, ready, overtaken, held>> PROVE HeadInv'
    BY <1>0, <1>1, NextPages, Zenon DEF HeadInv
  <1>2. ASSUME NEW t \in Threads, Call(t) \/ Wait(t) \/ GetIn(t) PROVE HeadInv'
    BY <1>1, <1>2, Zenon DEF Call, Wait, GetIn, chunkVars, headVars
  <1>3. ASSUME NEW t \in Threads, Release(t) PROVE HeadInv'
    <2>1. UNCHANGED <<mine, just, ready, overtaken, held>>
      BY <1>3, Zenon DEF Release, chunkVars, headVars
    <2>2. \/ job[t] = "over" /\ Turn(t, "none")
          \/ job[t] = "taken" /\ Turn(t, "init")
          \/ job[t] = "found" /\ Turn(t, "test")
      BY <1>3 DEF Release
    <2>3. CASE job[t] = "over" /\ Turn(t, "none")
      BY <1>0, <2>1, <2>3, Labels, HeadStays, Zenon
    <2>4. CASE job[t] = "taken" /\ Turn(t, "init")
      <3>1. "init" \in Jobs /\ "init" \notin Looking /\ "init" \notin {"publish", "head"}
        BY Labels, Zenon
      <3> QED BY <1>0, <2>1, <2>4, <3>1, Labels, HeadStays, Zenon
    <2>5. CASE job[t] = "found" /\ Turn(t, "test")
      <3>1. "test" \in Jobs /\ "test" \notin Owning /\ "test" \notin {"publish", "head"}
        BY Labels, Zenon
      <3> QED BY <1>0, <2>1, <2>5, <3>1, Labels, HeadStays, Zenon
    <2> QED BY <2>2, <2>3, <2>4, <2>5, Zenon
  <1>4. ASSUME NEW t \in Threads, AllocatePages(t) \/ AllocateFails(t) PROVE HeadInv'
    <2>1. UNCHANGED <<mine, just, ready, overtaken, held>>
      BY <1>4, Zenon DEF AllocatePages, AllocateFails, C!AllocatePages, C!AllocateFails, headVars
    <2>2. PICK x \in {"allocate", "over"} : Turn(t, x)
      BY <1>4, Zenon DEF AllocatePages, AllocateFails
    <2>3. x \in Jobs /\ x \notin Owning \cup Looking
      BY <2>2, Labels, Zenon
    <2> QED BY <1>0, <2>1, <2>2, <2>3, Labels, HeadStays, Zenon
  <1>5. ASSUME NEW t \in Threads, Insert(t) PROVE HeadInv'
    <2>1. UNCHANGED <<mine, just, ready, overtaken, held>>
      BY <1>5, Zenon DEF Insert, C!MergeBefore, C!MergeAfter, C!LinkBlock, headVars
    <2>2. Turn(t, "over") \/ UNCHANGED job
      BY <1>5, Zenon DEF Insert
    <2> QED BY <1>0, <1>1, <2>1, <2>2, Labels, HeadStays, Zenon
  <1>6. ASSUME NEW t \in Threads, FreePage(t) PROVE HeadInv'
    <2>1. PICK b \in held : /\ b.page \notin just
                            /\ C!FreePage(b)
                            /\ ready' = ready \ {b.page}
                            /\ overtaken' = overtaken \cup {s \in Threads : mine[s] = b.page}
      BY <1>6, Zenon DEF FreePage
    <2>2. held' = held \ {b} /\ mine' = mine /\ just' = just
      BY <1>6, <2>1, Zenon DEF FreePage, C!FreePage
    <2>3. job'[t] = "free" /\ \A s \in Threads : s # t => job'[s] = job[s]
      <3>1. "free" \in Jobs
        BY Labels, Zenon
      <3> QED BY <1>0, <1>6, <3>1, Turned, Zenon DEF FreePage
    <2>4. /\ \A s \in Threads : job'[s] \in Owning \cup Looking => job'[s] = job[s]
          /\ \A s \in Threads : job'[s] \in {"publish", "head"} => job'[s] = job[s]
      BY <2>3, Labels, Zenon
    <2>5. \A c \in held' : c \in held /\ c.page # b.page
      BY <1>0, <2>2, HeadsDiffer, Zenon
    <2>6. \A c \in held' : c.page \in just' \cup ready'
      BY <1>0, <2>1, <2>2, <2>5, Zenon DEF HeadInv
    <2>7. \A s \in Threads : s \in overtaken' \/ mine[s] # b.page
      BY <2>1, Zenon
    <2>8. \A s \in Threads : job[s] \in Owning => mine[s] # b.page
      BY <1>0, <2>1, Zenon DEF HeadInv
    <2>9. \A s \in Threads : (\E c \in held : mine[s] = c.page) /\ mine[s] # b.page => \E c \in held' : mine[s] = c.page
      BY <2>2, Zenon
    <2>10. \A s \in Threads : mine[s] \in ready /\ mine[s] # b.page => mine[s] \in ready'
      BY <2>1, Zenon
    <2>11. /\ \A s \in Threads : job'[s] \in Owning => mine'[s] \in just' /\ \E c \in held' : mine'[s] = c.page
           /\ \A s, u \in Threads : s # u /\ job'[s] \in Owning /\ job'[u] \in Owning => mine'[s] # mine'[u]
           /\ \A s \in Threads : job'[s] = "publish" => mine'[s] \in ready'
      <3>1. \A s \in Threads : job'[s] \in Owning => job[s] \in Owning
        BY <2>4, Zenon
      <3>2. \A s \in Threads : job'[s] = "publish" => job[s] = "publish" /\ job[s] \in Owning
        BY <2>4, Labels, Zenon
      <3>3. \A s \in Threads : job'[s] \in Owning => mine'[s] \in just' /\ \E c \in held' : mine'[s] = c.page
        BY <1>0, <2>2, <2>8, <2>9, <3>1, Zenon DEF HeadInv
      <3>4. \A s, u \in Threads : s # u /\ job'[s] \in Owning /\ job'[u] \in Owning => mine'[s] # mine'[u]
        BY <1>0, <2>2, <3>1, Zenon DEF HeadInv
      <3>5. \A s \in Threads : job'[s] = "publish" => mine'[s] \in ready'
        BY <1>0, <2>2, <2>8, <2>10, <3>2, Zenon DEF HeadInv
      <3> QED BY <3>3, <3>4, <3>5, Zenon
    <2>12. /\ \A s \in Threads : job'[s] \in Looking => s \in overtaken' \/ \E c \in held' : mine'[s] = c.page
           /\ \A s \in Threads : job'[s] = "head" => s \in overtaken' \/ mine'[s] \in ready'
      <3>1. overtaken \subseteq overtaken'
        BY <2>1, Zenon
      <3> QED BY <1>0, <2>2, <2>4, <2>7, <2>9, <2>10, <3>1, Zenon DEF HeadInv
    <2> QED BY <1>0, <2>2, <2>6, <2>11, <2>12, NextPages, Zenon DEF HeadInv
  <1>7. ASSUME NEW t \in Threads, TakeBlock(t) PROVE HeadInv'
    <2>1. /\ cpc = "take" /\ held' = held \cup {[page |-> page, pages |-> pages]}
          /\ just' = just \cup {page} /\ ready' = ready /\ overtaken' = overtaken
      BY <1>7, Zenon DEF TakeBlock, C!TakeBlock
    <2>2. PICK b : b = [page |-> page, pages |-> pages]
      OBVIOUS
    <2>3. b.page = page /\ held' = held \cup {b}
      BY <2>1, <2>2
    <2>4. page \in C!Indices
      BY <1>0, <2>1, Zenon DEF ChunkInv, OperationInv
    <2>5. page \in IndexOrNull
      BY <2>4, Zenon DEF IndexOrNull
    <2>6. job'[t] = "taken" /\ \A s \in Threads : s # t => job'[s] = job[s]
      <3>1. "taken" \in Jobs
        BY Labels, Zenon
      <3> QED BY <1>0, <1>7, <3>1, Turned, Zenon DEF TakeBlock
    <2>7. /\ \A s \in Threads : job'[s] \in Looking => s # t
          /\ \A s \in Threads : job'[s] \in {"publish", "head"} => s # t
      BY <2>6, Labels, Zenon
    <2>8. /\ mine' \in [Threads -> IndexOrNull] /\ mine'[t] = page
          /\ \A s \in Threads : s # t => mine'[s] = mine[s]
      BY <1>0, <1>7, <2>5, Changed, Zenon DEF TakeBlock, Keep
    <2>9. \A c \in held' : c.page \in just' \cup ready'
      BY <1>0, <2>1, <2>3, Zenon DEF HeadInv
    <2>10. \A s \in Threads : (\E c \in held : mine[s] = c.page) => mine[s] # page
      BY <1>0, <2>1, NewPage, Zenon
    <2>11. \A s \in Threads : job'[s] \in Owning => mine'[s] \in just' /\ \E c \in held' : mine'[s] = c.page
      <3> SUFFICES ASSUME NEW s \in Threads, job'[s] \in Owning
                   PROVE  mine'[s] \in just' /\ \E c \in held' : mine'[s] = c.page
        BY Zenon
      <3>1. CASE s = t
        BY <2>1, <2>3, <2>8, <3>1, Zenon
      <3>2. CASE s # t
        <4>1. job[s] \in Owning /\ mine'[s] = mine[s]
          BY <2>6, <2>8, <3>2, Zenon
        <4> QED BY <1>0, <2>1, <2>3, <4>1, Zenon DEF HeadInv
      <3> QED BY <3>1, <3>2, Zenon
    <2>12. \A s, u \in Threads : s # u /\ job'[s] \in Owning /\ job'[u] \in Owning => mine'[s] # mine'[u]
      <3>1. \A s \in Threads : s # t /\ job'[s] \in Owning => job[s] \in Owning /\ mine'[s] = mine[s] /\ mine[s] # page
        BY <1>0, <2>6, <2>8, <2>10, Zenon DEF HeadInv
      <3>2. mine'[t] = page
        BY <2>8, Zenon
      <3> SUFFICES ASSUME NEW s \in Threads, NEW u \in Threads, s # u, job'[s] \in Owning, job'[u] \in Owning
                   PROVE  mine'[s] # mine'[u]
        BY Zenon
      <3>3. CASE s = t \/ u = t
        BY <3>1, <3>2, <3>3, Zenon
      <3>4. CASE s # t /\ u # t
        BY <1>0, <3>1, <3>4, Zenon DEF HeadInv
      <3> QED BY <3>3, <3>4, Zenon
    <2>13. /\ \A s \in Threads : job'[s] = "publish" => mine'[s] \in ready'
           /\ \A s \in Threads : job'[s] \in Looking => s \in overtaken' \/ \E c \in held' : mine'[s] = c.page
           /\ \A s \in Threads : job'[s] = "head" => s \in overtaken' \/ mine'[s] \in ready'
      BY <1>0, <2>1, <2>3, <2>6, <2>7, <2>8, Zenon DEF HeadInv
    <2> QED BY <2>8, <2>9, <2>11, <2>12, <2>13, NextPages, Zenon DEF HeadInv
  <1>8. ASSUME NEW t \in Threads, InitPage(t) PROVE HeadInv'
    <2>1. /\ job[t] = "init" /\ ready' = ready \cup {mine[t]}
          /\ UNCHANGED <<just, mine, overtaken, held>>
      BY <1>8, Zenon DEF InitPage, chunkVars
    <2>2. job'[t] = "publish" /\ \A s \in Threads : s # t => job'[s] = job[s]
      <3>1. "publish" \in Jobs
        BY Labels, Zenon
      <3> QED BY <1>0, <1>8, <3>1, Turned, Zenon DEF InitPage
    <2>3. /\ \A s \in Threads : job'[s] \in Owning => job[s] \in Owning
          /\ \A s \in Threads : job'[s] \in Looking => job[s] \in Looking
          /\ \A s \in Threads : job'[s] = "head" => job[s] = "head"
      BY <2>1, <2>2, Labels, Zenon
    <2>4. \A s \in Threads : job'[s] = "publish" => mine[s] \in ready'
      BY <1>0, <2>1, <2>2, Zenon DEF HeadInv
    <2> QED BY <1>0, <2>1, <2>3, <2>4, NextPages, Zenon DEF HeadInv
  <1>9. ASSUME NEW t \in Threads, PublishPage(t) PROVE HeadInv'
    <2>1. /\ job[t] = "publish" /\ just' = just \ {mine[t]} /\ Keep(t, INDEX_NULL) /\ Turn(t, "none")
          /\ UNCHANGED <<ready, overtaken, held>>
      BY <1>9, Zenon DEF PublishPage, chunkVars
    <2>2. mine[t] \in ready
      BY <1>0, <2>1, Zenon DEF HeadInv
    <2>3. \A b \in held : b.page \in just' \cup ready
      BY <1>0, <2>1, <2>2, Zenon DEF HeadInv
    <2>4. \A s \in Threads : s # t /\ job[s] \in Owning => mine[s] \in just'
      BY <1>0, <2>1, Labels, Zenon DEF HeadInv
    <2> QED BY <1>0, <2>1, <2>3, <2>4, PageLetGo, Zenon
  <1>10. ASSUME NEW t \in Threads, Validate(t) PROVE HeadInv'
    <2>1. PICK i \in C!Indices : /\ Keep(t, C!Validate(i))
                                 /\ Turn(t, IF C!Validate(i) = INDEX_NULL THEN "over" ELSE "found")
      BY <1>10, Zenon DEF Validate
    <2>2. UNCHANGED <<just, ready, overtaken, held>>
      BY <1>10, Zenon DEF Validate, chunkVars, headVars
    <2>3. C!Validate(i) = INDEX_NULL \/ \E b \in held : C!Validate(i) = b.page
      BY <1>0, ValidateHolds, Zenon
    <2>4. C!Validate(i) \in IndexOrNull
      BY <1>0, <2>3, Places, Zenon DEF IndexOrNull
    <2>5. /\ job'[t] = IF C!Validate(i) = INDEX_NULL THEN "over" ELSE "found"
          /\ \A s \in Threads : s # t => job'[s] = job[s]
      <3>1. (IF C!Validate(i) = INDEX_NULL THEN "over" ELSE "found") \in Jobs
        BY Labels, Zenon
      <3> QED BY <1>0, <2>1, <3>1, Turned, Zenon
    <2>6. /\ \A s \in Threads : job'[s] \in Owning => s # t
          /\ job'[t] \in Looking => C!Validate(i) # INDEX_NULL
          /\ \A s \in Threads : job'[s] \in {"publish", "head"} => s # t
      BY <2>5, Labels, Zenon
    <2>7. /\ mine' \in [Threads -> IndexOrNull] /\ mine'[t] = C!Validate(i)
          /\ \A s \in Threads : s # t => mine'[s] = mine[s]
      BY <1>0, <2>1, <2>4, Changed, Zenon DEF Keep
    <2>8. \A s \in Threads : job'[s] \in Looking => s \in overtaken' \/ \E b \in held : mine'[s] = b.page
      BY <1>0, <2>2, <2>3, <2>5, <2>6, <2>7, Zenon DEF HeadInv
    <2>9. \A s \in Threads : job'[s] \in Owning => job[s] \in Owning /\ mine'[s] = mine[s]
      BY <2>5, <2>6, <2>7, Zenon
    <2>10. \A s \in Threads : job'[s] \in {"publish", "head"} => job[s] = job'[s] /\ mine'[s] = mine[s]
      BY <2>5, <2>6, <2>7, Zenon
    <2>11. /\ \A s \in Threads : job'[s] = "publish" => mine'[s] \in ready
           /\ \A s \in Threads : job'[s] = "head" => s \in overtaken' \/ mine'[s] \in ready
      BY <1>0, <2>2, <2>10, Zenon DEF HeadInv
    <2>12. /\ \A s \in Threads : job'[s] \in Owning => mine'[s] \in just /\ \E b \in held : mine'[s] = b.page
           /\ \A s, u \in Threads : s # u /\ job'[s] \in Owning /\ job'[u] \in Owning => mine'[s] # mine'[u]
      BY <1>0, <2>9, Zenon DEF HeadInv
    <2> QED BY <1>0, <2>2, <2>7, <2>8, <2>11, <2>12, NextPages, Zenon DEF HeadInv
  <1>11. ASSUME NEW t \in Threads, TestJustAllocated(t) PROVE HeadInv'
    <2>1. job[t] = "test" /\ UNCHANGED <<just, ready, held>>
      BY <1>11, Zenon DEF TestJustAllocated, chunkVars
    <2>2. CASE mine[t] \in just
      <3>1. Turn(t, "none") /\ Keep(t, INDEX_NULL) /\ overtaken' = overtaken \ {t}
        BY <1>11, <2>2, Zenon DEF TestJustAllocated, LookedUp
      <3> QED BY <1>0, <2>1, <3>1, PageLetGo, Zenon DEF HeadInv
    <2>3. CASE mine[t] \notin just
      <3>1. Turn(t, "head") /\ UNCHANGED <<mine, overtaken>>
        BY <1>11, <2>3, Zenon DEF TestJustAllocated
      <3>2. t \in overtaken \/ mine[t] \in ready
        BY <1>0, <2>1, <2>3, Labels, Zenon DEF HeadInv
      <3>3. job'[t] = "head" /\ \A s \in Threads : s # t => job'[s] = job[s]
        <4>1. "head" \in Jobs
          BY Labels, Zenon
        <4> QED BY <1>0, <3>1, <4>1, Turned, Zenon
      <3>4. /\ \A s \in Threads : job'[s] \in Owning => job[s] \in Owning
            /\ \A s \in Threads : job'[s] \in Looking => job[s] \in Looking
            /\ \A s \in Threads : job'[s] = "publish" => job[s] = "publish"
        BY <2>1, <3>3, Labels, Zenon
      <3>5. \A s \in Threads : job'[s] = "head" => s \in overtaken \/ mine[s] \in ready
        BY <1>0, <3>2, <3>3, Zenon DEF HeadInv
      <3> QED BY <1>0, <2>1, <3>1, <3>4, <3>5, NextPages, Zenon DEF HeadInv
    <2> QED BY <2>2, <2>3, Zenon
  <1>12. ASSUME NEW t \in Threads, ReadHead(t) PROVE HeadInv'
    <2>1. Turn(t, "none") /\ Keep(t, INDEX_NULL) /\ overtaken' = overtaken \ {t} /\ UNCHANGED <<just, ready, held>>
      BY <1>12, Zenon DEF ReadHead, LookedUp, chunkVars
    <2> QED BY <1>0, <2>1, PageLetGo, Zenon DEF HeadInv
  <1>13. ASSUME UNCHANGED allVars PROVE HeadInv'
    BY <1>1, <1>13, Zenon DEF allVars, chunkVars, headVars
  <1> QED BY <1>2, <1>3, <1>4, <1>5, <1>6, <1>7, <1>8, <1>9, <1>10, <1>11, <1>12, <1>13, Zenon
          DEF AccessNext, Work

-----------------------------------------------------------------------------
(* Theorems *)

\* The whole invariant holds at the beginning,
LEMMA AccessInvInit == AccessInit => AccessInv
  <1> SUFFICES ASSUME AccessInit PROVE AccessInv
    OBVIOUS
  <1>1. LockInv /\ ChunkInv
    BY LockInvInit, ChunkInvInit, Zenon DEF AccessInit
  <1>2. \A t \in Threads : job[t] = "none" /\ mine[t] = INDEX_NULL
    BY Zenon DEF AccessInit
  <1>3. job \in [Threads -> Jobs] /\ mine \in [Threads -> IndexOrNull]
    BY DEF AccessInit, Jobs, IndexOrNull
  <1>4. "none" \notin {"allocate", "free"} /\ "none" \notin Owning /\ "none" \notin Looking
        /\ "none" \notin {"publish", "head"}
    BY DEF Owning, Looking
  <1>5. cpc = "idle" /\ held = {}
    BY Zenon DEF AccessInit, C!Init
  <1>6. JobInv
    BY <1>2, <1>3, <1>4, <1>5, Zenon DEF JobInv
  <1>7. HeadInv
    BY <1>2, <1>3, <1>4, <1>5, Zenon DEF HeadInv
  <1> QED BY <1>1, <1>6, <1>7, Zenon DEF AccessInv

\* every step of every thread keeps it,
LEMMA AccessInvNext == AccessInv /\ [AccessNext]_allVars => AccessInv'
  <1> SUFFICES ASSUME AccessInv, [AccessNext]_allVars PROVE AccessInv'
    OBVIOUS
  <1>1. LockInv'
    BY LockSteps, LockInvNext, Zenon DEF AccessInv
  <1>2. ChunkInv'
    BY ChunkInvNext, Zenon DEF AccessInv
  <1> QED BY <1>1, <1>2, JobInvNext, HeadInvNext, Zenon DEF AccessInv

\* and so it always holds.
LEMMA AccessInvariant == AccessSpec => []AccessInv
  BY AccessInvInit, AccessInvNext, PTL DEF AccessSpec

\* The word of the chunk's lock counts the threads that hold it, for any number
\* of threads.
THEOREM WordIsExact == AccessSpec => []WordCountsHolders
  <1>1. AccessInv => WordCountsHolders
    BY Zenon DEF AccessInv, LockInv
  <1> QED BY <1>1, AccessInvariant, PTL

\* A writer shares the chunk's tables with nobody, for any number of threads.
THEOREM WriterIsAlone == AccessSpec => []WriterAlone
  <1>1. AccessInv => WriterAlone
    BY Zenon DEF AccessInv, LockInv
  <1> QED BY <1>1, AccessInvariant, PTL

\* For a chunk of any size and any number of threads the free list holds exactly
\* the pages nobody has, in order, with no two blocks that touch.
THEOREM FreeListKept == AccessSpec => []FreeListExact
  <1>1. AccessInv => FreeListExact
    BY FreeListHolds, Zenon DEF AccessInv
  <1> QED BY <1>1, AccessInvariant, PTL

\* For a chunk of any size validate reads tables nobody is changing, finds the
\* block of every page that is handed out and rejects every other page.
THEOREM ValidateFindsBlocks == AccessSpec => []ValidateExact
  <1>1. ASSUME AccessInv PROVE ValidateExact
    <2>1. ChunkInv /\ \A t \in Threads : pc[t] = "reading" => cpc = "idle"
      BY <1>1, ReadersMeetNobody, Zenon DEF AccessInv
    <2>2. C!HeldPages = HeldPages
      BY <2>1, SamePages, Zenon
    <2>3. C!ValidateExact
      BY <2>1, <2>2, ValidateHolds, Zenon DEF C!ValidateExact, Run
    <2> QED BY <2>1, <2>3, Zenon DEF ValidateExact
  <1> QED BY <1>1, AccessInvariant, PTL

\* For any number of threads: unless free_page has freed the page since validate
\* returned it, woomem_validate_addr reads no head that a former use of the page left
\* behind and none that is half written.
THEOREM HeadsReadAreInitialised == AccessSpec => []ReadsInitialisedHeads
  <1>1. ASSUME AccessInv PROVE ReadsInitialisedHeads
    <2>1. SUFFICES ASSUME NEW t \in Threads, job[t] = "head", t \notin overtaken
                   PROVE  mine[t] \in ready \cap {b.page : b \in held}
      BY Zenon DEF ReadsInitialisedHeads
    <2>2. job[t] \in Looking
      BY <2>1, Labels, Zenon
    <2>3. mine[t] \in ready /\ \E b \in held : mine[t] = b.page
      BY <1>1, <2>1, <2>2, Zenon DEF AccessInv, HeadInv
    <2> QED BY <2>3, Zenon
  <1> QED BY <1>1, AccessInvariant, PTL

\* A step of the threads is a step of the abstract map of page runs, or none.
LEMMA MapSteps ==
    ASSUME AccessInv, [AccessNext]_allVars
    PROVE  [C!Map!Next]_<<held, result>>
  <1>0. ChunkInv
    BY Zenon DEF AccessInv
  <1>1. CASE ~ChunkStep
    BY <1>1, OtherSteps, Zenon
  <1>2. ASSUME NEW t \in Threads, AllocatePages(t) \/ Insert(t) PROVE UNCHANGED <<held, result>>
    BY <1>2, Zenon DEF AllocatePages, C!AllocatePages, Insert, C!MergeBefore, C!MergeAfter, C!LinkBlock
  <1>3. ASSUME NEW t \in Threads, AllocateFails(t) PROVE C!Map!Next
    <2>1. PICK required \in Requests : C!AllocateFails(required)
      BY <1>3, Zenon DEF AllocateFails
    <2>2. /\ cpc = "idle" /\ C!FindBlock(required) = INDEX_NULL
          /\ result' = [page |-> INDEX_NULL, pages |-> required] /\ held' = held
      BY <2>1, Zenon DEF C!AllocateFails
    <2>3. \A p \in C!Indices : ~C!Map!Fits(p, required)
      BY <1>0, <2>2, NoRunIsLongEnough, Zenon
    <2>4. C!Map!Fail(required)
      BY <2>2, <2>3, Zenon DEF C!Map!Fail, C!Map!Indices, C!Indices
    <2> QED BY <2>4, Zenon DEF C!Map!Next
  <1>4. ASSUME NEW t \in Threads, FreePage(t) PROVE C!Map!Next
    <2>1. PICK b \in held : C!FreePage(b)
      BY <1>4, Zenon DEF FreePage
    <2>2. C!Map!Free(b)
      BY <2>1, Zenon DEF C!FreePage, C!NoResult, C!Map!Free, C!Map!NoResult
    <2> QED BY <2>2, Zenon DEF C!Map!Next
  <1>5. ASSUME NEW t \in Threads, TakeBlock(t) PROVE C!Map!Next
    <2>1. /\ cpc = "take" /\ held' = held \cup {[page |-> page, pages |-> pages]}
          /\ result' = [page |-> page, pages |-> pages]
      BY <1>5, Zenon DEF TakeBlock, C!TakeBlock
    <2>2. /\ pages # 0 /\ pages \in Requests /\ page \in C!Indices /\ pages \in Nat
          /\ page + pages <= TotalPages
      BY <1>0, <2>1, Zenon DEF ChunkInv, OperationInv
    <2>3. \A i \in Run(page, pages) : i \in C!Indices /\ i \notin HeldPages
      <3>1. Run(page, pages) \subseteq C!Indices
        BY <2>2, Bounds DEF Run
      <3>2. Run(page, pages) = InHand
        BY <2>2, Zenon DEF InHand
      <3> QED BY <1>0, <3>1, <3>2, Zenon DEF ChunkInv, Tiles
    <2>4. C!Map!Fits(page, pages)
      BY <1>0, <2>3, SamePages, Zenon DEF C!Map!Fits, C!Map!Span, C!Map!Indices, C!Indices, Run
    <2>5. C!Map!Allocate(page, pages)
      BY <2>1, <2>4, Zenon DEF C!Map!Allocate
    <2>6. page \in C!Map!Indices
      BY <2>2, Zenon DEF C!Map!Indices, C!Indices
    <2> QED BY <2>2, <2>5, <2>6, Zenon DEF C!Map!Next
  <1> QED BY <1>1, <1>2, <1>3, <1>4, <1>5, Zenon DEF ChunkStep

\* The calls of all threads together behave like the abstract map of page runs,
\* for a chunk of any size: the runs handed out are disjoint, and allocate_pages
\* fails only for want of a run.
THEOREM RefinesPageMap == AccessSpec => ImplementsPageMap
  <1>1. AccessInit => C!Map!Init
    BY Zenon DEF AccessInit, C!Init, C!NoResult, C!Map!Init, C!Map!NoResult
  <1>2. AccessInv /\ [AccessNext]_allVars => [C!Map!Next]_<<held, result>>
    BY MapSteps, Zenon
  <1>3. ImplementsPageMap <=> C!Map!Init /\ [][C!Map!Next]_<<held, result>>
    BY DEF ImplementsPageMap, C!ImplementsPageMap, C!Map!Spec, C!Map!vars
  <1> QED BY <1>1, <1>2, <1>3, AccessInvariant, PTL DEF AccessSpec

-----------------------------------------------------------------------------
(* The sizes of units *)

\* The least of a set of numbers.
LEMMA LeastOf ==
    ASSUME NEW S \in SUBSET Nat, S # {}
    PROVE  Min(S) \in S /\ \A k \in S : Min(S) <= k
  <1>1. \E m \in S : \A k \in S : m <= k
    BY Least, Zenon
  <1> QED BY <1>1, Zenon DEF Min

\* The tables of the thirteen groups, and of the eight small ones.
LEMMA TableSizes == Groups = 1 .. 13 /\ DOMAIN LastEntry = 1 .. 8
  BY DEF Groups, GROUP_SIZE_LOOKUP_TABLE, LastEntry

\* The limits are the sizes of the last small group and of the last group.
LEMMA Limits ==
    /\ MAX_SMALL_UNIT_SIZE \in Nat /\ MAX_IN_PAGE_UNIT_SIZE \in Nat
    /\ GROUP_SIZE_LOOKUP_TABLE[8] = MAX_SMALL_UNIT_SIZE
    /\ GROUP_SIZE_LOOKUP_TABLE[13] = MAX_IN_PAGE_UNIT_SIZE
  BY DEF MAX_SMALL_UNIT_SIZE, MAX_IN_PAGE_UNIT_SIZE, GROUP_SIZE_LOOKUP_TABLE

\* The tables agree: the last entry of a group is its size in steps of 8.
LEMMA Tables ==
    /\ \A g \in Groups : GROUP_SIZE_LOOKUP_TABLE[g] \in Nat
    /\ \A g \in 1 .. 8 : /\ LastEntry[g] \in Nat
                         /\ GROUP_SIZE_LOOKUP_TABLE[g] = 8 * LastEntry[g]
                         /\ GROUP_SIZE_LOOKUP_TABLE[g] <= MAX_SMALL_UNIT_SIZE
  BY TableSizes DEF GROUP_SIZE_LOOKUP_TABLE, LastEntry, MAX_SMALL_UNIT_SIZE

\* eval_group_by_small_unit_size gives the smallest group that is large enough.
LEMMA GroupFits ==
    ASSUME NEW size \in 0 .. MAX_IN_PAGE_UNIT_SIZE
    PROVE  /\ EvalGroup(size) \in Groups
           /\ GROUP_SIZE_LOOKUP_TABLE[EvalGroup(size)] >= size
           /\ \A g \in Groups : g < EvalGroup(size) => GROUP_SIZE_LOOKUP_TABLE[g] < size
  <1>1. size \in Nat /\ size <= MAX_IN_PAGE_UNIT_SIZE
    BY Limits
  <1>2. CASE size <= MAX_SMALL_UNIT_SIZE
    <2> DEFINE S == {g \in 1 .. 8 : FastLookupIndex(size) <= LastEntry[g]}
    <2>1. \A g \in 1 .. 8 : FastLookupIndex(size) <= LastEntry[g] <=> size <= GROUP_SIZE_LOOKUP_TABLE[g]
      BY <1>1, Tables, TableSizes DEF FastLookupIndex
    <2>2. 8 \in S /\ S \in SUBSET Nat
      BY <1>2, <2>1, Limits
    <2>3. EvalGroup(size) = Min(S)
      <3>0. DOMAIN LastEntry = 1 .. 8
        BY TableSizes, Zenon
      <3>1. S = {g \in DOMAIN LastEntry : FastLookupIndex(size) <= LastEntry[g]}
        BY ONLY <3>0, Zenon
      <3>2. S # {}
        BY <2>2, Zenon
      <3> HIDE DEF S
      <3>3. FastLookup(FastLookupIndex(size)) = Min(S)
        BY <3>1, <3>2, Zenon DEF FastLookup
      <3> QED BY <1>2, <3>3, Zenon DEF EvalGroup
    <2>4. Min(S) \in S /\ \A k \in S : Min(S) <= k
      <3> HIDE DEF S
      <3> QED BY <2>2, LeastOf, Zenon
    <2>5. PICK m : m = Min(S)
      OBVIOUS
    <2>6. m \in 1 .. 8 /\ size <= GROUP_SIZE_LOOKUP_TABLE[m]
      BY <2>1, <2>4, <2>5, Zenon
    <2>7. ASSUME NEW g \in Groups, g < m PROVE GROUP_SIZE_LOOKUP_TABLE[g] < size
      <3>1. g \in 1 .. 8 /\ ~(m <= g)
        BY <2>6, <2>7, Tables, TableSizes
      <3>2. ~(size <= GROUP_SIZE_LOOKUP_TABLE[g])
        BY <2>1, <2>4, <2>5, <3>1, Zenon
      <3> QED BY <1>1, <3>1, <3>2, Tables, TableSizes
    <2>8. m \in Groups /\ GROUP_SIZE_LOOKUP_TABLE[m] >= size
      BY <1>1, <2>6, Tables, TableSizes
    <2> QED BY <2>3, <2>5, <2>7, <2>8, Zenon
  <1>3. CASE ~(size <= MAX_SMALL_UNIT_SIZE)
    <2> DEFINE S == {g \in 9 .. 13 : g = 13 \/ size <= GROUP_SIZE_LOOKUP_TABLE[g]}
    <2>1. 13 \in S /\ S \in SUBSET Nat
      OBVIOUS
    <2>2. EvalGroup(size) = Min(S)
      BY <1>3, Zenon DEF EvalGroup
    <2>3. Min(S) \in S /\ \A k \in S : Min(S) <= k
      <3> HIDE DEF S
      <3> QED BY <2>1, LeastOf, Zenon
    <2>4. PICK m : m = Min(S)
      OBVIOUS
    <2>5. m \in 9 .. 13 /\ (m = 13 \/ size <= GROUP_SIZE_LOOKUP_TABLE[m])
      BY <2>3, <2>4, Zenon
    <2>6. ASSUME NEW g \in Groups, g < m PROVE GROUP_SIZE_LOOKUP_TABLE[g] < size
      <3>1. CASE g \in 9 .. 13
        <4>1. ~(m <= g)
          BY <2>5, <2>6, <3>1
        <4>2. ~(size <= GROUP_SIZE_LOOKUP_TABLE[g])
          BY <2>3, <2>4, <3>1, <4>1, Zenon
        <4> QED BY <1>1, <4>2, Tables, TableSizes
      <3>2. CASE g \in 1 .. 8
        BY <1>1, <1>3, <3>2, Limits, Tables, TableSizes
      <3> QED BY <3>1, <3>2, Tables, TableSizes
    <2>7. m \in Groups /\ GROUP_SIZE_LOOKUP_TABLE[m] >= size
      BY <1>1, <2>5, Limits, Tables, TableSizes
    <2> QED BY <2>2, <2>4, <2>6, <2>7, Zenon
  <1> QED BY <1>2, <1>3, Zenon

\* woomem_allocate_begin chooses the smallest unit that is large enough.
LEMMA UnitFits ==
    ASSUME NEW size \in 0 .. MAX_IN_PAGE_UNIT_SIZE \cup HugeSizes, NEW u, u = UnitFor(size)
    PROVE  IF u.huge
           THEN /\ AvailableSize(u) >= size
                /\ PageHeadSize + UnitHeadSize + AvailableSize(u) <= u.pages * NORMAL_PAGE_SIZE
                /\ PageHeadSize + UnitHeadSize + size > (u.pages - 1) * NORMAL_PAGE_SIZE
           ELSE /\ u.group \in Groups
                /\ AvailableSize(u) >= size
                /\ \A g \in Groups : g < u.group => GROUP_SIZE_LOOKUP_TABLE[g] < size
  <1>1. size \in Nat
    BY HugeAssumption
  <1>2. CASE size <= MAX_IN_PAGE_UNIT_SIZE
    <2>1. size \in 0 .. MAX_IN_PAGE_UNIT_SIZE
      BY <1>1, <1>2, Limits
    <2>2. u = [huge |-> FALSE, group |-> EvalGroup(size), pages |-> 1]
      BY <1>2, Zenon DEF UnitFor
    <2>3. u.huge = FALSE /\ u.group = EvalGroup(size)
      BY <2>2
    <2>4. AvailableSize(u) = GROUP_SIZE_LOOKUP_TABLE[EvalGroup(size)]
      BY <2>3, Zenon DEF AvailableSize
    <2> QED BY <2>1, <2>3, <2>4, GroupFits, Zenon
  <1>3. CASE ~(size <= MAX_IN_PAGE_UNIT_SIZE)
    <2>1. u = [huge |-> TRUE, group |-> None, pages |-> HugePages(size)]
      BY <1>3, Zenon DEF UnitFor
    <2>2. u.huge = TRUE /\ u.pages = HugePages(size)
      BY <2>1
    <2>3. PICK n : n = (size + 32799) \div 32768
      OBVIOUS
    <2>4. HugePages(size) = n
      BY <1>1, <2>3 DEF HugePages, PageHeadSize, UnitHeadSize, NORMAL_PAGE_SIZE
    <2>5. AvailableSize(u) = n * 32768 - 32
      <3>1. AvailableSize(u) = u.pages * NORMAL_PAGE_SIZE - (PageHeadSize + UnitHeadSize)
        BY <2>2, Zenon DEF AvailableSize
      <3>2. PageHeadSize + UnitHeadSize = 32 /\ NORMAL_PAGE_SIZE = 32768
        BY DEF PageHeadSize, UnitHeadSize, NORMAL_PAGE_SIZE
      <3>3. u.pages = n
        BY <2>2, <2>4, Zenon
      <3> QED BY ONLY <3>1, <3>2, <3>3
    <2>6. n \in Int /\ n * 32768 - 32 >= size /\ 32 + size > (n - 1) * 32768
      BY <1>1, <2>3
    <2>7. /\ AvailableSize(u) >= size
          /\ PageHeadSize + UnitHeadSize + AvailableSize(u) <= u.pages * NORMAL_PAGE_SIZE
          /\ PageHeadSize + UnitHeadSize + size > (u.pages - 1) * NORMAL_PAGE_SIZE
      BY <2>2, <2>4, <2>5, <2>6 DEF PageHeadSize, UnitHeadSize, NORMAL_PAGE_SIZE
    <2> QED BY <2>2, <2>7, Zenon
  <1> QED BY <1>2, <1>3, Zenon

\* n units of u bytes fill the bytes up to last: an offset lies in the unit that its
\* quotient names.
Cuts(u, n, last) ==
    \A x \in Nat : x <= last =>
        /\ x \div u < n /\ (x \div u) * u \in Nat
        /\ ((x \div u) * u) % u = 0 /\ ((x \div u) * u) \div u = x \div u
        /\ (x \div u) * u <= x /\ x < (x \div u) * u + u

\* What a page holds besides its head.
LEMMA PageParts ==
    /\ StorageBegin \in Nat /\ NORMAL_PAGE_SIZE \in Nat
    /\ UnitHeadSize = 8 /\ NORMAL_PAGE_SIZE - StorageBegin = 32736
    /\ NORMAL_PAGE_SIZE - StorageBegin - 1 = 32735
  BY DEF NORMAL_PAGE_SIZE, StorageBegin, PageHeadSize, PageUnitAllocSize, UnitHeadSize

\* The units of every group fill a page to its end.
LEMMA PagesAreFilled ==
    ASSUME NEW g \in Groups
    PROVE  /\ Cuts(UnitSizeWithHead(g), UnitCount(g), NORMAL_PAGE_SIZE - StorageBegin - 1)
           /\ UnitSizeWithHead(g) \in Nat
  <1>1. PICK u, n, last : /\ u = UnitSizeWithHead(g) /\ n = UnitCount(g)
                          /\ last = NORMAL_PAGE_SIZE - StorageBegin - 1
    OBVIOUS
  <1>2. u = GROUP_SIZE_LOOKUP_TABLE[g] + 8 /\ n = 32736 \div u /\ last = 32735
    BY <1>1, PageParts DEF UnitSizeWithHead, UnitCount
  <1>3. \/ u = 24 \/ u = 48 \/ u = 96 \/ u = 176 \/ u = 352 \/ u = 528 \/ u = 744 \/ u = 1056
        \/ u = 2728 \/ u = 5456 \/ u = 8184 \/ u = 10912 \/ u = 16368
    BY <1>2, TableSizes DEF GROUP_SIZE_LOOKUP_TABLE
  <1>4. Cuts(u, n, last) /\ u \in Nat
    <2>1. CASE u = 24
      <3>1. Cuts(24, 1364, 32735)
        BY DEF Cuts
      <3> QED BY ONLY <1>2, <2>1, <3>1
    <2>2. CASE u = 48
      <3>1. Cuts(48, 682, 32735)
        BY DEF Cuts
      <3> QED BY ONLY <1>2, <2>2, <3>1
    <2>3. CASE u = 96
      <3>1. Cuts(96, 341, 32735)
        BY DEF Cuts
      <3> QED BY ONLY <1>2, <2>3, <3>1
    <2>4. CASE u = 176
      <3>1. Cuts(176, 186, 32735)
        BY DEF Cuts
      <3> QED BY ONLY <1>2, <2>4, <3>1
    <2>5. CASE u = 352
      <3>1. Cuts(352, 93, 32735)
        BY DEF Cuts
      <3> QED BY ONLY <1>2, <2>5, <3>1
    <2>6. CASE u = 528
      <3>1. Cuts(528, 62, 32735)
        BY DEF Cuts
      <3> QED BY ONLY <1>2, <2>6, <3>1
    <2>7. CASE u = 744
      <3>1. Cuts(744, 44, 32735)
        BY DEF Cuts
      <3> QED BY ONLY <1>2, <2>7, <3>1
    <2>8. CASE u = 1056
      <3>1. Cuts(1056, 31, 32735)
        BY DEF Cuts
      <3> QED BY ONLY <1>2, <2>8, <3>1
    <2>9. CASE u = 2728
      <3>1. Cuts(2728, 12, 32735)
        BY DEF Cuts
      <3> QED BY ONLY <1>2, <2>9, <3>1
    <2>10. CASE u = 5456
      <3>1. Cuts(5456, 6, 32735)
        BY DEF Cuts
      <3> QED BY ONLY <1>2, <2>10, <3>1
    <2>11. CASE u = 8184
      <3>1. Cuts(8184, 4, 32735)
        BY DEF Cuts
      <3> QED BY ONLY <1>2, <2>11, <3>1
    <2>12. CASE u = 10912
      <3>1. Cuts(10912, 3, 32735)
        BY DEF Cuts
      <3> QED BY ONLY <1>2, <2>12, <3>1
    <2>13. CASE u = 16368
      <3>1. Cuts(16368, 2, 32735)
        BY DEF Cuts
      <3> QED BY ONLY <1>2, <2>13, <3>1
    <2> QED BY ONLY <1>3, <2>1, <2>2, <2>3, <2>4, <2>5, <2>6, <2>7, <2>8, <2>9, <2>10, <2>11, <2>12, <2>13
  <1> QED BY ONLY <1>1, <1>4, Zenon

\* woomem_validate_addr finds the unit an address points into.
LEMMA UnitOfAddress ==
    ASSUME NEW g \in Groups, NEW addr \in 0 .. NORMAL_PAGE_SIZE - 1
    PROVE  IF addr < StorageBegin THEN ValidateAddr(g, addr) = None
           ELSE /\ IsUnitHead(g, ValidateAddr(g, addr))
                /\ addr \in ValidateAddr(g, addr) .. ValidateAddr(g, addr) + UnitSizeWithHead(g) - 1
  <1>1. StorageBegin \in Nat /\ NORMAL_PAGE_SIZE \in Nat
    BY PageParts
  <1>2. CASE addr < StorageBegin
    BY <1>2, Zenon DEF ValidateAddr
  <1>3. CASE ~(addr < StorageBegin)
    <2>1. PICK u, n, last, x : /\ u = UnitSizeWithHead(g) /\ n = UnitCount(g)
                               /\ last = NORMAL_PAGE_SIZE - StorageBegin - 1
                               /\ x = addr - StorageBegin
      OBVIOUS
    <2>2. addr \in Nat /\ x \in Nat /\ x <= last
      BY <1>1, <1>3, <2>1
    <2>3. PICK q : q = (x \div u) * u
      OBVIOUS
    <2>4. u \in Nat /\ q \in Nat /\ q % u = 0 /\ q \div u < n /\ q <= x /\ x < q + u
      <3>1. Cuts(u, n, last) /\ u \in Nat
        BY <2>1, PagesAreFilled, Zenon
      <3>2. /\ x \div u < n /\ (x \div u) * u \in Nat
            /\ ((x \div u) * u) % u = 0 /\ ((x \div u) * u) \div u = x \div u
            /\ (x \div u) * u <= x /\ x < (x \div u) * u + u
        BY <2>2, <3>1, Zenon DEF Cuts
      <3>3. q \div u = x \div u
        BY <2>3, <3>2, Zenon
      <3>4. q \in Nat /\ q % u = 0 /\ q <= x /\ x < q + u
        BY <2>3, <3>2, Zenon
      <3>5. q \div u < n
        BY <3>2, <3>3, Zenon
      <3> QED BY <3>1, <3>4, <3>5, Zenon
    <2>5. ValidateAddr(g, addr) = StorageBegin + q
      BY <1>3, <2>1, <2>3, Zenon DEF ValidateAddr
    <2>6. (StorageBegin + q) - StorageBegin = q /\ StorageBegin + q >= StorageBegin
      BY <1>1, <2>4
    <2>7. IsUnitHead(g, StorageBegin + q)
      BY <2>1, <2>4, <2>6, Zenon DEF IsUnitHead
    <2>8. addr \in StorageBegin + q .. StorageBegin + q + u - 1
      BY <1>1, <2>1, <2>2, <2>4
    <2> QED BY <1>3, <2>1, <2>5, <2>7, <2>8, Zenon
  <1> QED BY <1>2, <1>3, Zenon

\* The answer belongs to the call.
SizesInv ==
    \/ call = NoCall
    \/ \E size \in 0 .. MAX_IN_PAGE_UNIT_SIZE \cup HugeSizes :
        call = [name |-> "allocate_begin", size |-> size] /\ answer = UnitFor(size)
    \/ \E g \in Groups, addr \in 0 .. NORMAL_PAGE_SIZE - 1 :
        call = [name |-> "validate_addr", group |-> g, addr |-> addr] /\ answer = ValidateAddr(g, addr)

\* It always does.
LEMMA SizesInvariant == SizesSpec => []SizesInv
  <1>1. SizesInit => SizesInv
    BY Zenon DEF SizesInit, SizesInv
  <1>2. ASSUME SizesInv, [SizesNext]_sizesVars PROVE SizesInv'
    <2>1. CASE AllocateBegin
      BY <2>1, Zenon DEF AllocateBegin, SizesInv
    <2>2. CASE ValidateCall
      BY <2>2, Zenon DEF ValidateCall, SizesInv
    <2>3. CASE Return
      BY <2>3, Zenon DEF Return, SizesInv, NoCall
    <2>4. CASE UNCHANGED sizesVars
      BY <1>2, <2>4, Zenon DEF sizesVars, SizesInv, NoCall
    <2> QED BY <1>2, <2>1, <2>2, <2>3, <2>4, Zenon DEF SizesNext
  <1> QED BY <1>1, <1>2, PTL DEF SizesSpec

\* For every size that can be asked for, however huge, the unit is large enough
\* and no smaller group or shorter run of pages would be.
THEOREM SmallestUnitFits == SizesSpec => []SmallestFit
  <1>1. ASSUME SizesInv PROVE SmallestFit
    <2>1. SUFFICES ASSUME call.name = "allocate_begin"
                   PROVE  IF answer.huge
                          THEN /\ AvailableSize(answer) >= call.size
                               /\ PageHeadSize + UnitHeadSize + AvailableSize(answer) <= answer.pages * NORMAL_PAGE_SIZE
                               /\ PageHeadSize + UnitHeadSize + call.size > (answer.pages - 1) * NORMAL_PAGE_SIZE
                          ELSE /\ answer.group \in Groups
                               /\ AvailableSize(answer) >= call.size
                               /\ \A g \in Groups : g < answer.group => GROUP_SIZE_LOOKUP_TABLE[g] < call.size
      BY Zenon DEF SmallestFit
    <2>2. call # NoCall
      BY <2>1 DEF NoCall
    <2>3. \A g, addr : call # [name |-> "validate_addr", group |-> g, addr |-> addr]
      BY <2>1
    <2>4. PICK size \in 0 .. MAX_IN_PAGE_UNIT_SIZE \cup HugeSizes :
            call = [name |-> "allocate_begin", size |-> size] /\ answer = UnitFor(size)
      BY <1>1, <2>2, <2>3, Zenon DEF SizesInv
    <2>5. call.size = size
      BY <2>4
    <2> QED BY <2>4, <2>5, UnitFits, Zenon
  <1> QED BY <1>1, SizesInvariant, PTL

\* For every group and every address in a page the unit found is one that the
\* page has, and the address lies in it.
THEOREM UnitIsFound == SizesSpec => []UnitFound
  <1>1. ASSUME SizesInv PROVE UnitFound
    <2>1. SUFFICES ASSUME call.name = "validate_addr"
                   PROVE  IF call.addr < StorageBegin THEN answer = None
                          ELSE /\ IsUnitHead(call.group, answer)
                               /\ call.addr \in answer .. answer + UnitSizeWithHead(call.group) - 1
      BY Zenon DEF UnitFound
    <2>2. call # NoCall
      BY <2>1 DEF NoCall
    <2>3. \A size : call # [name |-> "allocate_begin", size |-> size]
      BY <2>1
    <2>4. PICK g \in Groups, addr \in 0 .. NORMAL_PAGE_SIZE - 1 :
            /\ call = [name |-> "validate_addr", group |-> g, addr |-> addr]
            /\ answer = ValidateAddr(g, addr)
      BY <1>1, <2>2, <2>3, Zenon DEF SizesInv
    <2>5. call.group = g /\ call.addr = addr
      BY <2>4
    <2> QED BY <2>4, <2>5, UnitOfAddress, Zenon
  <1> QED BY <1>1, SizesInvariant, PTL

=============================================================================
