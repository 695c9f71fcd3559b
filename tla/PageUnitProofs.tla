--------------------------- MODULE PageUnitProofs ---------------------------
(***************************************************************************)
(* The inductive invariant of PageLifecycle, and why its parts about        *)
(* threads, pages and units are kept, for any number of each.               *)
(***************************************************************************)
EXTENDS PageLifecycle, TLAPS

-----------------------------------------------------------------------------
\* The list that begins at p has n pages; f[i] is the one i pages from its end.
Chain(p, n, f) ==
    /\ n \in Nat
    /\ f \in [Nat -> PageOrNull]
    /\ f[0] = Null
    /\ \A i \in 1 .. n : f[i] \in Pages /\ next[f[i]] = f[i - 1]
    /\ p = f[n]

\* The list that begins at p comes to an end.
IsList(p) == \E n \in Nat, f \in [Nat -> PageOrNull] : Chain(p, n, f)

-----------------------------------------------------------------------------
(* The inductive invariant *)

\* Where the part of a worker's list begins that it has not come to.
Rest(w) ==
    IF Holding(w) THEN nxt[w]
    ELSE IF wpc[w] = "page" THEN cur[w]
    ELSE IF main_pc = "sweep" THEN sweep_list[w] ELSE Null

\* The page it has in its hands.
Held(w) == IF Holding(w) THEN {cur[w]} ELSE {}

\* The pages it has still to sweep or to link again.
Own(w) == Held(w) \cup Members(Rest(w))

Linking(t) == tpc[t] \in {"init", "link"}

\* Every page in use is in one list, in one worker's hands or not linked yet, and
\* the workers sweep only while the main thread waits for them.
ChainInv ==
    /\ IsList(head)
    /\ \A w \in Workers : IsList(Rest(w))
    /\ \A p : p \in in_use \ Unlinked <=> p \in Members(head) \/ \E w \in Workers : p \in Own(w)
    /\ \A w \in Workers : \A p \in Own(w) :
        /\ p \notin Members(head)
        /\ \A v \in Workers \ {w} : p \notin Own(v)
    /\ \A w \in Workers : Holding(w) => cur[w] \notin Members(nxt[w])
    /\ main_pc = "idle" => \A w \in Workers : wpc[w] = "parked"

\* A thread that allocates has a page; a page that is being linked is one
\* thread's, and has the flag m_page_just_allocated until it is initialised.
ThreadInv ==
    /\ \A t \in Threads : tpc[t] \in {"pick", "ranout"} => cache[t] # Null
    /\ \A t \in Threads : Linking(t) =>
        /\ fresh[t] \in in_use \ Pinned
        /\ tpc[t] = "init" <=> fresh[t] \in just
        /\ \A s \in Threads \ {t} : Linking(s) => fresh[s] # fresh[t]
        /\ tpc[t] = "link" => fresh[t] \notin run_out
    /\ \A p \in just : \E t \in Threads : tpc[t] = "init" /\ fresh[t] = p

\* Nobody else has the page a thread allocates from or an entry of the pool, and
\* such a page is linked and not run out.
OwnerInv ==
    /\ PageOwnedOnce
    /\ \A t \in Threads : Allocating(t) => cache[t] \notin run_out \cup Unlinked
    /\ \A i \in DOMAIN pool : pool[i] \notin Unlinked

\* Units that are free, pending, in use and garbage.
UnitInv ==
    /\ FreeListsExact
    /\ \A p \in Pages : p \notin in_use \/ p \in just => \A s \in Slots : life[p][s] = "RELEASED"
    /\ \A p \in huge : \A s \in Slots \ {1} : life[p][s] = "RELEASED"
    /\ \A p \in Pages, s \in Slots : <<p, s>> \in garbage => life[p][s] = "USED"
    /\ \A p \in Pinned :
        /\ p \in in_use \cap huge
        /\ life[p][1] = "USED"
        /\ \A s \in Slots : <<p, s>> \notin garbage

\* The unit a thread has between allocate_begin and allocate_end is its own.
PendingInv ==
    /\ \A t \in Threads : tpc[t] = "link" /\ fresh[t] \in huge => life[fresh[t]][1] = "PENDING"
    /\ \A t \in Threads : tpc[t] = "pending" =>
        /\ fresh[t] \in in_use \ Unlinked
        /\ unit[t] \in Slots
        /\ life[fresh[t]][unit[t]] = "PENDING"
        /\ \A s \in Threads \ {t} :
            tpc[s] = "pending" => fresh[s] # fresh[t] \/ unit[s] # unit[t]

\* What a worker has found out about its page stays true: a page that had run out
\* is still run out, and the units it saw released are released.
VisitInv ==
    \A w \in Workers :
        /\ wpc[w] = "unit" /\ visit[w].was_out => cur[w] \in run_out
        /\ wpc[w] = "unit" /\ (visit[w].was_out \/ cur[w] \in huge) /\ ~visit[w].survivor =>
            \A s \in Slots : s < visit[w].idx => life[cur[w]][s] = "RELEASED"
        /\ wpc[w] = "drop" =>
            /\ cur[w] \in huge \cup run_out
            /\ \A s \in Slots : life[cur[w]][s] = "RELEASED"

IInv ==
    /\ TypeOK /\ ChainInv /\ ThreadInv /\ OwnerInv /\ UnitInv /\ PendingInv /\ VisitInv

-----------------------------------------------------------------------------
(* Pages that are not linked yet *)

\* A page is not linked yet while some thread is about to link it.
LEMMA UnlinkedBy ==
    ASSUME NEW p
    PROVE  /\ p \in Unlinked <=> \E t \in Threads : Linking(t) /\ fresh[t] = p
           /\ p \in Unlinked' <=> \E t \in Threads : Linking(t)' /\ fresh'[t] = p
  BY Zenon DEF Unlinked, Linking

\* No thread begins or ends a linking.
LEMMA UnlinkedSame ==
    ASSUME \A s \in Threads :
             /\ Linking(s)' <=> Linking(s)
             /\ Linking(s) => fresh'[s] = fresh[s]
    PROVE  Unlinked' = Unlinked
<1>1. \A p : p \in Unlinked' <=> p \in Unlinked
  <2>1. TAKE p
  <2>2. QED
    BY UnlinkedBy, Zenon
<1>2. QED
  BY <1>1, Zenon

-----------------------------------------------------------------------------
(* The pool *)

\* What pick_free_page leaves in the pool, and what it passes over.
LEMMA PoolPicked ==
    ASSUME pool \in Seq(Pages), NEW i \in 0 .. Len(pool)
    PROVE  /\ DOMAIN pool = 1 .. Len(pool) /\ Len(pool) \in Nat
           /\ SubSeq(pool, 1, i - 1) \in Seq(Pages)
           /\ DOMAIN SubSeq(pool, 1, i - 1) = 1 .. i - 1
           /\ \A j \in 1 .. i - 1 : j \in DOMAIN pool /\ SubSeq(pool, 1, i - 1)[j] = pool[j]
           /\ \A p \in Passed(i) : \E j \in DOMAIN pool : j > i /\ p = pool[j]
           /\ Passed(i) \subseteq Pages
<1>1. DOMAIN pool = 1 .. Len(pool) /\ Len(pool) \in Nat /\ i - 1 \in Int /\ i - 1 <= Len(pool)
  OBVIOUS
<1>2. \A p \in Passed(i) : \E j \in DOMAIN pool : j > i /\ p = pool[j]
  BY <1>1 DEF Passed
<1>3. Passed(i) \subseteq Pages
  BY <1>2
<1>4. CASE i = 0
  <2>1. SubSeq(pool, 1, i - 1) = << >>
    BY <1>1, <1>4
  <2>2. QED
    BY <1>1, <1>2, <1>3, <1>4, <2>1
<1>5. CASE i # 0
  BY <1>1, <1>2, <1>3, <1>5
<1>6. QED
  BY <1>4, <1>5, Zenon

\* What RemoveMarked leaves in the pool: pages that were there and have no mark,
\* each of them once.
Shrunk ==
    /\ pool' \in Seq(Pages)
    /\ \A i \in DOMAIN pool' : pool'[i] \notin mark /\ \E k \in DOMAIN pool : pool'[i] = pool[k]
    /\ (\A i, j \in DOMAIN pool : i # j => pool[i] # pool[j])
       => \A i, j \in DOMAIN pool' : i # j => pool'[i] # pool'[j]

-----------------------------------------------------------------------------
(* Types *)

\* The pages that threads and workers work on.
LEMMA PagesAtHand ==
    ASSUME TypeOK, ChainInv, ThreadInv, PendingInv
    PROVE  /\ \A t \in Threads :
                /\ tpc[t] \in {"pick", "ranout"} => cache[t] \in Pages
                /\ tpc[t] \in {"init", "link", "pending"} => fresh[t] \in Pages
                /\ tpc[t] = "pending" => unit[t] \in Slots
           /\ \A w \in Workers : Holding(w) =>
                /\ cur[w] \in Pages /\ cur[w] \in in_use /\ cur[w] \notin Unlinked
                /\ cur[w] \in Own(w)
<1>1. \A t \in Threads :
        /\ tpc[t] \in {"pick", "ranout"} => cache[t] \in Pages
        /\ tpc[t] \in {"init", "link", "pending"} => fresh[t] \in Pages
        /\ tpc[t] = "pending" => unit[t] \in Slots
  BY DEF TypeOK, ThreadTypes, ChunkTypes, ThreadInv, PendingInv, Linking, PageOrNull
<1>2. ASSUME NEW w \in Workers, Holding(w)
      PROVE  cur[w] \in Own(w) /\ cur[w] \in in_use \ Unlinked /\ cur[w] \in Pages
  <2>1. cur[w] \in Own(w)
    BY <1>2, Zenon DEF Own, Held
  <2>2. QED
    BY <2>1, Zenon DEF ChainInv, TypeOK, ChunkTypes
<1>3. QED
  BY <1>1, <1>2, Zenon

\* Variables that do not change keep their types.
LEMMA TypeFrames ==
    ASSUME TypeOK
    PROVE  /\ UNCHANGED chunkVars => ChunkTypes'
           /\ UNCHANGED chainVars => ChainTypes'
           /\ UNCHANGED unitVars => UnitTypes'
           /\ UNCHANGED poolVars => PoolTypes'
           /\ UNCHANGED threadVars => ThreadTypes'
           /\ UNCHANGED sweepVars => SweepTypes'
<1>1. UNCHANGED chunkVars => ChunkTypes'
  BY Zenon DEF TypeOK, chunkVars, ChunkTypes
<1>2. UNCHANGED chainVars => ChainTypes'
  BY Zenon DEF TypeOK, chainVars, ChainTypes
<1>3. UNCHANGED unitVars => UnitTypes'
  BY Zenon DEF TypeOK, unitVars, UnitTypes
<1>4. UNCHANGED poolVars => PoolTypes'
  BY Zenon DEF TypeOK, poolVars, PoolTypes
<1>5. UNCHANGED threadVars => ThreadTypes'
  BY Zenon DEF TypeOK, threadVars, ThreadTypes
<1>6. UNCHANGED sweepVars => SweepTypes'
  BY Zenon DEF TypeOK, sweepVars, SweepTypes
<1>7. QED
  BY <1>1, <1>2, <1>3, <1>4, <1>5, <1>6, Zenon

LEMMA TypeThread ==
    ASSUME TypeOK, ChainInv, ThreadInv, PendingInv, NEW t \in Threads,
           \/ AllocCall(t) \/ (\E p \in Pages : NewHugePage(t, p)) \/ ThreadStep(t)
           \/ AllocEnd(t) \/ ThreadExit(t)
    PROVE  TypeOK'
<1>0. /\ tpc[t] \in {"pick", "ranout"} => cache[t] \in Pages
      /\ tpc[t] \in {"init", "link", "pending"} => fresh[t] \in Pages
      /\ tpc[t] = "pending" => unit[t] \in Slots
  BY PagesAtHand, Zenon
<1>1. CASE AllocCall(t)
  BY <1>1, TypeFrames, Zenon DEF AllocCall, Go, TypeOK, ThreadTypes
<1>2. ASSUME NEW s \in Slots, PickUnit(t, s)
      PROVE  TypeOK'
  <2>1. ThreadTypes'
    BY <1>0, <1>2 DEF PickUnit, Go, TypeOK, ThreadTypes, PageOrNull, Slots
  <2>2. UnitTypes'
    BY <1>0, <1>2, Zenon DEF PickUnit, TypeOK, UnitTypes
  <2>3. QED
    BY <1>2, <2>1, <2>2, TypeFrames, Zenon DEF PickUnit, TypeOK
<1>3. CASE TakeFreed(t)
  <2>1. ThreadTypes'
    BY <1>3, Zenon DEF TakeFreed, Go, TypeOK, ThreadTypes
  <2>2. UnitTypes'
    BY <1>0, <1>3, Zenon DEF TakeFreed, TypeOK, UnitTypes
  <2>3. QED
    BY <1>3, <2>1, <2>2, TypeFrames, Zenon DEF TakeFreed, TypeOK
<1>4. CASE RanOut(t)
  BY <1>0, <1>4, TypeFrames, Zenon DEF RanOut, Go, TypeOK, ThreadTypes, PoolTypes
<1>5. CASE PickFreePage(t)
  <2>1. PICK i \in 0 .. Len(pool) :
          /\ mark' = mark \ Passed(i) /\ run_out' = run_out \cup Passed(i)
          /\ pool' = SubSeq(pool, 1, i - 1)
          /\ \/ i = 0 /\ Go(t, "newpage") /\ UNCHANGED cache
             \/ i # 0 /\ Go(t, "pick") /\ cache' = [cache EXCEPT ![t] = pool[i]]
    BY <1>5, Zenon DEF PickFreePage
  <2>2. PoolTypes'
    BY <2>1, PoolPicked, Zenon DEF TypeOK, PoolTypes
  <2>3. i # 0 => pool[i] \in Pages
    BY DEF TypeOK, PoolTypes
  <2>4. UNCHANGED <<fresh, unit>>
    BY <1>5, Zenon DEF PickFreePage
  <2>5. ThreadTypes'
    BY <2>1, <2>3, <2>4, Zenon DEF Go, TypeOK, ThreadTypes, PageOrNull
  <2>6. QED
    BY <1>5, <2>2, <2>5, TypeFrames, Zenon DEF PickFreePage, TypeOK
<1>6. ASSUME NEW p, NEW is_huge, ChunkAllocate(t, p, is_huge)
      PROVE  TypeOK'
  BY <1>6, TypeFrames, Zenon DEF ChunkAllocate, Go, TypeOK, ChunkTypes, ThreadTypes, PageOrNull
<1>7. CASE NewPageFails(t)
  BY <1>7, TypeFrames, Zenon DEF NewPageFails, Go, TypeOK, ThreadTypes, PageOrNull
<1>8. CASE InitPage(t)
  <2>1. fresh[t] \in Pages /\ 1 \in Slots /\ NoUnits \in [Slots -> {"RELEASED", "PENDING", "USED"}]
    BY <1>0, <1>8, PageAssumption DEF InitPage, NoUnits, Slots
  <2>2. [NoUnits EXCEPT ![1] = "PENDING"] \in [Slots -> {"RELEASED", "PENDING", "USED"}]
    BY <2>1, Zenon
  <2>3. UnitTypes'
    BY <1>8, <2>1, <2>2, Zenon DEF InitPage, TypeOK, UnitTypes
  <2>4. ChunkTypes' /\ PoolTypes'
    BY <1>8, Zenon DEF InitPage, TypeOK, ChunkTypes, PoolTypes
  <2>5. ChainTypes'
    BY <1>8, <2>1, Zenon DEF InitPage, TypeOK, ChainTypes
  <2>6. ThreadTypes'
    BY <1>8, Zenon DEF InitPage, Go, TypeOK, ThreadTypes
  <2>7. QED
    BY <1>8, <2>3, <2>4, <2>5, <2>6, TypeFrames, Zenon DEF InitPage, TypeOK
<1>9. CASE LinkPage(t)
  <2>1. fresh[t] \in Pages /\ fresh[t] \in PageOrNull /\ 1 \in 0 .. UnitsPerPage
    BY <1>0, <1>9, PageAssumption DEF LinkPage, PageOrNull
  <2>2. ChainTypes'
    <3>1. \/ head' = fresh[t] /\ next' = next
          \/ next' = [next EXCEPT ![fresh[t]] = head] /\ head' = head
      BY <1>9, Zenon DEF LinkPage, Link
    <3>2. QED
      BY <2>1, <3>1, Zenon DEF TypeOK, ChainTypes
  <2>3. ThreadTypes'
    <3>1. /\ \/ UNCHANGED <<tpc, unit, cache>>
             \/ Go(t, "pending") /\ unit' = [unit EXCEPT ![t] = 1] /\ UNCHANGED cache
             \/ Go(t, "pick") /\ cache' = [cache EXCEPT ![t] = fresh[t]] /\ UNCHANGED unit
          /\ UNCHANGED fresh
      BY <1>9, Zenon DEF LinkPage
    <3>2. QED
      BY <2>1, <3>1, Zenon DEF Go, TypeOK, ThreadTypes
  <2>4. QED
    BY <1>9, <2>2, <2>3, TypeFrames, Zenon DEF LinkPage, TypeOK
<1>10. CASE AllocEnd(t)
  <2>1. UnitTypes'
    BY <1>0, <1>10, Zenon DEF AllocEnd, TypeOK, UnitTypes
  <2>2. ThreadTypes'
    BY <1>10, PageAssumption DEF AllocEnd, Go, TypeOK, ThreadTypes, PageOrNull
  <2>3. QED
    BY <1>10, <2>1, <2>2, TypeFrames, Zenon DEF AllocEnd, TypeOK
<1>11. CASE ThreadExit(t)
  <2>1. cache[t] \in Pages /\ ThreadTypes'
    BY <1>11, Zenon DEF ThreadExit, TypeOK, ThreadTypes, PageOrNull
  <2>2. PoolTypes'
    BY <1>11, <2>1 DEF ThreadExit, TypeOK, PoolTypes
  <2>3. QED
    BY <1>11, <2>1, <2>2, TypeFrames, Zenon DEF ThreadExit, TypeOK
<1>12. QED
  BY <1>1, <1>2, <1>3, <1>4, <1>5, <1>6, <1>7, <1>8, <1>9, <1>10, <1>11, Zenon
     DEF ThreadStep, NewPage, NewHugePage

LEMMA TypeWorker ==
    ASSUME TypeOK, ChainInv, ThreadInv, PendingInv, NEW w \in Workers, WorkerStep(w)
    PROVE  TypeOK'
<1>0. Holding(w) => cur[w] \in Pages
  BY PagesAtHand, Zenon
<1> DEFINE Visits == [idx : 1 .. UnitsPerPage + 1, was_out : BOOLEAN, survivor : BOOLEAN,
                      space : BOOLEAN]
<1>v. visit \in [Workers -> Visits] /\ visit[w] \in Visits /\ NoVisit \in Visits
      /\ UnitsPerPage \in Nat \ {0}
  BY PageAssumption DEF TypeOK, SweepTypes, NoVisit
<1>s. /\ main_pc \in {"idle", "sweep"} /\ sweep_list \in [Workers -> PageOrNull]
      /\ wpc \in [Workers -> {"parked", "page", "unit", "drop", "chain", "link"}]
      /\ cur \in [Workers -> PageOrNull] /\ nxt \in [Workers -> PageOrNull]
      /\ Null \in PageOrNull
  BY Zenon DEF TypeOK, SweepTypes, PageOrNull
<1>n. ASSUME NextPage(w), UNCHANGED <<main_pc, sweep_list, visit>>
      PROVE  SweepTypes'
  <2> HIDE DEF Visits
  <2>1. /\ wpc' \in [Workers -> {"parked", "page", "unit", "drop", "chain", "link"}]
        /\ cur' \in [Workers -> PageOrNull] /\ nxt' \in [Workers -> PageOrNull]
    BY <1>n, <1>s, Zenon DEF NextPage, WGo
  <2>2. visit' \in [Workers -> Visits]
    BY <1>n, <1>v, Zenon
  <2>3. QED
    BY <1>n, <1>s, <2>1, <2>2, Zenon DEF SweepTypes, Visits
<1>1. CASE SweepLaunch(w)
  BY <1>1, TypeFrames, Zenon DEF SweepLaunch, WGo, TypeOK, SweepTypes
<1>2. CASE SweepPage(w)
  <2>1. visit' \in [Workers -> Visits]
    <3>1. PICK b \in BOOLEAN : b = (cur[w] \in run_out)
      <4>1. CASE cur[w] \in run_out
        BY <4>1, Zenon
      <4>2. CASE ~(cur[w] \in run_out)
        <5>1. FALSE = (cur[w] \in run_out)
          BY <4>2
        <5>2. QED
          BY <5>1, Zenon
      <4>3. QED
        BY <4>1, <4>2, Zenon
    <3>2. [NoVisit EXCEPT !.was_out = b] \in Visits
      BY <1>v, Zenon
    <3>3. visit' = [visit EXCEPT ![w] = [NoVisit EXCEPT !.was_out = b]]
      BY <1>2, <3>1, Zenon DEF SweepPage
    <3> HIDE DEF Visits
    <3>4. QED
      BY <1>v, <3>2, <3>3, Zenon
  <2>2. cur[w] \in Pages /\ next \in [Pages -> PageOrNull]
    BY <1>2, Zenon DEF SweepPage, TypeOK, SweepTypes, ChainTypes, PageOrNull
  <2>3. SweepTypes'
    BY <1>2, <1>s, <2>1, <2>2, Zenon DEF SweepPage, WGo, SweepTypes
  <2>4. QED
    BY <1>2, <2>3, TypeFrames, Zenon DEF SweepPage, TypeOK
<1>3. CASE SweepFreesUnit(w)
  <2>1. /\ wpc[w] = "unit" /\ cur[w] \in Pages
        /\ visit[w].idx \in Slots /\ visit[w].idx + 1 \in 1 .. UnitsPerPage + 1
    BY <1>0, <1>3, <1>v DEF SweepFreesUnit, UnitToVisit, UnitCount, Holding, Slots
  <2>2. visit' \in [Workers -> Visits]
    <3>1. PICK r : r = [visit[w] EXCEPT !.space = TRUE, !.idx = @ + 1]
      BY Zenon
    <3>2. r \in Visits
      BY <1>v, <2>1, <3>1, Zenon
    <3>3. visit' = [visit EXCEPT ![w] = r]
      BY <1>3, <1>v, <3>1, Zenon DEF SweepFreesUnit
    <3> HIDE DEF Visits
    <3>4. QED
      BY <1>v, <3>2, <3>3, Zenon
  <2>3. SweepTypes'
    BY <1>3, <1>s, <2>2, Zenon DEF SweepFreesUnit, SweepTypes
  <2>4. UnitTypes'
    BY <1>3, <2>1, Zenon DEF SweepFreesUnit, TypeOK, UnitTypes
  <2>5. QED
    BY <1>3, <2>3, <2>4, TypeFrames, Zenon DEF SweepFreesUnit, TypeOK
<1>4. CASE SweepKeepsUnit(w)
  <2>1. /\ wpc[w] = "unit" /\ cur[w] \in Pages
        /\ visit[w].idx \in Slots /\ visit[w].idx + 1 \in 1 .. UnitsPerPage + 1
    BY <1>0, <1>4, <1>v DEF SweepKeepsUnit, UnitToVisit, UnitCount, Holding, Slots
  <2>2. visit' \in [Workers -> Visits]
    <3>1. PICK b \in BOOLEAN : b = (visit[w].survivor \/ life[cur[w]][visit[w].idx] # "RELEASED")
      BY Zenon
    <3>2. PICK r : r = [visit[w] EXCEPT !.survivor = b, !.idx = @ + 1]
      BY Zenon
    <3>3. r \in Visits
      BY <1>v, <2>1, <3>2, Zenon
    <3>4. visit' = [visit EXCEPT ![w] = r]
      BY <1>4, <1>v, <3>1, <3>2, Zenon DEF SweepKeepsUnit
    <3> HIDE DEF Visits
    <3>5. QED
      BY <1>v, <3>3, <3>4, Zenon
  <2>3. SweepTypes'
    BY <1>4, <1>s, <2>2, Zenon DEF SweepKeepsUnit, SweepTypes
  <2>4. QED
    BY <1>4, <2>3, TypeFrames, Zenon DEF SweepKeepsUnit, TypeOK
<1>5. CASE SweepVerdict(w)
  <2>1. PICK p \in Pages : p = cur[w]
    BY <1>0, <1>5, Zenon DEF SweepVerdict, Holding
  <2>2. PoolTypes'
    <3>1. /\ pool' = pool \/ pool' = Append(pool, p)
          /\ run_out' = run_out \/ run_out' = run_out \ {p}
          /\ mark' = mark \/ mark' = mark \cup {p}
      BY <1>5, <2>1, Zenon DEF SweepVerdict
    <3>2. QED
      BY <3>1 DEF TypeOK, PoolTypes
  <2>3. visit' \in [Workers -> Visits]
    <3> HIDE DEF Visits
    <3>1. QED
      BY <1>5, <1>v, Zenon DEF SweepVerdict
  <2>4. wpc' \in [Workers -> {"parked", "page", "unit", "drop", "chain", "link"}]
    BY <1>5, <1>s, Zenon DEF SweepVerdict, WGo
  <2>5. SweepTypes'
    BY <1>5, <1>s, <2>3, <2>4, Zenon DEF SweepVerdict, SweepTypes
  <2>6. QED
    BY <1>5, <2>2, <2>5, TypeFrames, Zenon DEF SweepVerdict, TypeOK
<1>6. CASE SweepDrop(w)
  <2>1. SweepTypes'
    BY <1>6, <1>n, Zenon DEF SweepDrop
  <2>2. QED
    BY <1>6, <2>1, TypeFrames, Zenon DEF SweepDrop, TypeOK, ChunkTypes
<1>7. CASE SweepChain(w)
  <2>1. ChainTypes'
    BY <1>0, <1>7, Zenon DEF SweepChain, TypeOK, ChainTypes, Holding
  <2>2. SweepTypes'
    BY <1>7, <1>s, <1>v, Zenon DEF SweepChain, WGo, SweepTypes
  <2>3. QED
    BY <1>7, <2>1, <2>2, TypeFrames, Zenon DEF SweepChain, TypeOK
<1>8. CASE SweepLink(w)
  <2>1. cur[w] \in Pages
    BY <1>0, <1>8, Zenon DEF SweepLink, Holding
  <2>2. ChainTypes'
    BY <1>8, <2>1, Zenon DEF SweepLink, Link, TypeOK, ChainTypes, PageOrNull
  <2>3. SweepTypes'
    <3>1. CASE NextPage(w)
      BY <1>8, <1>n, <3>1, Zenon DEF SweepLink
    <3>2. CASE UNCHANGED <<wpc, cur, nxt>>
      BY <1>8, <3>2, TypeFrames, Zenon DEF SweepLink, sweepVars
    <3>3. QED
      BY <1>8, <3>1, <3>2, Zenon DEF SweepLink
  <2>4. QED
    BY <1>8, <2>2, <2>3, TypeFrames, Zenon DEF SweepLink, TypeOK
<1>9. QED
  BY <1>1, <1>2, <1>3, <1>4, <1>5, <1>6, <1>7, <1>8, Zenon DEF WorkerStep

-----------------------------------------------------------------------------
(* Threads *)

\* A step of a thread leaves the other threads alone.
LEMMA OtherThreads ==
    ASSUME TypeOK, NEW t \in Threads,
           \/ AllocCall(t) \/ (\E p \in Pages : NewHugePage(t, p)) \/ ThreadStep(t)
           \/ AllocEnd(t) \/ ThreadExit(t)
    PROVE  \A s \in Threads \ {t} :
             tpc'[s] = tpc[s] /\ cache'[s] = cache[s] /\ fresh'[s] = fresh[s] /\ unit'[s] = unit[s]
<1>0. /\ tpc \in [Threads -> {"run", "pick", "ranout", "require", "newpage", "init", "link",
                              "pending"}]
      /\ cache \in [Threads -> PageOrNull] /\ fresh \in [Threads -> PageOrNull]
      /\ unit \in [Threads -> 0 .. UnitsPerPage]
  BY Zenon DEF TypeOK, ThreadTypes
<1>1. /\ tpc' = tpc \/ \E x : tpc' = [tpc EXCEPT ![t] = x]
      /\ cache' = cache \/ \E x : cache' = [cache EXCEPT ![t] = x]
      /\ fresh' = fresh \/ \E x : fresh' = [fresh EXCEPT ![t] = x]
      /\ unit' = unit \/ \E x : unit' = [unit EXCEPT ![t] = x]
  <2>1. CASE AllocCall(t)
    BY <2>1, Zenon DEF AllocCall, Go
  <2>2. CASE \E s \in Slots : PickUnit(t, s)
    BY <2>2, Zenon DEF PickUnit, Go
  <2>3. CASE TakeFreed(t)
    BY <2>3, Zenon DEF TakeFreed, Go
  <2>4. CASE RanOut(t)
    BY <2>4, Zenon DEF RanOut, Go
  <2>5. CASE PickFreePage(t)
    BY <2>5, Zenon DEF PickFreePage, Go
  <2>6. CASE \E p, is_huge : ChunkAllocate(t, p, is_huge)
    BY <2>6, Zenon DEF ChunkAllocate, Go
  <2>7. CASE NewPageFails(t)
    BY <2>7, Zenon DEF NewPageFails, Go
  <2>8. CASE InitPage(t)
    BY <2>8, Zenon DEF InitPage, Go
  <2>9. CASE LinkPage(t)
    BY <2>9, Zenon DEF LinkPage, Go
  <2>10. CASE AllocEnd(t)
    BY <2>10, Zenon DEF AllocEnd, Go
  <2>11. CASE ThreadExit(t)
    BY <2>11, Zenon DEF ThreadExit
  <2>12. QED
    BY <2>1, <2>2, <2>3, <2>4, <2>5, <2>6, <2>7, <2>8, <2>9, <2>10, <2>11, Zenon
       DEF ThreadStep, NewPage, NewHugePage
<1>2. QED
  BY <1>0, <1>1, Zenon

\* A page somebody may allocate from: a thread has it in its cache, or it is in
\* the pool.
Owned(p) ==
    \/ \E t \in Threads : Allocating(t) /\ cache[t] = p
    \/ \E i \in DOMAIN pool : pool[i] = p

\* Such a page is in use, linked, normal and not run out.
LEMMA OwnedPages ==
    ASSUME OwnerInv, NEW p, Owned(p)
    PROVE  p \in in_use /\ p \notin huge /\ p \notin run_out /\ p \notin Unlinked
  BY Zenon DEF OwnerInv, PageOwnedOnce, Owned

\* A page with m_page_just_allocated is not linked yet.
LEMMA JustUnlinked ==
    ASSUME ThreadInv, NEW p \in just
    PROVE  p \in Unlinked
  BY UnlinkedBy DEF ThreadInv, Linking

\* A thread in the middle of an allocation from its page.
LEMMA OwnCache ==
    ASSUME ThreadInv, OwnerInv, NEW t \in Threads, tpc[t] \in {"pick", "ranout"}
    PROVE  /\ Allocating(t) /\ Owned(cache[t])
           /\ cache[t] \in in_use /\ cache[t] \notin huge /\ cache[t] \notin run_out
           /\ cache[t] \notin Unlinked /\ cache[t] \notin just
<1>1. Allocating(t)
  BY Zenon DEF ThreadInv, Allocating
<1>2. Owned(cache[t])
  BY <1>1, Zenon DEF Owned
<1>3. QED
  BY <1>1, <1>2, OwnedPages, JustUnlinked, Zenon

\* A step that leaves the threads' places alone and retires no page that is
\* being linked.
LEMMA ThreadFrame ==
    ASSUME ThreadInv, UNCHANGED <<just, cache, tpc, fresh>>,
           \A p \in Unlinked : p \in in_use => p \in in_use',
           \A p \in Unlinked : p \notin run_out => p \notin run_out'
    PROVE  ThreadInv'
<1>1. \A t \in Threads : (Linking(t)' <=> Linking(t)) /\ (Linking(t) => fresh[t] \in Unlinked)
  BY UnlinkedBy, Zenon DEF Linking
<1>2. (\A t \in Threads : tpc[t] \in {"pick", "ranout"} => cache[t] # Null)'
  BY Zenon DEF ThreadInv
<1>3. (\A p \in just : \E t \in Threads : tpc[t] = "init" /\ fresh[t] = p)'
  BY Zenon DEF ThreadInv
<1>4. ASSUME NEW t \in Threads, Linking(t)'
      PROVE  /\ fresh'[t] \in in_use' \ Pinned
             /\ tpc'[t] = "init" <=> fresh'[t] \in just'
             /\ \A s \in Threads \ {t} : Linking(s)' => fresh'[s] # fresh'[t]
             /\ tpc'[t] = "link" => fresh'[t] \notin run_out'
  BY <1>1, <1>4, Zenon DEF ThreadInv
<1>5. QED
  BY <1>2, <1>3, <1>4, Zenon DEF ThreadInv

LEMMA ThreadThread ==
    ASSUME TypeOK, ThreadInv, OwnerInv, UnitInv, NEW t \in Threads,
           \/ AllocCall(t) \/ (\E p \in Pages : NewHugePage(t, p)) \/ ThreadStep(t)
           \/ AllocEnd(t) \/ ThreadExit(t)
    PROVE  ThreadInv'
<1>0. /\ \A s \in Threads \ {t} :
            tpc'[s] = tpc[s] /\ cache'[s] = cache[s] /\ fresh'[s] = fresh[s]
      /\ tpc \in [Threads -> {"run", "pick", "ranout", "require", "newpage", "init", "link",
                              "pending"}]
      /\ cache \in [Threads -> PageOrNull] /\ fresh \in [Threads -> PageOrNull]
  BY OtherThreads, Zenon DEF TypeOK, ThreadTypes
<1>a. \A s \in Threads : Linking(s) => fresh[s] \in Unlinked
  BY UnlinkedBy, Zenon
\* The steps after which t is not linking a page.
<1>b. ASSUME ~Linking(t), ~Linking(t)', in_use' = in_use, just' = just,
             \A p \in Unlinked : p \notin run_out => p \notin run_out',
             tpc'[t] \in {"pick", "ranout"} => cache'[t] # Null
      PROVE  ThreadInv'
  <2>1. \A s \in Threads : Linking(s)' <=> Linking(s) /\ s # t
    BY <1>0, <1>b, Zenon DEF Linking
  <2>2. (\A s \in Threads : tpc[s] \in {"pick", "ranout"} => cache[s] # Null)'
    BY <1>0, <1>b, Zenon DEF ThreadInv
  <2>3. (\A p \in just : \E s \in Threads : tpc[s] = "init" /\ fresh[s] = p)'
    <3>1. SUFFICES ASSUME NEW p \in just
                   PROVE  \E s \in Threads : tpc'[s] = "init" /\ fresh'[s] = p
      BY <1>b, Zenon
    <3>2. PICK s \in Threads : tpc[s] = "init" /\ fresh[s] = p
      BY Zenon DEF ThreadInv
    <3>3. s # t
      BY <1>b, <3>2, Zenon DEF Linking
    <3>4. QED
      BY <1>0, <3>2, <3>3, Zenon
  <2>4. ASSUME NEW s \in Threads, Linking(s)'
        PROVE  /\ fresh'[s] \in in_use' \ Pinned
               /\ tpc'[s] = "init" <=> fresh'[s] \in just'
               /\ \A r \in Threads \ {s} : Linking(r)' => fresh'[r] # fresh'[s]
               /\ tpc'[s] = "link" => fresh'[s] \notin run_out'
    BY <1>0, <1>a, <1>b, <2>1, <2>4 DEF ThreadInv
  <2>5. QED
    BY <2>2, <2>3, <2>4, Zenon DEF ThreadInv
<1>1. CASE AllocCall(t)
  BY <1>0, <1>1, <1>b, Zenon DEF AllocCall, Go, Linking, chunkVars, poolVars
<1>2. CASE \E s \in Slots : PickUnit(t, s)
  BY <1>0, <1>2, <1>b, Zenon DEF PickUnit, Go, Linking, chunkVars, poolVars
<1>3. CASE TakeFreed(t)
  BY <1>0, <1>3, <1>b, Zenon DEF TakeFreed, Go, Linking, chunkVars, poolVars, ThreadInv
<1>4. CASE RanOut(t)
  <2>1. cache[t] \notin Unlinked
    BY <1>4, OwnCache, Zenon DEF RanOut
  <2>2. QED
    BY <1>0, <1>4, <1>b, <2>1, Zenon DEF RanOut, Go, Linking, chunkVars
<1>5. CASE PickFreePage(t)
  <2>1. PICK i \in 0 .. Len(pool) :
          /\ run_out' = run_out \cup Passed(i)
          /\ \/ i = 0 /\ Go(t, "newpage")
             \/ i # 0 /\ Go(t, "pick") /\ cache' = [cache EXCEPT ![t] = pool[i]]
    BY <1>5, Zenon DEF PickFreePage
  <2>2. i # 0 => pool[i] # Null
    BY PageAssumption DEF TypeOK, PoolTypes
  <2>3. \A p \in Passed(i) : p \notin Unlinked
    BY PoolPicked DEF OwnerInv, TypeOK, PoolTypes
  <2>4. ~Linking(t) /\ ~Linking(t)' /\ (tpc'[t] \in {"pick", "ranout"} => cache'[t] # Null)
    BY <1>0, <1>5, <2>1, <2>2, Zenon DEF PickFreePage, Go, Linking
  <2>5. in_use' = in_use /\ just' = just
    BY <1>5, Zenon DEF PickFreePage, chunkVars
  <2>6. QED
    BY <1>b, <2>1, <2>3, <2>4, <2>5, Zenon
<1>6. ASSUME NEW p, NEW is_huge, ChunkAllocate(t, p, is_huge), tpc[t] \in {"run", "newpage"}
      PROVE  ThreadInv'
  <2>1. /\ p \notin in_use /\ in_use' = in_use \cup {p} /\ just' = just \cup {p}
        /\ fresh'[t] = p /\ tpc'[t] = "init" /\ run_out' = run_out
    BY <1>0, <1>6, Zenon DEF ChunkAllocate, Go, poolVars
  <2>2. p \notin just /\ \A s \in Threads : Linking(s) => fresh[s] # p
    BY <2>1, Zenon DEF ThreadInv, Linking
  <2>3. p \notin Pinned
    BY <2>1, Zenon DEF UnitInv
  <2>4. \A s \in Threads : Linking(s)' <=> Linking(s) \/ s = t
    BY <1>0, <1>6, <2>1, Zenon DEF Linking
  <2>5. (\A s \in Threads : tpc[s] \in {"pick", "ranout"} => cache[s] # Null)'
    BY <1>0, <2>1 DEF ThreadInv
  <2>6. (\A q \in just : \E s \in Threads : tpc[s] = "init" /\ fresh[s] = q)'
    <3>1. SUFFICES ASSUME NEW q \in just, q # p
                   PROVE  \E s \in Threads : tpc'[s] = "init" /\ fresh'[s] = q
      BY <2>1, Zenon
    <3>2. PICK s \in Threads : tpc[s] = "init" /\ fresh[s] = q
      BY Zenon DEF ThreadInv
    <3>3. s # t
      BY <1>6, <3>2, Zenon
    <3>4. QED
      BY <1>0, <3>2, <3>3, Zenon
  <2>7. ASSUME NEW s \in Threads, Linking(s)'
        PROVE  /\ fresh'[s] \in in_use' \ Pinned
               /\ tpc'[s] = "init" <=> fresh'[s] \in just'
               /\ \A r \in Threads \ {s} : Linking(r)' => fresh'[r] # fresh'[s]
               /\ tpc'[s] = "link" => fresh'[s] \notin run_out'
    <3>1. CASE s = t
      BY <1>0, <2>1, <2>2, <2>3, <2>4, <3>1, Zenon
    <3>2. CASE s # t
      <4>1. Linking(s) /\ fresh'[s] = fresh[s] /\ tpc'[s] = tpc[s] /\ fresh[s] # p
        BY <1>0, <2>2, <2>4, <2>7, <3>2, Zenon
      <4>2. \A r \in Threads \ {s} : Linking(r)' => fresh'[r] # fresh'[s]
        BY <1>0, <2>1, <2>4, <4>1 DEF ThreadInv
      <4>3. QED
        BY <2>1, <4>1, <4>2, Zenon DEF ThreadInv
    <3>3. QED
      BY <3>1, <3>2, Zenon
  <2>8. QED
    BY <2>5, <2>6, <2>7, Zenon DEF ThreadInv
<1>7. CASE NewPageFails(t)
  BY <1>0, <1>7, <1>b, Zenon DEF NewPageFails, Go, Linking, chunkVars, poolVars
<1>8. CASE InitPage(t)
  <2>1. /\ Linking(t) /\ tpc[t] = "init" /\ tpc'[t] = "link" /\ fresh'[t] = fresh[t]
        /\ in_use' = in_use /\ just' = just \ {fresh[t]} /\ run_out' = run_out \ {fresh[t]}
        /\ cache' = cache
    BY <1>0, <1>8, Zenon DEF InitPage, Go, Linking
  <2>2. \A s \in Threads : Linking(s)' <=> Linking(s)
    BY <1>0, <2>1, Zenon DEF Linking
  <2>3. \A s \in Threads \ {t} : Linking(s) => fresh[s] # fresh[t]
    BY <2>1, Zenon DEF ThreadInv
  <2>4. (\A s \in Threads : tpc[s] \in {"pick", "ranout"} => cache[s] # Null)'
    BY <1>0, <2>1, Zenon DEF ThreadInv
  <2>5. (\A q \in just : \E s \in Threads : tpc[s] = "init" /\ fresh[s] = q)'
    <3>1. SUFFICES ASSUME NEW q \in just, q # fresh[t]
                   PROVE  \E s \in Threads : tpc'[s] = "init" /\ fresh'[s] = q
      BY <2>1, Zenon
    <3>2. PICK s \in Threads : tpc[s] = "init" /\ fresh[s] = q
      BY Zenon DEF ThreadInv
    <3>3. QED
      BY <1>0, <3>1, <3>2, Zenon
  <2>6. ASSUME NEW s \in Threads, Linking(s)'
        PROVE  /\ fresh'[s] \in in_use' \ Pinned
               /\ tpc'[s] = "init" <=> fresh'[s] \in just'
               /\ \A r \in Threads \ {s} : Linking(r)' => fresh'[r] # fresh'[s]
               /\ tpc'[s] = "link" => fresh'[s] \notin run_out'
    <3>1. \A r \in Threads : fresh'[r] = fresh[r]
      BY <1>0, <2>1, Zenon
    <3>2. CASE s = t
      BY <2>1, <2>2, <2>3, <3>1, <3>2, Zenon DEF ThreadInv
    <3>3. CASE s # t
      <4>1. Linking(s) /\ tpc'[s] = tpc[s] /\ fresh[s] # fresh[t]
        BY <1>0, <2>2, <2>3, <2>6, <3>3, Zenon
      <4>2. QED
        BY <2>1, <2>2, <3>1, <4>1 DEF ThreadInv
    <3>4. QED
      BY <3>2, <3>3, Zenon
  <2>7. QED
    BY <2>4, <2>5, <2>6, Zenon DEF ThreadInv
<1>9. CASE LinkPage(t)
  <2>1. /\ UNCHANGED <<in_use, just, run_out, fresh>> /\ tpc[t] = "link"
        /\ \/ UNCHANGED <<tpc, cache>>
           \/ tpc'[t] = "pending" /\ cache' = cache
           \/ tpc'[t] = "pick" /\ cache'[t] = fresh[t]
    <3>1. /\ UNCHANGED <<in_use, just, run_out, fresh>> /\ tpc[t] = "link"
          /\ \/ UNCHANGED <<tpc, cache>>
             \/ Go(t, "pending") /\ cache' = cache
             \/ Go(t, "pick") /\ cache' = [cache EXCEPT ![t] = fresh[t]]
      BY <1>9, Zenon DEF LinkPage, chunkVars, poolVars
    <3>2. QED
      BY <1>0, <3>1, Zenon DEF Go
  <2>2. fresh[t] # Null
    BY <2>1, PageAssumption, Zenon DEF ThreadInv, Linking, TypeOK, ChunkTypes
  <2>3. \A s \in Threads : Linking(s)' => Linking(s) /\ tpc'[s] = tpc[s]
    BY <1>0, <2>1, Zenon DEF Linking
  <2>4. (\A s \in Threads : tpc[s] \in {"pick", "ranout"} => cache[s] # Null)'
    BY <1>0, <2>1, <2>2 DEF ThreadInv
  <2>5. (\A q \in just : \E s \in Threads : tpc[s] = "init" /\ fresh[s] = q)'
    <3>1. SUFFICES ASSUME NEW q \in just
                   PROVE  \E s \in Threads : tpc'[s] = "init" /\ fresh'[s] = q
      BY <2>1, Zenon
    <3>2. PICK s \in Threads : tpc[s] = "init" /\ fresh[s] = q
      BY Zenon DEF ThreadInv
    <3>3. s # t
      BY <2>1, <3>2, Zenon
    <3>4. QED
      BY <1>0, <3>2, <3>3, Zenon
  <2>6. ASSUME NEW s \in Threads, Linking(s)'
        PROVE  /\ fresh'[s] \in in_use' \ Pinned
               /\ tpc'[s] = "init" <=> fresh'[s] \in just'
               /\ \A r \in Threads \ {s} : Linking(r)' => fresh'[r] # fresh'[s]
               /\ tpc'[s] = "link" => fresh'[s] \notin run_out'
    BY <2>1, <2>3, <2>6, Zenon DEF ThreadInv
  <2>7. QED
    BY <2>4, <2>5, <2>6, Zenon DEF ThreadInv
<1>10. CASE AllocEnd(t)
  BY <1>0, <1>10, <1>b, Zenon DEF AllocEnd, Go, Linking, chunkVars, poolVars
<1>11. CASE ThreadExit(t)
  BY <1>0, <1>11, <1>b, Zenon DEF ThreadExit, Linking, chunkVars
<1>12. QED
  BY <1>1, <1>2, <1>3, <1>4, <1>5, <1>6, <1>7, <1>8, <1>9, <1>10, <1>11, Zenon
     DEF ThreadStep, NewPage, NewHugePage

\* Every step keeps the threads' part of the invariant.
LEMMA ThreadNext ==
    ASSUME TypeOK, ChainInv, ThreadInv, OwnerInv, UnitInv, PendingInv, [Next]_vars
    PROVE  ThreadInv'
<1>1. ASSUME NEW t \in Threads,
             \/ AllocCall(t) \/ (\E p \in Pages : NewHugePage(t, p)) \/ ThreadStep(t)
             \/ AllocEnd(t) \/ ThreadExit(t)
      PROVE  ThreadInv'
  BY <1>1, ThreadThread, Zenon
<1>2. ASSUME NEW p \in Pages, NEW s \in Slots, DropUnit(p, s)
      PROVE  ThreadInv'
  BY <1>2, ThreadFrame, Zenon DEF DropUnit, chunkVars, poolVars, threadVars
<1>3. CASE Distribute
  BY <1>3, ThreadFrame, Zenon DEF Distribute, chunkVars, poolVars, threadVars
<1>4. ASSUME NEW w \in Workers, WorkerStep(w)
      PROVE  ThreadInv'
  <2>1. UNCHANGED <<just, threadVars>>
    BY <1>4, Zenon
       DEF WorkerStep, SweepLaunch, SweepPage, SweepFreesUnit, SweepKeepsUnit, SweepVerdict,
           SweepDrop, SweepChain, SweepLink, chunkVars
  <2>2. in_use' = in_use \/ (wpc[w] = "drop" /\ in_use' = in_use \ {cur[w]})
    BY <1>4, Zenon
       DEF WorkerStep, SweepLaunch, SweepPage, SweepFreesUnit, SweepKeepsUnit, SweepVerdict,
           SweepDrop, SweepChain, SweepLink, chunkVars
  <2>3. run_out' = run_out \/ run_out' = run_out \ {cur[w]}
    BY <1>4, Zenon
       DEF WorkerStep, SweepLaunch, SweepPage, SweepFreesUnit, SweepKeepsUnit, SweepVerdict,
           SweepDrop, SweepChain, SweepLink, poolVars
  <2>4. wpc[w] = "drop" => cur[w] \notin Unlinked
    BY PagesAtHand, Zenon DEF Holding
  <2>5. QED
    BY <2>1, <2>2, <2>3, <2>4, ThreadFrame, Zenon DEF threadVars
<1>5. CASE RemoveMarked
  <2>1. \A i \in DOMAIN pool : pool[i] \notin Unlinked
    BY Zenon DEF OwnerInv
  <2>2. /\ UNCHANGED <<in_use, just, cache, tpc, fresh>>
        /\ run_out' = run_out \cup ({pool[i] : i \in DOMAIN pool} \cap mark)
    BY <1>5, Zenon DEF RemoveMarked, chunkVars, threadVars
  <2>3. QED
    BY <2>1, <2>2, ThreadFrame, Zenon
<1>6. CASE UNCHANGED vars
  BY <1>6, ThreadFrame, Zenon DEF vars, chunkVars, poolVars, threadVars
<1>7. QED
  BY <1>1, <1>2, <1>3, <1>4, <1>5, <1>6, Zenon DEF Next

-----------------------------------------------------------------------------
(* Who allocates from a page *)

\* A step in which no thread and no entry of the pool gets a page.
LEMMA OwnerKeep ==
    ASSUME OwnerInv,
           \A t \in Threads : Allocating(t)' => Allocating(t) /\ cache'[t] = cache[t],
           \A i \in DOMAIN pool' : \E k \in DOMAIN pool : pool'[i] = pool[k],
           \A i, j \in DOMAIN pool' : i # j => pool'[i] # pool'[j],
           \A p : Owned(p) /\ Owned(p)' =>
             p \in in_use' /\ p \notin huge' /\ p \notin run_out' /\ p \notin Unlinked'
    PROVE  OwnerInv'
<1>1. \A p : \A t \in Threads : Allocating(t)' /\ cache'[t] = p => Owned(p) /\ Owned(p)'
  BY Zenon DEF Owned
<1>2. \A p : \A i \in DOMAIN pool' : pool'[i] = p => Owned(p) /\ Owned(p)'
  BY Zenon DEF Owned
<1>3. ASSUME NEW t \in Threads, Allocating(t)'
      PROVE  /\ cache'[t] \in in_use' \ huge'
             /\ \A s \in Threads \ {t} : Allocating(s)' => cache'[s] # cache'[t]
             /\ \A i \in DOMAIN pool' : pool'[i] # cache'[t]
             /\ cache'[t] \notin run_out' \cup Unlinked'
  BY <1>1, <1>3 DEF OwnerInv, PageOwnedOnce
<1>4. ASSUME NEW i \in DOMAIN pool'
      PROVE  /\ pool'[i] \in in_use' \ (huge' \cup run_out')
             /\ pool'[i] \notin Unlinked'
  BY <1>2, Zenon
<1>5. QED
  BY <1>3, <1>4, Zenon DEF OwnerInv, PageOwnedOnce

\* The pool stays as it is.
LEMMA OwnerCaches ==
    ASSUME OwnerInv, UNCHANGED pool,
           \A t \in Threads : Allocating(t)' => Allocating(t) /\ cache'[t] = cache[t],
           \A p : Owned(p) =>
             p \in in_use' /\ p \notin huge' /\ p \notin run_out' /\ p \notin Unlinked'
    PROVE  OwnerInv'
<1>1. /\ \A i \in DOMAIN pool' : \E k \in DOMAIN pool : pool'[i] = pool[k]
      /\ \A i, j \in DOMAIN pool' : i # j => pool'[i] # pool'[j]
  BY Zenon DEF OwnerInv, PageOwnedOnce
<1>2. QED
  BY <1>1, OwnerKeep, Zenon

\* A step that does not concern the pool nor the threads.
LEMMA OwnerFrame ==
    ASSUME OwnerInv, UNCHANGED <<in_use, huge, run_out, pool, threadVars>>
    PROVE  OwnerInv'
<1>1. Unlinked' = Unlinked
  BY UnlinkedSame, Zenon DEF Linking, threadVars
<1>2. \A t \in Threads : Allocating(t)' <=> Allocating(t)
  BY Zenon DEF Allocating, threadVars
<1>3. QED
  BY <1>1, <1>2, OwnerCaches, OwnedPages, Zenon DEF threadVars

\* A page nobody owned goes to the pool, and maybe leaves a thread's cache.
LEMMA OwnerReturn ==
    ASSUME TypeOK, OwnerInv, NEW p \in Pages,
           \A i \in DOMAIN pool : pool[i] # p,
           \A t \in Threads : Allocating(t)' =>
             Allocating(t) /\ cache'[t] = cache[t] /\ cache[t] # p,
           pool' = Append(pool, p), UNCHANGED <<in_use, huge>>,
           run_out' = run_out \/ run_out' = run_out \ {p}, Unlinked' = Unlinked,
           p \in in_use /\ p \notin huge /\ p \notin run_out' /\ p \notin Unlinked
    PROVE  OwnerInv'
<1>1. /\ Len(pool) \in Nat /\ DOMAIN pool = 1 .. Len(pool) /\ DOMAIN pool' = 1 .. Len(pool) + 1
      /\ \A i \in 1 .. Len(pool) : pool'[i] = pool[i]
      /\ pool'[Len(pool) + 1] = p
  BY DEF TypeOK
<1>2. \A i \in DOMAIN pool' : i \in DOMAIN pool \/ i = Len(pool) + 1
  BY <1>1
<1>3. ASSUME NEW t \in Threads, Allocating(t)'
      PROVE  /\ cache'[t] \in in_use' \ huge'
             /\ \A s \in Threads \ {t} : Allocating(s)' => cache'[s] # cache'[t]
             /\ \A i \in DOMAIN pool' : pool'[i] # cache'[t]
             /\ cache'[t] \notin run_out' \cup Unlinked'
  BY <1>1, <1>2, <1>3 DEF OwnerInv, PageOwnedOnce
<1>4. ASSUME NEW i \in DOMAIN pool'
      PROVE  /\ pool'[i] \in in_use' \ (huge' \cup run_out')
             /\ pool'[i] \notin Unlinked'
             /\ \A j \in DOMAIN pool' : i # j => pool'[i] # pool'[j]
  BY <1>1, <1>2 DEF OwnerInv, PageOwnedOnce
<1>5. QED
  BY <1>3, <1>4, Zenon DEF OwnerInv, PageOwnedOnce

\* A thread gets a page that no other thread has and that is not in the pool
\* any more.
LEMMA OwnerTake ==
    ASSUME OwnerInv, NEW t \in Threads,
           \A s \in Threads \ {t} : Allocating(s)' => Allocating(s) /\ cache'[s] = cache[s],
           \A s \in Threads \ {t} : Allocating(s) => cache[s] # cache'[t],
           \A i \in DOMAIN pool' : i \in DOMAIN pool /\ pool'[i] = pool[i] /\ pool[i] # cache'[t],
           \A p : p = cache'[t] \/ (Owned(p) /\ Owned(p)') =>
             p \in in_use' /\ p \notin huge' /\ p \notin run_out' /\ p \notin Unlinked'
    PROVE  OwnerInv'
<1>1. \A p : \A s \in Threads \ {t} : Allocating(s)' /\ cache'[s] = p => Owned(p) /\ Owned(p)'
  BY Zenon DEF Owned
<1>2. \A p : \A i \in DOMAIN pool' : pool'[i] = p => Owned(p) /\ Owned(p)'
  BY Zenon DEF Owned
<1>3. ASSUME NEW s \in Threads, Allocating(s)'
      PROVE  /\ cache'[s] \in in_use' \ huge'
             /\ \A r \in Threads \ {s} : Allocating(r)' => cache'[r] # cache'[s]
             /\ \A i \in DOMAIN pool' : pool'[i] # cache'[s]
             /\ cache'[s] \notin run_out' \cup Unlinked'
  <2>1. CASE s = t
    BY <2>1, Zenon
  <2>2. CASE s # t
    BY <1>1, <1>3, <2>2 DEF OwnerInv, PageOwnedOnce
  <2>3. QED
    BY <2>1, <2>2, Zenon
<1>4. ASSUME NEW i \in DOMAIN pool'
      PROVE  /\ pool'[i] \in in_use' \ (huge' \cup run_out')
             /\ pool'[i] \notin Unlinked'
             /\ \A j \in DOMAIN pool' : i # j => pool'[i] # pool'[j]
  BY <1>2, Zenon DEF OwnerInv, PageOwnedOnce
<1>5. QED
  BY <1>3, <1>4, Zenon DEF OwnerInv, PageOwnedOnce

LEMMA OwnerThread ==
    ASSUME TypeOK, ThreadInv, OwnerInv, NEW t \in Threads,
           \/ AllocCall(t) \/ (\E p \in Pages : NewHugePage(t, p)) \/ ThreadStep(t)
           \/ AllocEnd(t) \/ ThreadExit(t)
    PROVE  OwnerInv'
<1>0. /\ \A s \in Threads \ {t} :
            tpc'[s] = tpc[s] /\ cache'[s] = cache[s] /\ fresh'[s] = fresh[s]
      /\ tpc \in [Threads -> {"run", "pick", "ranout", "require", "newpage", "init", "link",
                              "pending"}]
      /\ cache \in [Threads -> PageOrNull] /\ fresh \in [Threads -> PageOrNull]
  BY OtherThreads, Zenon DEF TypeOK, ThreadTypes
<1>a. ASSUME huge' = huge
      PROVE  \A s \in Threads \ {t} : Allocating(s)' <=> Allocating(s)
  BY <1>0, <1>a, Zenon DEF Allocating
\* The steps before and after which t links no page.
<1>b. ASSUME ~Linking(t), ~Linking(t)'
      PROVE  Unlinked' = Unlinked
  <2>1. \A s \in Threads : (Linking(s)' <=> Linking(s)) /\ (Linking(s) => fresh'[s] = fresh[s])
    BY <1>0, <1>b, Zenon DEF Linking
  <2>2. QED
    BY <2>1, UnlinkedSame, Zenon
\* The steps in which t, at most, stops allocating.
<1>c. ASSUME ~Linking(t), ~Linking(t)', UNCHANGED <<in_use, huge, run_out, pool>>,
             Allocating(t)' => Allocating(t) /\ cache'[t] = cache[t]
      PROVE  OwnerInv'
  BY <1>0, <1>a, <1>b, <1>c, OwnerCaches, OwnedPages, Zenon
<1>1. CASE AllocCall(t)
  BY <1>0, <1>1, <1>c, Zenon DEF AllocCall, Go, Linking, Allocating, chunkVars, poolVars
<1>2. CASE \E s \in Slots : PickUnit(t, s)
  BY <1>0, <1>2, <1>c, Zenon DEF PickUnit, Go, Linking, Allocating, chunkVars, poolVars
<1>3. CASE TakeFreed(t)
  BY <1>0, <1>3, <1>c, Zenon DEF TakeFreed, Go, Linking, Allocating, chunkVars, poolVars
<1>4. CASE RanOut(t)
  <2>1. /\ UNCHANGED <<in_use, huge, pool>> /\ run_out' = run_out \cup {cache[t]}
        /\ ~Linking(t) /\ ~Linking(t)' /\ ~Allocating(t)' /\ tpc[t] = "ranout"
        /\ Allocating(t)
    BY <1>0, <1>4, OwnCache, Zenon DEF RanOut, Go, Linking, Allocating, chunkVars
  <2>2. \A s \in Threads \ {t} : Allocating(s) => cache[s] # cache[t]
    BY <2>1, Zenon DEF OwnerInv, PageOwnedOnce
  <2>3. \A i \in DOMAIN pool : pool[i] # cache[t]
    BY <2>1, Zenon DEF OwnerInv, PageOwnedOnce
  <2>4. \A p : Owned(p) /\ Owned(p)' => p # cache[t]
    BY <1>0, <1>a, <2>1, <2>2, <2>3, Zenon DEF Owned
  <2>5. /\ \A i \in DOMAIN pool' : \E k \in DOMAIN pool : pool'[i] = pool[k]
        /\ \A i, j \in DOMAIN pool' : i # j => pool'[i] # pool'[j]
    BY <2>1, Zenon DEF OwnerInv, PageOwnedOnce
  <2>6. \A p : Owned(p) /\ Owned(p)' =>
          p \in in_use' /\ p \notin huge' /\ p \notin run_out' /\ p \notin Unlinked'
    BY <1>b, <2>1, <2>4, OwnedPages, Zenon
  <2>7. \A s \in Threads : Allocating(s)' => Allocating(s) /\ cache'[s] = cache[s]
    BY <1>0, <1>a, <2>1, Zenon
  <2>8. QED
    BY <2>5, <2>6, <2>7, OwnerKeep, Zenon
<1>5. CASE PickFreePage(t)
  <2>0. PICK n \in 0 .. Len(pool) :
          /\ run_out' = run_out \cup Passed(n) /\ pool' = SubSeq(pool, 1, n - 1)
          /\ \/ n = 0 /\ Go(t, "newpage") /\ UNCHANGED cache
             \/ n # 0 /\ Go(t, "pick") /\ cache' = [cache EXCEPT ![t] = pool[n]]
    BY <1>5, Zenon DEF PickFreePage
  <2>1. UNCHANGED <<in_use, huge>> /\ ~Linking(t) /\ ~Linking(t)' /\ ~Allocating(t)
    BY <1>0, <1>5, <2>0, Zenon DEF PickFreePage, Go, Linking, Allocating, chunkVars
  <2>2. /\ DOMAIN pool = 1 .. Len(pool) /\ Len(pool) \in Nat
        /\ DOMAIN pool' = 1 .. n - 1 /\ \A i \in DOMAIN pool' : pool'[i] = pool[i]
        /\ \A p \in Passed(n) : \E j \in DOMAIN pool : j > n /\ p = pool[j]
    BY <2>0, PoolPicked, Zenon DEF TypeOK, PoolTypes
  <2>3. \A i, j \in DOMAIN pool : i # j => pool[i] # pool[j]
    BY Zenon DEF OwnerInv, PageOwnedOnce
  <2>4. \A i \in DOMAIN pool : i <= n => pool[i] \notin Passed(n)
    BY <2>2, <2>3
  <2>5. \A s \in Threads : Allocating(s) => cache[s] \notin Passed(n)
    BY <2>2, Zenon DEF OwnerInv, PageOwnedOnce
  <2>6. Unlinked' = Unlinked
    BY <1>b, <2>1, Zenon
  <2>7. CASE n = 0
    <3>1. ~Allocating(t)' /\ cache' = cache /\ DOMAIN pool' = {}
      BY <1>0, <2>0, <2>2, <2>7 DEF Go, Allocating
    <3>2. \A s \in Threads : Allocating(s)' => Allocating(s) /\ cache'[s] = cache[s]
      BY <1>0, <1>a, <2>1, <3>1, Zenon
    <3>3. \A p : Owned(p)' => p \notin Passed(n)
      BY <2>5, <3>1, <3>2, Zenon DEF Owned
    <3>4. \A p : Owned(p) /\ Owned(p)' =>
            p \in in_use' /\ p \notin huge' /\ p \notin run_out' /\ p \notin Unlinked'
      BY <2>0, <2>1, <2>6, <3>3, OwnedPages, Zenon
    <3>5. QED
      BY <3>1, <3>2, <3>4, OwnerKeep, Zenon
  <2>8. CASE n # 0
    <3>1. n \in DOMAIN pool /\ cache'[t] = pool[n]
      BY <1>0, <2>0, <2>2, <2>8
    <3>2. \A i \in DOMAIN pool' : i \in DOMAIN pool /\ i < n
      BY <2>2
    <3>3. \A s \in Threads \ {t} : Allocating(s)' => Allocating(s) /\ cache'[s] = cache[s]
      BY <1>0, <1>a, <2>1, Zenon
    <3>4. \A s \in Threads \ {t} : Allocating(s) => cache[s] # cache'[t]
      BY <3>1, Zenon DEF OwnerInv, PageOwnedOnce
    <3>5. \A i \in DOMAIN pool' : i \in DOMAIN pool /\ pool'[i] = pool[i] /\ pool[i] # cache'[t]
      BY <2>2, <2>3, <3>1, <3>2
    <3>6. Owned(cache'[t]) /\ cache'[t] \notin Passed(n)
      BY <2>2, <2>4, <3>1 DEF Owned
    <3>7. \A p : Owned(p)' => p \notin Passed(n)
      <4>1. SUFFICES ASSUME NEW p, Owned(p)'
                     PROVE  p \notin Passed(n)
        BY Zenon
      <4>2. CASE \E s \in Threads : Allocating(s)' /\ cache'[s] = p
        BY <2>5, <3>3, <3>6, <4>2, Zenon
      <4>3. CASE \E i \in DOMAIN pool' : pool'[i] = p
        BY <2>2, <2>4, <3>2, <4>3
      <4>4. QED
        BY <4>1, <4>2, <4>3, Zenon DEF Owned
    <3>8. \A p : p = cache'[t] \/ (Owned(p) /\ Owned(p)') =>
            p \in in_use' /\ p \notin huge' /\ p \notin run_out' /\ p \notin Unlinked'
      BY <2>0, <2>1, <2>6, <3>6, <3>7, OwnedPages, Zenon
    <3>9. QED
      BY <3>3, <3>4, <3>5, <3>8, OwnerTake, Zenon
  <2>9. QED
    BY <2>7, <2>8, Zenon
<1>6. ASSUME NEW p, NEW is_huge, ChunkAllocate(t, p, is_huge),
             \/ tpc[t] = "newpage" /\ is_huge = FALSE
             \/ tpc[t] = "run" /\ is_huge = TRUE
      PROVE  OwnerInv'
  <2>1. /\ p \notin in_use /\ in_use' = in_use \cup {p} /\ UNCHANGED <<run_out, pool, cache>>
        /\ \A q : q # p => (q \in huge' <=> q \in huge)
        /\ is_huge <=> p \in huge'
        /\ fresh'[t] = p /\ tpc'[t] = "init"
    BY <1>0, <1>6, Zenon DEF ChunkAllocate, Go, poolVars
  <2>2. \A q : q \in Unlinked' => q \in Unlinked \/ q = p
    <3>1. \A s \in Threads : Linking(s)' => Linking(s) \/ s = t
      BY <1>0, <1>6, <2>1, Zenon DEF Linking
    <3>2. QED
      BY <1>0, <2>1, <3>1, UnlinkedBy, Zenon
  <2>3. \A s \in Threads : Allocating(s)' => Allocating(s) /\ cache'[s] = cache[s]
    <3>1. ASSUME NEW s \in Threads, s # t, Allocating(s)'
          PROVE  Allocating(s)
      <4>1. Linking(s) => fresh[s] \in in_use
        BY Zenon DEF ThreadInv
      <4>2. QED
        BY <1>0, <2>1, <3>1, <4>1, Zenon DEF Allocating, Linking
    <3>2. Allocating(t)' => Allocating(t)
      BY <1>6, <2>1, Zenon DEF Allocating
    <3>3. QED
      BY <2>1, <3>1, <3>2, Zenon
  <2>4. \A q : Owned(q) =>
          q \in in_use' /\ q \notin huge' /\ q \notin run_out' /\ q \notin Unlinked'
    BY <2>1, <2>2, OwnedPages, Zenon
  <2>5. QED
    BY <2>1, <2>3, <2>4, OwnerCaches, Zenon
<1>7. CASE NewPageFails(t)
  BY <1>0, <1>7, <1>c, Zenon DEF NewPageFails, Go, Linking, Allocating, chunkVars, poolVars
<1>8. CASE InitPage(t)
  <2>1. /\ UNCHANGED <<in_use, huge, pool, cache, fresh>> /\ run_out' = run_out \ {fresh[t]}
        /\ tpc[t] = "init" /\ tpc'[t] = "link"
    BY <1>0, <1>8, Zenon DEF InitPage, Go
  <2>2. Unlinked' = Unlinked
    BY <1>0, <2>1, UnlinkedSame, Zenon DEF Linking
  <2>3. \A s \in Threads : Allocating(s)' => Allocating(s)
    BY <1>0, <2>1, Zenon DEF Allocating
  <2>4. \A q : Owned(q) =>
          q \in in_use' /\ q \notin huge' /\ q \notin run_out' /\ q \notin Unlinked'
    BY <2>1, <2>2, OwnedPages, Zenon
  <2>5. QED
    BY <2>1, <2>3, <2>4, OwnerCaches, Zenon
<1>9. CASE LinkPage(t)
  <2>1. /\ UNCHANGED <<in_use, huge, run_out, pool, fresh>> /\ tpc[t] = "link"
        /\ \/ UNCHANGED <<tpc, cache>>
           \/ fresh[t] \in huge /\ tpc'[t] = "pending" /\ cache' = cache
           \/ fresh[t] \notin huge /\ tpc'[t] = "pick" /\ cache'[t] = fresh[t]
    <3>1. /\ UNCHANGED <<in_use, huge, run_out, pool, fresh>> /\ tpc[t] = "link"
          /\ \/ UNCHANGED <<tpc, cache>>
             \/ fresh[t] \in huge /\ Go(t, "pending") /\ cache' = cache
             \/ fresh[t] \notin huge /\ Go(t, "pick") /\ cache' = [cache EXCEPT ![t] = fresh[t]]
      BY <1>9, Zenon DEF LinkPage, chunkVars, poolVars
    <3>2. QED
      BY <1>0, <3>1, Zenon DEF Go
  <2>2. \A s \in Threads : Linking(s)' => Linking(s)
    BY <1>0, <2>1, Zenon DEF Linking
  <2>3. \A q : q \in Unlinked' => q \in Unlinked
    BY <2>1, <2>2, UnlinkedBy, Zenon
  <2>4. CASE tpc'[t] = "pick"
    <3>1. fresh[t] \notin huge /\ cache'[t] = fresh[t] /\ ~Linking(t)'
      BY <2>1, <2>4, Zenon DEF Linking
    <3>2. /\ fresh[t] \in in_use /\ fresh[t] \notin run_out /\ fresh[t] \in Unlinked
          /\ \A s \in Threads \ {t} : Linking(s) => fresh[s] # fresh[t]
      BY <2>1, UnlinkedBy, Zenon DEF ThreadInv, Linking
    <3>3. fresh[t] \notin Unlinked'
      BY <2>1, <2>2, <3>1, <3>2, UnlinkedBy, Zenon
    <3>4. \A s \in Threads \ {t} : Allocating(s)' => Allocating(s) /\ cache'[s] = cache[s]
      BY <1>0, <1>a, <2>1, Zenon
    <3>5. \A s \in Threads \ {t} : Allocating(s) => cache[s] # cache'[t]
      BY <3>1, <3>2, Zenon DEF OwnerInv
    <3>6. \A i \in DOMAIN pool' : i \in DOMAIN pool /\ pool'[i] = pool[i] /\ pool[i] # cache'[t]
      BY <2>1, <3>1, <3>2, Zenon DEF OwnerInv
    <3>7. \A p : p = cache'[t] \/ (Owned(p) /\ Owned(p)') =>
            p \in in_use' /\ p \notin huge' /\ p \notin run_out' /\ p \notin Unlinked'
      BY <2>1, <2>3, <3>1, <3>2, <3>3, OwnedPages, Zenon
    <3>8. QED
      BY <3>4, <3>5, <3>6, <3>7, OwnerTake, Zenon
  <2>5. CASE tpc'[t] # "pick"
    <3>1. \A s \in Threads : Allocating(s)' => Allocating(s) /\ cache'[s] = cache[s]
      BY <1>0, <1>a, <2>1, <2>5, Zenon DEF Allocating
    <3>2. \A q : Owned(q) =>
            q \in in_use' /\ q \notin huge' /\ q \notin run_out' /\ q \notin Unlinked'
      BY <2>1, <2>3, OwnedPages, Zenon
    <3>3. QED
      BY <2>1, <3>1, <3>2, OwnerCaches, Zenon
  <2>6. QED
    BY <2>4, <2>5, Zenon
<1>10. CASE AllocEnd(t)
  BY <1>0, <1>10, <1>c, Zenon DEF AllocEnd, Go, Linking, Allocating, chunkVars, poolVars
<1>11. CASE ThreadExit(t)
  <2>1. /\ UNCHANGED <<in_use, huge, run_out>> /\ pool' = Append(pool, cache[t])
        /\ Allocating(t) /\ ~Allocating(t)' /\ ~Linking(t) /\ ~Linking(t)'
    BY <1>0, <1>11, Zenon DEF ThreadExit, Allocating, Linking, chunkVars
  <2>2. /\ cache[t] \in in_use /\ cache[t] \notin huge /\ cache[t] \notin run_out
        /\ cache[t] \notin Unlinked
    BY <2>1, OwnedPages, Zenon DEF Owned
  <2>3. /\ \A s \in Threads \ {t} : Allocating(s) => cache[s] # cache[t]
        /\ \A i \in DOMAIN pool : pool[i] # cache[t]
    BY <2>1, Zenon DEF OwnerInv, PageOwnedOnce
  <2>4. PICK p \in Pages : p = cache[t]
    BY <2>2, Zenon DEF TypeOK, ChunkTypes
  <2>5. QED
    BY <1>0, <1>a, <1>b, <2>1, <2>2, <2>3, <2>4, OwnerReturn, Zenon
<1>12. CASE \E p \in Pages : NewPage(t, p) \/ NewHugePage(t, p)
  BY <1>6, <1>12, Zenon DEF NewPage, NewHugePage
<1>13. QED
  BY <1>1, <1>2, <1>3, <1>4, <1>5, <1>7, <1>8, <1>9, <1>10, <1>11, <1>12, Zenon DEF ThreadStep

LEMMA OwnerWorker ==
    ASSUME TypeOK, ChainInv, ThreadInv, OwnerInv, PendingInv, VisitInv, NEW w \in Workers,
           WorkerStep(w)
    PROVE  OwnerInv'
<1>0. Holding(w) => cur[w] \in Pages /\ cur[w] \in in_use /\ cur[w] \notin Unlinked
  BY PagesAtHand, Zenon
<1>1. CASE SweepLaunch(w) \/ SweepPage(w) \/ SweepFreesUnit(w) \/ SweepKeepsUnit(w)
           \/ SweepChain(w) \/ SweepLink(w)
  <2>1. UNCHANGED <<in_use, huge, run_out, pool, threadVars>>
    BY <1>1, Zenon
       DEF SweepLaunch, SweepPage, SweepFreesUnit, SweepKeepsUnit, SweepChain, SweepLink,
           chunkVars, poolVars
  <2>2. QED
    BY <2>1, OwnerFrame, Zenon
<1>2. CASE SweepVerdict(w)
  <2>1. UNCHANGED <<in_use, huge, threadVars>> /\ wpc[w] = "unit"
    BY <1>2, Zenon DEF SweepVerdict, chunkVars
  <2>2. CASE ToReuse(cur[w], visit[w])
    <3>1. PICK p \in Pages : p = cur[w]
      BY <1>0, <2>1, Zenon DEF Holding
    <3>2. /\ pool' = Append(pool, p) /\ run_out' = run_out \ {p}
          /\ p \in run_out /\ p \in in_use /\ p \notin huge /\ p \notin Unlinked
      BY <1>0, <1>2, <2>1, <2>2, <3>1, Zenon DEF SweepVerdict, ToReuse, VisitInv, Holding
    <3>3. /\ \A i \in DOMAIN pool : pool[i] # p
          /\ \A t \in Threads : Allocating(t) => cache[t] # p
      BY <3>2, OwnedPages, Zenon DEF Owned
    <3>4. /\ \A t \in Threads : Allocating(t)' => Allocating(t) /\ cache'[t] = cache[t]
          /\ Unlinked' = Unlinked
      BY <2>1, UnlinkedSame, Zenon DEF Allocating, Linking, threadVars
    <3>5. QED
      BY <2>1, <3>2, <3>3, <3>4, OwnerReturn, Zenon
  <2>3. CASE ~ToReuse(cur[w], visit[w])
    BY <1>2, <2>1, <2>3, OwnerFrame, Zenon DEF SweepVerdict
  <2>4. QED
    BY <2>2, <2>3, Zenon
<1>3. CASE SweepDrop(w)
  <2>1. /\ in_use' = in_use \ {cur[w]} /\ UNCHANGED <<huge, run_out, pool, threadVars>>
        /\ wpc[w] = "drop"
    BY <1>3, Zenon DEF SweepDrop, poolVars
  <2>2. ~Owned(cur[w])
    BY <2>1, OwnedPages, Zenon DEF VisitInv
  <2>3. /\ \A t \in Threads : Allocating(t)' => Allocating(t) /\ cache'[t] = cache[t]
        /\ Unlinked' = Unlinked
    BY <2>1, UnlinkedSame, Zenon DEF Allocating, Linking, threadVars
  <2>4. \A q : Owned(q) =>
          q \in in_use' /\ q \notin huge' /\ q \notin run_out' /\ q \notin Unlinked'
    BY <2>1, <2>2, <2>3, OwnedPages, Zenon
  <2>5. QED
    BY <2>1, <2>3, <2>4, OwnerCaches, Zenon
<1>4. QED
  BY <1>1, <1>2, <1>3, Zenon DEF WorkerStep

\* Every step keeps the owners' part of the invariant.
LEMMA OwnerNext ==
    ASSUME TypeOK, ChainInv, ThreadInv, OwnerInv, PendingInv, VisitInv, [Next]_vars,
           RemoveMarked => Shrunk
    PROVE  OwnerInv'
<1>1. ASSUME NEW t \in Threads,
             \/ AllocCall(t) \/ (\E p \in Pages : NewHugePage(t, p)) \/ ThreadStep(t)
             \/ AllocEnd(t) \/ ThreadExit(t)
      PROVE  OwnerInv'
  BY <1>1, OwnerThread, Zenon
<1>2. ASSUME NEW p \in Pages, NEW s \in Slots, DropUnit(p, s)
      PROVE  OwnerInv'
  BY <1>2, OwnerFrame, Zenon DEF DropUnit, chunkVars, poolVars
<1>3. CASE Distribute
  BY <1>3, OwnerFrame, Zenon DEF Distribute, chunkVars, poolVars
<1>4. ASSUME NEW w \in Workers, WorkerStep(w)
      PROVE  OwnerInv'
  BY <1>4, OwnerWorker, Zenon
<1>5. CASE RemoveMarked
  <2>1. PICK gone : gone = {pool[i] : i \in DOMAIN pool} \cap mark
    BY Zenon
  <2>2. UNCHANGED <<in_use, huge, threadVars>> /\ run_out' = run_out \cup gone
    BY <1>5, <2>1, Zenon DEF RemoveMarked, chunkVars
  <2>3. \A i, j \in DOMAIN pool : i # j => pool[i] # pool[j]
    BY Zenon DEF OwnerInv, PageOwnedOnce
  <2>4. /\ \A i \in DOMAIN pool' : pool'[i] \notin gone /\ \E k \in DOMAIN pool : pool'[i] = pool[k]
        /\ \A i, j \in DOMAIN pool' : i # j => pool'[i] # pool'[j]
    BY <1>5, <2>1, <2>3, Zenon DEF Shrunk
  <2>5. /\ \A t \in Threads : Allocating(t)' => Allocating(t) /\ cache'[t] = cache[t]
        /\ Unlinked' = Unlinked
    BY <2>2, UnlinkedSame, Zenon DEF Allocating, Linking, threadVars
  <2>6. \A t \in Threads : Allocating(t) => cache[t] \notin gone
    BY <2>1, Zenon DEF OwnerInv, PageOwnedOnce
  <2>7. \A q : Owned(q)' => q \notin gone
    BY <2>4, <2>5, <2>6, Zenon DEF Owned
  <2>8. \A q : Owned(q) /\ Owned(q)' =>
          q \in in_use' /\ q \notin huge' /\ q \notin run_out' /\ q \notin Unlinked'
    BY <2>2, <2>5, <2>7, OwnedPages, Zenon
  <2>9. QED
    BY <2>4, <2>5, <2>8, OwnerKeep, Zenon
<1>6. CASE UNCHANGED vars
  BY <1>6, OwnerFrame, Zenon DEF vars, chunkVars, poolVars
<1>7. QED
  BY <1>1, <1>2, <1>3, <1>4, <1>5, <1>6, Zenon DEF Next

-----------------------------------------------------------------------------
(* Units *)

\* A step that does not concern the units.
LEMMA UnitFrame ==
    ASSUME UnitInv, UNCHANGED <<in_use, huge, just, unitVars>>
    PROVE  UnitInv'
  BY Zenon DEF UnitInv, FreeListsExact, unitVars

\* The steps of a thread that give out a unit or initialise a page.
LEMMA UnitPick ==
    ASSUME TypeOK, ThreadInv, OwnerInv, UnitInv, NEW t \in Threads, NEW s \in Slots, PickUnit(t, s)
    PROVE  UnitInv'
<1>1. PICK p \in Pages : p = cache[t]
  BY OwnCache, Zenon DEF PickUnit, TypeOK, ChunkTypes
<1>2. p \in in_use /\ p \notin huge /\ p \notin just
  BY <1>1, OwnCache, Zenon DEF PickUnit
<1>3. /\ s \in alloc_list[p] /\ UNCHANGED <<in_use, huge, just, garbage, freed_list>>
      /\ alloc_list'[p] = alloc_list[p] \ {s}
      /\ \A q \in Pages \ {p} : alloc_list'[q] = alloc_list[q]
  BY <1>1, Zenon DEF PickUnit, chunkVars, TypeOK, UnitTypes
<1>4. /\ life'[p][s] = "PENDING"
      /\ \A q \in Pages, r \in Slots : q # p \/ r # s => life'[q][r] = life[q][r]
  BY <1>1, Zenon DEF PickUnit, TypeOK, UnitTypes
<1>5. life[p][s] = "RELEASED" /\ s \notin freed_list[p]
  BY <1>2, <1>3, Zenon DEF UnitInv, FreeListsExact
<1>6. FreeListsExact'
  <2>1. SUFFICES ASSUME NEW q \in in_use \ (huge \cup just)
                 PROVE  /\ alloc_list'[q] \cap freed_list'[q] = {}
                        /\ \A r \in Slots : life'[q][r] = "RELEASED"
                                            <=> r \in alloc_list'[q] \cup freed_list'[q]
    BY <1>3, Zenon DEF FreeListsExact
  <2>2. /\ alloc_list[q] \cap freed_list[q] = {}
        /\ \A r \in Slots : life[q][r] = "RELEASED" <=> r \in alloc_list[q] \cup freed_list[q]
        /\ q \in Pages
    BY Zenon DEF UnitInv, FreeListsExact, TypeOK, ChunkTypes
  <2>3. QED
    BY <1>3, <1>4, <1>5, <2>2
<1>7. \A q \in Pages : q \notin in_use' \/ q \in just' => \A r \in Slots : life'[q][r] = "RELEASED"
  BY <1>2, <1>3, <1>4 DEF UnitInv
<1>8. \A q \in huge' : \A r \in Slots \ {1} : life'[q][r] = "RELEASED"
  <2>1. \A q \in huge : q \in Pages /\ \A r \in Slots \ {1} : life[q][r] = "RELEASED"
    BY Zenon DEF UnitInv, TypeOK, ChunkTypes
  <2>2. QED
    BY <1>2, <1>3, <1>4, <2>1
<1>9. \A q \in Pages, r \in Slots : <<q, r>> \in garbage' => life'[q][r] = "USED"
  BY <1>3, <1>4, <1>5 DEF UnitInv
<1>10. \A q \in Pinned :
         q \in in_use' \cap huge' /\ life'[q][1] = "USED" /\ \A r \in Slots : <<q, r>> \notin garbage'
  <2>1. 1 \in Slots /\ p \notin Pinned /\ Pinned \subseteq Pages
    BY <1>2, PageAssumption DEF UnitInv, Slots
  <2>2. QED
    BY <1>3, <1>4, <2>1 DEF UnitInv
<1>11. QED
  BY <1>6, <1>7, <1>8, <1>9, <1>10, Zenon DEF UnitInv

LEMMA UnitTake ==
    ASSUME TypeOK, ThreadInv, OwnerInv, UnitInv, NEW t \in Threads, TakeFreed(t)
    PROVE  UnitInv'
<1>1. PICK p \in Pages : p = cache[t]
  BY OwnCache, Zenon DEF TakeFreed, TypeOK, ChunkTypes
<1>2. /\ UNCHANGED <<in_use, huge, just, garbage, life>>
      /\ alloc_list[p] = {} /\ alloc_list'[p] = freed_list[p] /\ freed_list'[p] = {}
      /\ \A q \in Pages \ {p} : alloc_list'[q] = alloc_list[q] /\ freed_list'[q] = freed_list[q]
  BY <1>1, Zenon DEF TakeFreed, chunkVars, TypeOK, UnitTypes
<1>3. FreeListsExact'
  <2>1. SUFFICES ASSUME NEW q \in in_use \ (huge \cup just)
                 PROVE  /\ alloc_list'[q] \cap freed_list'[q] = {}
                        /\ \A r \in Slots : life'[q][r] = "RELEASED"
                                            <=> r \in alloc_list'[q] \cup freed_list'[q]
    BY <1>2, Zenon DEF FreeListsExact
  <2>2. /\ alloc_list[q] \cap freed_list[q] = {}
        /\ \A r \in Slots : life[q][r] = "RELEASED" <=> r \in alloc_list[q] \cup freed_list[q]
        /\ q \in Pages
    BY Zenon DEF UnitInv, FreeListsExact, TypeOK, ChunkTypes
  <2>3. QED
    BY <1>2, <2>2, Zenon
<1>4. QED
  BY <1>2, <1>3, Zenon DEF UnitInv

LEMMA UnitInit ==
    ASSUME TypeOK, ThreadInv, UnitInv, NEW t \in Threads, InitPage(t)
    PROVE  UnitInv'
<1>1. PICK p \in Pages : p = fresh[t]
  BY Zenon DEF InitPage, TypeOK, ChunkTypes, ThreadInv, Linking
<1>2. p \in in_use /\ p \in just /\ p \notin Pinned
  BY <1>1, Zenon DEF InitPage, ThreadInv, Linking
<1>3. /\ UNCHANGED <<in_use, huge, garbage>> /\ just' = just \ {p}
      /\ alloc_list'[p] = (IF p \in huge THEN {} ELSE Slots) /\ freed_list'[p] = {}
      /\ \A q \in Pages \ {p} :
           alloc_list'[q] = alloc_list[q] /\ freed_list'[q] = freed_list[q] /\ life'[q] = life[q]
  BY <1>1, Zenon DEF InitPage, TypeOK, UnitTypes
<1>4. \A s \in Slots : life'[p][s] = IF p \in huge /\ s = 1 THEN "PENDING" ELSE "RELEASED"
  <2>1. life'[p] = IF p \in huge THEN [NoUnits EXCEPT ![1] = "PENDING"] ELSE NoUnits
    BY <1>1, Zenon DEF InitPage, TypeOK, UnitTypes
  <2>2. QED
    BY <2>1, Zenon DEF NoUnits
<1>5. \A s \in Slots : life[p][s] = "RELEASED" /\ <<p, s>> \notin garbage
  BY <1>2, Zenon DEF UnitInv
<1>6. FreeListsExact'
  <2>1. SUFFICES ASSUME NEW q \in in_use \ (huge \cup just')
                 PROVE  /\ alloc_list'[q] \cap freed_list'[q] = {}
                        /\ \A r \in Slots : life'[q][r] = "RELEASED"
                                            <=> r \in alloc_list'[q] \cup freed_list'[q]
    BY <1>3, Zenon DEF FreeListsExact
  <2>2. CASE q = p
    BY <1>3, <1>4, <2>1, <2>2, Zenon
  <2>3. CASE q # p
    <3>1. q \in in_use \ (huge \cup just) /\ q \in Pages
      BY <1>3, <2>1, <2>3, Zenon DEF TypeOK, ChunkTypes
    <3>2. QED
      BY <1>3, <2>3, <3>1 DEF UnitInv, FreeListsExact
  <2>4. QED
    BY <2>2, <2>3, Zenon
<1>7. \A q \in Pages : q \notin in_use' \/ q \in just' => \A r \in Slots : life'[q][r] = "RELEASED"
  BY <1>2, <1>3 DEF UnitInv
<1>8. \A q \in huge' : \A r \in Slots \ {1} : life'[q][r] = "RELEASED"
  <2>1. \A q \in huge : q \in Pages /\ \A r \in Slots \ {1} : life[q][r] = "RELEASED"
    BY Zenon DEF UnitInv, TypeOK, ChunkTypes
  <2>2. QED
    BY <1>3, <1>4, <2>1
<1>9. \A q \in Pages, r \in Slots : <<q, r>> \in garbage' => life'[q][r] = "USED"
  BY <1>3, <1>5 DEF UnitInv
<1>10. \A q \in Pinned :
         q \in in_use' \cap huge' /\ life'[q][1] = "USED" /\ \A r \in Slots : <<q, r>> \notin garbage'
  BY <1>2, <1>3, PageAssumption DEF UnitInv
<1>11. QED
  BY <1>6, <1>7, <1>8, <1>9, <1>10, Zenon DEF UnitInv

\* The life of one unit that is not free and stays so.
LEMMA UnitUsed ==
    ASSUME TypeOK, UnitInv, NEW p \in Pages, NEW s \in Slots,
           p \in in_use, p \notin just, life[p][s] # "RELEASED", life'[p][s] = "USED",
           \A q \in Pages, r \in Slots : q # p \/ r # s => life'[q][r] = life[q][r],
           UNCHANGED <<in_use, huge, just, garbage, alloc_list, freed_list>>
    PROVE  UnitInv'
<1>1. \A q \in Pages, r \in Slots : life'[q][r] = "RELEASED" <=> life[q][r] = "RELEASED"
  BY Zenon
<1>2. FreeListsExact'
  <2>1. SUFFICES ASSUME NEW q \in in_use \ (huge \cup just)
                 PROVE  /\ alloc_list'[q] \cap freed_list'[q] = {}
                        /\ \A r \in Slots : life'[q][r] = "RELEASED"
                                            <=> r \in alloc_list'[q] \cup freed_list'[q]
    BY Zenon DEF FreeListsExact
  <2>2. QED
    BY <1>1, Zenon DEF UnitInv, FreeListsExact, TypeOK, ChunkTypes
<1>3. \A q \in Pages, r \in Slots : life[q][r] = "USED" => life'[q][r] = "USED"
  BY Zenon
<1>4. Pinned \subseteq Pages /\ 1 \in Slots
  BY PageAssumption DEF Slots
<1>5. QED
  BY <1>1, <1>2, <1>3, <1>4 DEF UnitInv, TypeOK, ChunkTypes

LEMMA UnitThread ==
    ASSUME TypeOK, ThreadInv, OwnerInv, UnitInv, PendingInv, NEW t \in Threads,
           \/ AllocCall(t) \/ (\E p \in Pages : NewHugePage(t, p)) \/ ThreadStep(t)
           \/ AllocEnd(t) \/ ThreadExit(t)
    PROVE  UnitInv'
<1>1. CASE AllocCall(t) \/ RanOut(t) \/ PickFreePage(t) \/ NewPageFails(t) \/ LinkPage(t)
           \/ ThreadExit(t)
  <2>1. UNCHANGED <<in_use, huge, just, unitVars>>
    BY <1>1, Zenon DEF AllocCall, RanOut, PickFreePage, NewPageFails, LinkPage, ThreadExit, chunkVars
  <2>2. QED
    BY <2>1, UnitFrame, Zenon
<1>2. CASE \E s \in Slots : PickUnit(t, s)
  BY <1>2, UnitPick, Zenon
<1>3. CASE TakeFreed(t)
  BY <1>3, UnitTake, Zenon
<1>4. ASSUME NEW p \in Pages, NEW is_huge, ChunkAllocate(t, p, is_huge)
      PROVE  UnitInv'
  <2>1. /\ p \notin in_use /\ in_use' = in_use \cup {p} /\ just' = just \cup {p}
        /\ UNCHANGED <<life, garbage, alloc_list, freed_list>>
        /\ \A q : q # p => (q \in huge' <=> q \in huge)
    BY <1>4, Zenon DEF ChunkAllocate, unitVars
  <2>2. \A s \in Slots : life[p][s] = "RELEASED"
    BY <2>1, Zenon DEF UnitInv
  <2>3. FreeListsExact'
    BY <2>1, Zenon DEF UnitInv, FreeListsExact
  <2>4. \A q \in huge' : \A r \in Slots \ {1} : life'[q][r] = "RELEASED"
    BY <2>1, <2>2, Zenon DEF UnitInv
  <2>5. QED
    BY <2>1, <2>2, <2>3, <2>4 DEF UnitInv
<1>5. CASE InitPage(t)
  BY <1>5, UnitInit, Zenon
<1>6. CASE AllocEnd(t)
  <2>1. PICK p \in Pages, s \in Slots : p = fresh[t] /\ s = unit[t]
    BY <1>6, Zenon DEF AllocEnd, PendingInv, TypeOK, ChunkTypes
  <2>2. p \in in_use /\ p \notin just /\ life[p][s] = "PENDING"
    BY <1>6, <2>1, JustUnlinked, Zenon DEF AllocEnd, PendingInv
  <2>3. /\ life'[p][s] = "USED"
        /\ \A q \in Pages, r \in Slots : q # p \/ r # s => life'[q][r] = life[q][r]
    BY <1>6, <2>1, Zenon DEF AllocEnd, TypeOK, UnitTypes
  <2>4. UNCHANGED <<in_use, huge, just, garbage, alloc_list, freed_list>>
    BY <1>6, Zenon DEF AllocEnd, chunkVars
  <2>5. QED
    BY <2>2, <2>3, <2>4, UnitUsed, Zenon
<1>7. QED
  BY <1>1, <1>2, <1>3, <1>4, <1>5, <1>6, Zenon DEF ThreadStep, NewPage, NewHugePage

LEMMA UnitFrees ==
    ASSUME TypeOK, ChainInv, ThreadInv, UnitInv, PendingInv, NEW w \in Workers, SweepFreesUnit(w)
    PROVE  UnitInv'
<1>1. PICK p \in Pages : p = cur[w]
  BY PagesAtHand, Zenon DEF SweepFreesUnit, UnitToVisit, Holding
<1>2. p \in in_use /\ p \notin just
  BY <1>1, PagesAtHand, JustUnlinked, Zenon DEF SweepFreesUnit, UnitToVisit, Holding
<1>3. PICK s \in Slots : s = visit[w].idx /\ <<p, s>> \in garbage
  BY <1>1, Zenon DEF SweepFreesUnit, TypeOK, UnitTypes
<1>4. /\ life'[p][s] = "RELEASED"
      /\ \A q \in Pages, r \in Slots : q # p \/ r # s => life'[q][r] = life[q][r]
  BY <1>1, <1>3, Zenon DEF SweepFreesUnit, TypeOK, UnitTypes
<1>5. /\ UNCHANGED <<in_use, huge, just, alloc_list>> /\ garbage' = garbage \ {<<p, s>>}
      /\ \A q \in Pages \ {p} : freed_list'[q] = freed_list[q]
      /\ p \notin huge => freed_list'[p] = freed_list[p] \cup {s}
  BY <1>1, <1>3, Zenon DEF SweepFreesUnit, chunkVars, TypeOK, UnitTypes
<1>6. life[p][s] = "USED" /\ p \notin Pinned
  BY <1>3, Zenon DEF UnitInv
<1>7. FreeListsExact'
  <2>1. SUFFICES ASSUME NEW q \in in_use \ (huge \cup just)
                 PROVE  /\ alloc_list'[q] \cap freed_list'[q] = {}
                        /\ \A r \in Slots : life'[q][r] = "RELEASED"
                                            <=> r \in alloc_list'[q] \cup freed_list'[q]
    BY <1>5, Zenon DEF FreeListsExact
  <2>2. /\ alloc_list[q] \cap freed_list[q] = {}
        /\ \A r \in Slots : life[q][r] = "RELEASED" <=> r \in alloc_list[q] \cup freed_list[q]
        /\ q \in Pages /\ q \notin huge
    BY Zenon DEF UnitInv, FreeListsExact, TypeOK, ChunkTypes
  <2>3. CASE q = p
    <3>1. alloc_list'[p] = alloc_list[p] /\ freed_list'[p] = freed_list[p] \cup {s}
      BY <1>5, <2>2, <2>3, Zenon
    <3>2. s \notin alloc_list[p]
      BY <1>6, <2>2, <2>3, Zenon
    <3>3. \A r \in Slots \ {s} : life'[p][r] = life[p][r]
      BY <1>4, Zenon
    <3>4. QED
      BY <1>4, <2>2, <2>3, <3>1, <3>2, <3>3
  <2>4. CASE q # p
    BY <1>4, <1>5, <2>2, <2>4, Zenon
  <2>5. QED
    BY <2>3, <2>4, Zenon
<1>8. \A q \in Pages : q \notin in_use' \/ q \in just' => \A r \in Slots : life'[q][r] = "RELEASED"
  BY <1>4, <1>5 DEF UnitInv
<1>9. \A q \in huge' : \A r \in Slots \ {1} : life'[q][r] = "RELEASED"
  BY <1>4, <1>5 DEF UnitInv, TypeOK, ChunkTypes
<1>10. \A q \in Pages, r \in Slots : <<q, r>> \in garbage' => life'[q][r] = "USED"
  BY <1>4, <1>5 DEF UnitInv
<1>11. \A q \in Pinned :
         q \in in_use' \cap huge' /\ life'[q][1] = "USED" /\ \A r \in Slots : <<q, r>> \notin garbage'
  <2>1. 1 \in Slots /\ Pinned \subseteq Pages
    BY PageAssumption DEF Slots
  <2>2. QED
    BY <1>4, <1>5, <1>6, <2>1 DEF UnitInv
<1>12. QED
  BY <1>7, <1>8, <1>9, <1>10, <1>11, Zenon DEF UnitInv

\* Every step keeps the units' part of the invariant.
LEMMA UnitNext ==
    ASSUME TypeOK, ChainInv, ThreadInv, OwnerInv, UnitInv, PendingInv, VisitInv, [Next]_vars
    PROVE  UnitInv'
<1>1. ASSUME NEW t \in Threads,
             \/ AllocCall(t) \/ (\E p \in Pages : NewHugePage(t, p)) \/ ThreadStep(t)
             \/ AllocEnd(t) \/ ThreadExit(t)
      PROVE  UnitInv'
  BY <1>1, UnitThread, Zenon
<1>2. ASSUME NEW p \in Pages, NEW s \in Slots, DropUnit(p, s)
      PROVE  UnitInv'
  <2>1. /\ p \notin Pinned /\ life[p][s] = "USED" /\ garbage' = garbage \cup {<<p, s>>}
        /\ UNCHANGED <<in_use, huge, just, life, alloc_list, freed_list>>
    BY <1>2, Zenon DEF DropUnit, chunkVars
  <2>2. QED
    BY <2>1 DEF UnitInv, FreeListsExact
<1>3. CASE Distribute
  BY <1>3, UnitFrame, Zenon DEF Distribute, chunkVars
<1>4. ASSUME NEW w \in Workers, WorkerStep(w)
      PROVE  UnitInv'
  <2>1. CASE SweepLaunch(w) \/ SweepPage(w) \/ SweepKeepsUnit(w) \/ SweepVerdict(w)
             \/ SweepChain(w) \/ SweepLink(w)
    <3>1. UNCHANGED <<in_use, huge, just, unitVars>>
      BY <2>1, Zenon
         DEF SweepLaunch, SweepPage, SweepKeepsUnit, SweepVerdict, SweepChain, SweepLink, chunkVars
    <3>2. QED
      BY <3>1, UnitFrame, Zenon
  <2>2. CASE SweepFreesUnit(w)
    BY <2>2, UnitFrees, Zenon
  <2>3. CASE SweepDrop(w)
    <3>1. /\ in_use' = in_use \ {cur[w]} /\ UNCHANGED <<huge, just, unitVars>>
          /\ \A s \in Slots : life[cur[w]][s] = "RELEASED"
      BY <2>3, Zenon DEF SweepDrop, VisitInv
    <3>2. cur[w] \notin Pinned
      BY <3>1, PageAssumption DEF UnitInv, Slots
    <3>3. QED
      BY <3>1, <3>2, Zenon DEF UnitInv, FreeListsExact, unitVars
  <2>4. QED
    BY <1>4, <2>1, <2>2, <2>3, Zenon DEF WorkerStep
<1>5. CASE RemoveMarked
  BY <1>5, UnitFrame, Zenon DEF RemoveMarked, chunkVars
<1>6. CASE UNCHANGED vars
  BY <1>6, UnitFrame, Zenon DEF vars, chunkVars
<1>7. QED
  BY <1>1, <1>2, <1>3, <1>4, <1>5, <1>6, Zenon DEF Next

-----------------------------------------------------------------------------
(* Pending units *)

\* A step that keeps the threads' places and the life of pending units, and frees
\* no page that has one.
LEMMA PendingFrame ==
    ASSUME PendingInv, UNCHANGED <<huge, threadVars>>,
           \A p \in Pages, s \in Slots : life[p][s] = "PENDING" => life'[p][s] = "PENDING",
           \A p \in in_use : p \in in_use' \/ \A s \in Slots : life[p][s] = "RELEASED",
           TypeOK, ThreadInv
    PROVE  PendingInv'
<1>1. Unlinked' = Unlinked
  BY UnlinkedSame, Zenon DEF Linking, threadVars
<1>2. ASSUME NEW t \in Threads, tpc'[t] = "link", fresh'[t] \in huge'
      PROVE  life'[fresh'[t]][1] = "PENDING"
  <2>1. tpc[t] = "link" /\ fresh[t] \in huge /\ fresh[t] \in Pages /\ 1 \in Slots
    BY <1>2, PageAssumption DEF threadVars, TypeOK, ChunkTypes, Slots
  <2>2. QED
    BY <2>1, Zenon DEF PendingInv, threadVars
<1>3. ASSUME NEW t \in Threads, tpc'[t] = "pending"
      PROVE  /\ fresh'[t] \in in_use' \ Unlinked'
             /\ unit'[t] \in Slots
             /\ life'[fresh'[t]][unit'[t]] = "PENDING"
             /\ \A s \in Threads \ {t} :
                 tpc'[s] = "pending" => fresh'[s] # fresh'[t] \/ unit'[s] # unit'[t]
  <2>1. /\ tpc[t] = "pending" /\ fresh[t] \in in_use \ Unlinked /\ unit[t] \in Slots
        /\ life[fresh[t]][unit[t]] = "PENDING" /\ fresh[t] \in Pages
        /\ fresh' = fresh /\ unit' = unit /\ tpc' = tpc
    BY <1>3 DEF PendingInv, threadVars, TypeOK, ChunkTypes
  <2>2. fresh[t] \in in_use'
    BY <2>1, Zenon
  <2>3. QED
    BY <1>1, <2>1, <2>2 DEF PendingInv
<1>4. QED
  BY <1>2, <1>3, Zenon DEF PendingInv

\* A step of thread t, by what it does to t and to the units of others.
LEMMA PendingThread ==
    ASSUME TypeOK, ThreadInv, OwnerInv, UnitInv, PendingInv, NEW t \in Threads,
           \/ AllocCall(t) \/ (\E p \in Pages : NewHugePage(t, p)) \/ ThreadStep(t)
           \/ AllocEnd(t) \/ ThreadExit(t)
    PROVE  PendingInv'
<1>0. /\ \A s \in Threads \ {t} :
            tpc'[s] = tpc[s] /\ fresh'[s] = fresh[s] /\ unit'[s] = unit[s]
      /\ tpc \in [Threads -> {"run", "pick", "ranout", "require", "newpage", "init", "link",
                              "pending"}]
      /\ fresh \in [Threads -> PageOrNull] /\ unit \in [Threads -> 0 .. UnitsPerPage]
  BY OtherThreads, Zenon DEF TypeOK, ThreadTypes
<1>1. /\ \A s \in Threads : Linking(s) => fresh[s] \in Pages /\ fresh[s] \in in_use
      /\ \A s \in Threads : tpc[s] = "pending" => fresh[s] \in Pages /\ fresh[s] \in in_use
      /\ \A s \in Threads \ {t} : Linking(s) /\ Linking(t) => fresh[s] # fresh[t]
      /\ \A s \in Threads : Linking(s) => fresh[s] \in Unlinked
      /\ \A s \in Threads : tpc[s] = "pending" => fresh[s] \notin Unlinked
      /\ 1 \in Slots
  <2>1. \A s \in Threads : Linking(s) => fresh[s] \in Unlinked
    BY UnlinkedBy, Zenon
  <2>2. 1 \in Slots
    BY PageAssumption DEF Slots
  <2>3. QED
    BY <2>1, <2>2, Zenon DEF ThreadInv, PendingInv, TypeOK, ChunkTypes
\* What has to be shown of t, and of the pages of the other threads.
<1>2. ASSUME \A s \in Threads \ {t} : tpc[s] = "link" =>
               (fresh[s] \in huge' => fresh[s] \in huge) /\ life'[fresh[s]][1] = life[fresh[s]][1],
             \A s \in Threads \ {t} : tpc[s] = "pending" =>
               /\ life'[fresh[s]][unit[s]] = "PENDING"
               /\ fresh[s] \in in_use' /\ fresh[s] \notin Unlinked',
             tpc'[t] = "link" /\ fresh'[t] \in huge' => life'[fresh'[t]][1] = "PENDING",
             tpc'[t] = "pending" =>
               /\ fresh'[t] \in in_use' \ Unlinked'
               /\ unit'[t] \in Slots
               /\ life'[fresh'[t]][unit'[t]] = "PENDING"
               /\ \A s \in Threads \ {t} :
                   tpc[s] = "pending" => fresh[s] # fresh'[t] \/ unit[s] # unit'[t]
      PROVE  PendingInv'
  <2>1. ASSUME NEW s \in Threads, tpc'[s] = "link", fresh'[s] \in huge'
        PROVE  life'[fresh'[s]][1] = "PENDING"
    <3>1. CASE s = t
      BY <1>2, <2>1, <3>1, Zenon
    <3>2. CASE s # t
      BY <1>0, <1>2, <2>1, <3>2 DEF PendingInv
    <3>3. QED
      BY <3>1, <3>2, Zenon
  <2>2. ASSUME NEW s \in Threads, tpc'[s] = "pending"
        PROVE  /\ fresh'[s] \in in_use' \ Unlinked'
               /\ unit'[s] \in Slots
               /\ life'[fresh'[s]][unit'[s]] = "PENDING"
               /\ \A r \in Threads \ {s} :
                   tpc'[r] = "pending" => fresh'[r] # fresh'[s] \/ unit'[r] # unit'[s]
    <3>1. CASE s = t
      BY <1>0, <1>2, <2>2, <3>1
    <3>2. CASE s # t
      <4>1. /\ tpc[s] = "pending" /\ fresh'[s] = fresh[s] /\ unit'[s] = unit[s]
            /\ unit[s] \in Slots
        BY <1>0, <2>2, <3>2, Zenon DEF PendingInv
      <4>2. ASSUME NEW r \in Threads \ {s}, tpc'[r] = "pending"
            PROVE  fresh'[r] # fresh'[s] \/ unit'[r] # unit'[s]
        <5>1. CASE r = t
          BY <1>2, <3>2, <4>1, <4>2, <5>1, Zenon
        <5>2. CASE r # t
          BY <1>0, <4>1, <4>2, <5>2 DEF PendingInv
        <5>3. QED
          BY <5>1, <5>2, Zenon
      <4>3. QED
        BY <1>2, <3>2, <4>1, <4>2, Zenon
    <3>3. QED
      BY <3>1, <3>2, Zenon
  <2>3. QED
    BY <2>1, <2>2, Zenon DEF PendingInv
<1>3. ASSUME Unlinked' \subseteq Unlinked, UNCHANGED <<in_use, huge, life>>
      PROVE  /\ \A s \in Threads \ {t} : tpc[s] = "link" =>
                  (fresh[s] \in huge' => fresh[s] \in huge) /\ life'[fresh[s]][1] = life[fresh[s]][1]
             /\ \A s \in Threads \ {t} : tpc[s] = "pending" =>
                  /\ life'[fresh[s]][unit[s]] = "PENDING"
                  /\ fresh[s] \in in_use' /\ fresh[s] \notin Unlinked'
  BY <1>3, Zenon DEF PendingInv
<1>u. ASSUME ~Linking(t), ~Linking(t)'
      PROVE  Unlinked' = Unlinked
  <2>1. \A s \in Threads : (Linking(s)' <=> Linking(s)) /\ (Linking(s) => fresh'[s] = fresh[s])
    BY <1>0, <1>u, Zenon DEF Linking
  <2>2. QED
    BY <2>1, UnlinkedSame, Zenon
<1>4. CASE AllocCall(t) \/ TakeFreed(t) \/ RanOut(t) \/ PickFreePage(t) \/ NewPageFails(t)
           \/ ThreadExit(t)
  <2>1. /\ UNCHANGED <<in_use, huge, life>> /\ tpc[t] \notin {"init", "link"}
        /\ tpc'[t] \notin {"init", "link", "pending"}
    <3>1. /\ UNCHANGED <<in_use, huge, life>>
          /\ tpc[t] \in {"run", "pick", "ranout", "require", "newpage"}
      BY <1>4, Zenon
         DEF AllocCall, TakeFreed, RanOut, PickFreePage, NewPageFails, ThreadExit, chunkVars, unitVars
    <3>2. tpc'[t] \in {"run", "pick", "ranout", "require", "newpage"}
      BY <1>0, <1>4, Zenon
         DEF AllocCall, TakeFreed, RanOut, PickFreePage, NewPageFails, ThreadExit, Go
    <3>3. QED
      BY <3>1, <3>2, Zenon
  <2>2. Unlinked' = Unlinked
    BY <1>u, <2>1, Zenon DEF Linking
  <2>3. QED
    BY <1>2, <1>3, <2>1, <2>2, Zenon
<1>5. ASSUME NEW s \in Slots, PickUnit(t, s)
      PROVE  PendingInv'
  <2>1. PICK p \in Pages : p = cache[t]
    BY <1>5, OwnCache, Zenon DEF PickUnit, TypeOK, ChunkTypes
  <2>2. p \in in_use /\ p \notin huge /\ p \notin just /\ p \notin Unlinked
    BY <1>5, <2>1, OwnCache, Zenon DEF PickUnit
  <2>3. /\ UNCHANGED <<in_use, huge>> /\ tpc[t] = "pick" /\ tpc'[t] = "pending"
        /\ fresh'[t] = p /\ unit'[t] = s /\ s \in alloc_list[p]
    BY <1>0, <1>5, <2>1, Zenon DEF PickUnit, Go, chunkVars
  <2>4. /\ life'[p][s] = "PENDING"
        /\ \A q \in Pages, r \in Slots : q # p \/ r # s => life'[q][r] = life[q][r]
    BY <1>5, <2>1, Zenon DEF PickUnit, TypeOK, UnitTypes
  <2>5. life[p][s] = "RELEASED"
    BY <2>2, <2>3 DEF UnitInv, FreeListsExact
  <2>6. Unlinked' = Unlinked
    BY <1>u, <2>3, Zenon DEF Linking
  <2>7. \A x \in Threads \ {t} : tpc[x] = "link" => fresh[x] # p /\ fresh[x] \in Pages
    BY <1>1, <2>2, Zenon DEF Linking
  <2>8. \A x \in Threads \ {t} : tpc[x] = "pending" =>
          /\ fresh[x] # p \/ unit[x] # s
          /\ life'[fresh[x]][unit[x]] = "PENDING"
    BY <1>1, <2>4, <2>5 DEF PendingInv
  <2>9. QED
    BY <1>1, <1>2, <2>2, <2>3, <2>4, <2>6, <2>7, <2>8, Zenon
<1>6. ASSUME NEW p \in Pages, NEW is_huge, ChunkAllocate(t, p, is_huge), tpc[t] \in {"run", "newpage"}
      PROVE  PendingInv'
  <2>1. /\ p \notin in_use /\ in_use' = in_use \cup {p} /\ life' = life
        /\ \A q : q # p => (q \in huge' <=> q \in huge)
        /\ fresh'[t] = p /\ tpc'[t] = "init"
    BY <1>0, <1>6, Zenon DEF ChunkAllocate, Go, unitVars
  <2>2. \A q : q \in Unlinked' => q \in Unlinked \/ q = p
    <3>1. \A s \in Threads : Linking(s)' => Linking(s) \/ s = t
      BY <1>0, <1>6, <2>1, Zenon DEF Linking
    <3>2. QED
      BY <1>0, <2>1, <3>1, UnlinkedBy, Zenon
  <2>3. \A s \in Threads \ {t} : tpc[s] = "link" => fresh[s] # p
    BY <1>1, <2>1, Zenon DEF Linking
  <2>4. \A s \in Threads \ {t} : tpc[s] = "pending" =>
          /\ life'[fresh[s]][unit[s]] = "PENDING"
          /\ fresh[s] \in in_use' /\ fresh[s] \notin Unlinked'
    BY <1>1, <2>1, <2>2, Zenon DEF PendingInv
  <2>5. QED
    BY <1>2, <2>1, <2>3, <2>4, Zenon
<1>7. CASE InitPage(t)
  <2>1. PICK p \in Pages : p = fresh[t]
    BY <1>1, <1>7, Zenon DEF InitPage, Linking
  <2>2. /\ UNCHANGED <<in_use, huge, fresh>> /\ tpc[t] = "init" /\ tpc'[t] = "link"
        /\ \A q \in Pages \ {p} : life'[q] = life[q]
        /\ p \in huge => life'[p] = [NoUnits EXCEPT ![1] = "PENDING"]
    BY <1>0, <1>7, <2>1, Zenon DEF InitPage, Go, TypeOK, UnitTypes
  <2>3. p \in huge => life'[p][1] = "PENDING"
    BY <1>1, <2>2, Zenon DEF NoUnits
  <2>4. Unlinked' = Unlinked
    BY <1>0, <2>2, UnlinkedSame, Zenon DEF Linking
  <2>5. \A s \in Threads \ {t} : tpc[s] \in {"link", "pending"} => fresh[s] # p /\ fresh[s] \in Pages
    BY <1>1, <2>1, <2>2, Zenon DEF Linking
  <2>6. \A s \in Threads \ {t} : tpc[s] = "pending" =>
          /\ life'[fresh[s]][unit[s]] = "PENDING"
          /\ fresh[s] \in in_use' /\ fresh[s] \notin Unlinked'
    BY <1>1, <2>2, <2>4, <2>5 DEF PendingInv
  <2>7. QED
    BY <1>2, <2>1, <2>2, <2>3, <2>5, <2>6, Zenon
<1>8. CASE LinkPage(t)
  <2>1. /\ UNCHANGED <<in_use, huge, life, fresh>> /\ tpc[t] = "link"
        /\ \/ UNCHANGED <<tpc, unit>>
           \/ fresh[t] \in huge /\ tpc'[t] = "pending" /\ unit'[t] = 1
           \/ tpc'[t] = "pick"
    <3>1. /\ UNCHANGED <<in_use, huge, life, fresh>> /\ tpc[t] = "link"
          /\ \/ UNCHANGED <<tpc, unit>>
             \/ fresh[t] \in huge /\ Go(t, "pending") /\ unit' = [unit EXCEPT ![t] = 1]
             \/ Go(t, "pick")
      BY <1>8, Zenon DEF LinkPage, chunkVars, unitVars
    <3>2. QED
      BY <1>0, <3>1, Zenon DEF Go
  <2>2. \A s \in Threads : Linking(s)' => Linking(s)
    BY <1>0, <2>1, Zenon DEF Linking
  <2>3. Unlinked' \subseteq Unlinked
    BY <2>1, <2>2, UnlinkedBy, Zenon
  <2>4. tpc'[t] = "link" /\ fresh'[t] \in huge' => life'[fresh'[t]][1] = "PENDING"
    BY <2>1, Zenon DEF PendingInv
  <2>5. ASSUME tpc'[t] = "pending"
        PROVE  /\ fresh'[t] \in in_use' \ Unlinked'
               /\ unit'[t] \in Slots
               /\ life'[fresh'[t]][unit'[t]] = "PENDING"
               /\ \A s \in Threads \ {t} :
                   tpc[s] = "pending" => fresh[s] # fresh'[t] \/ unit[s] # unit'[t]
    <3>1. /\ fresh'[t] = fresh[t] /\ fresh[t] \in huge /\ unit'[t] = 1 /\ ~Linking(t)'
          /\ Linking(t) /\ life[fresh[t]][1] = "PENDING"
      BY <2>1, <2>5, Zenon DEF Linking, PendingInv
    <3>2. fresh[t] \notin Unlinked'
      BY <1>1, <2>1, <2>2, <3>1, UnlinkedBy, Zenon
    <3>3. QED
      BY <1>1, <2>1, <3>1, <3>2, Zenon
  <2>6. QED
    BY <1>2, <1>3, <2>1, <2>3, <2>4, <2>5, Zenon
<1>9. CASE AllocEnd(t)
  <2>1. PICK p \in Pages, s \in Slots : p = fresh[t] /\ s = unit[t]
    BY <1>9, Zenon DEF AllocEnd, PendingInv, TypeOK, ChunkTypes
  <2>2. /\ UNCHANGED <<in_use, huge>> /\ tpc[t] = "pending" /\ tpc'[t] = "run"
    BY <1>0, <1>9, Zenon DEF AllocEnd, Go, chunkVars
  <2>3. \A q \in Pages, r \in Slots : q # p \/ r # s => life'[q][r] = life[q][r]
    BY <1>9, <2>1 DEF AllocEnd
  <2>4. Unlinked' = Unlinked
    BY <1>u, <2>2, Zenon DEF Linking
  <2>5. \A x \in Threads \ {t} : tpc[x] = "link" => fresh[x] # p /\ fresh[x] \in Pages
    BY <1>1, <2>1, <2>2, Zenon DEF Linking
  <2>6. \A x \in Threads \ {t} : tpc[x] = "pending" =>
          /\ fresh[x] # p \/ unit[x] # s
          /\ unit[x] \in Slots /\ life[fresh[x]][unit[x]] = "PENDING"
    BY <2>1, <2>2, Zenon DEF PendingInv
  <2>7. \A x \in Threads \ {t} : tpc[x] = "pending" =>
          /\ life'[fresh[x]][unit[x]] = "PENDING"
          /\ fresh[x] \in in_use' /\ fresh[x] \notin Unlinked'
    BY <1>1, <2>2, <2>3, <2>4, <2>6, Zenon
  <2>8. QED
    BY <1>1, <1>2, <2>2, <2>3, <2>5, <2>7, Zenon
<1>10. CASE \E p \in Pages : NewPage(t, p) \/ NewHugePage(t, p)
  BY <1>6, <1>10, Zenon DEF NewPage, NewHugePage
<1>11. QED
  BY <1>4, <1>5, <1>7, <1>8, <1>9, <1>10, Zenon DEF ThreadStep

\* Every step keeps the pending units' part of the invariant.
LEMMA PendingNext ==
    ASSUME TypeOK, ChainInv, ThreadInv, OwnerInv, UnitInv, PendingInv, VisitInv, [Next]_vars
    PROVE  PendingInv'
<1>1. ASSUME NEW t \in Threads,
             \/ AllocCall(t) \/ (\E p \in Pages : NewHugePage(t, p)) \/ ThreadStep(t)
             \/ AllocEnd(t) \/ ThreadExit(t)
      PROVE  PendingInv'
  BY <1>1, PendingThread, Zenon
<1>2. ASSUME NEW p \in Pages, NEW s \in Slots, DropUnit(p, s)
      PROVE  PendingInv'
  BY <1>2, PendingFrame, Zenon DEF DropUnit, chunkVars
<1>3. CASE Distribute
  BY <1>3, PendingFrame, Zenon DEF Distribute, chunkVars, unitVars
<1>4. ASSUME NEW w \in Workers, WorkerStep(w)
      PROVE  PendingInv'
  <2>1. CASE SweepLaunch(w) \/ SweepPage(w) \/ SweepKeepsUnit(w) \/ SweepVerdict(w)
             \/ SweepChain(w) \/ SweepLink(w)
    <3>1. UNCHANGED <<in_use, huge, life, threadVars>>
      BY <2>1, Zenon
         DEF SweepLaunch, SweepPage, SweepKeepsUnit, SweepVerdict, SweepChain, SweepLink, chunkVars,
             unitVars
    <3>2. QED
      BY <3>1, PendingFrame, Zenon
  <2>2. CASE SweepFreesUnit(w)
    <3>1. PICK p \in Pages : p = cur[w]
      BY <2>2, PagesAtHand, Zenon DEF SweepFreesUnit, UnitToVisit, Holding
    <3>2. PICK s \in Slots : s = visit[w].idx /\ <<p, s>> \in garbage
      BY <2>2, <3>1, Zenon DEF SweepFreesUnit, TypeOK, UnitTypes
    <3>3. \A q \in Pages, r \in Slots : q # p \/ r # s => life'[q][r] = life[q][r]
      BY <2>2, <3>1, <3>2 DEF SweepFreesUnit
    <3>4. life[p][s] = "USED"
      BY <3>2, Zenon DEF UnitInv
    <3>5. UNCHANGED <<in_use, huge, threadVars>>
      BY <2>2, Zenon DEF SweepFreesUnit, chunkVars
    <3>6. QED
      BY <3>3, <3>4, <3>5, PendingFrame, Zenon
  <2>3. CASE SweepDrop(w)
    <3>1. /\ in_use' = in_use \ {cur[w]} /\ UNCHANGED <<huge, life, threadVars>>
          /\ \A s \in Slots : life[cur[w]][s] = "RELEASED"
      BY <2>3, Zenon DEF SweepDrop, VisitInv, unitVars
    <3>2. QED
      BY <3>1, PendingFrame, Zenon
  <2>4. QED
    BY <1>4, <2>1, <2>2, <2>3, Zenon DEF WorkerStep
<1>5. CASE RemoveMarked
  BY <1>5, PendingFrame, Zenon DEF RemoveMarked, chunkVars, unitVars
<1>6. CASE UNCHANGED vars
  BY <1>6, PendingFrame, Zenon DEF vars, chunkVars, unitVars
<1>7. QED
  BY <1>1, <1>2, <1>3, <1>4, <1>5, <1>6, Zenon DEF Next

-----------------------------------------------------------------------------
(* The visit of a page *)

\* A step of somebody else: the page in the worker's hands keeps its flags, and
\* the units seen released stay so if nobody may allocate from the page.
LEMMA VisitKeep ==
    ASSUME TypeOK, VisitInv, NEW w \in Workers,
           wpc'[w] = wpc[w], cur'[w] = cur[w], visit'[w] = visit[w],
           Holding(w) =>
             /\ cur[w] \in huge' <=> cur[w] \in huge
             /\ cur[w] \in run_out => cur[w] \in run_out'
             /\ cur[w] \in huge \cup run_out => \A s \in Slots :
                  life[cur[w]][s] = "RELEASED" => life'[cur[w]][s] = "RELEASED"
    PROVE  /\ wpc'[w] = "unit" /\ visit'[w].was_out => cur'[w] \in run_out'
           /\ wpc'[w] = "unit" /\ (visit'[w].was_out \/ cur'[w] \in huge') /\ ~visit'[w].survivor =>
               \A s \in Slots : s < visit'[w].idx => life'[cur'[w]][s] = "RELEASED"
           /\ wpc'[w] = "drop" =>
               /\ cur'[w] \in huge' \cup run_out'
               /\ \A s \in Slots : life'[cur'[w]][s] = "RELEASED"
  BY Zenon DEF VisitInv, Holding

\* No worker moves, and nothing happens to the pages in their hands.
LEMMA VisitFrame ==
    ASSUME TypeOK, VisitInv, UNCHANGED <<wpc, cur, visit>>,
           \A w \in Workers : Holding(w) =>
             /\ cur[w] \in huge' <=> cur[w] \in huge
             /\ cur[w] \in run_out => cur[w] \in run_out'
             /\ cur[w] \in huge \cup run_out => \A s \in Slots :
                  life[cur[w]][s] = "RELEASED" => life'[cur[w]][s] = "RELEASED"
    PROVE  VisitInv'
  BY VisitKeep, Zenon DEF VisitInv

LEMMA VisitThread ==
    ASSUME TypeOK, ChainInv, ThreadInv, OwnerInv, PendingInv, VisitInv, NEW t \in Threads,
           \/ AllocCall(t) \/ (\E p \in Pages : NewHugePage(t, p)) \/ ThreadStep(t)
           \/ AllocEnd(t) \/ ThreadExit(t)
    PROVE  VisitInv'
<1>0. \A w \in Workers : Holding(w) =>
        cur[w] \in Pages /\ cur[w] \in in_use /\ cur[w] \notin Unlinked
  BY PagesAtHand, Zenon
<1>1. CASE AllocCall(t) \/ TakeFreed(t) \/ RanOut(t) \/ PickFreePage(t) \/ NewPageFails(t)
           \/ LinkPage(t) \/ ThreadExit(t)
  <2>1. UNCHANGED <<huge, life, wpc, cur, visit>>
    BY <1>1, Zenon
       DEF AllocCall, TakeFreed, RanOut, PickFreePage, NewPageFails, LinkPage, ThreadExit,
           chunkVars, unitVars, sweepVars
  <2>2. \A p \in run_out : p \in run_out'
    BY <1>1, Zenon
       DEF AllocCall, TakeFreed, RanOut, PickFreePage, NewPageFails, LinkPage, ThreadExit, poolVars
  <2>3. QED
    BY <2>1, <2>2, VisitFrame, Zenon
<1>2. ASSUME NEW s \in Slots, PickUnit(t, s)
      PROVE  VisitInv'
  <2>1. PICK p \in Pages : p = cache[t]
    BY <1>2, OwnCache, Zenon DEF PickUnit, TypeOK, ChunkTypes
  <2>2. p \notin huge /\ p \notin run_out
    BY <1>2, <2>1, OwnCache, Zenon DEF PickUnit
  <2>3. UNCHANGED <<huge, run_out, wpc, cur, visit>>
    BY <1>2, Zenon DEF PickUnit, chunkVars, poolVars, sweepVars
  <2>4. \A q \in Pages \ {p} : life'[q] = life[q]
    BY <1>2, <2>1 DEF PickUnit
  <2>5. QED
    BY <1>0, <2>2, <2>3, <2>4, VisitFrame, Zenon
<1>3. ASSUME NEW p \in Pages, NEW is_huge, ChunkAllocate(t, p, is_huge)
      PROVE  VisitInv'
  <2>1. /\ UNCHANGED <<run_out, life, wpc, cur, visit>> /\ p \notin in_use
        /\ \A q : q # p => (q \in huge' <=> q \in huge)
    BY <1>3, Zenon DEF ChunkAllocate, unitVars, poolVars, sweepVars
  <2>2. QED
    BY <1>0, <2>1, VisitFrame, Zenon
<1>4. CASE InitPage(t)
  <2>1. fresh[t] \in Unlinked
    BY <1>4, UnlinkedBy, Zenon DEF InitPage, Linking
  <2>2. /\ UNCHANGED <<huge, wpc, cur, visit>> /\ run_out' = run_out \ {fresh[t]}
        /\ \A q \in Pages \ {fresh[t]} : life'[q] = life[q]
    BY <1>4 DEF InitPage, sweepVars
  <2>3. QED
    BY <1>0, <2>1, <2>2, VisitFrame, Zenon
<1>5. CASE AllocEnd(t)
  <2>1. PICK p \in Pages, s \in Slots : p = fresh[t] /\ s = unit[t]
    BY <1>5, Zenon DEF AllocEnd, PendingInv, TypeOK, ChunkTypes
  <2>2. life[p][s] = "PENDING"
    BY <1>5, <2>1, Zenon DEF AllocEnd, PendingInv
  <2>3. \A q \in Pages, r \in Slots : q # p \/ r # s => life'[q][r] = life[q][r]
    BY <1>5, <2>1 DEF AllocEnd
  <2>4. UNCHANGED <<huge, run_out, wpc, cur, visit>>
    BY <1>5, Zenon DEF AllocEnd, chunkVars, poolVars, sweepVars
  <2>5. \A q \in Pages, r \in Slots : life[q][r] = "RELEASED" => life'[q][r] = "RELEASED"
    BY <2>2, <2>3, Zenon
  <2>6. QED
    BY <1>0, <2>4, <2>5, VisitFrame, Zenon
<1>6. QED
  BY <1>1, <1>2, <1>3, <1>4, <1>5, Zenon DEF ThreadStep, NewPage, NewHugePage

LEMMA VisitWorker ==
    ASSUME TypeOK, ChainInv, ThreadInv, UnitInv, PendingInv, VisitInv, NEW w \in Workers,
           WorkerStep(w)
    PROVE  VisitInv'
<1>0. /\ \A v \in Workers : Holding(v) => cur[v] \in Pages /\ cur[v] \in Own(v)
      /\ UnitsPerPage \in Nat \ {0}
  BY PagesAtHand, PageAssumption, Zenon
<1>1. /\ huge' = huge
      /\ \A v \in Workers \ {w} : wpc'[v] = wpc[v] /\ cur'[v] = cur[v] /\ visit'[v] = visit[v]
  <2>1. /\ huge' = huge
        /\ wpc' = wpc \/ \E x : wpc' = [wpc EXCEPT ![w] = x]
        /\ cur' = cur \/ \E x : cur' = [cur EXCEPT ![w] = x]
    BY Zenon
       DEF WorkerStep, SweepLaunch, SweepPage, SweepFreesUnit, SweepKeepsUnit, SweepVerdict,
           SweepDrop, SweepChain, SweepLink, NextPage, WGo, chunkVars
  <2>2. \A v \in Workers \ {w} : visit'[v] = visit[v]
    BY Zenon DEF WorkerStep, SweepLaunch, SweepPage, SweepFreesUnit, SweepKeepsUnit, SweepVerdict,
           SweepDrop, SweepChain, SweepLink, TypeOK, SweepTypes
  <2>3. QED
    BY <2>1, <2>2, Zenon DEF TypeOK, SweepTypes
<1>2. ASSUME NEW v \in Workers \ {w}, Holding(v)
      PROVE  Holding(w) => cur[v] # cur[w]
  BY <1>0, <1>2, Zenon DEF ChainInv
<1>3. \A p \in Pages, s \in Slots : life[p][s] = "RELEASED" => life'[p][s] = "RELEASED"
  <2>1. CASE SweepFreesUnit(w)
    <3>1. PICK p \in Pages, s \in Slots : p = cur[w] /\ s = visit[w].idx
      BY <1>0, <2>1, Zenon DEF SweepFreesUnit, UnitToVisit, Holding, UnitCount, TypeOK, UnitTypes, Slots
    <3>2. /\ life'[p][s] = "RELEASED"
          /\ \A q \in Pages, r \in Slots : q # p \/ r # s => life'[q][r] = life[q][r]
      BY <2>1, <3>1, Zenon DEF SweepFreesUnit, TypeOK, UnitTypes
    <3>3. QED
      BY <3>2, Zenon
  <2>2. CASE ~SweepFreesUnit(w)
    <3>1. life' = life
      BY <2>2, Zenon
         DEF WorkerStep, SweepLaunch, SweepPage, SweepKeepsUnit, SweepVerdict, SweepDrop, SweepChain,
             SweepLink, unitVars
    <3>2. QED
      BY <3>1, Zenon
  <2>3. QED
    BY <2>1, <2>2, Zenon
<1>4. run_out' = run_out \/ (Holding(w) /\ run_out' = run_out \ {cur[w]})
  BY Zenon
     DEF WorkerStep, SweepLaunch, SweepPage, SweepFreesUnit, SweepKeepsUnit, SweepVerdict,
         SweepDrop, SweepChain, SweepLink, poolVars, Holding
<1> DEFINE Claims(v) ==
             /\ wpc'[v] = "unit" /\ visit'[v].was_out => cur'[v] \in run_out'
             /\ wpc'[v] = "unit" /\ (visit'[v].was_out \/ cur'[v] \in huge') /\ ~visit'[v].survivor =>
                 \A s \in Slots : s < visit'[v].idx => life'[cur'[v]][s] = "RELEASED"
             /\ wpc'[v] = "drop" =>
                 /\ cur'[v] \in huge' \cup run_out'
                 /\ \A s \in Slots : life'[cur'[v]][s] = "RELEASED"
<1>5. ASSUME NEW v \in Workers \ {w}
      PROVE  Claims(v)
  <2>1. Holding(v) =>
          /\ cur[v] \in huge' <=> cur[v] \in huge
          /\ cur[v] \in run_out => cur[v] \in run_out'
          /\ cur[v] \in huge \cup run_out => \A s \in Slots :
               life[cur[v]][s] = "RELEASED" => life'[cur[v]][s] = "RELEASED"
    BY <1>0, <1>1, <1>2, <1>3, <1>4, Zenon
  <2>2. QED
    BY <1>1, <2>1, VisitKeep, Zenon
<1>6. Claims(w)
  <2>1. CASE SweepLaunch(w) \/ SweepDrop(w) \/ SweepChain(w) \/ SweepLink(w)
    <3>1. wpc'[w] \in {"page", "link"}
      BY <2>1, Zenon DEF SweepLaunch, SweepDrop, SweepChain, SweepLink, NextPage, WGo, TypeOK, SweepTypes
    <3>2. QED
      BY <3>1, Zenon
  <2>2. CASE SweepPage(w)
    <3>1. visit'[w] = [NoVisit EXCEPT !.was_out = cur[w] \in run_out]
      BY <2>2, Zenon DEF SweepPage, TypeOK, SweepTypes
    <3>2. visit'[w].idx = 1 /\ (visit'[w].was_out <=> cur[w] \in run_out)
      BY <3>1, Zenon DEF NoVisit
    <3>3. wpc'[w] = "unit" /\ cur' = cur /\ run_out' = run_out
      BY <2>2, Zenon DEF SweepPage, WGo, TypeOK, SweepTypes, poolVars
    <3>4. \A s \in Slots : ~(s < 1)
      BY DEF Slots
    <3>5. QED
      BY <3>2, <3>3, <3>4, Zenon
  <2>3. CASE SweepFreesUnit(w) \/ SweepKeepsUnit(w)
    <3>1. /\ wpc[w] = "unit" /\ UNCHANGED <<wpc, cur, run_out>>
      BY <2>3, Zenon DEF SweepFreesUnit, SweepKeepsUnit, UnitToVisit, poolVars
    <3>2. PICK p \in Pages, s \in Slots : p = cur[w] /\ s = visit[w].idx
      BY <1>0, <2>3 DEF SweepFreesUnit, SweepKeepsUnit, UnitToVisit, Holding, UnitCount, TypeOK, SweepTypes, Slots
    <3>3. /\ visit'[w].idx = s + 1 /\ visit'[w].was_out = visit[w].was_out
          /\ ~visit'[w].survivor => ~visit[w].survivor /\ life'[p][s] = "RELEASED"
      <4>1. CASE SweepFreesUnit(w)
        <5>1. visit'[w] = [visit[w] EXCEPT !.space = TRUE, !.idx = @ + 1]
          BY <4>1, Zenon DEF SweepFreesUnit, TypeOK, SweepTypes
        <5>2. life'[p][s] = "RELEASED"
          BY <3>2, <4>1, Zenon DEF SweepFreesUnit, TypeOK, UnitTypes
        <5>3. visit[w] \in [idx : 1 .. UnitsPerPage + 1, was_out : BOOLEAN, survivor : BOOLEAN,
                            space : BOOLEAN]
          BY Zenon DEF TypeOK, SweepTypes
        <5>4. QED
          BY <3>2, <5>1, <5>2, <5>3, Zenon
      <4>2. CASE SweepKeepsUnit(w)
        <5>1. visit'[w] = [visit[w] EXCEPT !.survivor = @ \/ life[p][s] # "RELEASED", !.idx = @ + 1]
          BY <3>2, <4>2, Zenon DEF SweepKeepsUnit, TypeOK, SweepTypes
        <5>2. life' = life
          BY <4>2, Zenon DEF SweepKeepsUnit, unitVars
        <5>3. visit[w] \in [idx : 1 .. UnitsPerPage + 1, was_out : BOOLEAN, survivor : BOOLEAN,
                            space : BOOLEAN]
          BY Zenon DEF TypeOK, SweepTypes
        <5>4. QED
          BY <3>2, <5>1, <5>2, <5>3, Zenon
      <4>3. QED
        BY <2>3, <4>1, <4>2, Zenon
    <3>4. \A r \in Slots : r < s + 1 => r < s \/ r = s
      BY DEF Slots
    <3>5. QED
      BY <1>1, <1>3, <3>1, <3>2, <3>3, <3>4, Zenon DEF VisitInv
  <2>4. CASE SweepVerdict(w)
    <3>1. /\ wpc[w] = "unit" /\ cur' = cur
          /\ visit[w].idx > UnitCount(cur[w]) /\ life' = life
          /\ wpc'[w] = IF ToDrop(cur[w], visit[w]) THEN "drop" ELSE "chain"
          /\ ~visit[w].survivor => run_out' = run_out
      BY <2>4, Zenon DEF SweepVerdict, WGo, TypeOK, SweepTypes, unitVars, ToReuse
    <3>2. CASE ToDrop(cur[w], visit[w])
      <4>1. /\ ~visit[w].survivor /\ (visit[w].was_out \/ cur[w] \in huge)
            /\ visit[w].idx \in 1 .. UnitsPerPage + 1
        BY <3>2, Zenon DEF ToDrop, TypeOK, SweepTypes
      <4>2. \A s \in Slots : s < visit[w].idx => life[cur[w]][s] = "RELEASED"
        BY <3>1, <3>2, Zenon DEF VisitInv, ToDrop
      <4>3. cur[w] \in huge \cup run_out
        BY <3>1, <3>2, Zenon DEF VisitInv, ToDrop
      <4>4. \A s \in Slots : life[cur[w]][s] = "RELEASED"
        <5>1. CASE cur[w] \in huge
          <6>1. 1 \in Slots /\ 1 < visit[w].idx
            BY <1>0, <3>1, <4>1, <5>1 DEF UnitCount, Slots
          <6>2. QED
            BY <4>2, <5>1, <6>1 DEF UnitInv
        <5>2. CASE cur[w] \notin huge
          <6>1. \A s \in Slots : s < visit[w].idx
            BY <1>0, <3>1, <4>1, <5>2 DEF UnitCount, Slots
          <6>2. QED
            BY <4>2, <6>1, Zenon
        <5>3. QED
          BY <5>1, <5>2, Zenon
      <4>5. QED
        BY <1>1, <3>1, <3>2, <4>3, <4>4, Zenon DEF ToDrop
    <3>3. CASE ~ToDrop(cur[w], visit[w])
      BY <3>1, <3>3, Zenon
    <3>4. QED
      BY <3>2, <3>3, Zenon
  <2>5. QED
    BY <2>1, <2>2, <2>3, <2>4, Zenon DEF WorkerStep
<1>7. \A v \in Workers : Claims(v)
  BY <1>5, <1>6, Zenon
<1>8. QED
  BY <1>7, Zenon DEF VisitInv

\* Every step keeps the visits' part of the invariant.
LEMMA VisitNext ==
    ASSUME TypeOK, ChainInv, ThreadInv, OwnerInv, UnitInv, PendingInv, VisitInv, [Next]_vars
    PROVE  VisitInv'
<1>1. ASSUME NEW t \in Threads,
             \/ AllocCall(t) \/ (\E p \in Pages : NewHugePage(t, p)) \/ ThreadStep(t)
             \/ AllocEnd(t) \/ ThreadExit(t)
      PROVE  VisitInv'
  BY <1>1, VisitThread, Zenon
<1>2. ASSUME NEW p \in Pages, NEW s \in Slots, DropUnit(p, s)
      PROVE  VisitInv'
  BY <1>2, VisitFrame, Zenon DEF DropUnit, chunkVars, poolVars, sweepVars
<1>3. CASE Distribute
  BY <1>3, VisitFrame, Zenon DEF Distribute, chunkVars, poolVars, unitVars
<1>4. ASSUME NEW w \in Workers, WorkerStep(w)
      PROVE  VisitInv'
  BY <1>4, VisitWorker, Zenon
<1>5. CASE RemoveMarked
  BY <1>5, Zenon DEF RemoveMarked, VisitInv
<1>6. CASE UNCHANGED vars
  BY <1>6, VisitFrame, Zenon DEF vars, chunkVars, poolVars, unitVars, sweepVars
<1>7. QED
  BY <1>1, <1>2, <1>3, <1>4, <1>5, <1>6, Zenon DEF Next

=============================================================================
