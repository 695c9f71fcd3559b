------------------------ MODULE PageLifecycleProofs ------------------------
(***************************************************************************)
(* The pages of PageLifecycle, for any number of pages, units, threads and *)
(* workers: the lists of pages, and the theorems.                          *)
(***************************************************************************)
EXTENDS PageUnitProofs, FiniteSetTheorems

-----------------------------------------------------------------------------
(* Induction *)

\* A set of natural numbers that is not empty has a least element.
LEMMA Least ==
    ASSUME NEW S \in SUBSET Nat, S # {}
    PROVE  \E m \in S : \A k \in S : m <= k
<1> DEFINE R == OpToRel(<, Nat)
<1>1. IsWellFoundedOn(R, Nat)
  BY NatLessThanWellFounded, Zenon
<1>2. \A x, y \in Nat : x < y => <<x, y>> \in R
  BY Zenon DEF OpToRel
<1> HIDE DEF R
<1>3. PICK m \in S : \A k \in S : ~(<<k, m>> \in R)
  BY <1>1, WFMin, Zenon
<1>4. \A k \in S : ~(k < m)
  BY <1>2, <1>3, Zenon
<1>5. QED
  BY <1>4

\* A set of numbers that holds 0 and with n also n + 1, up to a bound, holds all
\* numbers up to the bound.
LEMMA UpTo ==
    ASSUME NEW N \in Nat, NEW S, 0 \in S,
           \A n \in 0 .. N - 1 : n \in S => n + 1 \in S
    PROVE  \A n \in 0 .. N : n \in S
<1> DEFINE T == {n \in 0 .. N : n \notin S}
<1>1. SUFFICES ASSUME T # {}
               PROVE  FALSE
  BY Zenon
<1>2. T \in SUBSET Nat
  OBVIOUS
<1>3. PICK m \in T : \A k \in T : m <= k
  <2> HIDE DEF T
  <2>1. QED
    BY <1>1, <1>2, Least, Zenon
<1>4. m \in 0 .. N /\ m # 0 /\ m - 1 \in 0 .. N - 1 /\ m - 1 \in S
  BY <1>3
<1>5. QED
  BY <1>3, <1>4

-----------------------------------------------------------------------------
(* Linked lists *)

\* No page is met twice.
LEMMA ChainInjective ==
    ASSUME NEW p, NEW n \in Nat, NEW f \in [Nat -> PageOrNull], Chain(p, n, f),
           NEW i \in 0 .. n, NEW j \in 0 .. n, f[i] = f[j]
    PROVE  i = j
<1>1. \A k \in 1 .. n : f[k] # Null
  BY PageAssumption, Zenon DEF Chain
<1>2. SUFFICES ASSUME NEW a \in 0 .. n, NEW d \in 1 .. n, a + d <= n
               PROVE  f[a] # f[a + d]
  BY <1>1
<1> DEFINE S == {k \in 0 .. n : k + d <= n => f[k] # f[k + d]}
<1>3. 0 \in S
  BY <1>1 DEF Chain
<1>4. ASSUME NEW k \in 0 .. n - 1, k \in S
      PROVE  k + 1 \in S
  <2>1. CASE k + 1 + d <= n
    <3>1. next[f[k + 1]] = f[k] /\ next[f[k + 1 + d]] = f[k + d]
      BY <2>1 DEF Chain
    <3>2. f[k] # f[k + d]
      BY <1>4, <2>1
    <3>3. QED
      BY <3>1, <3>2, <2>1
  <2>2. QED
    BY <2>1
<1>5. \A k \in 0 .. n : k \in S
  <2> HIDE DEF S
  <2>1. QED
    BY <1>3, <1>4, UpTo, Zenon
<1>6. QED
  BY <1>2, <1>5, Zenon

\* It is no longer than there are pages.
LEMMA ChainShort ==
    ASSUME NEW p, NEW n \in Nat, NEW f \in [Nat -> PageOrNull], Chain(p, n, f)
    PROVE  /\ {f[i] : i \in 1 .. n} \in SUBSET Pages
           /\ IsFiniteSet({f[i] : i \in 1 .. n})
           /\ Cardinality({f[i] : i \in 1 .. n}) = n
           /\ Cardinality(Pages) \in Nat
           /\ n <= Cardinality(Pages)
<1> DEFINE R == {f[i] : i \in 1 .. n}
<1> DEFINE g == [i \in 1 .. n |-> f[i]]
<1>1. R \in SUBSET Pages
  BY Zenon DEF Chain
<1>2. IsFiniteSet(Pages)
  BY PageAssumption, Zenon
<1>3. g \in Bijection(1 .. n, R)
  <2>1. g \in [1 .. n -> R]
    BY Zenon
  <2>2. \A i, j \in 1 .. n : g[i] = g[j] => i = j
    BY ChainInjective
  <2>3. \A r \in R : \E i \in 1 .. n : g[i] = r
    BY Zenon
  <2> HIDE DEF g, R
  <2>4. QED
    BY <2>1, <2>2, <2>3, Zenon DEF Bijection, Injection, Surjection, IsInjective
<1>4. ExistsBijection(1 .. n, R)
  BY <1>3, Zenon DEF ExistsBijection
<1>5. IsFiniteSet(R) /\ Cardinality(R) <= Cardinality(Pages)
  <2> HIDE DEF R
  <2>1. QED
    BY <1>1, <1>2, FS_Subset, Zenon
<1>6. Cardinality(R) = n
  <2> HIDE DEF R
  <2>1. QED
    BY <1>4, FS_CountingElements, Zenon
<1>7. Cardinality(Pages) \in Nat
  BY <1>2, FS_CardinalityType, Zenon
<1>8. QED
  BY <1>1, <1>5, <1>6, <1>7, Zenon

\* List walks along it.
LEMMA ChainList ==
    ASSUME NEW p, NEW n \in Nat, NEW f \in [Nat -> PageOrNull], Chain(p, n, f)
    PROVE  /\ DOMAIN List(p) = 0 .. Cardinality(Pages)
           /\ \A k \in 0 .. Cardinality(Pages) :
                List(p)[k] = IF k <= n THEN f[n - k] ELSE Null
<1> DEFINE C == Cardinality(Pages)
<1> DEFINE g == [k \in 0 .. C |-> IF k <= n THEN f[n - k] ELSE Null]
<1> DEFINE Walk(h) == [k \in 0 .. C |-> IF k = 0 THEN p
                                        ELSE IF h[k - 1] = Null THEN Null ELSE next[h[k - 1]]]
<1>1. C \in Nat /\ n <= C
  BY ChainShort, Zenon
<1>2. \A k \in 1 .. n : f[k] # Null
  BY PageAssumption, Zenon DEF Chain
<1> HIDE DEF C
<1>3. g = Walk(g)
  <2>1. SUFFICES ASSUME NEW k \in 0 .. C
                 PROVE  g[k] = Walk(g)[k]
    BY Zenon
  <2>2. CASE k = 0
    BY <2>2, <1>1 DEF Chain
  <2>3. CASE k # 0
    <3>1. k - 1 \in 0 .. C
      BY <2>3, <1>1
    <3>2. CASE k - 1 <= n - 1
      <4>1. g[k - 1] = f[n - (k - 1)] /\ g[k] = f[n - k] /\ n - (k - 1) \in 1 .. n
        BY <2>3, <3>1, <3>2, <1>1
      <4>2. g[k - 1] # Null /\ next[f[n - (k - 1)]] = f[n - (k - 1) - 1]
        BY <4>1, <1>2, Zenon DEF Chain
      <4>3. n - (k - 1) - 1 = n - k
        BY <1>1
      <4>4. QED
        BY <2>3, <4>1, <4>2, <4>3, Zenon
    <3>3. CASE k - 1 = n
      BY <2>3, <3>1, <3>3, <1>1 DEF Chain
    <3>4. CASE k - 1 > n
      BY <2>3, <3>1, <3>4, <1>1
    <3>5. QED
      BY <3>1, <3>2, <3>3, <3>4, <1>1
  <2>4. QED
    BY <2>2, <2>3, Zenon
<1>4. List(p) = Walk(List(p))
  <2>1. PICK h : h = Walk(h)
    BY <1>3, Zenon
  <2>2. QED
    BY <2>1, Zenon DEF List, C
<1>5. DOMAIN List(p) = 0 .. C
  BY <1>4, Zenon
<1>6. \A k \in 0 .. C : List(p)[k] = g[k]
  <2> DEFINE S == {k \in 0 .. C : List(p)[k] = g[k]}
  <2> DEFINE L == List(p)
  <2>0. L = Walk(L) /\ g = Walk(g)
    BY <1>3, <1>4, Zenon
  <2> HIDE DEF L, g
  <2>1. 0 \in S
    BY <2>0, <1>1 DEF L
  <2>2. ASSUME NEW k \in 0 .. C - 1, k \in S
        PROVE  k + 1 \in S
    <3>1. k + 1 \in 0 .. C /\ k + 1 # 0 /\ k + 1 - 1 = k
      BY <1>1
    <3>2. L[k + 1] = Walk(L)[k + 1] /\ g[k + 1] = Walk(g)[k + 1]
      BY <2>0, Zenon
    <3>3. L[k] = g[k]
      BY <2>2, Zenon DEF L
    <3>4. QED
      BY <3>1, <3>2, <3>3 DEF L
  <2>3. \A k \in 0 .. C : k \in S
    <3> HIDE DEF S
    <3>1. QED
      BY <2>1, <2>2, <1>1, UpTo, Zenon
  <2>4. QED
    BY <2>3, Zenon
<1>7. QED
  BY <1>5, <1>6, Zenon DEF C

\* Members is the set of its pages.
LEMMA ChainMembers ==
    ASSUME NEW p, NEW n \in Nat, NEW f \in [Nat -> PageOrNull], Chain(p, n, f)
    PROVE  Members(p) = {f[i] : i \in 1 .. n}
<1> DEFINE C == Cardinality(Pages)
<1> DEFINE g == [k \in 0 .. C |-> IF k <= n THEN f[n - k] ELSE Null]
<1>1. C \in Nat /\ n <= C
  BY ChainShort, Zenon
<1>2. DOMAIN List(p) = 0 .. C /\ \A k \in 0 .. C : List(p)[k] = g[k]
  BY ChainList, Zenon
<1>3. Members(p) = {g[k] : k \in 0 .. C} \ {Null}
  <2> HIDE DEF g, C
  <2>1. QED
    BY <1>2, Zenon DEF Members
<1> HIDE DEF C
<1>4. ASSUME NEW k \in 0 .. C, g[k] # Null
      PROVE  g[k] \in {f[i] : i \in 1 .. n}
  <2>1. k <= n /\ g[k] = f[n - k]
    BY <1>4, Zenon
  <2>2. n - k # 0
    BY <1>4, <2>1, Zenon DEF Chain
  <2>3. QED
    BY <2>1, <2>2
<1>5. ASSUME NEW i \in 1 .. n
      PROVE  f[i] \in {g[k] : k \in 0 .. C} /\ f[i] # Null
  <2>1. n - i \in 0 .. C /\ n - i <= n /\ n - (n - i) = i
    BY <1>1
  <2>2. g[n - i] = f[i]
    BY <2>1, Zenon
  <2>3. f[i] # Null
    BY PageAssumption, Zenon DEF Chain
  <2>4. QED
    BY <2>1, <2>2, <2>3, Zenon
<1> HIDE DEF g
<1>6. QED
  BY <1>3, <1>4, <1>5, Zenon

\* This as one formula, which holds in the next state too.
MembersOfChains ==
    \A p : \A n \in Nat, f \in [Nat -> PageOrNull] :
        Chain(p, n, f) => Members(p) = {f[i] : i \in 1 .. n}

LEMMA ChainMembersAlways == MembersOfChains
<1>1. SUFFICES ASSUME NEW p, NEW n \in Nat, NEW f \in [Nat -> PageOrNull], Chain(p, n, f)
               PROVE  Members(p) = {f[i] : i \in 1 .. n}
  BY Zenon DEF MembersOfChains
<1>2. QED
  BY <1>1, ChainMembers, Zenon

LEMMA ChainMembersNext ==
    ASSUME NEW p, NEW n \in Nat, NEW f \in [Nat -> PageOrNull], Chain(p, n, f)'
    PROVE  Members(p)' = {f[i] : i \in 1 .. n}
<1>1. MembersOfChains'
  BY ChainMembersAlways, PTL
<1>2. QED
  BY <1>1, Zenon DEF MembersOfChains

\* A list whose links stay as they are stays as it is.
LEMMA ListFrame ==
    ASSUME NEW p, IsList(p), \A q \in Members(p) : next'[q] = next[q]
    PROVE  IsList(p)' /\ Members(p)' = Members(p)
<1>1. PICK n \in Nat, f \in [Nat -> PageOrNull] : Chain(p, n, f)
  BY Zenon DEF IsList
<1>2. Members(p) = {f[i] : i \in 1 .. n}
  BY <1>1, ChainMembers, Zenon
<1>3. \A i \in 1 .. n : next'[f[i]] = next[f[i]]
  BY <1>2, Zenon
<1>4. Chain(p, n, f)'
  BY <1>1, <1>3, Zenon DEF Chain
<1>5. QED
  BY <1>2, <1>4, ChainMembersNext DEF IsList

\* The empty list.
LEMMA ListEmpty == IsList(Null) /\ Members(Null) = {}
<1> DEFINE f == [i \in Nat |-> Null]
<1>1. f \in [Nat -> PageOrNull] /\ Chain(Null, 0, f)
  BY DEF Chain, PageOrNull
<1>2. {f[i] : i \in 1 .. 0} = {}
  OBVIOUS
<1> HIDE DEF f
<1>3. QED
  BY <1>1, <1>2, ChainMembers, Zenon DEF IsList

\* A list and what follows its first page.
LEMMA ListTail ==
    ASSUME NEW p, IsList(p), p # Null
    PROVE  /\ p \in Pages
           /\ IsList(next[p])
           /\ Members(p) = {p} \cup Members(next[p])
           /\ p \notin Members(next[p])
<1>1. PICK n \in Nat, f \in [Nat -> PageOrNull] : Chain(p, n, f)
  BY Zenon DEF IsList
<1>2. n \in 1 .. n /\ n - 1 \in Nat /\ p \in Pages /\ p = f[n]
  BY <1>1 DEF Chain
<1>3. Chain(next[p], n - 1, f)
  BY <1>1, <1>2 DEF Chain
<1>4. Members(p) = {f[i] : i \in 1 .. n} /\ Members(next[p]) = {f[i] : i \in 1 .. n - 1}
  BY <1>1, <1>2, <1>3, ChainMembers
<1>5. \A i \in 1 .. n - 1 : f[i] # f[n]
  BY <1>1, <1>2, ChainInjective
<1>6. QED
  BY <1>2, <1>3, <1>4, <1>5 DEF IsList

\* A page that is not in a list, linked in front of it.
LEMMA ListPush ==
    ASSUME NEW p \in Pages, IsList(next[p]), p \notin Members(next[p])
    PROVE  IsList(p) /\ Members(p) = {p} \cup Members(next[p])
<1>1. PICK n \in Nat, f \in [Nat -> PageOrNull] : Chain(next[p], n, f)
  BY Zenon DEF IsList
<1> DEFINE g == [f EXCEPT ![n + 1] = p]
<1>2. g \in [Nat -> PageOrNull] /\ n + 1 \in Nat /\ g[n + 1] = p /\ \A i \in 0 .. n : g[i] = f[i]
  BY <1>1 DEF PageOrNull
<1> HIDE DEF g
<1>3. Chain(p, n + 1, g)
  <2>1. g[0] = Null /\ p = g[n + 1]
    BY <1>1, <1>2 DEF Chain
  <2>2. \A i \in 1 .. n + 1 : g[i] \in Pages /\ next[g[i]] = g[i - 1]
    <3>1. SUFFICES ASSUME NEW i \in 1 .. n + 1
                   PROVE  g[i] \in Pages /\ next[g[i]] = g[i - 1]
      BY Zenon
    <3>2. CASE i = n + 1
      BY <1>1, <1>2, <3>2 DEF Chain
    <3>3. CASE i \in 1 .. n
      BY <1>1, <1>2, <3>3 DEF Chain
    <3>4. QED
      BY <3>2, <3>3
  <2>3. QED
    BY <1>2, <2>1, <2>2, Zenon DEF Chain
<1>4. Members(p) = {g[i] : i \in 1 .. n + 1} /\ Members(next[p]) = {f[i] : i \in 1 .. n}
  BY <1>1, <1>2, <1>3, ChainMembers
<1>5. {g[i] : i \in 1 .. n + 1} = {p} \cup {f[i] : i \in 1 .. n}
  BY <1>2
<1>6. QED
  BY <1>2, <1>3, <1>4, <1>5, Zenon DEF IsList

\* The pages of a list are pages.
LEMMA ListPages ==
    ASSUME NEW p, IsList(p)
    PROVE  /\ Members(p) \in SUBSET Pages
           /\ p \in Pages \cup {Null}
           /\ p # Null => p \in Members(p)
  BY ChainMembers, ListTail DEF IsList, Chain

-----------------------------------------------------------------------------
(* Distribution *)

\* The shares of the workers follow on one another.
LEMMA ShareNext ==
    ASSUME NEW total \in Nat, NEW i \in Workers
    PROVE  /\ First(i, total) \in Nat
           /\ First(i + 1, total) \in Nat
           /\ Share(i, total) \in Nat
           /\ First(i + 1, total) = First(i, total) + Share(i, total)
<1> DEFINE q == total \div WorkerCount
<1> DEFINE r == total % WorkerCount
<1>1. q \in Nat /\ r \in Nat /\ i \in Nat
  BY PageAssumption DEF Workers
<1> HIDE DEF q, r
<1>2. i * q \in Nat /\ (i + 1) * q = i * q + q
  BY <1>1
<1>3. /\ First(i, total) = i * q + (IF i < r THEN i ELSE r)
      /\ First(i + 1, total) = (i + 1) * q + (IF i + 1 < r THEN i + 1 ELSE r)
      /\ Share(i, total) = q + (IF i < r THEN 1 ELSE 0)
  BY Zenon DEF First, Share, q, r
<1>4. QED
  BY <1>1, <1>2, <1>3

\* They begin at the first page and end with the last one.
LEMMA ShareEnds ==
    ASSUME NEW total \in Nat
    PROVE  First(0, total) = 0 /\ First(WorkerCount, total) = total
<1> DEFINE q == total \div WorkerCount
<1> DEFINE r == total % WorkerCount
<1>1. /\ q \in Nat /\ r \in Nat /\ WorkerCount \in Nat
      /\ r < WorkerCount /\ total = WorkerCount * q + r
  BY PageAssumption
<1> HIDE DEF q, r
<1>2. QED
  BY <1>1 DEF First, q, r

\* A worker's share ends before the share of a later worker begins.
LEMMA ShareOrder ==
    ASSUME NEW total \in Nat, NEW i \in Workers, NEW j \in Workers, i < j
    PROVE  First(i, total) + Share(i, total) <= First(j, total)
<1> DEFINE S == {d \in 0 .. WorkerCount :
                   i + 1 + d \in Workers => First(i + 1, total) <= First(i + 1 + d, total)}
<1>1. 0 \in S
  BY ShareNext, PageAssumption DEF Workers
<1>2. ASSUME NEW d \in 0 .. WorkerCount - 1, d \in S
      PROVE  d + 1 \in S
  <2>1. SUFFICES ASSUME i + 1 + (d + 1) \in Workers
                 PROVE  First(i + 1, total) <= First(i + 1 + (d + 1), total)
    BY PageAssumption
  <2>2. i + 1 + d \in Workers /\ i + 1 + (d + 1) = i + 1 + d + 1
    BY <2>1, PageAssumption DEF Workers
  <2>3. First(i + 1, total) <= First(i + 1 + d, total)
    BY <1>2, <2>2, Zenon
  <2>4. First(i + 1 + d, total) <= First(i + 1 + d + 1, total)
    BY <2>2, ShareNext
  <2>5. First(i + 1, total) \in Nat /\ First(i + 1 + d, total) \in Nat /\ First(i + 1 + d + 1, total) \in Nat
    BY <2>2, ShareNext, Zenon
  <2>6. QED
    BY <2>2, <2>3, <2>4, <2>5
<1>3. \A d \in 0 .. WorkerCount : d \in S
  <2> HIDE DEF S
  <2>1. QED
    BY <1>1, <1>2, PageAssumption, UpTo, Zenon
<1>4. j - (i + 1) \in 0 .. WorkerCount /\ i + 1 + (j - (i + 1)) = j
  BY PageAssumption DEF Workers
<1>5. QED
  BY <1>3, <1>4, ShareNext, Zenon

\* No share goes beyond the last page.
LEMMA ShareBound ==
    ASSUME NEW total \in Nat, NEW i \in Workers
    PROVE  First(i, total) + Share(i, total) <= total
<1> DEFINE z == WorkerCount - 1
<1>1. z \in Workers /\ z + 1 = WorkerCount /\ i <= z
  BY PageAssumption DEF Workers
<1>2. First(z, total) \in Nat /\ Share(z, total) \in Nat /\ First(i, total) \in Nat
      /\ Share(i, total) \in Nat
  BY <1>1, ShareNext, Zenon
<1>3. First(z, total) + Share(z, total) = total
  BY <1>1, ShareNext, ShareEnds, Zenon
<1> HIDE DEF z
<1>4. CASE i = z
  BY <1>3, <1>4
<1>5. CASE i # z
  <2>1. i < z
    BY <1>1, <1>5 DEF Workers
  <2>2. First(i, total) + Share(i, total) <= First(z, total)
    BY <1>1, <2>1, ShareOrder, Zenon
  <2>3. QED
    BY <1>2, <1>3, <2>2
<1>6. QED
  BY <1>4, <1>5, Zenon

\* Every page is in a share.
LEMMA ShareAll ==
    ASSUME NEW total \in Nat, NEW k \in 0 .. total - 1
    PROVE  \E i \in Workers : First(i, total) <= k /\ k < First(i, total) + Share(i, total)
<1> DEFINE S == {i \in 0 .. WorkerCount : First(i, total) > k}
<1>1. S \in SUBSET Nat /\ WorkerCount \in S /\ 0 \notin S
  BY PageAssumption, ShareEnds
<1>2. PICK m \in S : \A i \in S : m <= i
  <2> HIDE DEF S
  <2>1. QED
    BY <1>1, Least, Zenon
<1>3. m - 1 \in Workers /\ m - 1 \notin S /\ m - 1 + 1 = m
  BY <1>1, <1>2, PageAssumption DEF Workers
<1>4. First(m - 1, total) <= k
  <2>1. m - 1 \in 0 .. WorkerCount /\ First(m - 1, total) \in Nat
    BY <1>3, PageAssumption, ShareNext DEF Workers
  <2>2. QED
    BY <1>3, <2>1
<1>5. k < First(m - 1, total) + Share(m - 1, total)
  BY <1>2, <1>3, ShareNext, Zenon
<1>6. QED
  BY <1>3, <1>4, <1>5, Zenon

\* The list of a worker is its share of the chain, cut off behind.
LEMMA DistributeShare ==
    ASSUME NEW total, NEW f \in [Nat -> PageOrNull], NEW h, Chain(h, total, f),
           NEW i \in Workers, Share(i, total) > 0, NEW p, p = f[total - First(i, total)],
           next' = [x \in Pages |->
                      IF x \in {f[total - (First(j, total) + Share(j, total) - 1)] :
                                  j \in {w \in Workers : Share(w, total) > 0}}
                      THEN Null ELSE next[x]]
    PROVE  /\ IsList(p)'
           /\ Members(p)' = {f[total - k] :
                               k \in First(i, total) .. First(i, total) + Share(i, total) - 1}
<1> DEFINE c == Share(i, total)
           a == First(i, total)
           b == total - a - c
           Last == {f[total - (First(j, total) + Share(j, total) - 1)] :
                      j \in {w \in Workers : Share(w, total) > 0}}
<1>0. total \in Nat
  BY Zenon DEF Chain
<1>1. a \in Nat /\ c \in Nat /\ c > 0 /\ a + c <= total
  BY <1>0, ShareNext, ShareBound, Zenon
<1>2. b \in Nat /\ \A j \in 1 .. c : b + j \in 1 .. total
  BY <1>0, <1>1
<1>3. ASSUME NEW w \in Workers, Share(w, total) > 0
      PROVE  /\ total - (First(w, total) + Share(w, total) - 1) \in Int
             /\ w = i => total - (First(w, total) + Share(w, total) - 1) = b + 1
             /\ w # i => \/ total - (First(w, total) + Share(w, total) - 1) > b + c
                         \/ total - (First(w, total) + Share(w, total) - 1) < b + 1
             /\ total - (First(w, total) + Share(w, total) - 1) <= total
  <2>1. First(w, total) \in Nat /\ Share(w, total) \in Nat /\ w \in Int /\ i \in Int
    BY <1>0, ShareNext DEF Workers
  <2>2. CASE w = i
    BY <2>1, <2>2, <1>0, <1>1, <1>3
  <2>3. CASE w < i
    <3>1. First(w, total) + Share(w, total) <= a
      BY <1>0, <2>3, ShareOrder, Zenon
    <3>2. QED
      BY <2>1, <2>3, <3>1, <1>0, <1>1, <1>3
  <2>4. CASE w > i
    <3>1. a + c <= First(w, total)
      BY <1>0, <2>4, ShareOrder, Zenon
    <3>2. QED
      BY <2>1, <2>4, <3>1, <1>0, <1>1, <1>3
  <2>5. QED
    BY <2>1, <2>2, <2>3, <2>4
<1>4. \A w \in Workers : First(w, total) + Share(w, total) <= total
  BY <1>0, ShareBound, Zenon
<1>5. ASSUME NEW j \in 1 .. c
      PROVE  next'[f[b + j]] = IF j = 1 THEN Null ELSE f[b + j - 1]
  <2>1. f[b + j] \in Pages /\ next[f[b + j]] = f[b + j - 1]
    BY <1>2 DEF Chain
  <2>2. CASE j = 1
    <3>1. f[b + 1] = f[total - (First(i, total) + Share(i, total) - 1)]
      BY <1>3, Zenon
    <3>2. f[b + 1] \in Last
      BY <3>1, Zenon
    <3>3. QED
      BY <2>1, <2>2, <3>2, Zenon
  <2>3. CASE j # 1
    <3>1. ASSUME NEW w \in Workers, Share(w, total) > 0,
                 f[b + j] = f[total - (First(w, total) + Share(w, total) - 1)]
          PROVE  FALSE
      <4> DEFINE e == total - (First(w, total) + Share(w, total) - 1)
      <4>1. e \in 0 .. total
        BY <1>0, <1>3, <1>4, <3>1, ShareNext
      <4>2. b + j \in 0 .. total
        BY <1>2
      <4>3. e = b + j
        <5> HIDE DEF e, b, c
        <5>1. f[b + j] = f[e]
          BY <3>1, Zenon DEF e
        <5>2. QED
          BY <4>1, <4>2, <5>1, <1>0, ChainInjective, Zenon
      <4>4. e = b + 1 \/ e > b + c \/ e < b + 1
        BY <1>3, <3>1, Zenon
      <4>5. QED
        BY <4>3, <4>4, <2>3, <1>1, <1>2
    <3>2. f[b + j] \notin Last
      BY <3>1, Zenon
    <3>3. QED
      BY <2>1, <2>3, <3>2, Zenon
  <2>4. QED
    BY <2>2, <2>3, Zenon
<1> DEFINE g == [j \in Nat |-> IF j = 0 THEN Null ELSE f[b + j]]
<1>6. g \in [Nat -> PageOrNull]
  BY <1>2 DEF PageOrNull
<1>7. p = g[c]
  <2>1. total - a = b + c
    BY <1>0, <1>1
  <2>2. QED
    BY <1>1, <2>1
<1>8. Chain(p, c, g)'
  <2>1. ASSUME NEW j \in 1 .. c
        PROVE  g[j] \in Pages /\ next'[g[j]] = g[j - 1]
    <3>1. g[j] = f[b + j] /\ f[b + j] \in Pages
      BY <1>2 DEF Chain
    <3>2. j # 1 => g[j - 1] = f[b + (j - 1)] /\ b + (j - 1) = b + j - 1
      BY <1>2
    <3>3. j = 1 => g[j - 1] = Null
      OBVIOUS
    <3>4. QED
      BY <3>1, <3>2, <3>3, <1>5, Zenon
  <2>2. g[0] = Null
    BY Zenon
  <2> HIDE DEF g, c
  <2>3. QED
    BY <2>1, <2>2, <1>1, <1>6, <1>7, Zenon DEF Chain
<1>9. Members(p)' = {g[j] : j \in 1 .. c}
  <2> HIDE DEF g, c
  <2>1. QED
    BY <1>1, <1>6, <1>8, ChainMembersNext
<1>10. {g[j] : j \in 1 .. c} = {f[total - k] : k \in a .. a + c - 1}
  <2>1. ASSUME NEW j \in 1 .. c
        PROVE  \E k \in a .. a + c - 1 : g[j] = f[total - k]
    <3>1. a + c - j \in a .. a + c - 1 /\ total - (a + c - j) = b + j
      BY <1>0, <1>1
    <3>2. g[j] = f[b + j]
      BY <1>1
    <3>3. QED
      BY <3>1, <3>2, Zenon
  <2>2. ASSUME NEW k \in a .. a + c - 1
        PROVE  \E j \in 1 .. c : g[j] = f[total - k]
    <3>1. a + c - k \in 1 .. c /\ b + (a + c - k) = total - k
      BY <1>0, <1>1
    <3>2. g[a + c - k] = f[b + (a + c - k)]
      BY <3>1, <1>1
    <3>3. QED
      BY <3>1, <3>2, Zenon
  <2> HIDE DEF g, c, a
  <2>3. QED
    BY <2>1, <2>2
<1>11. IsList(p)'
  <2> HIDE DEF g, c
  <2>1. QED
    BY <1>1, <1>6, <1>8, Zenon DEF IsList
<1>12. QED
  BY <1>9, <1>10, <1>11, Zenon

-----------------------------------------------------------------------------
(* The lists *)

\* What a step leaves alone stays as it is.
LEMMA HeadFrame ==
    ASSUME ChainInv, head' = head, \A q \in Members(head) : next'[q] = next[q]
    PROVE  IsList(head)' /\ Members(head)' = Members(head)
<1>1. PICK h : h = head
  BY Zenon
<1>2. IsList(h)' /\ Members(h)' = Members(h)
  BY <1>1, ListFrame, Zenon DEF ChainInv
<1>3. QED
  BY <1>1, <1>2, Zenon

LEMMA RestFrame ==
    ASSUME ChainInv, NEW w \in Workers, Rest(w)' = Rest(w),
           \A q \in Members(Rest(w)) : next'[q] = next[q]
    PROVE  IsList(Rest(w))' /\ Members(Rest(w))' = Members(Rest(w))
<1>1. PICK h : h = Rest(w)
  BY Zenon
<1>2. IsList(h)' /\ Members(h)' = Members(h)
  BY <1>1, ListFrame, Zenon DEF ChainInv
<1>3. QED
  BY <1>1, <1>2, Zenon

LEMMA OwnFrame ==
    ASSUME ChainInv, NEW w \in Workers, UNCHANGED <<main_pc, sweep_list>>,
           wpc'[w] = wpc[w], cur'[w] = cur[w], nxt'[w] = nxt[w],
           \A q \in Members(Rest(w)) : next'[q] = next[q]
    PROVE  /\ IsList(Rest(w))'
           /\ Own(w)' = Own(w)
           /\ Holding(w)' => cur'[w] \notin Members(nxt[w])'
<1>1. Rest(w)' = Rest(w) /\ Holding(w)' = Holding(w) /\ Held(w)' = Held(w)
  BY Zenon DEF Rest, Holding, Held
<1>2. IsList(Rest(w))' /\ Members(Rest(w))' = Members(Rest(w))
  BY <1>1, RestFrame, Zenon
<1>3. ASSUME Holding(w)
      PROVE  cur'[w] \notin Members(nxt[w])'
  <2>1. Rest(w)' = nxt'[w] /\ Rest(w) = nxt[w]
    BY <1>1, <1>3, Zenon DEF Rest
  <2>2. Members(nxt[w])' = Members(nxt[w])
    BY <1>2, <2>1, Zenon
  <2>3. QED
    BY <1>3, <2>2, Zenon DEF ChainInv
<1>4. QED
  BY <1>1, <1>2, <1>3, Zenon DEF Own

\* A step that changes neither the lists, nor the workers' places, nor which pages
\* are in use and not linked.
LEMMA ChainFrame ==
    ASSUME ChainInv, UNCHANGED <<in_use, next, head, main_pc, sweep_list, wpc, cur, nxt>>,
           Unlinked' = Unlinked
    PROVE  ChainInv'
<1>1. IsList(head)' /\ Members(head)' = Members(head)
  BY HeadFrame, Zenon
<1>2. \A w \in Workers : /\ IsList(Rest(w))'
                         /\ Own(w)' = Own(w)
                         /\ Holding(w)' => cur'[w] \notin Members(nxt[w])'
  BY OwnFrame, Zenon
<1>3. QED
  BY <1>1, <1>2 DEF ChainInv

\* The page a step links is in no list.
LEMMA UnlinkedIsOut ==
    ASSUME ChainInv, NEW p \in Unlinked
    PROVE  p \notin Members(head) /\ \A w \in Workers : p \notin Own(w) /\ p \notin Members(Rest(w))
  BY Zenon DEF ChainInv, Own

\* The steps of the allocating threads that link nothing, and DropUnit.
LEMMA ChainThread ==
    ASSUME TypeOK, ChainInv, NEW t \in Threads,
           \/ AllocCall(t) \/ (\E s \in Slots : PickUnit(t, s)) \/ TakeFreed(t) \/ RanOut(t)
           \/ PickFreePage(t) \/ NewPageFails(t) \/ AllocEnd(t) \/ ThreadExit(t)
    PROVE  ChainInv'
<1>1. \A s \in Threads :
        /\ Linking(s)' <=> Linking(s)
        /\ Linking(s) => fresh'[s] = fresh[s]
  <2>1. CASE AllocCall(t)
    BY <2>1, Zenon DEF AllocCall, Go, Linking, TypeOK, ThreadTypes
  <2>2. CASE \E s \in Slots : PickUnit(t, s)
    BY <2>2, Zenon DEF PickUnit, Go, Linking, TypeOK, ThreadTypes
  <2>3. CASE TakeFreed(t)
    BY <2>3, Zenon DEF TakeFreed, Go, Linking, TypeOK, ThreadTypes
  <2>4. CASE RanOut(t)
    BY <2>4, Zenon DEF RanOut, Go, Linking, TypeOK, ThreadTypes
  <2>5. CASE PickFreePage(t)
    BY <2>5, Zenon DEF PickFreePage, Go, Linking, TypeOK, ThreadTypes
  <2>6. CASE NewPageFails(t)
    BY <2>6, Zenon DEF NewPageFails, Go, Linking, TypeOK, ThreadTypes
  <2>7. CASE AllocEnd(t)
    BY <2>7, Zenon DEF AllocEnd, Go, Linking, TypeOK, ThreadTypes
  <2>8. CASE ThreadExit(t)
    BY <2>8, Zenon DEF ThreadExit, Linking, TypeOK, ThreadTypes
  <2>9. QED
    BY <2>1, <2>2, <2>3, <2>4, <2>5, <2>6, <2>7, <2>8, Zenon
<1>2. UNCHANGED <<in_use, next, head, main_pc, sweep_list, wpc, cur, nxt>>
  BY Zenon DEF AllocCall, PickUnit, TakeFreed, RanOut, PickFreePage, NewPageFails, AllocEnd, ThreadExit,
         chunkVars, chainVars, sweepVars
<1>3. QED
  BY <1>1, <1>2, UnlinkedSame, ChainFrame, Zenon

\* A page is taken from the chunk.
LEMMA ChainAllocate ==
    ASSUME TypeOK, ChainInv, NEW t \in Threads, ~Linking(t),
           NEW p, NEW is_huge, ChunkAllocate(t, p, is_huge)
    PROVE  ChainInv'
<1>0. /\ p \in Pages \ in_use /\ in_use' = in_use \cup {p}
      /\ fresh' = [fresh EXCEPT ![t] = p] /\ tpc' = [tpc EXCEPT ![t] = "init"]
      /\ UNCHANGED <<next, head, main_pc, sweep_list, wpc, cur, nxt>>
  BY Zenon DEF ChunkAllocate, Go, chainVars, sweepVars
<1>1. IsList(head)' /\ Members(head)' = Members(head)
  BY <1>0, HeadFrame, Zenon
<1>2. \A w \in Workers : /\ IsList(Rest(w))'
                         /\ Own(w)' = Own(w)
                         /\ Holding(w)' => cur'[w] \notin Members(nxt[w])'
  BY <1>0, OwnFrame, Zenon
<1>3. \A q : q \in Unlinked' <=> q \in Unlinked \/ q = p
  <2>1. TAKE q
  <2>2. /\ Linking(t)' /\ fresh'[t] = p
        /\ \A s \in Threads \ {t} : (Linking(s)' <=> Linking(s)) /\ fresh'[s] = fresh[s]
    BY <1>0, Zenon DEF Linking, TypeOK, ThreadTypes
  <2>3. QED
    BY <2>2, UnlinkedBy, Zenon
<1>4. \A q : q \in in_use' \ Unlinked' <=> q \in in_use \ Unlinked
  BY <1>0, <1>3, Zenon
<1>5. QED
  BY <1>0, <1>1, <1>2, <1>4 DEF ChainInv

\* A page that is in no list gets another successor.
LEMMA ChainRelink ==
    ASSUME TypeOK, ChainInv, NEW p \in Pages, next' = [next EXCEPT ![p] = head],
           UNCHANGED <<in_use, head, main_pc, sweep_list, cur, nxt>>,
           \A w \in Workers : Holding(w)' = Holding(w) /\ (~Holding(w) => wpc'[w] = wpc[w]),
           main_pc = "idle" => wpc' = wpc,
           Unlinked' = Unlinked,
           p \notin Members(head), \A w \in Workers : p \notin Members(Rest(w))
    PROVE  ChainInv'
<1>1. \A q : q # p => next'[q] = next[q]
  BY DEF TypeOK, ChainTypes
<1>2. IsList(head)' /\ Members(head)' = Members(head)
  BY <1>1, HeadFrame, Zenon
<1>3. ASSUME NEW w \in Workers
      PROVE  /\ IsList(Rest(w))'
             /\ Own(w)' = Own(w)
             /\ Holding(w)' => cur'[w] \notin Members(nxt[w])'
  <2>1. Rest(w)' = Rest(w) /\ Held(w)' = Held(w)
    BY Zenon DEF Rest, Held
  <2>2. IsList(Rest(w))' /\ Members(Rest(w))' = Members(Rest(w))
    BY <1>1, <2>1, RestFrame, Zenon
  <2>3. ASSUME Holding(w)
        PROVE  cur'[w] \notin Members(nxt[w])'
    <3>1. Rest(w)' = nxt'[w] /\ Rest(w) = nxt[w]
      BY <2>1, <2>3, Zenon DEF Rest
    <3>2. Members(nxt[w])' = Members(nxt[w])
      BY <2>2, <3>1, Zenon
    <3>3. QED
      BY <2>3, <3>2 DEF ChainInv
  <2>4. QED
    BY <2>1, <2>2, <2>3, Zenon DEF Own
<1>4. QED
  BY <1>2, <1>3 DEF ChainInv

LEMMA ChainInit ==
    ASSUME TypeOK, ChainInv, ThreadInv, NEW t \in Threads, InitPage(t)
    PROVE  ChainInv'
<1> DEFINE p == fresh[t]
<1>1. p \in Unlinked /\ p \in Pages
  <2>1. Linking(t)
    BY Zenon DEF InitPage, Linking
  <2>2. QED
    BY <2>1, UnlinkedBy, Zenon DEF ThreadInv, TypeOK, ChunkTypes
<1>2. \A s \in Threads :
        /\ Linking(s)' <=> Linking(s)
        /\ Linking(s) => fresh'[s] = fresh[s]
  BY Zenon DEF InitPage, Go, Linking, TypeOK, ThreadTypes
<1>3. Unlinked' = Unlinked
  BY <1>2, UnlinkedSame, Zenon
<1>4. /\ next' = [next EXCEPT ![p] = head]
      /\ UNCHANGED <<in_use, head, main_pc, sweep_list, wpc, cur, nxt>>
  BY Zenon DEF InitPage, sweepVars
<1>5. \A w \in Workers : Holding(w)' = Holding(w) /\ wpc'[w] = wpc[w]
  BY <1>4, Zenon DEF Holding
<1>6. p \notin Members(head) /\ \A w \in Workers : p \notin Members(Rest(w))
  BY <1>1, UnlinkedIsOut, Zenon
<1> HIDE DEF p
<1>7. QED
  BY <1>1, <1>3, <1>4, <1>5, <1>6, ChainRelink, Zenon

\* A page is linked at the head of the chain.
LEMMA ChainPush ==
    ASSUME TypeOK, ChainInv, NEW p \in Pages, next[p] = head, head' = p, next' = next,
           p \notin Members(head)
    PROVE  IsList(head)' /\ Members(head)' = {p} \cup Members(head)
<1>1. PICK h : h = head
  BY Zenon
<1>2. IsList(h)
  BY <1>1, Zenon DEF ChainInv
<1>3. IsList(p) /\ Members(p) = {p} \cup Members(head)
  BY <1>1, <1>2, ListPush, Zenon
<1>4. IsList(p)' /\ Members(p)' = Members(p)
  BY <1>3, ListFrame, Zenon
<1>5. QED
  BY <1>3, <1>4, Zenon

LEMMA ChainLink ==
    ASSUME TypeOK, ChainInv, ThreadInv, NEW t \in Threads, LinkPage(t)
    PROVE  ChainInv'
<1> DEFINE p == fresh[t]
<1>1. p \in Unlinked /\ p \in Pages /\ p \in in_use /\ Linking(t)
  <2>1. Linking(t)
    BY Zenon DEF LinkPage, Linking
  <2>2. QED
    BY <2>1, UnlinkedBy, Zenon DEF ThreadInv, TypeOK, ChunkTypes
<1>2. p \notin Members(head) /\ \A w \in Workers : p \notin Own(w) /\ p \notin Members(Rest(w))
  BY <1>1, UnlinkedIsOut, Zenon
<1>3. UNCHANGED <<in_use, fresh, main_pc, sweep_list, wpc, cur, nxt>>
  BY Zenon DEF LinkPage, chunkVars, sweepVars
<1>4. \A w \in Workers : Holding(w)' = Holding(w) /\ wpc'[w] = wpc[w]
  BY <1>3, Zenon DEF Holding
<1>5. CASE next[p] = head
  <2>1. head' = p /\ next' = next
    BY <1>5, Zenon DEF LinkPage, Link
  <2>2. IsList(head)' /\ Members(head)' = {p} \cup Members(head)
    <3> HIDE DEF p
    <3>1. QED
      BY <1>1, <1>2, <1>5, <2>1, ChainPush, Zenon
  <2>3. \A w \in Workers : /\ IsList(Rest(w))'
                           /\ Own(w)' = Own(w)
                           /\ Holding(w)' => cur'[w] \notin Members(nxt[w])'
    BY <1>3, <2>1, OwnFrame, Zenon
  <2>4. \A q : q \in Unlinked' <=> q \in Unlinked /\ q # p
    <3>1. TAKE q
    <3>2. tpc' = [tpc EXCEPT ![t] = "pending"] \/ tpc' = [tpc EXCEPT ![t] = "pick"]
      BY <2>1, Zenon DEF LinkPage, Go
    <3>3. /\ ~Linking(t)' /\ Linking(t) /\ fresh[t] = p
          /\ \A s \in Threads \ {t} : (Linking(s)' <=> Linking(s)) /\ fresh'[s] = fresh[s]
      BY <3>2, <1>1, <1>3, Zenon DEF Linking, TypeOK, ThreadTypes
    <3>4. \A s \in Threads \ {t} : Linking(s) => fresh[s] # p
      BY <1>1, Zenon DEF ThreadInv
    <3> HIDE DEF p
    <3>5. QED
      BY <3>3, <3>4, UnlinkedBy, Zenon
  <2> HIDE DEF p
  <2>5. \A q : q \in in_use' \ Unlinked' <=> q \in in_use \ Unlinked \/ q = p
    BY <1>1, <1>3, <2>4, Zenon
  <2>6. QED
    BY <1>2, <1>3, <2>2, <2>3, <2>5 DEF ChainInv
<1>6. CASE next[p] # head
  <2>1. head' = head /\ next' = [next EXCEPT ![p] = head]
    BY <1>6, Zenon DEF LinkPage, Link
  <2>2. head # p
    BY <1>1, <1>2, <1>6, ListPages, PageAssumption DEF ChainInv
  <2>3. tpc' = tpc
    BY <2>1, <2>2, Zenon DEF LinkPage
  <2>4. Unlinked' = Unlinked
    BY <1>3, <2>3, Zenon DEF Unlinked
  <2> HIDE DEF p
  <2>5. QED
    BY <1>1, <1>2, <1>3, <1>4, <2>1, <2>4, ChainRelink, Zenon
<1>7. QED
  BY <1>5, <1>6, Zenon

\* The chain is shared out: the lists of the workers hold its pages.
LEMMA ChainDistribute ==
    ASSUME TypeOK, ChainInv, UnitInv, ThreadInv, Pinned # {}, Distribute
    PROVE  ChainInv'
<1> DEFINE total == Cardinality(Members(head))
<1> DEFINE Part(w) == First(w, total) .. First(w, total) + Share(w, total) - 1
<1>1. \A w \in Workers : wpc[w] = "parked" /\ ~Holding(w) /\ Rest(w) = Null /\ Own(w) = {}
  <2>1. main_pc = "idle"
    BY Zenon DEF Distribute
  <2>2. \A w \in Workers : wpc[w] = "parked" /\ ~Holding(w) /\ Rest(w) = Null
    BY <2>1, Zenon DEF ChainInv, Holding, Rest
  <2>3. QED
    BY <2>2, ListEmpty, Zenon DEF Own, Held
<1>2. \A p : p \in in_use \ Unlinked <=> p \in Members(head)
  BY <1>1, Zenon DEF ChainInv
<1>3. head # Null
  <2>1. PICK p \in Pinned : TRUE
    BY Zenon
  <2>2. p \in in_use \ Unlinked
    BY <2>1, UnlinkedBy DEF UnitInv, ThreadInv
  <2>3. QED
    BY <1>2, <2>2, ListEmpty, Zenon
<1>4. PICK n \in Nat, f \in [Nat -> PageOrNull] : Chain(head, n, f)
  BY Zenon DEF ChainInv, IsList
<1>5. Members(head) = {f[i] : i \in 1 .. n} /\ total = n /\ n <= Cardinality(Pages)
      /\ Cardinality(Pages) \in Nat
  <2>1. PICK h : h = head
    BY Zenon
  <2>2. Members(h) = {f[i] : i \in 1 .. n}
    BY <1>4, <2>1, ChainMembers, Zenon
  <2>3. Cardinality({f[i] : i \in 1 .. n}) = n /\ n <= Cardinality(Pages) /\ Cardinality(Pages) \in Nat
    BY <1>4, ChainShort, Zenon
  <2>4. QED
    BY <2>1, <2>2, <2>3, Zenon
<1>6. \A k \in 0 .. n : List(head)[k] = f[n - k]
  <2>1. PICK h : h = head
    BY Zenon
  <2>2. Chain(h, n, f)
    BY <1>4, <2>1, Zenon
  <2>3. \A k \in 0 .. Cardinality(Pages) : List(h)[k] = IF k <= n THEN f[n - k] ELSE Null
    BY <2>2, ChainList, Zenon
  <2>4. \A k \in 0 .. n : List(h)[k] = f[n - k]
    BY <1>5, <2>3
  <2>5. QED
    BY <2>1, <2>4, Zenon
<1>7. n \in Nat /\ total = n
  BY <1>5, Zenon
<1>8. \A w \in Workers : /\ First(w, total) \in Nat /\ Share(w, total) \in Nat
                         /\ First(w, total) + Share(w, total) <= n
  BY <1>7, ShareNext, ShareBound, Zenon
<1>9. /\ head' = Null /\ sweep_list' = Shares(total) /\ main_pc' = "sweep"
      /\ UNCHANGED <<in_use, tpc, fresh, wpc, cur, nxt>>
  BY <1>3, Zenon DEF Distribute, chunkVars, threadVars
<1>10. next' = [p \in Pages |->
                  IF p \in {f[n - (First(j, n) + Share(j, n) - 1)] :
                              j \in {w \in Workers : Share(w, n) > 0}}
                  THEN Null ELSE next[p]]
  <2> DEFINE Last == {List(head)[First(i, total) + Share(i, total) - 1] :
                        i \in {j \in Workers : Share(j, total) > 0}}
  <2> DEFINE Cut == {f[n - (First(j, n) + Share(j, n) - 1)] :
                       j \in {w \in Workers : Share(w, n) > 0}}
  <2>1. next' = [p \in Pages |-> IF p \in Last THEN Null ELSE next[p]]
    BY <1>3, Zenon DEF Distribute
  <2>2. ASSUME NEW j \in Workers, Share(j, total) > 0
        PROVE  List(head)[First(j, total) + Share(j, total) - 1] = f[n - (First(j, n) + Share(j, n) - 1)]
    <3>1. First(j, total) + Share(j, total) - 1 \in 0 .. n
      BY <1>7, <1>8, <2>2
    <3>2. QED
      BY <1>6, <1>7, <3>1, Zenon
  <2>3. Last = Cut
    BY <2>2, <1>7, Zenon
  <2> HIDE DEF Last, Cut
  <2>4. next' = [p \in Pages |-> IF p \in Cut THEN Null ELSE next[p]]
    BY <2>1, <2>3, Zenon
  <2>5. QED
    BY <2>4, Zenon DEF Cut
<1> HIDE DEF total
<1>11. ASSUME NEW w \in Workers
       PROVE  IsList(Rest(w))' /\ Own(w)' = {f[n - k] : k \in Part(w)} /\ ~Holding(w)'
  <2>1. ~Holding(w)' /\ Rest(w)' = sweep_list'[w] /\ Held(w)' = {}
    BY <1>1, <1>9, Zenon DEF Holding, Rest, Held
  <2>2. CASE Share(w, total) = 0
    <3>1. sweep_list'[w] = Null
      BY <1>9, <2>2, Zenon DEF Shares
    <3>2. IsList(Null)' /\ Members(Null)' = {}
      <4>1. (IsList(Null) /\ Members(Null) = {})'
        BY ListEmpty, PTL
      <4>2. QED
        BY <4>1, Zenon
    <3>3. IsList(Rest(w))' /\ Members(Rest(w))' = {}
      BY <2>1, <3>1, <3>2, Zenon
    <3>4. Part(w) = {}
      BY <1>8, <2>2
    <3>5. QED
      BY <2>1, <3>3, <3>4, Zenon DEF Own
  <2>3. CASE Share(w, total) # 0
    <3>1. Share(w, n) > 0
      BY <1>7, <1>8, <2>3
    <3>2. PICK p : p = f[n - First(w, n)]
      BY Zenon
    <3>3. sweep_list'[w] = p
      <4>1. First(w, total) \in 0 .. n
        BY <1>7, <1>8
      <4>2. sweep_list'[w] = List(head)[First(w, total)]
        BY <1>9, <2>3, Zenon DEF Shares
      <4>3. QED
        BY <1>6, <1>7, <3>2, <4>1, <4>2, Zenon
    <3>4. IsList(p)' /\ Members(p)' = {f[n - k] : k \in First(w, n) .. First(w, n) + Share(w, n) - 1}
      <4>1. PICK h : h = head
        BY Zenon
      <4>2. Chain(h, n, f)
        BY <1>4, <4>1, Zenon
      <4>3. QED
        BY <4>2, <3>1, <3>2, <1>10, DistributeShare
    <3>5. IsList(Rest(w))' /\ Members(Rest(w))' = {f[n - k] : k \in Part(w)}
      BY <2>1, <3>3, <3>4, <1>7, Zenon
    <3>6. QED
      BY <2>1, <3>5, Zenon DEF Own
  <2>4. QED
    BY <2>2, <2>3, Zenon
<1>12. ASSUME NEW p \in Members(head)
       PROVE  \E w \in Workers : p \in Own(w)'
  <2>1. PICK i \in 1 .. n : p = f[i]
    BY <1>5, Zenon
  <2>2. n - i \in 0 .. n - 1 /\ n - (n - i) = i
    OBVIOUS
  <2>3. PICK w \in Workers : First(w, n) <= n - i /\ n - i < First(w, n) + Share(w, n)
    BY <2>2, ShareAll, Zenon
  <2>4. n - i \in Part(w)
    BY <1>7, <1>8, <2>2, <2>3
  <2>5. QED
    BY <1>11, <2>1, <2>2, <2>4, Zenon
<1>13. ASSUME NEW w \in Workers, NEW p, p \in Own(w)'
       PROVE  p \in Members(head) /\ \A v \in Workers \ {w} : p \notin Own(v)'
  <2>1. PICK k \in Part(w) : p = f[n - k]
    BY <1>11, <1>13, Zenon
  <2>2. k \in Nat /\ k < n /\ n - k \in 1 .. n
    BY <1>8, <2>1
  <2>3. p \in Members(head)
    BY <1>5, <2>1, <2>2, Zenon
  <2>4. ASSUME NEW v \in Workers, v # w, p \in Own(v)'
        PROVE  FALSE
    <3>1. PICK m \in Part(v) : p = f[n - m]
      BY <1>11, <2>4, Zenon
    <3>2. m \in Nat /\ m < n /\ n - m \in 0 .. n /\ n - k \in 0 .. n
      BY <1>8, <2>2, <3>1
    <3>3. n - m = n - k
      <4>1. f[n - m] = f[n - k]
        BY <2>1, <3>1, Zenon
      <4>2. QED
        BY <1>4, <3>2, <4>1, ChainInjective, Zenon
    <3>4. m = k
      BY <2>2, <3>2, <3>3
    <3>5. v < w \/ w < v
      BY <2>4 DEF Workers
    <3>6. CASE v < w
      <4>1. First(v, total) + Share(v, total) <= First(w, total)
        BY <1>7, <3>6, ShareOrder, Zenon
      <4>2. QED
        BY <1>8, <2>1, <2>2, <3>1, <3>4, <4>1
    <3>7. CASE w < v
      <4>1. First(w, total) + Share(w, total) <= First(v, total)
        BY <1>7, <3>7, ShareOrder, Zenon
      <4>2. QED
        BY <1>8, <2>1, <2>2, <3>1, <3>4, <4>1
    <3>8. QED
      BY <3>5, <3>6, <3>7, Zenon
  <2>5. QED
    BY <2>3, <2>4, Zenon
<1>14. IsList(head)' /\ Members(head)' = {}
  <2>1. (IsList(Null) /\ Members(Null) = {})'
    BY ListEmpty, PTL
  <2>2. QED
    BY <1>9, <2>1, Zenon
<1>15. Unlinked' = Unlinked
  BY <1>9, Zenon DEF Unlinked
<1> HIDE DEF Part
<1>16. QED
  BY <1>2, <1>9, <1>11, <1>12, <1>13, <1>14, <1>15, Zenon DEF ChainInv

\* A worker that moves: the other lists stay, and what it has changes as given.
LEMMA OthersFrame ==
    ASSUME TypeOK, ChainInv, NEW w \in Workers, UNCHANGED <<main_pc, sweep_list>>,
           \A v \in Workers \ {w} : wpc'[v] = wpc[v] /\ cur'[v] = cur[v] /\ nxt'[v] = nxt[v],
           NEW S, \A q : q \notin S => next'[q] = next[q],
           \A v \in Workers \ {w} : Members(Rest(v)) \cap S = {}
    PROVE  \A v \in Workers \ {w} : /\ IsList(Rest(v))'
                                    /\ Own(v)' = Own(v)
                                    /\ Holding(v)' => cur'[v] \notin Members(nxt[v])'
<1>1. SUFFICES ASSUME NEW v \in Workers \ {w}
               PROVE  /\ IsList(Rest(v))'
                      /\ Own(v)' = Own(v)
                      /\ Holding(v)' => cur'[v] \notin Members(nxt[v])'
  BY Zenon
<1>2. \A q \in Members(Rest(v)) : next'[q] = next[q]
  BY Zenon
<1>3. QED
  BY <1>2, OwnFrame, Zenon

\* SweepLaunch: the worker begins with its list.
LEMMA ChainLaunch ==
    ASSUME TypeOK, ChainInv, NEW w \in Workers, SweepLaunch(w)
    PROVE  ChainInv'
<1>1. /\ main_pc = "sweep" /\ wpc[w] = "parked"
      /\ cur' = [cur EXCEPT ![w] = sweep_list[w]] /\ wpc' = [wpc EXCEPT ![w] = "page"]
      /\ UNCHANGED <<in_use, next, head, main_pc, sweep_list, nxt, tpc, fresh>>
  BY Zenon DEF SweepLaunch, WGo, chunkVars, chainVars, threadVars
<1>2. /\ ~Holding(w) /\ ~Holding(w)' /\ Rest(w) = sweep_list[w] /\ Rest(w)' = sweep_list[w]
      /\ Held(w) = {} /\ Held(w)' = {}
      /\ \A v \in Workers \ {w} : wpc'[v] = wpc[v] /\ cur'[v] = cur[v] /\ nxt'[v] = nxt[v]
  BY <1>1, Zenon DEF Holding, Rest, Held, TypeOK, SweepTypes
<1>3. IsList(Rest(w))' /\ Members(Rest(w))' = Members(Rest(w))
  BY <1>1, <1>2, RestFrame, Zenon
<1>4. \A v \in Workers \ {w} : /\ IsList(Rest(v))'
                               /\ Own(v)' = Own(v)
                               /\ Holding(v)' => cur'[v] \notin Members(nxt[v])'
  BY <1>1, <1>2, OthersFrame, Zenon
<1>5. IsList(head)' /\ Members(head)' = Members(head)
  BY <1>1, HeadFrame, Zenon
<1>6. Unlinked' = Unlinked /\ in_use' = in_use
  BY <1>1, Zenon DEF Unlinked
<1>7. Own(w)' = Own(w)
  BY <1>2, <1>3, Zenon DEF Own
<1>8. QED
  BY <1>1, <1>2, <1>3, <1>4, <1>5, <1>6, <1>7 DEF ChainInv

\* SweepPage: the worker takes the first page of its list into its hands.
LEMMA ChainPage ==
    ASSUME TypeOK, ChainInv, NEW w \in Workers, SweepPage(w)
    PROVE  ChainInv'
<1>1. /\ wpc[w] = "page" /\ cur[w] # Null
      /\ nxt' = [nxt EXCEPT ![w] = next[cur[w]]] /\ wpc' = [wpc EXCEPT ![w] = "unit"]
      /\ UNCHANGED <<in_use, next, head, main_pc, sweep_list, cur, tpc, fresh>>
  BY Zenon DEF SweepPage, WGo, chunkVars, chainVars, threadVars
<1>2. /\ ~Holding(w) /\ Holding(w)' /\ Rest(w) = cur[w] /\ Rest(w)' = next[cur[w]]
      /\ Held(w) = {} /\ Held(w)' = {cur[w]} /\ cur'[w] = cur[w] /\ nxt'[w] = next[cur[w]]
      /\ \A v \in Workers \ {w} : wpc'[v] = wpc[v] /\ cur'[v] = cur[v] /\ nxt'[v] = nxt[v]
  BY <1>1, Zenon DEF Holding, Rest, Held, TypeOK, SweepTypes
<1>3. PICK p, n : p = cur[w] /\ n = next[cur[w]]
  BY Zenon
<1>4. IsList(n) /\ Members(p) = {p} \cup Members(n) /\ p \notin Members(n)
  BY <1>1, <1>2, <1>3, ListTail DEF ChainInv
<1>5. IsList(n)' /\ Members(n)' = Members(n)
  BY <1>1, <1>4, ListFrame, Zenon
<1>6. IsList(Rest(w))' /\ Members(Rest(w))' = Members(n)
  BY <1>2, <1>3, <1>5, Zenon
<1>7. \A v \in Workers \ {w} : /\ IsList(Rest(v))'
                               /\ Own(v)' = Own(v)
                               /\ Holding(v)' => cur'[v] \notin Members(nxt[v])'
  BY <1>1, <1>2, OthersFrame
<1>8. IsList(head)' /\ Members(head)' = Members(head)
  BY <1>1, HeadFrame, Zenon
<1>9. Unlinked' = Unlinked /\ in_use' = in_use
  BY <1>1, Zenon DEF Unlinked
<1>10. Own(w)' = Own(w)
  BY <1>2, <1>3, <1>4, <1>6, Zenon DEF Own
<1>11. cur'[w] \notin Members(nxt[w])'
  <2>1. Members(nxt[w])' = Members(n)
    BY <1>2, <1>3, <1>5, Zenon
  <2>2. QED
    BY <1>2, <1>3, <1>4, <2>1, Zenon
<1>12. main_pc' = "idle" => \A v \in Workers : wpc'[v] = "parked"
  BY <1>1, Zenon DEF ChainInv
<1>13. QED
  BY <1>6, <1>7, <1>8, <1>9, <1>10, <1>11, <1>12 DEF ChainInv

\* SweepVerdict and the visits: the page stays in the worker's hands.
LEMMA ChainVisit ==
    ASSUME TypeOK, ChainInv, NEW w \in Workers,
           SweepFreesUnit(w) \/ SweepKeepsUnit(w) \/ SweepVerdict(w)
    PROVE  ChainInv'
<1>1. /\ UNCHANGED <<in_use, next, head, main_pc, sweep_list, cur, nxt, tpc, fresh>>
      /\ wpc[w] = "unit"
      /\ \/ wpc' = wpc
         \/ wpc' = [wpc EXCEPT ![w] = "drop"]
         \/ wpc' = [wpc EXCEPT ![w] = "chain"]
  BY Zenon DEF SweepFreesUnit, SweepKeepsUnit, SweepVerdict, UnitToVisit, WGo, chunkVars, chainVars,
         threadVars
<1>2. \A v \in Workers : Holding(v)' = Holding(v) /\ Held(v)' = Held(v) /\ Rest(v)' = Rest(v)
  BY <1>1 DEF Holding, Held, Rest, TypeOK, SweepTypes
<1>3. \A v \in Workers : IsList(Rest(v))' /\ Members(Rest(v))' = Members(Rest(v))
  BY <1>1, <1>2, RestFrame, Zenon
<1>4. \A v \in Workers : Own(v)' = Own(v)
  BY <1>2, <1>3, Zenon DEF Own
<1>5. IsList(head)' /\ Members(head)' = Members(head)
  BY <1>1, HeadFrame, Zenon
<1>6. Unlinked' = Unlinked /\ in_use' = in_use
  BY <1>1, Zenon DEF Unlinked
<1>7. ASSUME NEW v \in Workers, Holding(v)'
      PROVE  cur'[v] \notin Members(nxt[v])'
  <2>1. Rest(v)' = nxt'[v] /\ Rest(v) = nxt[v] /\ Holding(v)
    BY <1>2, <1>7, Zenon DEF Rest
  <2>2. Members(nxt[v])' = Members(nxt[v])
    BY <1>3, <2>1, Zenon
  <2>3. QED
    BY <1>1, <2>1, <2>2, Zenon DEF ChainInv
<1>8. main_pc' = "idle" => \A v \in Workers : wpc'[v] = "parked"
  BY <1>1, Zenon DEF ChainInv
<1>9. QED
  BY <1>3, <1>4, <1>5, <1>6, <1>7, <1>8 DEF ChainInv

\* NextPage: the worker lets its page go and comes to the rest of its list.
LEMMA ChainNextPage ==
    ASSUME TypeOK, ChainInv, NEW w \in Workers, Holding(w), NextPage(w),
           UNCHANGED <<next, main_pc, sweep_list>>
    PROVE  /\ IsList(Rest(w))'
           /\ Own(w)' = Own(w) \ {cur[w]}
           /\ cur[w] \in Own(w)
           /\ \A v \in Workers \ {w} : /\ IsList(Rest(v))'
                                       /\ Own(v)' = Own(v)
                                       /\ Holding(v)' => cur'[v] \notin Members(nxt[v])'
           /\ ~Holding(w)'
           /\ main_pc' = "idle" => \A v \in Workers : wpc'[v] = "parked"
<1>1. /\ cur' = [cur EXCEPT ![w] = nxt[w]] /\ nxt' = [nxt EXCEPT ![w] = Null]
      /\ wpc' = [wpc EXCEPT ![w] = "page"]
  BY Zenon DEF NextPage, WGo
<1>2. /\ ~Holding(w)' /\ Rest(w) = nxt[w] /\ Rest(w)' = nxt[w]
      /\ Held(w) = {cur[w]} /\ Held(w)' = {}
      /\ \A v \in Workers \ {w} : wpc'[v] = wpc[v] /\ cur'[v] = cur[v] /\ nxt'[v] = nxt[v]
  BY <1>1, Zenon DEF Holding, Rest, Held, TypeOK, SweepTypes
<1>3. IsList(Rest(w))' /\ Members(Rest(w))' = Members(Rest(w))
  BY <1>2, RestFrame, Zenon
<1>4. cur[w] \notin Members(Rest(w))
  BY <1>2, Zenon DEF ChainInv
<1>5. \A v \in Workers \ {w} : /\ IsList(Rest(v))'
                               /\ Own(v)' = Own(v)
                               /\ Holding(v)' => cur'[v] \notin Members(nxt[v])'
  BY <1>2, OthersFrame
<1>6. main_pc # "idle"
  BY Zenon DEF ChainInv, Holding
<1>7. QED
  BY <1>2, <1>3, <1>4, <1>5, <1>6, Zenon DEF Own

LEMMA ChainDrop ==
    ASSUME TypeOK, ChainInv, NEW w \in Workers, SweepDrop(w)
    PROVE  ChainInv'
<1>1. /\ Holding(w) /\ NextPage(w) /\ in_use' = in_use \ {cur[w]}
      /\ UNCHANGED <<next, head, main_pc, sweep_list, tpc, fresh>>
  BY Zenon DEF SweepDrop, Holding, chainVars, threadVars
<1>2. /\ IsList(Rest(w))'
      /\ Own(w)' = Own(w) \ {cur[w]}
      /\ cur[w] \in Own(w)
      /\ \A v \in Workers \ {w} : /\ IsList(Rest(v))'
                                  /\ Own(v)' = Own(v)
                                  /\ Holding(v)' => cur'[v] \notin Members(nxt[v])'
      /\ ~Holding(w)'
      /\ main_pc' = "idle" => \A v \in Workers : wpc'[v] = "parked"
  BY <1>1, ChainNextPage, Zenon
<1>3. IsList(head)' /\ Members(head)' = Members(head)
  BY <1>1, HeadFrame, Zenon
<1>4. Unlinked' = Unlinked
  BY <1>1, Zenon DEF Unlinked
<1>5. cur[w] \notin Members(head) /\ \A v \in Workers \ {w} : cur[w] \notin Own(v)
  BY <1>2, Zenon DEF ChainInv
<1>6. \A p : p \in in_use' \ Unlinked' <=> p \in Members(head)' \/ \E v \in Workers : p \in Own(v)'
  BY <1>1, <1>2, <1>3, <1>4, <1>5 DEF ChainInv
<1>7. \A v \in Workers : \A p \in Own(v)' :
        /\ p \notin Members(head)'
        /\ \A u \in Workers \ {v} : p \notin Own(u)'
  BY <1>2, <1>3 DEF ChainInv
<1>8. QED
  BY <1>2, <1>3, <1>6, <1>7, Zenon DEF ChainInv

LEMMA ChainChain ==
    ASSUME TypeOK, ChainInv, NEW w \in Workers, SweepChain(w)
    PROVE  ChainInv'
<1>1. /\ wpc[w] = "chain" /\ next' = [next EXCEPT ![cur[w]] = head]
      /\ wpc' = [wpc EXCEPT ![w] = "link"]
      /\ UNCHANGED <<in_use, head, main_pc, sweep_list, cur, nxt, tpc, fresh>>
  BY Zenon DEF SweepChain, WGo, chunkVars, threadVars
<1>2. PICK p : p = cur[w]
  BY Zenon
<1>3. Holding(w) /\ p \in Own(w) /\ p \notin Members(Rest(w))
  BY <1>1, <1>2, Zenon DEF Holding, Own, Held, Rest, ChainInv
<1>4. p \in Pages /\ p \notin Members(head) /\ \A v \in Workers : p \notin Members(Rest(v))
  BY <1>3, Zenon DEF ChainInv, Own, TypeOK, ChunkTypes
<1>5. /\ \A v \in Workers : Holding(v)' = Holding(v) /\ (~Holding(v) => wpc'[v] = wpc[v])
      /\ main_pc = "idle" => wpc' = wpc
  BY <1>1 DEF Holding, TypeOK, SweepTypes, ChainInv
<1>6. Unlinked' = Unlinked
  BY <1>1, Zenon DEF Unlinked
<1>7. QED
  BY <1>1, <1>2, <1>4, <1>5, <1>6, ChainRelink, Zenon

LEMMA ChainSweepLink ==
    ASSUME TypeOK, ChainInv, NEW w \in Workers, SweepLink(w)
    PROVE  ChainInv'
<1>1. /\ wpc[w] = "link" /\ Link(cur[w])
      /\ IF head' = cur[w] THEN NextPage(w) ELSE UNCHANGED <<wpc, cur, nxt>>
      /\ UNCHANGED <<in_use, main_pc, sweep_list, tpc, fresh>>
  BY Zenon DEF SweepLink, chunkVars, threadVars
<1>2. PICK p : p = cur[w]
  BY Zenon
<1>3. Holding(w) /\ p \in Own(w) /\ p \notin Members(Rest(w))
  BY <1>1, <1>2, Zenon DEF Holding, Own, Held, Rest, ChainInv
<1>4. p \in Pages /\ p \in in_use /\ p \notin Members(head) /\ \A v \in Workers : p \notin Members(Rest(v))
  BY <1>3, Zenon DEF ChainInv, Own, TypeOK, ChunkTypes
<1>5. Unlinked' = Unlinked
  BY <1>1, Zenon DEF Unlinked
<1>6. CASE next[p] = head
  <2>1. head' = p /\ next' = next /\ NextPage(w)
    BY <1>1, <1>2, <1>6, Zenon DEF Link
  <2>2. IsList(head)' /\ Members(head)' = {p} \cup Members(head)
    BY <1>4, <1>6, <2>1, ChainPush, Zenon
  <2>3. /\ IsList(Rest(w))'
        /\ Own(w)' = Own(w) \ {p}
        /\ \A v \in Workers \ {w} : /\ IsList(Rest(v))'
                                    /\ Own(v)' = Own(v)
                                    /\ Holding(v)' => cur'[v] \notin Members(nxt[v])'
        /\ ~Holding(w)'
        /\ main_pc' = "idle" => \A v \in Workers : wpc'[v] = "parked"
    BY <1>1, <1>2, <1>3, <2>1, ChainNextPage
  <2>4. \A v \in Workers \ {w} : p \notin Own(v)
    BY <1>3, Zenon DEF ChainInv
  <2>5. \A q : q \in in_use' \ Unlinked' <=> q \in Members(head)' \/ \E v \in Workers : q \in Own(v)'
    BY <1>1, <1>3, <1>5, <2>2, <2>3, <2>4 DEF ChainInv
  <2>6. \A v \in Workers : \A q \in Own(v)' :
          /\ q \notin Members(head)'
          /\ \A u \in Workers \ {v} : q \notin Own(u)'
    BY <2>2, <2>3, <2>4 DEF ChainInv
  <2>7. QED
    BY <2>2, <2>3, <2>5, <2>6 DEF ChainInv
<1>7. CASE next[p] # head
  <2>1. head' = head /\ next' = [next EXCEPT ![p] = head]
    BY <1>1, <1>2, <1>7, Zenon DEF Link
  <2>2. head # p
    BY <1>4, ListPages, PageAssumption DEF ChainInv
  <2>3. wpc' = wpc /\ cur' = cur /\ nxt' = nxt
    BY <1>1, <1>2, <2>1, <2>2, Zenon
  <2>4. \A v \in Workers : Holding(v)' = Holding(v) /\ wpc'[v] = wpc[v]
    BY <2>3, Zenon DEF Holding
  <2>5. QED
    BY <1>1, <1>4, <1>5, <2>1, <2>3, <2>4, ChainRelink, Zenon
<1>8. QED
  BY <1>6, <1>7, Zenon

\* RemoveMarked: all lists are swept.
LEMMA ChainRemove ==
    ASSUME TypeOK, ChainInv, RemoveMarked
    PROVE  ChainInv'
<1>1. /\ \A w \in Workers : wpc[w] = "page" /\ cur[w] = Null
      /\ wpc' = [w \in Workers |-> "parked"] /\ main_pc' = "idle"
      /\ UNCHANGED <<in_use, next, head, sweep_list, cur, nxt, tpc, fresh>>
  BY Zenon DEF RemoveMarked, SweepDone, chunkVars, chainVars, threadVars
<1>2. \A w \in Workers : /\ ~Holding(w) /\ ~Holding(w)' /\ Held(w) = {} /\ Held(w)' = {}
                         /\ Rest(w) = Null /\ Rest(w)' = Null
  BY <1>1, Zenon DEF Holding, Held, Rest
<1>3. \A w \in Workers : IsList(Rest(w))' /\ Members(Rest(w))' = Members(Rest(w))
  BY <1>1, <1>2, RestFrame, Zenon
<1>4. \A w \in Workers : Own(w)' = Own(w)
  BY <1>2, <1>3, Zenon DEF Own
<1>5. IsList(head)' /\ Members(head)' = Members(head)
  BY <1>1, HeadFrame, Zenon
<1>6. Unlinked' = Unlinked /\ in_use' = in_use
  BY <1>1, Zenon DEF Unlinked
<1>7. QED
  BY <1>1, <1>2, <1>3, <1>4, <1>5, <1>6 DEF ChainInv

\* Every step keeps the lists.
LEMMA ChainNext ==
    ASSUME TypeOK, ChainInv, ThreadInv, UnitInv, Pinned # {}, [Next]_vars
    PROVE  ChainInv'
<1>1. ASSUME NEW t \in Threads,
             \/ AllocCall(t) \/ (\E p \in Pages : NewHugePage(t, p)) \/ ThreadStep(t)
             \/ AllocEnd(t) \/ ThreadExit(t)
      PROVE  ChainInv'
  <2>1. CASE \E p \in Pages : NewHugePage(t, p) \/ NewPage(t, p)
    <3>1. PICK p \in Pages : NewHugePage(t, p) \/ NewPage(t, p)
      BY <2>1, Zenon
    <3>2. ~Linking(t) /\ \E is_huge : ChunkAllocate(t, p, is_huge)
      BY <3>1, Zenon DEF NewHugePage, NewPage, Linking
    <3>3. QED
      BY <3>2, ChainAllocate, Zenon
  <2>2. CASE InitPage(t)
    BY <2>2, ChainInit, Zenon
  <2>3. CASE LinkPage(t)
    BY <2>3, ChainLink, Zenon
  <2>4. CASE \/ AllocCall(t) \/ (\E s \in Slots : PickUnit(t, s)) \/ TakeFreed(t) \/ RanOut(t)
             \/ PickFreePage(t) \/ NewPageFails(t) \/ AllocEnd(t) \/ ThreadExit(t)
    BY <2>4, ChainThread, Zenon
  <2>5. QED
    BY <1>1, <2>1, <2>2, <2>3, <2>4, Zenon DEF ThreadStep
<1>2. ASSUME NEW p \in Pages, NEW s \in Slots, DropUnit(p, s)
      PROVE  ChainInv'
  <2>1. UNCHANGED <<in_use, next, head, main_pc, sweep_list, wpc, cur, nxt, tpc, fresh>>
    BY <1>2, Zenon DEF DropUnit, chunkVars, chainVars, threadVars, sweepVars
  <2>2. Unlinked' = Unlinked
    BY <2>1, Zenon DEF Unlinked
  <2>3. QED
    BY <2>1, <2>2, ChainFrame, Zenon
<1>3. CASE Distribute
  BY <1>3, ChainDistribute, Zenon
<1>4. ASSUME NEW w \in Workers, WorkerStep(w)
      PROVE  ChainInv'
  BY <1>4, ChainLaunch, ChainPage, ChainVisit, ChainDrop, ChainChain, ChainSweepLink, Zenon DEF WorkerStep
<1>5. CASE RemoveMarked
  BY <1>5, ChainRemove, Zenon
<1>6. CASE UNCHANGED vars
  <2>1. UNCHANGED <<in_use, next, head, main_pc, sweep_list, wpc, cur, nxt, tpc, fresh>>
    BY <1>6, Zenon DEF vars, chunkVars, chainVars, threadVars, sweepVars
  <2>2. Unlinked' = Unlinked
    BY <2>1, Zenon DEF Unlinked
  <2>3. QED
    BY <2>1, <2>2, ChainFrame, Zenon
<1>7. QED
  BY <1>1, <1>2, <1>3, <1>4, <1>5, <1>6, Zenon DEF Next

-----------------------------------------------------------------------------
(* The pool *)

\* Without keeps entries of the sequence that are not in the set, each one once.
LEMMA WithoutEntries ==
    ASSUME NEW seq \in Seq(Pages), NEW S
    PROVE  /\ Without(seq, S) \in Seq(Pages)
           /\ \A i \in DOMAIN Without(seq, S) :
                /\ Without(seq, S)[i] \notin S
                /\ \E k \in DOMAIN seq : seq[k] = Without(seq, S)[i]
           /\ (\A i, j \in DOMAIN seq : i # j => seq[i] # seq[j])
              => \A i, j \in DOMAIN Without(seq, S) : i # j => Without(seq, S)[i] # Without(seq, S)[j]
<1> DEFINE N == Len(seq)
<1> DEFINE Take(x, n) == IF seq[n] \in S THEN x ELSE Append(x, seq[n])
<1> DEFINE Steps(h, n) == [k \in 0 .. n |-> IF k = 0 THEN << >> ELSE Take(h[k - 1], k)]
<1>1. N \in Nat /\ DOMAIN seq = 1 .. N
  OBVIOUS
<1> HIDE DEF N
<1>2. \E h : h = Steps(h, N)
  <2> HIDE DEF Take
  <2> DEFINE Done == {n \in 0 .. N : \E h : h = Steps(h, n)}
  <2>1. 0 \in Done
    <3> DEFINE h == [k \in 0 .. 0 |-> << >>]
    <3>1. h = Steps(h, 0)
      OBVIOUS
    <3> HIDE DEF h
    <3>2. QED
      BY <3>1, <1>1
  <2>2. ASSUME NEW n \in 0 .. N - 1, n \in Done
        PROVE  n + 1 \in Done
    <3>1. PICK h : h = Steps(h, n)
      BY <2>2, Zenon
    <3> DEFINE g == [k \in 0 .. n + 1 |-> IF k <= n THEN h[k] ELSE Take(h[n], n + 1)]
    <3>2. g = Steps(g, n + 1)
      <4>1. SUFFICES ASSUME NEW k \in 0 .. n + 1
                     PROVE  g[k] = Steps(g, n + 1)[k]
        BY Zenon
      <4>2. CASE k = n + 1
        <5>1. g[k] = Take(h[n], n + 1) /\ k # 0 /\ k - 1 = n /\ g[k - 1] = h[n]
          BY <4>2
        <5>2. QED
          BY <4>2, <5>1, Zenon
      <4>3. CASE k \in 0 .. n
        <5>1. g[k] = h[k] /\ h[k] = IF k = 0 THEN << >> ELSE Take(h[k - 1], k)
          BY <3>1, <4>3
        <5>2. k # 0 => g[k - 1] = h[k - 1]
          BY <4>3
        <5>3. QED
          BY <5>1, <5>2, Zenon
      <4>4. QED
        BY <4>2, <4>3
    <3> HIDE DEF g
    <3>3. QED
      BY <1>1, <3>2
  <2>3. \A n \in 0 .. N : n \in Done
    <3> HIDE DEF Done
    <3>1. QED
      BY <1>1, <2>1, <2>2, UpTo, Zenon
  <2>4. QED
    BY <1>1, <2>3
<1>3. PICK kept : kept = Steps(kept, N) /\ Without(seq, S) = kept[N]
  <2> DEFINE K == CHOOSE h : h = Steps(h, N)
  <2>1. K = Steps(K, N)
    BY <1>2, Zenon
  <2>2. Without(seq, S) = K[N]
    BY Zenon DEF Without, N
  <2> HIDE DEF K
  <2>3. QED
    BY <2>1, <2>2, Zenon
<1> DEFINE Good(q, n) ==
        /\ q \in Seq(Pages)
        /\ \A i \in DOMAIN q : q[i] \notin S /\ \E k \in 1 .. n : seq[k] = q[i]
        /\ (\A i, j \in DOMAIN seq : i # j => seq[i] # seq[j])
           => \A i, j \in DOMAIN q : i # j => q[i] # q[j]
<1> DEFINE T == {n \in 0 .. N : Good(kept[n], n)}
<1>4. 0 \in T
  <2>1. kept[0] = << >>
    BY <1>1, <1>3
  <2>2. Good(<< >>, 0)
    OBVIOUS
  <2> HIDE DEF Good
  <2>3. QED
    BY <1>1, <2>1, <2>2
<1>5. ASSUME NEW n \in 0 .. N - 1, n \in T
      PROVE  n + 1 \in T
  <2>1. PICK q : q = kept[n]
    BY Zenon
  <2>2. Good(q, n) /\ q \in Seq(Pages)
    BY <1>5, <2>1, Zenon
  <2>3. n + 1 \in DOMAIN seq /\ seq[n + 1] \in Pages /\ n + 1 \in 0 .. N
    BY <1>1
  <2>4. kept[n + 1] = Take(q, n + 1)
    <3>1. n + 1 # 0 /\ n + 1 - 1 = n
      OBVIOUS
    <3>2. kept[n + 1] = Steps(kept, N)[n + 1]
      BY <1>3, Zenon
    <3> HIDE DEF Take
    <3>3. QED
      BY <2>1, <2>3, <3>1, <3>2
  <2>5. CASE seq[n + 1] \in S
    <3>1. kept[n + 1] = q
      BY <2>4, <2>5, Zenon
    <3>2. Good(q, n + 1)
      BY <2>2
    <3>3. QED
      BY <2>3, <3>1, <3>2, Zenon
  <2>6. CASE seq[n + 1] \notin S
    <3> DEFINE r == Append(q, seq[n + 1])
    <3>1. kept[n + 1] = r
      BY <2>4, <2>6, Zenon
    <3>2. /\ r \in Seq(Pages) /\ DOMAIN r = 1 .. Len(q) + 1 /\ DOMAIN q = 1 .. Len(q) /\ Len(q) \in Nat
          /\ r[Len(q) + 1] = seq[n + 1] /\ \A i \in DOMAIN q : r[i] = q[i]
      BY <2>2, <2>3
    <3> HIDE DEF r
    <3>3. \A i \in DOMAIN r : r[i] \notin S /\ \E k \in 1 .. n + 1 : seq[k] = r[i]
      <4>1. SUFFICES ASSUME NEW i \in DOMAIN r
                     PROVE  r[i] \notin S /\ \E k \in 1 .. n + 1 : seq[k] = r[i]
        BY Zenon
      <4>2. CASE i = Len(q) + 1
        BY <2>6, <3>2, <4>2
      <4>3. CASE i \in DOMAIN q
        <5>1. PICK k \in 1 .. n : seq[k] = q[i]
          BY <2>2, <4>3, Zenon
        <5>2. QED
          BY <2>2, <3>2, <4>3, <5>1
      <4>4. QED
        BY <3>2, <4>2, <4>3
    <3>4. ASSUME \A i, j \in DOMAIN seq : i # j => seq[i] # seq[j],
                 NEW i \in DOMAIN r, NEW j \in DOMAIN r, i < j
          PROVE  r[i] # r[j]
      <4>1. i \in DOMAIN q /\ (j \in DOMAIN q \/ j = Len(q) + 1)
        BY <3>2, <3>4
      <4>2. CASE j \in DOMAIN q
        BY <2>2, <3>2, <3>4, <4>1, <4>2
      <4>3. CASE j = Len(q) + 1
        <5>1. PICK k \in 1 .. n : seq[k] = q[i]
          BY <2>2, <4>1, Zenon
        <5>2. k \in DOMAIN seq /\ k # n + 1
          BY <1>1
        <5>3. seq[k] # seq[n + 1]
          BY <2>3, <3>4, <5>2, Zenon
        <5>4. QED
          BY <3>2, <4>1, <4>3, <5>1, <5>3, Zenon
      <4>4. QED
        BY <4>1, <4>2, <4>3, Zenon
    <3>5. ASSUME \A i, j \in DOMAIN seq : i # j => seq[i] # seq[j]
          PROVE  \A i, j \in DOMAIN r : i # j => r[i] # r[j]
      <4>1. SUFFICES ASSUME NEW i \in DOMAIN r, NEW j \in DOMAIN r, i # j
                     PROVE  r[i] # r[j]
        BY Zenon
      <4>2. i < j \/ j < i
        BY <3>2, <4>1
      <4>3. QED
        BY <3>4, <3>5, <4>2, Zenon
    <3>6. Good(r, n + 1)
      BY <3>2, <3>3, <3>5
    <3>7. QED
      BY <2>3, <3>1, <3>6, Zenon
  <2>7. QED
    BY <2>5, <2>6, Zenon
<1>6. \A n \in 0 .. N : n \in T
  <2> HIDE DEF T
  <2>1. QED
    BY <1>1, <1>4, <1>5, UpTo, Zenon
<1>7. Good(kept[N], N)
  BY <1>1, <1>6
<1>8. PICK q : q = kept[N]
  BY Zenon
<1>9. Good(q, N) /\ Without(seq, S) = q
  BY <1>3, <1>7, <1>8, Zenon
<1>10. QED
  BY <1>1, <1>9, Zenon

\* What remove_marked_run_out_pages leaves in the pool.
LEMMA PoolShrunk ==
    ASSUME TypeOK, RemoveMarked
    PROVE  Shrunk
<1>1. pool \in Seq(Pages)
  BY Zenon DEF TypeOK, PoolTypes
<1>2. PICK gone :
        /\ \A i \in DOMAIN pool : pool[i] \in gone <=> pool[i] \in mark
        /\ pool' = Without(pool, gone)
  <2>1. \A i \in DOMAIN pool :
          pool[i] \in ({pool[j] : j \in DOMAIN pool} \cap mark) <=> pool[i] \in mark
    BY Zenon
  <2>2. QED
    BY <2>1, Zenon DEF RemoveMarked
<1>3. PICK q : q = Without(pool, gone)
  BY Zenon
<1>4. /\ q \in Seq(Pages)
      /\ \A i \in DOMAIN q : q[i] \notin gone /\ \E k \in DOMAIN pool : pool[k] = q[i]
      /\ (\A i, j \in DOMAIN pool : i # j => pool[i] # pool[j])
         => \A i, j \in DOMAIN q : i # j => q[i] # q[j]
  BY <1>1, <1>3, WithoutEntries
<1>5. \A i \in DOMAIN q : q[i] \notin mark /\ \E k \in DOMAIN pool : q[i] = pool[k]
  BY <1>2, <1>4, Zenon
<1>6. pool' = q
  BY <1>2, <1>3, Zenon
<1>7. QED
  BY <1>4, <1>5, <1>6 DEF Shrunk

-----------------------------------------------------------------------------
(* Types *)

LEMMA TypeDistribute ==
    ASSUME TypeOK, ChainInv, Distribute
    PROVE  TypeOK'
<1>1. CASE head = Null
  <2>1. /\ UNCHANGED <<chunkVars, chainVars, unitVars, poolVars, threadVars>>
        /\ main_pc' = "sweep" /\ UNCHANGED <<sweep_list, wpc, cur, nxt, visit>>
    BY <1>1, Zenon DEF Distribute, chainVars
  <2>2. SweepTypes'
    BY <2>1, Zenon DEF TypeOK, SweepTypes
  <2>3. QED
    BY <2>1, <2>2, TypeFrames, Zenon DEF TypeOK
<1>2. CASE head # Null
  <2>1. PICK h : h = head
    BY Zenon
  <2>2. PICK n \in Nat, f \in [Nat -> PageOrNull] : Chain(h, n, f)
    BY <2>1, Zenon DEF ChainInv, IsList
  <2>3. Members(h) = {f[i] : i \in 1 .. n} /\ Cardinality(Members(h)) = n
        /\ n <= Cardinality(Pages) /\ Cardinality(Pages) \in Nat
    BY <2>2, ChainMembers, ChainShort
  <2>4. \A k \in 0 .. Cardinality(Pages) : List(h)[k] \in PageOrNull
    <3>1. \A k \in 0 .. Cardinality(Pages) : List(h)[k] = IF k <= n THEN f[n - k] ELSE Null
      BY <2>2, ChainList, Zenon
    <3>2. QED
      BY <2>3, <3>1 DEF PageOrNull
  <2>5. Shares(n) \in [Workers -> PageOrNull]
    <3>1. ASSUME NEW w \in Workers
          PROVE  List(head)[First(w, n)] \in PageOrNull
      <4>1. First(w, n) \in 0 .. Cardinality(Pages)
        BY <2>3, ShareNext, ShareBound
      <4>2. QED
        BY <2>1, <2>4, <4>1, Zenon
    <3>2. QED
      BY <3>1, Zenon DEF Shares, PageOrNull
  <2>6. sweep_list' = Shares(n) /\ head' = Null
    BY <1>2, <2>1, <2>3, Zenon DEF Distribute
  <2>7. next' \in [Pages -> PageOrNull]
    <3>1. \E S : next' = [p \in Pages |-> IF p \in S THEN Null ELSE next[p]]
      BY <1>2, Zenon DEF Distribute
    <3>2. QED
      BY <3>1, Zenon DEF TypeOK, ChainTypes, PageOrNull
  <2>8. /\ UNCHANGED <<chunkVars, unitVars, poolVars, threadVars, wpc, cur, nxt, visit>>
        /\ main_pc' = "sweep"
    BY Zenon DEF Distribute
  <2>9. ChainTypes'
    BY <2>6, <2>7, Zenon DEF ChainTypes, PageOrNull
  <2>10. SweepTypes'
    BY <2>5, <2>6, <2>8, Zenon DEF TypeOK, SweepTypes
  <2>11. QED
    BY <2>8, <2>9, <2>10, TypeFrames, Zenon DEF TypeOK
<1>3. QED
  BY <1>1, <1>2, Zenon

\* Every step keeps the types.
LEMMA TypeNext ==
    ASSUME TypeOK, ChainInv, ThreadInv, PendingInv, [Next]_vars
    PROVE  TypeOK'
<1>1. ASSUME NEW t \in Threads,
             \/ AllocCall(t) \/ (\E p \in Pages : NewHugePage(t, p)) \/ ThreadStep(t)
             \/ AllocEnd(t) \/ ThreadExit(t)
      PROVE  TypeOK'
  BY <1>1, TypeThread, Zenon
<1>2. ASSUME NEW p \in Pages, NEW s \in Slots, DropUnit(p, s)
      PROVE  TypeOK'
  <2>1. UNCHANGED <<chunkVars, chainVars, poolVars, threadVars, sweepVars>> /\ UnitTypes'
    BY <1>2 DEF DropUnit, TypeOK, UnitTypes
  <2>2. QED
    BY <2>1, TypeFrames, Zenon DEF TypeOK
<1>3. CASE Distribute
  BY <1>3, TypeDistribute, Zenon
<1>4. ASSUME NEW w \in Workers, WorkerStep(w)
      PROVE  TypeOK'
  BY <1>4, TypeWorker, Zenon
<1>5. CASE RemoveMarked
  <2>1. UNCHANGED <<chunkVars, chainVars, unitVars, threadVars>>
    BY <1>5, Zenon DEF RemoveMarked
  <2>2. PoolTypes'
    BY <1>5, PoolShrunk, Zenon DEF RemoveMarked, Shrunk, TypeOK, PoolTypes
  <2>3. SweepTypes'
    BY <1>5, Zenon DEF RemoveMarked, TypeOK, SweepTypes
  <2>4. QED
    BY <2>1, <2>2, <2>3, TypeFrames, Zenon DEF TypeOK
<1>6. CASE UNCHANGED vars
  BY <1>6, TypeFrames, Zenon DEF vars, TypeOK
<1>7. QED
  BY <1>1, <1>2, <1>3, <1>4, <1>5, <1>6, Zenon DEF Next

-----------------------------------------------------------------------------
(* The initial states *)

LEMMA ChainStart ==
    ASSUME Init
    PROVE  IsList(head) /\ Members(head) = Pinned
<1> DEFINE N == Cardinality(Pinned)
<1>1. N \in Nat /\ IsFiniteSet(Pinned) /\ Pinned \subseteq Pages
  BY PageAssumption, FS_Subset, FS_CardinalityType, Zenon
<1>2. PICK order \in [1 .. N -> Pinned] :
        /\ \A i, j \in DOMAIN order : order[i] = order[j] => i = j
        /\ head = IF Pinned = {} THEN Null ELSE order[1]
        /\ next = [p \in Pages |->
                     IF \E i \in DOMAIN order : order[i] = p /\ i + 1 \in DOMAIN order
                     THEN order[1 + CHOOSE i \in DOMAIN order : order[i] = p]
                     ELSE Null]
  BY Zenon DEF Init
<1>3. Pinned = {} <=> N = 0
  BY <1>1, FS_EmptySet, Zenon
<1> HIDE DEF N
<1>4. ASSUME NEW i \in 1 .. N
      PROVE  next[order[i]] = IF i + 1 \in 1 .. N THEN order[i + 1] ELSE Null
  <2>0. DOMAIN order = 1 .. N
    BY <1>2, Zenon
  <2>1. (CHOOSE j \in DOMAIN order : order[j] = order[i]) = i
    BY <1>2, <2>0, Zenon
  <2>2. order[i] \in Pages
    BY <1>1, <1>2, Zenon
  <2>3. (\E j \in DOMAIN order : order[j] = order[i] /\ j + 1 \in DOMAIN order)
        <=> i + 1 \in 1 .. N
    BY <1>2, <2>0, Zenon
  <2>4. 1 + i = i + 1
    BY <1>1
  <2>5. QED
    BY <1>2, <2>1, <2>2, <2>3, <2>4
<1> DEFINE f == [i \in Nat |-> IF i \in 1 .. N THEN order[N + 1 - i] ELSE Null]
<1>5. f \in [Nat -> PageOrNull] /\ f[0] = Null
  BY <1>1, <1>2 DEF PageOrNull
<1>6. ASSUME NEW i \in 1 .. N
      PROVE  f[i] \in Pinned /\ f[i] \in Pages /\ next[f[i]] = f[i - 1]
  <2>1. N + 1 - i \in 1 .. N /\ f[i] = order[N + 1 - i]
    BY <1>1
  <2>2. next[f[i]] = IF N + 1 - i + 1 \in 1 .. N THEN order[N + 1 - i + 1] ELSE Null
    BY <1>4, <2>1
  <2>3. CASE i = 1
    BY <1>1, <1>2, <1>5, <2>1, <2>2, <2>3
  <2>4. CASE i # 1
    <3>1. /\ i - 1 \in 1 .. N /\ N + 1 - (i - 1) = N + 1 - i + 1
          /\ N + 1 - i + 1 \in 1 .. N /\ i - 1 \in Nat
      BY <1>1, <2>4
    <3>2. f[i - 1] = order[N + 1 - i + 1]
      BY <3>1, Zenon
    <3>3. QED
      BY <1>1, <1>2, <2>1, <2>2, <3>1, <3>2, Zenon
  <2>5. QED
    BY <2>3, <2>4, Zenon
<1>7. head = f[N]
  BY <1>1, <1>2, <1>3
<1> HIDE DEF f
<1>8. PICK h : h = head
  BY Zenon
<1>9. Chain(h, N, f)
  BY <1>1, <1>5, <1>6, <1>7, <1>8, Zenon DEF Chain
<1>10. Members(h) = {f[i] : i \in 1 .. N} /\ Cardinality({f[i] : i \in 1 .. N}) = N
  <2>1. PICK n \in Nat, g \in [Nat -> PageOrNull] : n = N /\ g = f
    BY <1>1, <1>5, Zenon
  <2>2. Chain(h, n, g)
    BY <1>9, <2>1, Zenon
  <2>3. Members(h) = {g[i] : i \in 1 .. n}
    BY <2>2, ChainMembers
  <2>4. Cardinality({g[i] : i \in 1 .. n}) = n
    BY <2>2, ChainShort, Zenon
  <2>5. QED
    BY <2>1, <2>3, <2>4, Zenon
<1>11. {f[i] : i \in 1 .. N} \in SUBSET Pinned
  BY <1>6, Zenon
<1>12. Pinned = {f[i] : i \in 1 .. N}
  BY <1>1, <1>10, <1>11, FS_Subset, Zenon DEF N
<1>13. QED
  BY <1>1, <1>5, <1>8, <1>9, <1>10, <1>12, Zenon DEF IsList

LEMMA Start ==
    ASSUME Init
    PROVE  IInv
<1>0. /\ Pinned \subseteq Pages /\ UnitsPerPage \in Nat \ {0} /\ 1 \in Slots
      /\ NoUnits \in [Slots -> {"RELEASED", "PENDING", "USED"}]
  BY PageAssumption DEF Slots, NoUnits
<1>1. /\ \A t \in Threads : tpc[t] = "run" /\ cache[t] = Null
      /\ \A w \in Workers : wpc[w] = "parked"
      /\ main_pc = "idle" /\ pool = << >>
  BY Zenon DEF Init
<1>2. Unlinked = {}
  BY <1>1, Zenon DEF Unlinked
<1>3. ASSUME NEW p \in Pages
      PROVE  life[p] = IF p \in Pinned THEN [NoUnits EXCEPT ![1] = "USED"] ELSE NoUnits
  BY Zenon DEF Init
<1>4. ASSUME NEW p \in Pages, NEW s \in Slots
      PROVE  life[p][s] = IF p \in Pinned /\ s = 1 THEN "USED" ELSE "RELEASED"
  BY <1>3, Zenon DEF NoUnits
<1>5. TypeOK
  <2>1. next \in [Pages -> PageOrNull] /\ head \in PageOrNull
    <3>1. PICK order \in [1 .. Cardinality(Pinned) -> Pinned] :
            /\ \A i, j \in DOMAIN order : order[i] = order[j] => i = j
            /\ head = IF Pinned = {} THEN Null ELSE order[1]
            /\ next = [p \in Pages |->
                         IF \E i \in DOMAIN order : order[i] = p /\ i + 1 \in DOMAIN order
                         THEN order[1 + CHOOSE i \in DOMAIN order : order[i] = p]
                         ELSE Null]
      BY Zenon DEF Init
    <3>2. ASSUME NEW p \in Pages
          PROVE  next[p] \in PageOrNull
      <4>1. CASE \E i \in DOMAIN order : order[i] = p /\ i + 1 \in DOMAIN order
        <5>1. PICK i \in DOMAIN order : order[i] = p /\ i + 1 \in DOMAIN order
          BY <4>1, Zenon
        <5>2. (CHOOSE j \in DOMAIN order : order[j] = p) = i
          BY <3>1, <5>1, Zenon
        <5>3. next[p] = order[1 + i] /\ 1 + i = i + 1
          BY <3>1, <4>1, <5>2
        <5>4. QED
          BY <1>0, <5>1, <5>3, Zenon DEF PageOrNull
      <4>2. CASE ~\E i \in DOMAIN order : order[i] = p /\ i + 1 \in DOMAIN order
        BY <3>1, <4>2, Zenon DEF PageOrNull
      <4>3. QED
        BY <4>1, <4>2, Zenon
    <3>3. head \in PageOrNull
      <4>1. CASE Pinned = {}
        BY <3>1, <4>1, Zenon DEF PageOrNull
      <4>2. CASE Pinned # {}
        <5>1. Cardinality(Pinned) \in Nat \ {0}
          BY <4>2, PageAssumption, FS_Subset, FS_CardinalityType, FS_EmptySet, Zenon
        <5>2. QED
          BY <1>0, <3>1, <4>2, <5>1 DEF PageOrNull
      <4>3. QED
        BY <4>1, <4>2, Zenon
    <3>4. QED
      BY <3>1, <3>2, <3>3, Zenon
  <2>2. life \in [Pages -> [Slots -> {"RELEASED", "PENDING", "USED"}]]
    <3>1. [NoUnits EXCEPT ![1] = "USED"] \in [Slots -> {"RELEASED", "PENDING", "USED"}]
      BY <1>0, Zenon
    <3>2. life = [p \in Pages |-> IF p \in Pinned THEN [NoUnits EXCEPT ![1] = "USED"] ELSE NoUnits]
      BY Zenon DEF Init
    <3>3. QED
      BY <1>0, <3>1, <3>2, Zenon
  <2>3. NoVisit \in [idx : 1 .. UnitsPerPage + 1, was_out : BOOLEAN, survivor : BOOLEAN,
                     space : BOOLEAN]
    BY <1>0 DEF NoVisit
  <2>4. QED
    <3>1. ChunkTypes /\ ChainTypes
      BY <1>0, <2>1, Zenon DEF Init, ChunkTypes, ChainTypes
    <3>2. UnitTypes
      BY <2>2, Zenon DEF Init, UnitTypes
    <3>3. PoolTypes
      BY DEF Init, PoolTypes
    <3>4. ThreadTypes
      BY <1>0 DEF Init, ThreadTypes, PageOrNull
    <3>5. SweepTypes
      BY <2>3, Zenon DEF Init, SweepTypes, PageOrNull
    <3>6. QED
      BY <3>1, <3>2, <3>3, <3>4, <3>5 DEF TypeOK
<1>6. ChainInv
  <2>1. \A w \in Workers : ~Holding(w) /\ Rest(w) = Null /\ Own(w) = {}
    BY <1>1, ListEmpty, Zenon DEF Holding, Rest, Held, Own
  <2>2. \A w \in Workers : IsList(Rest(w))
    BY <2>1, ListEmpty, Zenon
  <2>3. in_use = Pinned
    BY Zenon DEF Init
  <2>4. QED
    BY <1>1, <1>2, <2>1, <2>2, <2>3, ChainStart, Zenon DEF ChainInv
<1>7. ThreadInv
  BY <1>1, Zenon DEF ThreadInv, Linking, Init
<1>8. OwnerInv
  BY <1>1 DEF OwnerInv, PageOwnedOnce, Allocating
<1>9. UnitInv
  <2>1. in_use = Pinned /\ huge = Pinned /\ just = {} /\ garbage = {}
    BY Zenon DEF Init
  <2>2. FreeListsExact
    BY <2>1, Zenon DEF FreeListsExact
  <2>3. \A p \in Pinned : life[p][1] = "USED" /\ \A s \in Slots \ {1} : life[p][s] = "RELEASED"
    BY <1>0, <1>4, Zenon
  <2>4. QED
    BY <1>4, <2>1, <2>2, <2>3, Zenon DEF UnitInv
<1>10. PendingInv
  BY <1>1, Zenon DEF PendingInv
<1>11. VisitInv
  BY <1>1, Zenon DEF VisitInv
<1>12. QED
  BY <1>5, <1>6, <1>7, <1>8, <1>9, <1>10, <1>11, Zenon DEF IInv

-----------------------------------------------------------------------------
(* The theorems *)

\* The inductive invariant holds while the program has a page it never gives
\* back: then the chain is never empty when the collector takes it.
LEMMA Invariance ==
    ASSUME Pinned # {}
    PROVE  Spec => []IInv
<1>1. ASSUME IInv, [Next]_vars
      PROVE  IInv'
  <2>1. TypeOK /\ ChainInv /\ ThreadInv /\ OwnerInv /\ UnitInv /\ PendingInv /\ VisitInv
    BY <1>1, Zenon DEF IInv
  <2>2. TypeOK'
    BY <1>1, <2>1, TypeNext, Zenon
  <2>3. ChainInv'
    BY <1>1, <2>1, ChainNext, Zenon
  <2>4. ThreadInv'
    BY <1>1, <2>1, ThreadNext, Zenon
  <2>5. OwnerInv'
    BY <1>1, <2>1, PoolShrunk, OwnerNext, Zenon
  <2>6. UnitInv'
    BY <1>1, <2>1, UnitNext, Zenon
  <2>7. PendingInv'
    BY <1>1, <2>1, PendingNext, Zenon
  <2>8. VisitInv'
    BY <1>1, <2>1, VisitNext, Zenon
  <2>9. QED
    BY <2>2, <2>3, <2>4, <2>5, <2>6, <2>7, <2>8 DEF IInv
<1>2. Init => IInv
  BY Start, Zenon
<1>3. QED
  BY <1>1, <1>2, PTL DEF Spec

\* Every variable of the page life cycle keeps its type, for any number of pages,
\* units, threads and workers.
THEOREM PageTypes ==
    ASSUME Pinned # {}
    PROVE  Spec => []TypeOK
<1>1. IInv => TypeOK
  BY Zenon DEF IInv
<1>2. QED
  BY <1>1, Invariance, PTL

\* add_new_page_into_chain, the distribution of the chain and
\* add_page_back_to_into_chain lose no page in use and give none to two lists,
\* whatever their interleaving.
THEOREM ChainKept ==
    ASSUME Pinned # {}
    PROVE  Spec => []ChainKeepsEveryPage
<1>1. ASSUME IInv
      PROVE  ChainKeepsEveryPage
  <2>1. TypeOK /\ ChainInv
    BY <1>1, Zenon DEF IInv
  <2>2. ASSUME NEW w \in Workers
        PROVE  Pending(w) = Own(w)
    <3>1. wpc[w] \in {"parked", "page", "unit", "drop", "chain", "link"}
          /\ main_pc \in {"idle", "sweep"}
      BY <2>1, Zenon DEF TypeOK, ChainTypes, SweepTypes
    <3>2. CASE Holding(w)
      BY <3>2, Zenon DEF Pending, Own, Held, Rest, Holding
    <3>3. CASE wpc[w] = "page"
      BY <3>3, Zenon DEF Pending, Own, Held, Rest, Holding
    <3>4. CASE wpc[w] = "parked" /\ main_pc = "sweep"
      BY <3>4, Zenon DEF Pending, Own, Held, Rest, Holding
    <3>5. CASE wpc[w] = "parked" /\ main_pc = "idle"
      BY <3>5, ListEmpty, Zenon DEF Pending, Own, Held, Rest, Holding
    <3>6. QED
      BY <3>1, <3>2, <3>3, <3>4, <3>5, Zenon DEF Holding
  <2>3. \A p : p \in UNION {Pending(w) : w \in Workers} <=> \E w \in Workers : p \in Own(w)
    BY <2>2, Zenon
  <2>4. in_use \ Unlinked = Members(head) \cup UNION {Pending(w) : w \in Workers}
    BY <2>1, <2>3, Zenon DEF ChainInv
  <2>5. QED
    BY <2>1, <2>2, <2>4 DEF ChainInv, ChainKeepsEveryPage
<1>2. QED
  BY <1>1, Invariance, PTL

\* No two threads allocate from one page: a page is in one thread's cache or one
\* entry of the pool, and require_normal_page's assertion holds.
THEOREM PagesOwnedOnce ==
    ASSUME Pinned # {}
    PROVE  Spec => []PageOwnedOnce
<1>1. IInv => PageOwnedOnce
  BY Zenon DEF IInv, OwnerInv
<1>2. QED
  BY <1>1, Invariance, PTL

\* While threads pick units and workers free them, a unit of a normal page is
\* RELEASED exactly when it is in one of the page's two free lists.
THEOREM FreeListsKept ==
    ASSUME Pinned # {}
    PROVE  Spec => []FreeListsExact
<1>1. IInv => FreeListsExact
  BY Zenon DEF IInv, UnitInv
<1>2. QED
  BY <1>1, Invariance, PTL

\* sweep_units_in_page and Chunk::free_page are called only for pages in use that
\* are initialised.
THEOREM SweepsOnlyPagesInUse ==
    ASSUME Pinned # {}
    PROVE  Spec => []SweepsPagesInUse
<1>1. ASSUME IInv
      PROVE  SweepsPagesInUse
  BY <1>1, PagesAtHand, JustUnlinked, Zenon DEF IInv, SweepsPagesInUse
<1>2. QED
  BY <1>1, Invariance, PTL

\* A page goes back to the chunk only when none of its units is in use or being
\* allocated and nobody can allocate from it any more.
THEOREM DropsDeadPages ==
    ASSUME Pinned # {}
    PROVE  Spec => DropsOnlyDeadPages
<1> DEFINE Dead == \A p \in in_use \ in_use' :
             /\ \A s \in 1 .. UnitCount(p) : life[p][s] = "RELEASED"
             /\ \A t \in Threads : Allocating(t) => cache[t] # p
             /\ \A i \in DOMAIN pool : pool[i] # p
<1>1. ASSUME IInv, [Next]_vars
      PROVE  [Dead]_vars
  <2>1. TypeOK /\ ChainInv /\ ThreadInv /\ OwnerInv /\ VisitInv
    BY <1>1, Zenon DEF IInv
  <2>2. ASSUME NEW w \in Workers, SweepDrop(w)
        PROVE  Dead
    <3>1. /\ in_use' = in_use \ {cur[w]} /\ cur[w] \in huge \cup run_out
          /\ \A s \in Slots : life[cur[w]][s] = "RELEASED"
      BY <2>1, <2>2, Zenon DEF SweepDrop, VisitInv
    <3>2. ~Owned(cur[w])
      BY <2>1, <3>1, OwnedPages, Zenon
    <3>3. 1 .. UnitCount(cur[w]) \subseteq Slots
      BY PageAssumption DEF UnitCount, Slots
    <3>4. QED
      BY <3>1, <3>2, <3>3, Zenon DEF Owned
  <2>3. CASE \A w \in Workers : ~SweepDrop(w)
    <3>1. \A p \in in_use : p \in in_use'
      <4>1. ASSUME NEW t \in Threads,
                   \/ AllocCall(t) \/ (\E p \in Pages : NewHugePage(t, p)) \/ ThreadStep(t)
                   \/ AllocEnd(t) \/ ThreadExit(t)
            PROVE  \A p \in in_use : p \in in_use'
        BY <4>1, Zenon
           DEF AllocCall, NewHugePage, ThreadStep, AllocEnd, ThreadExit, PickUnit, TakeFreed, RanOut,
               PickFreePage, NewPage, NewPageFails, InitPage, LinkPage, ChunkAllocate, chunkVars
      <4>2. ASSUME NEW w \in Workers, WorkerStep(w)
            PROVE  in_use' = in_use
        BY <2>3, <4>2, Zenon
           DEF WorkerStep, SweepLaunch, SweepPage, SweepFreesUnit, SweepKeepsUnit, SweepVerdict,
               SweepChain, SweepLink, chunkVars
      <4>3. CASE Distribute \/ RemoveMarked \/ (\E p \in Pages, s \in Slots : DropUnit(p, s))
        BY <4>3, Zenon DEF Distribute, RemoveMarked, DropUnit, chunkVars
      <4>4. CASE UNCHANGED vars
        BY <4>4, Zenon DEF vars, chunkVars
      <4>5. QED
        BY <1>1, <4>1, <4>2, <4>3, <4>4 DEF Next
    <3>2. QED
      BY <3>1, Zenon
  <2>4. QED
    BY <2>2, <2>3, Zenon
<1>2. QED
  BY <1>1, Invariance, PTL DEF Spec, DropsOnlyDeadPages

=============================================================================
