--------------------------- MODULE KeyedCollectorProofs ---------------------------
(***************************************************************************)
(* What KeyedCollector guarantees for every set of keys, every capacity    *)
(* (negative ones included), every number of rows and of events.           *)
(***************************************************************************)
EXTENDS KeyedCollector, LRUProofs, FunctionTheorems, FiniteSetTheorems, WellFoundedInduction

(***************************************************************************)
(* The inductive invariant.  LruExact is inductive with the bounds of      *)
(* lastUse; type correctness needs that every tracked key has an object,   *)
(* and that a half-read entry is the first of those still to be read.      *)
(***************************************************************************)
LruType ==
    /\ order \in Seq(Keys) /\ Len(order) <= Cap
    /\ seen \in 0..MaxRecords
    /\ lastUse \in [Keys -> 0..seen]

SlotsMatch ==
    /\ evicted = Len(objs) - Len(order)
    /\ \A k \in Keys : IF Tracks(order, k) THEN slot[k] # 0 /\ objs[slot[k]].key = k
                                           ELSE slot[k] = 0

Control ==
    /\ half # <<>> => phase = "read" /\ todo # <<>>
    /\ phase = "read" => kind \in {"fd", "tcp", "sched"}
    /\ phase = "rank" => kind \in {"tcp", "sched"}

SumsMatch ==
    /\ total.n = SumOf([i \in DOMAIN objs |-> objs[i].n])
    /\ kind = "fd" => total.m = SumOf([i \in DOMAIN objs |-> objs[i].m])

IInv == TypeOK /\ LruExact /\ SlotsMatch /\ SumsMatch /\ Control

(* The effective capacity is positive, whatever was asked for.             *)
LEMMA CapPositive == Cap \in Nat \ {0}
  BY KeyCapAssumption DEF Cap, EffectiveCap

(* Under LruExact no key is tracked twice.                                 *)
LEMMA ExactIsDistinct ==
  ASSUME LruType, LruExact
  PROVE  Distinct(order)
<1> SUFFICES ASSUME NEW i \in 1..Len(order), NEW j \in 1..Len(order), i # j
             PROVE  order[i] # order[j]
  BY DEF Distinct
<1>1. Len(order) \in Nat /\ order[i] \in Keys /\ order[j] \in Keys
  BY LenProperties, ElementOfSeq DEF LruType
<1>2. lastUse[order[i]] \in Nat /\ lastUse[order[j]] \in Nat
  BY <1>1 DEF LruType
<1>3. CASE i < j
  BY <1>2, <1>3 DEF LruExact
<1>4. CASE j < i
  BY <1>2, <1>4 DEF LruExact
<1> QED
  BY <1>1, <1>3, <1>4

(***************************************************************************)
(* The LRU keeps exactly the keys used most recently.                      *)
(***************************************************************************)
(* A use of a key, recorded as its latest, keeps LruExact.                 *)
LEMMA LruStep ==
  ASSUME LruType, LruExact, NEW e \in EventsOf(kind), Record(e)
  PROVE  LruType' /\ LruExact'
<1> DEFINE k == e.key
           t == Use(order, k, Cap)
<1>0. k \in Keys
  BY DEF EventsOf, Events
<1>1. /\ seen < MaxRecords /\ seen' = seen + 1 /\ order' = t
      /\ lastUse' = [lastUse EXCEPT ![k] = seen + 1]
  BY DEF Record
<1>2. /\ order \in Seq(Keys) /\ Len(order) <= Cap /\ Len(order) \in Nat
      /\ seen \in 0..MaxRecords /\ seen \in Nat /\ lastUse \in [Keys -> 0..seen]
  BY MaxRecordsAssumption, LenProperties DEF LruType
<1>3. Distinct(order)
  BY ExactIsDistinct
<1>a. k \in Keys /\ order \in Seq(Keys) /\ Len(order) <= Cap /\ Cap \in Nat \ {0}
  BY <1>0, <1>2, CapPositive
<1> HIDE DEF k
<1>4. /\ t \in Seq(Keys) /\ Len(t) \in 1..Cap /\ t[1] = k
      /\ Len(t) = IF Tracks(order, k) \/ Evicts(order, k, Cap) THEN Len(order) ELSE Len(order) + 1
  BY <1>3, <1>a, UseLength, SMTT(30)
<1>5. PICK f \in [2..Len(t) -> 1..Len(order)] :
         /\ \A i \in 2..Len(t) : t[i] = order[f[i]] /\ order[f[i]] # k
         /\ \A i, j \in 2..Len(t) : i < j => f[i] < f[j]
  BY <1>3, <1>a, UseKeepsOrder, SMTT(30)
<1>6. \A x \in Keys : Tracks(t, x) <=>
         x = k \/ (Tracks(order, x) /\ ~(Evicts(order, k, Cap) /\ x = order[Len(order)]))
  BY <1>3, <1>a, UseTracks, SMTT(30)
<1> HIDE DEF t
<1>7. lastUse'[k] = seen + 1 /\ \A x \in Keys : x # k => lastUse'[x] = lastUse[x]
  BY <1>0, <1>1, <1>2
<1>8. Len(t) \in Nat /\ Len(t) <= Cap /\ 1 <= Len(t)
  BY <1>4, CapPositive
<1>9. \A i \in 1..Len(order) : order[i] \in Keys /\ lastUse[order[i]] \in 0..seen
  BY <1>2, ElementOfSeq
<1>10. ASSUME NEW i \in 2..Len(t)
       PROVE  f[i] \in 1..Len(order) /\ lastUse'[t[i]] = lastUse[order[f[i]]]
  BY <1>5, <1>7, <1>9, <1>10
<1>11. LruType'
  <2>1. seen' \in 0..MaxRecords
    BY <1>1, <1>2, MaxRecordsAssumption
  <2>2. lastUse' \in [Keys -> 0..seen']
    <3>1. 0..seen \subseteq 0..(seen + 1) /\ seen + 1 \in 0..(seen + 1)
      BY <1>2
    <3>2. lastUse \in [Keys -> 0..(seen + 1)]
      BY <1>2, <3>1
    <3>3. [lastUse EXCEPT ![k] = seen + 1] \in [Keys -> 0..(seen + 1)]
      BY <3>1, <3>2
    <3> QED
      BY <1>1, <3>3
  <2>3. Cap' = Cap
    BY DEF Cap
  <2> QED
    BY <1>1, <1>4, <1>8, <2>1, <2>2, <2>3 DEF LruType
<1>12. ASSUME NEW i \in 1..Len(t), NEW j \in 1..Len(t), i < j
       PROVE  lastUse'[t[i]] > lastUse'[t[j]]
  <2>1. j \in 2..Len(t) /\ f[j] \in 1..Len(order) /\ lastUse'[t[j]] = lastUse[order[f[j]]]
    BY <1>8, <1>10, <1>12
  <2>2. CASE i = 1
    <3>1. lastUse'[t[i]] = seen + 1
      BY <1>4, <1>7, <2>2
    <3>2. lastUse'[t[j]] \in 0..seen
      BY <1>9, <2>1
    <3> QED
      BY <1>2, <3>1, <3>2
  <2>3. CASE i # 1
    <3>1. i \in 2..Len(t)
      BY <1>8, <2>3
    <3>2. f[i] \in 1..Len(order) /\ lastUse'[t[i]] = lastUse[order[f[i]]]
      BY <1>10, <3>1
    <3>3. f[i] < f[j]
      BY <1>5, <1>12, <2>1, <3>1
    <3> QED
      BY <2>1, <3>2, <3>3 DEF LruExact
  <2> QED
    BY <2>2, <2>3
<1>13. ASSUME NEW x \in Keys, Tracks(t, x)
       PROVE  lastUse'[x] > 0
  <2>1. CASE x = k
    BY <1>2, <1>7, <2>1
  <2>2. CASE x # k
    BY <1>6, <1>7, <1>13, <2>2 DEF LruExact
  <2> QED
    BY <2>1, <2>2
<1>14. ASSUME NEW x \in Keys, lastUse'[x] > 0, ~Tracks(t, x)
       PROVE  Len(t) = Cap /\ \A i \in 1..Len(t) : lastUse'[t[i]] > lastUse'[x]
  <2>1. x # k /\ lastUse'[x] = lastUse[x] /\ lastUse[x] > 0 /\ lastUse[x] \in 0..seen
    BY <1>2, <1>6, <1>7, <1>14
  <2>2. Len(order) = Cap
    <3>1. CASE Tracks(order, x)
      BY <1>2, <1>6, <1>14, <2>1, <3>1, CapPositive DEF Evicts
    <3>2. CASE ~Tracks(order, x)
      BY <2>1, <3>2 DEF LruExact
    <3> QED
      BY <3>1, <3>2
  <2>3. Len(t) = Cap
    BY <1>2, <1>4, <1>8, <2>2
  <2>4. ASSUME NEW i \in 2..Len(t)
        PROVE  lastUse[order[f[i]]] > lastUse[x]
    <3>1. f[i] \in 1..Len(order) /\ t[i] = order[f[i]]
      BY <1>5, <1>10
    <3>2. CASE Tracks(order, x)
      <4>1. x = order[Len(order)]
        BY <1>6, <1>14, <2>1, <3>2
      <4>2. Tracks(t, t[i])
        BY <1>8 DEF Tracks
      <4>3. f[i] # Len(order)
        BY <1>14, <3>1, <4>1, <4>2
      <4>4. f[i] < Len(order) /\ Len(order) \in 1..Len(order)
        BY <1>2, <3>1, <4>3
      <4> QED
        BY <3>1, <4>1, <4>4 DEF LruExact
    <3>3. CASE ~Tracks(order, x)
      BY <2>1, <3>1, <3>3 DEF LruExact
    <3> QED
      BY <3>2, <3>3
  <2>5. ASSUME NEW i \in 1..Len(t)
        PROVE  lastUse'[t[i]] > lastUse'[x]
    <3>1. CASE i = 1
      BY <1>2, <1>4, <1>7, <2>1, <3>1
    <3>2. CASE i # 1
      <4>1. i \in 2..Len(t)
        BY <1>8, <3>2
      <4> QED
        BY <1>10, <2>1, <2>4, <4>1
    <3> QED
      BY <3>1, <3>2
  <2> QED
    BY <2>3, <2>5
<1>15. Cap' = Cap
  BY DEF Cap
<1> QED
  BY <1>1, <1>11, <1>12, <1>13, <1>14, <1>15 DEF LruExact

(***************************************************************************)
(* Types of what record and Snapshot build.                                *)
(***************************************************************************)
(* One is 0 or 1.                                                          *)
LEMMA OneType == ASSUME NEW c PROVE One(c) \in {0, 1}
  BY DEF One

(* Counting an event in an entry gives an entry of the same key.           *)
LEMMA BumpType ==
  ASSUME NEW o \in Objects, NEW e \in Events, NEW k
  PROVE  Bump(o, k, e) \in Objects /\ Bump(o, k, e).key = o.key
<1>1. AddsToEntry(k, e).n \in {0, 1} /\ AddsToEntry(k, e).m \in {0, 1}
  BY OneType DEF AddsToEntry
<1>2. o.n + AddsToEntry(k, e).n \in Nat /\ o.m + AddsToEntry(k, e).m \in Nat
  BY <1>1 DEF Objects
<1>3. (IF e.lat > o.hi THEN e.lat ELSE o.hi) \in Latencies
  BY DEF Objects, Events
<1> QED
  BY <1>2, <1>3 DEF Bump, Objects

(* A new entry is an entry of its key.                                     *)
LEMMA FreshType == ASSUME NEW k \in Keys PROVE Fresh(k) \in Objects /\ Fresh(k).key = k
  BY LatenciesAssumption DEF Fresh, Objects

(* An event adds at most one to each total.                                *)
LEMMA TotalsType == ASSUME NEW e, NEW k PROVE AddsToTotal(k, e).n \in {0, 1} /\ AddsToTotal(k, e).m \in {0, 1}
<1>1. AddsToEntry(k, e).n \in {0, 1}
  BY OneType DEF AddsToEntry
<1> QED
  BY <1>1, OneType DEF AddsToTotal

(* A row built from an entry is a row.                                     *)
LEMMA RowType ==
  ASSUME NEW o \in Objects, NEW id \in Nat
  PROVE  Row(id, o) \in Rows
<1>1. o.n - o.m \in Int
  BY DEF Objects
<1> QED
  BY <1>1 DEF Row, Rows, Objects

(* Type correctness of the module gives that of the LRU's state.           *)
LEMMA TypeIsLruType == TypeOK => LruType
  BY DEF TypeOK, LruType

(***************************************************************************)
(* Sums.  SumOf is a recursive function: that the recursion has a solution *)
(* and what it adds up to is shown by induction on how far it has come.    *)
(***************************************************************************)
(* A nonempty set of natural numbers has a least one.                      *)
LEMMA LeastNumber ==
  ASSUME NEW T \in SUBSET Nat, T # {}
  PROVE  \E m \in T : \A k \in T : m <= k
<1>1. PICK m \in T : \A k \in T : ~(<<k, m>> \in OpToRel(<, Nat))
  BY NatLessThanWellFounded, WFMin
<1>2. ASSUME NEW k \in T PROVE m <= k
  <2>1. ~(k < m)
    BY <1>1 DEF OpToRel
  <2> QED
    BY <2>1
<1> QED
  BY <1>2

(* Every natural number is reached from 0 by successors.                   *)
LEMMA NaturalsAreReached ==
  ASSUME NEW S, 0 \in S, \A n \in Nat : n \in S => n + 1 \in S
  PROVE  Nat \subseteq S
<1> SUFFICES ASSUME Nat \ S # {} PROVE FALSE
  OBVIOUS
<1>1. PICK m \in Nat \ S : \A k \in Nat \ S : m <= k
  <2>1. Nat \ S \in SUBSET Nat
    OBVIOUS
  <2> QED
    BY <2>1, LeastNumber
<1>2. m # 0
  OBVIOUS
<1>3. m - 1 \in Nat /\ m - 1 \in S
  BY <1>1, <1>2
<1>4. (m - 1) + 1 = m
  BY <1>1
<1> QED
  BY <1>3, <1>4

(* u holds the partial sums of the first N values of f.                    *)
PartialSums(u, f, N) == u = [i \in 0..N |-> IF i = 0 THEN 0 ELSE u[i - 1] + f[i]]

(* The sum of the first N values of f, as SumOf adds them.                 *)
SumTo(f, N) == LET upTo[i \in 0..N] == IF i = 0 THEN 0 ELSE upTo[i - 1] + f[i]
               IN  upTo[N]

(* The recursion of SumOf has a solution.                                  *)
LEMMA SumsExist ==
  ASSUME NEW N \in Nat, NEW f, \A i \in 1..N : f[i] \in Int
  PROVE  \E u \in [0..N -> Int] : PartialSums(u, f, N)
<1> DEFINE S == {n \in Nat : n <= N => \E u \in [0..n -> Int] : PartialSums(u, f, n)}
<1>1. 0 \in S
  <2> DEFINE u == [i \in 0..0 |-> 0]
  <2>1. u \in [0..0 -> Int] /\ PartialSums(u, f, 0)
    BY DEF PartialSums
  <2> QED
    BY <2>1
<1>2. ASSUME NEW n \in Nat, n \in S PROVE n + 1 \in S
  <2> SUFFICES ASSUME n + 1 <= N
               PROVE  \E u \in [0..(n + 1) -> Int] : PartialSums(u, f, n + 1)
    OBVIOUS
  <2>1. PICK u \in [0..n -> Int] : PartialSums(u, f, n)
    BY <1>2
  <2> DEFINE v == [i \in 0..(n + 1) |-> IF i = n + 1 THEN u[n] + f[n + 1] ELSE u[i]]
  <2>2. f[n + 1] \in Int
    OBVIOUS
  <2>3. v \in [0..(n + 1) -> Int]
    BY <2>2
  <2>4. ASSUME NEW i \in 0..(n + 1)
        PROVE  v[i] = IF i = 0 THEN 0 ELSE v[i - 1] + f[i]
    <3>1. CASE i = n + 1
      <4>1. v[i] = u[n] + f[n + 1] /\ i - 1 = n /\ v[n] = u[n] /\ i # 0
        BY <3>1
      <4> QED
        BY <3>1, <4>1
    <3>2. CASE i # n + 1
      <4>1. i \in 0..n /\ v[i] = u[i] /\ (i # 0 => i - 1 \in 0..n /\ v[i - 1] = u[i - 1])
        BY <3>2
      <4>2. u[i] = IF i = 0 THEN 0 ELSE u[i - 1] + f[i]
        BY <2>1, <4>1 DEF PartialSums
      <4> QED
        BY <4>1, <4>2
    <3> QED
      BY <3>1, <3>2
  <2>5. PartialSums(v, f, n + 1)
    <3> HIDE DEF v
    <3> QED
      BY <2>3, <2>4 DEF PartialSums
  <2> QED
    BY <2>3, <2>5
<1>3. Nat \subseteq S
  <2> HIDE DEF S
  <2> QED
    BY <1>1, <1>2, NaturalsAreReached
<1>4. N \in S /\ N <= N
  BY <1>3
<1> QED
  BY <1>4

(* The elements of partial sums.                                           *)
LEMMA SumsStep ==
  ASSUME NEW N \in Nat, NEW f, NEW u, PartialSums(u, f, N)
  PROVE  /\ u[0] = 0
         /\ \A n \in Nat : n + 1 <= N => u[n + 1] = u[n] + f[n + 1]
<1>1. \A i \in 0..N : u[i] = IF i = 0 THEN 0 ELSE u[i - 1] + f[i]
  BY DEF PartialSums
<1>2. ASSUME NEW n \in Nat, n + 1 <= N PROVE u[n + 1] = u[n] + f[n + 1]
  <2>1. n + 1 \in 0..N /\ n + 1 # 0 /\ (n + 1) - 1 = n
    BY <1>2
  <2> QED
    BY <1>1, <2>1
<1> QED
  BY <1>1, <1>2

(* SumTo is the last partial sum.                                          *)
LEMMA SumToIs ==
  ASSUME NEW N \in Nat, NEW f, \A i \in 1..N : f[i] \in Int
  PROVE  \E u \in [0..N -> Int] :
            /\ u[0] = 0
            /\ \A n \in Nat : n + 1 <= N => u[n + 1] = u[n] + f[n + 1]
            /\ SumTo(f, N) = u[N]
<1> DEFINE w == CHOOSE u : u = [i \in 0..N |-> IF i = 0 THEN 0 ELSE u[i - 1] + f[i]]
<1>1. PICK u \in [0..N -> Int] : u = [i \in 0..N |-> IF i = 0 THEN 0 ELSE u[i - 1] + f[i]]
  BY SumsExist DEF PartialSums
<1>2. w = [i \in 0..N |-> IF i = 0 THEN 0 ELSE w[i - 1] + f[i]]
  BY <1>1
<1>3. SumTo(f, N) = w[N]
  BY DEF SumTo
<1>4. PartialSums(w, f, N)
  BY <1>2 DEF PartialSums
<1> HIDE DEF w
<1>5. w \in [0..N -> Int]
  <2> DEFINE S == {n \in Nat : n <= N => w[n] \in Int}
  <2>1. 0 \in S
    BY <1>4, SumsStep
  <2>2. ASSUME NEW n \in Nat, n \in S PROVE n + 1 \in S
    <3> SUFFICES ASSUME n + 1 <= N PROVE w[n + 1] \in Int
      OBVIOUS
    <3>1. w[n] \in Int /\ f[n + 1] \in Int /\ w[n + 1] = w[n] + f[n + 1]
      BY <1>4, <2>2, SumsStep
    <3> QED
      BY <3>1
  <2>3. Nat \subseteq S
    <3> HIDE DEF S
    <3> QED
      BY <2>1, <2>2, NaturalsAreReached
  <2>4. \A i \in 0..N : w[i] \in Int
    BY <2>3
  <2> QED
    BY <1>2, <2>4
<1>6. /\ w[0] = 0
      /\ \A n \in Nat : n + 1 <= N => w[n + 1] = w[n] + f[n + 1]
  BY <1>4, SumsStep
<1> QED
  BY <1>3, <1>5, <1>6

(* Adding a value at the end adds it to the sum.                           *)
LEMMA SumToAppend ==
  ASSUME NEW N \in Nat, NEW f, NEW g, \A i \in 1..(N + 1) : g[i] \in Int,
         \A i \in 1..N : f[i] = g[i]
  PROVE  SumTo(g, N + 1) = SumTo(f, N) + g[N + 1] /\ SumTo(f, N) \in Int
<1>0. N + 1 \in Nat /\ \A i \in 1..N : f[i] \in Int
  OBVIOUS
<1>1. PICK u \in [0..N -> Int] :
        /\ u[0] = 0
        /\ \A n \in Nat : n + 1 <= N => u[n + 1] = u[n] + f[n + 1]
        /\ SumTo(f, N) = u[N]
  BY <1>0, SumToIs
<1>2. PICK v \in [0..(N + 1) -> Int] :
        /\ v[0] = 0
        /\ \A n \in Nat : n + 1 <= N + 1 => v[n + 1] = v[n] + g[n + 1]
        /\ SumTo(g, N + 1) = v[N + 1]
  BY <1>0, SumToIs
<1> DEFINE S == {n \in Nat : n <= N => u[n] = v[n]}
<1>3. 0 \in S
  BY <1>0, <1>1, <1>2
<1>4. ASSUME NEW n \in Nat, n \in S PROVE n + 1 \in S
  <2> SUFFICES ASSUME n + 1 <= N PROVE u[n + 1] = v[n + 1]
    OBVIOUS
  <2>0. n + 1 <= N + 1 /\ n + 1 \in 1..N
    OBVIOUS
  <2>1. u[n] = v[n] /\ f[n + 1] = g[n + 1]
    BY <1>4, <2>0
  <2>2. u[n + 1] = u[n] + f[n + 1]
    BY <1>1
  <2>3. v[n + 1] = v[n] + g[n + 1]
    BY <1>2, <2>0
  <2> QED
    BY <2>1, <2>2, <2>3
<1>5. Nat \subseteq S
  <2> HIDE DEF S
  <2> QED
    BY <1>3, <1>4, NaturalsAreReached
<1>6. u[N] = v[N]
  BY <1>5
<1>7. v[N + 1] = v[N] + g[N + 1]
  BY <1>0, <1>2
<1> QED
  BY <1>1, <1>2, <1>6, <1>7

(* Changing one value changes the sum by the difference.                   *)
LEMMA SumToExcept ==
  ASSUME NEW N \in Nat, NEW f, NEW g, NEW k \in 1..N, NEW d \in Int,
         \A i \in 1..N : f[i] \in Int,
         \A i \in 1..N : g[i] = IF i = k THEN f[i] + d ELSE f[i]
  PROVE  SumTo(g, N) = SumTo(f, N) + d /\ SumTo(f, N) \in Int
<1>0. \A i \in 1..N : g[i] \in Int
  OBVIOUS
<1>1. PICK u \in [0..N -> Int] :
        /\ u[0] = 0
        /\ \A n \in Nat : n + 1 <= N => u[n + 1] = u[n] + f[n + 1]
        /\ SumTo(f, N) = u[N]
  BY SumToIs
<1>2. PICK v \in [0..N -> Int] :
        /\ v[0] = 0
        /\ \A n \in Nat : n + 1 <= N => v[n + 1] = v[n] + g[n + 1]
        /\ SumTo(g, N) = v[N]
  BY <1>0, SumToIs
<1> DEFINE S == {n \in Nat : n <= N => v[n] = IF n < k THEN u[n] ELSE u[n] + d}
<1>3. 0 \in S
  BY <1>1, <1>2
<1>4. ASSUME NEW n \in Nat, n \in S PROVE n + 1 \in S
  <2> SUFFICES ASSUME n + 1 <= N
               PROVE  v[n + 1] = IF n + 1 < k THEN u[n + 1] ELSE u[n + 1] + d
    OBVIOUS
  <2>1. v[n] = IF n < k THEN u[n] ELSE u[n] + d
    BY <1>4
  <2>2. u[n + 1] = u[n] + f[n + 1] /\ v[n + 1] = v[n] + g[n + 1]
    BY <1>1, <1>2
  <2>3. g[n + 1] = IF n + 1 = k THEN f[n + 1] + d ELSE f[n + 1]
    OBVIOUS
  <2>4. u[n] \in Int /\ f[n + 1] \in Int
    BY <1>1
  <2>5. CASE n + 1 < k
    BY <2>1, <2>2, <2>3, <2>4, <2>5
  <2>6. CASE n + 1 = k
    BY <2>1, <2>2, <2>3, <2>4, <2>6
  <2>7. CASE n + 1 > k
    BY <2>1, <2>2, <2>3, <2>4, <2>7
  <2> QED
    BY <2>5, <2>6, <2>7
<1>5. Nat \subseteq S
  <2> HIDE DEF S
  <2> QED
    BY <1>3, <1>4, NaturalsAreReached
<1>6. v[N] = IF N < k THEN u[N] ELSE u[N] + d
  BY <1>5
<1> QED
  BY <1>1, <1>2, <1>6

(***************************************************************************)
(* record.                                                                 *)
(***************************************************************************)
(* The object that record counts an event in.                              *)
Touched(e) == IF Tracks(order, e.key) THEN slot[e.key] ELSE Len(objs) + 1

(* record changes one object or appends one, and no other.                 *)
LEMMA RecordObjs ==
  ASSUME IInv, NEW e \in EventsOf(kind), Record(e)
  PROVE  /\ objs \in Seq(Objects) /\ Len(objs) \in Nat
         /\ objs' \in Seq(Objects)
         /\ Len(objs') = IF Tracks(order, e.key) THEN Len(objs) ELSE Len(objs) + 1
         /\ Touched(e) \in 1..Len(objs')
         /\ Tracks(order, e.key) =>
               /\ Touched(e) \in 1..Len(objs)
               /\ objs'[Touched(e)] = Bump(objs[Touched(e)], kind, e)
         /\ ~Tracks(order, e.key) => objs'[Touched(e)] = Bump(Fresh(e.key), kind, e)
         /\ \A i \in 1..Len(objs) : i # Touched(e) => objs'[i] = objs[i]
         /\ objs'[Touched(e)].key = e.key
         /\ \A i \in 1..Len(objs) : objs'[i].key = objs[i].key
<1> DEFINE k   == e.key
           hit == Tracks(order, k)
           id  == Touched(e)
<1>1. e \in Events /\ k \in Keys
  BY DEF EventsOf, Events
<1>2. objs \in Seq(Objects) /\ Len(objs) \in Nat /\ slot \in [Keys -> 0..Len(objs)]
  BY LenProperties DEF IInv, TypeOK
<1>3. /\ hit => objs' = [objs EXCEPT ![id] = Bump(objs[id], kind, e)]
      /\ ~hit => objs' = Append(objs, Bump(Fresh(k), kind, e))
  BY DEF Record, Touched
<1>4. CASE hit
  <2> DEFINE o == Bump(objs[id], kind, e)
  <2>1. id \in 1..Len(objs) /\ objs[id].key = k
    BY <1>1, <1>2, <1>4 DEF IInv, SlotsMatch, Touched
  <2> HIDE DEF id
  <2>2. objs[id] \in Objects
    BY <1>2, <2>1, ElementOfSeq
  <2>3. o \in Objects /\ o.key = objs[id].key
    BY <1>1, <2>2, BumpType
  <2>4. objs' = [objs EXCEPT ![id] = o]
    BY <1>3, <1>4
  <2> HIDE DEF o
  <2>5. /\ objs' \in Seq(Objects) /\ Len(objs') = Len(objs)
        /\ \A j \in 1..Len(objs) : objs'[j] = IF j = id THEN o ELSE objs[j]
    BY <1>2, <2>1, <2>3, <2>4, ExceptSeq
  <2> QED
    BY <1>2, <1>4, <2>1, <2>3, <2>5 DEF id, o
<1>5. CASE ~hit
  <2> DEFINE o == Bump(Fresh(k), kind, e)
  <2>1. o \in Objects /\ o.key = k
    BY <1>1, BumpType, FreshType
  <2>2. objs' = Append(objs, o) /\ id = Len(objs) + 1
    BY <1>3, <1>5 DEF Touched
  <2> HIDE DEF o, id
  <2>3. /\ objs' \in Seq(Objects) /\ Len(objs') = Len(objs) + 1
        /\ objs'[Len(objs) + 1] = o /\ \A i \in 1..Len(objs) : objs'[i] = objs[i]
    BY <1>2, <2>1, <2>2
  <2>4. Len(objs) + 1 \in 1..(Len(objs) + 1)
    BY <1>2
  <2> QED
    BY <1>2, <1>5, <2>1, <2>2, <2>3, <2>4 DEF id, o
<1> QED
  BY <1>4, <1>5

(* What record adds to the totals it adds to one object.                   *)
LEMMA RecordSums ==
  ASSUME IInv, NEW e \in EventsOf(kind), Record(e)
  PROVE  SumsMatch'
<1>1. e \in Events /\ kind' = kind
  BY DEF EventsOf, Record
<1>2. PICK N \in Nat, M \in Nat :
         /\ N = Len(objs) /\ M = Len(objs')
         /\ DOMAIN objs = 1..N /\ DOMAIN objs' = 1..M
         /\ \A i \in 1..N : objs[i].n \in Nat /\ objs[i].m \in Nat
         /\ \A i \in 1..M : objs'[i].n \in Nat /\ objs'[i].m \in Nat
  <2>1. objs \in Seq(Objects) /\ objs' \in Seq(Objects)
    BY RecordObjs
  <2>2. \A i \in 1..Len(objs) : objs[i] \in Objects
    BY <2>1, ElementOfSeq
  <2>3. \A i \in 1..Len(objs') : objs'[i] \in Objects
    BY <2>1, ElementOfSeq
  <2> QED
    BY <2>1, <2>2, <2>3, LenProperties DEF Objects
<1> DEFINE an == AddsToEntry(kind, e).n
           am == AddsToEntry(kind, e).m
           fn == [i \in DOMAIN objs |-> objs[i].n]
           fm == [i \in DOMAIN objs |-> objs[i].m]
           gn == [i \in DOMAIN objs' |-> objs'[i].n]
           gm == [i \in DOMAIN objs' |-> objs'[i].m]
           id == Touched(e)
<1>3. an \in {0, 1} /\ am \in {0, 1}
  BY OneType DEF AddsToEntry
<1>4. \A o \in Objects : Bump(o, kind, e).n = o.n + an /\ Bump(o, kind, e).m = o.m + am
  BY DEF Bump, Objects
<1>5. total'.n = total.n + an /\ (kind = "fd" => total'.m = total.m + am)
  <2>1. total' = [n |-> total.n + AddsToTotal(kind, e).n, m |-> total.m + AddsToTotal(kind, e).m]
    BY DEF Record
  <2>2. AddsToTotal(kind, e).n = an /\ (kind = "fd" => AddsToTotal(kind, e).m = am)
    BY DEF AddsToTotal, AddsToEntry, One
  <2> QED
    BY <2>1, <2>2
<1>6. /\ total.n = SumTo(fn, N)
      /\ kind = "fd" => total.m = SumTo(fm, N)
  BY <1>2 DEF IInv, SumsMatch, SumOf, SumTo
<1>7. SumTo(gn, M) = SumTo(fn, N) + an /\ SumTo(gm, M) = SumTo(fm, N) + am
  <2>1. /\ \A i \in 1..N : fn[i] = objs[i].n /\ fm[i] = objs[i].m
        /\ \A i \in 1..M : gn[i] = objs'[i].n /\ gm[i] = objs'[i].m
    BY <1>2
  <2>2. /\ \A i \in 1..N : fn[i] \in Int /\ fm[i] \in Int
        /\ \A i \in 1..M : gn[i] \in Int /\ gm[i] \in Int
    BY <1>2, <2>1
  <2>3. CASE Tracks(order, e.key)
    <3>1. /\ M = N /\ id \in 1..N /\ objs'[id] = Bump(objs[id], kind, e)
          /\ \A i \in 1..N : i # id => objs'[i] = objs[i]
          /\ objs[id] \in Objects
      BY <1>2, <2>3, RecordObjs, ElementOfSeq
    <3>2. objs'[id].n = objs[id].n + an /\ objs'[id].m = objs[id].m + am
      BY <1>4, <3>1
    <3> HIDE DEF fn, fm, gn, gm, an, am, id
    <3>3. /\ \A i \in 1..N : gn[i] = IF i = id THEN fn[i] + an ELSE fn[i]
          /\ \A i \in 1..N : gm[i] = IF i = id THEN fm[i] + am ELSE fm[i]
          /\ an \in Int /\ am \in Int
      BY <1>3, <2>1, <3>1, <3>2
    <3>4. SumTo(gn, N) = SumTo(fn, N) + an
      <4>1. /\ id \in 1..N /\ an \in Int
            /\ \A i \in 1..N : fn[i] \in Int
            /\ \A i \in 1..N : gn[i] = IF i = id THEN fn[i] + an ELSE fn[i]
        BY <2>2, <3>1, <3>3, Zenon
      <4> QED
        BY <4>1, SumToExcept, Zenon
    <3>5. SumTo(gm, N) = SumTo(fm, N) + am
      <4>1. /\ id \in 1..N /\ am \in Int
            /\ \A i \in 1..N : fm[i] \in Int
            /\ \A i \in 1..N : gm[i] = IF i = id THEN fm[i] + am ELSE fm[i]
        BY <2>2, <3>1, <3>3, Zenon
      <4> QED
        BY <4>1, SumToExcept, Zenon
    <3> QED
      BY <3>1, <3>4, <3>5
  <2>4. CASE ~Tracks(order, e.key)
    <3>1. /\ M = N + 1 /\ id = N + 1 /\ objs'[id] = Bump(Fresh(e.key), kind, e)
          /\ \A i \in 1..N : i # id => objs'[i] = objs[i]
      BY <1>2, <2>4, RecordObjs DEF Touched
    <3>2. objs'[id].n = an /\ objs'[id].m = am
      <4>1. Fresh(e.key) \in Objects /\ Fresh(e.key).n = 0 /\ Fresh(e.key).m = 0
        BY <1>1, FreshType DEF Events, Fresh
      <4>2. Bump(Fresh(e.key), kind, e).n = 0 + an /\ Bump(Fresh(e.key), kind, e).m = 0 + am
        BY <1>4, <4>1
      <4> QED
        BY <1>3, <3>1, <4>2
    <3> HIDE DEF fn, fm, gn, gm, an, am, id
    <3>3. /\ \A i \in 1..N : fn[i] = gn[i] /\ fm[i] = gm[i]
          /\ gn[N + 1] = an /\ gm[N + 1] = am
      BY <2>1, <3>1, <3>2
    <3>4. SumTo(gn, N + 1) = SumTo(fn, N) + an
      BY <2>2, <3>1, <3>3, SumToAppend
    <3>5. SumTo(gm, N + 1) = SumTo(fm, N) + am
      BY <2>2, <3>1, <3>3, SumToAppend
    <3> QED
      BY <3>1, <3>4, <3>5
  <2> QED
    BY <2>3, <2>4
<1>8. total'.n = SumTo(gn, M) /\ (kind = "fd" => total'.m = SumTo(gm, M))
  BY <1>5, <1>6, <1>7
<1> QED
  BY <1>1, <1>2, <1>8 DEF SumsMatch, SumOf, SumTo

(* record keeps the invariant, whatever Snapshot is doing.                 *)
LEMMA RecordStep ==
  ASSUME IInv, NEW e \in EventsOf(kind), Record(e)
  PROVE  IInv'
<1> DEFINE k    == e.key
           hit  == Tracks(order, k)
           full == Evicts(order, k, Cap)
           id   == IF hit THEN slot[k] ELSE Len(objs) + 1
<1>1. e \in Events /\ k \in Keys
  BY DEF EventsOf, Events
<1>2. LruType' /\ LruExact'
  BY LruStep, TypeIsLruType DEF IInv
<1>3. /\ order' = Use(order, k, Cap)
      /\ slot' = Slots(k, id, full)
      /\ hit => objs' = [objs EXCEPT ![id] = Bump(objs[id], kind, e)]
      /\ ~hit => objs' = Append(objs, Bump(Fresh(k), kind, e))
      /\ evicted' = evicted + One(full)
      /\ total' = [n |-> total.n + AddsToTotal(kind, e).n,
                   m |-> total.m + AddsToTotal(kind, e).m]
  BY DEF Record
<1>4. /\ UNCHANGED <<kind, phase, todo, ranked, half, rows, atTotal, atLock, published>>
  BY DEF Record, snapshot
<1>5. /\ objs \in Seq(Objects) /\ Len(objs) \in Nat /\ order \in Seq(Keys) /\ Len(order) <= Cap
      /\ Len(order) \in Nat
      /\ slot \in [Keys -> 0..Len(objs)] /\ evicted \in Nat /\ total \in Counters
  BY LenProperties DEF IInv, TypeOK
<1>6. Distinct(order)
  BY ExactIsDistinct, TypeIsLruType DEF IInv
<1>7. Len(order') = IF hit \/ full THEN Len(order) ELSE Len(order) + 1
  BY <1>1, <1>3, <1>5, <1>6, CapPositive, UseLength
<1>8. \A x \in Keys : Tracks(order', x) <=>
         x = k \/ (Tracks(order, x) /\ ~(full /\ x = Oldest))
  BY <1>1, <1>3, <1>5, <1>6, CapPositive, UseTracks DEF Oldest
<1>9. hit => ~full
  BY DEF Evicts
<1>10. hit => slot[k] \in 1..Len(objs)
  BY <1>1, <1>5 DEF IInv, SlotsMatch
<1>11. \A x \in Keys : Tracks(order, x) => slot[x] \in 1..Len(objs) /\ objs[slot[x]].key = x
  BY <1>5 DEF IInv, SlotsMatch
<1>12. /\ objs' \in Seq(Objects)
       /\ Len(objs') = IF hit THEN Len(objs) ELSE Len(objs) + 1
       /\ id \in 1..Len(objs') /\ objs'[id].key = k
       /\ \A i \in 1..Len(objs) : objs'[i].key = objs[i].key
  BY RecordObjs DEF Touched
<1>13. Len(objs') \in Nat /\ Len(objs) <= Len(objs')
  BY <1>5, <1>12
<1> HIDE DEF id
<1>14. slot' \in [Keys -> 0..Len(objs')]
  <2>1. 0..Len(objs) \subseteq 0..Len(objs') /\ 1..Len(objs') \subseteq 0..Len(objs') /\ 0 \in 0..Len(objs')
    BY <1>5, <1>13
  <2> QED
    BY <1>3, <1>5, <1>12, <2>1 DEF Slots
<1>15. SlotsMatch'
  <2>1. evicted' = Len(objs') - Len(order')
    <3>1. evicted = Len(objs) - Len(order)
      BY DEF IInv, SlotsMatch
    <3>2. CASE hit
      BY <1>3, <1>5, <1>7, <1>9, <1>12, <3>1, <3>2 DEF One
    <3>3. CASE ~hit /\ full
      BY <1>3, <1>5, <1>7, <1>12, <3>1, <3>3 DEF One
    <3>4. CASE ~hit /\ ~full
      BY <1>3, <1>5, <1>7, <1>12, <3>1, <3>4 DEF One
    <3> QED
      BY <3>2, <3>3, <3>4
  <2>2. ASSUME NEW x \in Keys
        PROVE  IF Tracks(order', x) THEN slot'[x] # 0 /\ objs'[slot'[x]].key = x ELSE slot'[x] = 0
    <3>1. slot'[x] = IF x = k THEN id ELSE IF full /\ x = Oldest THEN 0 ELSE slot[x]
      BY <1>3 DEF Slots
    <3>2. CASE x = k
      <4>1. Tracks(order', x) /\ slot'[x] = id
        BY <1>8, <3>1, <3>2
      <4>2. id # 0
        BY <1>12
      <4> QED
        BY <1>12, <3>2, <4>1, <4>2
    <3>3. CASE x # k /\ full /\ x = Oldest
      BY <1>8, <3>1, <3>3
    <3>4. CASE x # k /\ ~(full /\ x = Oldest)
      <4>1. slot'[x] = slot[x] /\ (Tracks(order', x) <=> Tracks(order, x))
        BY <1>8, <3>1, <3>4
      <4>2. CASE Tracks(order, x)
        <5>1. slot[x] \in 1..Len(objs) /\ objs[slot[x]].key = x
          BY <1>11, <4>2
        <5>2. slot[x] # 0
          BY <5>1
        <5> QED
          BY <1>12, <4>1, <4>2, <5>1, <5>2
      <4>3. CASE ~Tracks(order, x)
        BY <4>1, <4>3 DEF IInv, SlotsMatch
      <4> QED
        BY <4>2, <4>3
    <3> QED
      BY <3>2, <3>3, <3>4
  <2> QED
    BY <2>1, <2>2 DEF SlotsMatch
<1>16. evicted' \in Nat /\ total' \in Counters
  <2>1. evicted' \in Nat
    BY <1>3, <1>5, OneType
  <2>2. total.n + AddsToTotal(kind, e).n \in Nat /\ total.m + AddsToTotal(kind, e).m \in Nat
    <3>1. AddsToTotal(kind, e).n \in {0, 1} /\ AddsToTotal(kind, e).m \in {0, 1}
      BY TotalsType
    <3>2. total.n \in Nat /\ total.m \in Nat
      BY <1>5 DEF Counters
    <3> QED
      BY <3>1, <3>2
  <2> QED
    BY <1>3, <2>1, <2>2 DEF Counters
<1>17. /\ todo' \in Seq(1..Len(objs')) /\ ranked' \in Seq(1..Len(objs'))
       /\ atLock' \in [live : SUBSET (1..Len(objs')), objs : Seq(Objects)]
  <2>1. 1..Len(objs) \subseteq 1..Len(objs')
    BY <1>5, <1>13
  <2>2. todo \in Seq(1..Len(objs)) /\ ranked \in Seq(1..Len(objs))
    BY DEF IInv, TypeOK
  <2>3. todo \in Seq(1..Len(objs')) /\ ranked \in Seq(1..Len(objs'))
    BY <2>1, <2>2, SeqMonotonic
  <2>4. atLock \in [live : SUBSET (1..Len(objs')), objs : Seq(Objects)]
    BY <2>1 DEF IInv, TypeOK
  <2> QED
    BY <1>4, <2>3, <2>4
<1>18. TypeOK'
  <2>1. /\ order' \in Seq(Keys) /\ Len(order') <= Cap'
        /\ seen' \in 0..MaxRecords /\ lastUse' \in [Keys -> 0..seen']
    BY <1>2 DEF LruType
  <2>2. /\ kind' \in Kinds /\ phase' \in {"idle", "rank", "read", "publish"}
        /\ half' \in Seq(Objects) /\ Len(half') <= 1 /\ rows' \in Seq(Rows)
        /\ atTotal' \in Counters /\ Len(published') <= 1
    BY <1>4 DEF IInv, TypeOK
  <2> QED
    BY <1>12, <1>14, <1>16, <1>17, <2>1, <2>2 DEF TypeOK
<1>19. Control'
  BY <1>4 DEF IInv, Control
<1> QED
  BY <1>2, <1>15, <1>18, <1>19, RecordSums DEF IInv

(***************************************************************************)
(* Snapshot leaves the aggregates alone; only its own variables move.      *)
(***************************************************************************)
Aggregates == <<kind, lru, total, history>>

(* What only speaks of the aggregates survives a step of Snapshot.         *)
LEMMA AggregatesKept ==
  ASSUME IInv, UNCHANGED Aggregates
  PROVE  LruExact' /\ SlotsMatch' /\ SumsMatch'
<1>1. UNCHANGED <<kind, order, slot, objs, evicted, total, seen, lastUse>>
  BY DEF Aggregates, lru, history
<1>2. Cap' = Cap
  BY DEF Cap
<1>3. LruExact'
  BY <1>1, <1>2 DEF IInv, LruExact
<1>4. SlotsMatch'
  BY <1>1 DEF IInv, SlotsMatch
<1>5. SumsMatch'
  BY <1>1 DEF IInv, SumsMatch, SumOf
<1> QED
  BY <1>3, <1>4, <1>5

(* The variables of Snapshot that TypeOK and Control speak about.          *)
SnapshotType ==
    /\ phase \in {"idle", "rank", "read", "publish"}
    /\ todo \in Seq(1..Len(objs)) /\ ranked \in Seq(1..Len(objs))
    /\ half \in Seq(Objects) /\ Len(half) <= 1
    /\ rows \in Seq(Rows) /\ atTotal \in Counters
    /\ atLock \in [live : SUBSET (1..Len(objs)), objs : Seq(Objects)]
    /\ Len(published) <= 1

(* A step of Snapshot needs to keep only its own types and control.        *)
LEMMA SnapshotKeeps ==
  ASSUME IInv, UNCHANGED Aggregates, SnapshotType', Control'
  PROVE  IInv'
<1>1. UNCHANGED <<kind, order, slot, objs, evicted, total, seen, lastUse>>
  BY DEF Aggregates, lru, history
<1>2. Cap' = Cap
  BY DEF Cap
<1>3. TypeOK'
  BY <1>1, <1>2 DEF IInv, TypeOK, SnapshotType
<1> QED
  BY <1>3, AggregatesKept DEF IInv

(* The pointers Snapshot copies are of existing entries.                   *)
LEMMA PointersType ==
  ASSUME IInv
  PROVE  /\ Pointers \in Seq(1..Len(objs)) /\ DOMAIN Pointers = 1..Len(order)
         /\ \A i \in 1..Len(order) : Pointers[i] \in 1..Len(objs)
<1>1. order \in Seq(Keys) /\ Len(order) \in Nat /\ slot \in [Keys -> 0..Len(objs)] /\ Len(objs) \in Nat
  BY LenProperties DEF IInv, TypeOK
<1>2. ASSUME NEW i \in 1..Len(order)
      PROVE  slot[order[i]] \in 1..Len(objs)
  <2>1. order[i] \in Keys /\ Tracks(order, order[i])
    BY <1>1, ElementOfSeq DEF Tracks
  <2>2. slot[order[i]] # 0 /\ slot[order[i]] \in 0..Len(objs)
    BY <1>1, <2>1 DEF IInv, SlotsMatch
  <2> QED
    BY <1>1, <2>2
<1>3. Pointers \in [1..Len(order) -> 1..Len(objs)]
  BY <1>2 DEF Pointers
<1> QED
  BY <1>1, <1>2, <1>3, FunctionIsSeq DEF Pointers

(* The part of Snapshot under the lock keeps the invariant.                *)
LEMMA SnapshotLockStep == ASSUME IInv, SnapshotLock PROVE IInv'
<1>1. UNCHANGED Aggregates /\ objs' = objs /\ kind' = kind
  BY DEF SnapshotLock, Aggregates, lru
<1>2. /\ objs \in Seq(Objects) /\ slot \in [Keys -> 0..Len(objs)] /\ Len(objs) \in Nat
      /\ total \in Counters /\ kind \in Kinds
  BY LenProperties DEF IInv, TypeOK
<1>3. half = <<>>
  BY DEF IInv, Control, SnapshotLock
<1>4. /\ todo' \in Seq(1..Len(objs)) /\ rows' \in Seq(Rows)
      /\ phase' \in {"publish", "read", "rank"}
      /\ phase' = "read" => kind = "fd"
      /\ phase' = "rank" => kind \notin {"fd", "syscall"}
  <2>1. CASE kind = "syscall"
    <3> DEFINE r == [i \in DOMAIN Pointers |-> Row(Pointers[i], objs[Pointers[i]])]
    <3>1. ASSUME NEW i \in 1..Len(order)
          PROVE  Row(Pointers[i], objs[Pointers[i]]) \in Rows
      <4>1. Pointers[i] \in 1..Len(objs)
        BY PointersType
      <4>2. Pointers[i] \in Nat
        BY <1>2, <4>1
      <4> QED
        BY <1>2, <4>1, <4>2, ElementOfSeq, RowType
    <3>2. r \in [1..Len(order) -> Rows]
      BY <3>1, PointersType
    <3>3. Len(order) \in Nat
      BY LenProperties DEF IInv, TypeOK
    <3>4. r \in Seq(Rows)
      BY <3>2, <3>3, FunctionIsSeq
    <3>5. rows' = r /\ phase' = "publish" /\ todo' = <<>>
      BY <2>1 DEF SnapshotLock
    <3> HIDE DEF r
    <3> QED
      BY <3>4, <3>5
  <2>2. CASE kind # "syscall"
    <3>1. rows' = <<>> /\ todo' = Pointers /\ phase' = IF kind = "fd" THEN "read" ELSE "rank"
      BY <2>2 DEF SnapshotLock
    <3>2. todo' \in Seq(1..Len(objs)) /\ rows' \in Seq(Rows)
      BY <3>1, PointersType
    <3>3. CASE kind = "fd"
      BY <3>1, <3>2, <3>3
    <3>4. CASE kind # "fd"
      BY <2>2, <3>1, <3>2, <3>4
    <3> QED
      BY <3>3, <3>4
  <2> QED
    BY <2>1, <2>2
<1>5. /\ ranked' = ranked /\ half' = half /\ atTotal' = total /\ published' = <<>>
      /\ atLock' = [live |-> {slot[k] : k \in Keys} \ {0}, objs |-> objs]
  BY DEF SnapshotLock
<1>6. {slot[k] : k \in Keys} \ {0} \subseteq 1..Len(objs)
  BY <1>2
<1>7. SnapshotType'
  <2>1. atLock' \in [live : SUBSET (1..Len(objs)), objs : Seq(Objects)]
    BY <1>2, <1>5, <1>6
  <2>2. ranked \in Seq(1..Len(objs)) /\ half \in Seq(Objects) /\ Len(half) <= 1
    BY DEF IInv, TypeOK
  <2>3. Len(<<>>) <= 1
    OBVIOUS
  <2> QED
    BY <1>1, <1>2, <1>4, <1>5, <2>1, <2>2, <2>3 DEF SnapshotType
<1>8. Control'
  BY <1>1, <1>2, <1>3, <1>4, <1>5, KindsAssumption DEF Control
<1> QED
  BY <1>1, <1>7, <1>8, SnapshotKeeps

(* Inserting one pointer into the ranking keeps the invariant.             *)
LEMMA RankOneStep == ASSUME IInv, RankOne PROVE IInv'
<1>1. UNCHANGED Aggregates /\ objs' = objs /\ kind' = kind
  BY DEF RankOne, Aggregates, lru
<1> DEFINE Ids == 1..Len(objs)
           id  == Head(todo)
<1>2. todo \in Seq(Ids) /\ todo # <<>> /\ ranked \in Seq(Ids)
  BY DEF IInv, TypeOK, RankOne
<1>3. id \in Ids /\ Tail(todo) \in Seq(Ids)
  BY <1>2, HeadTailProperties
<1>4. PICK at \in 0..Len(ranked) :
        ranked' = SubSeq(ranked, 1, at) \o <<id>> \o SubSeq(ranked, at + 1, Len(ranked))
  BY DEF RankOne
<1> HIDE DEF Ids, id
<1>5. SubSeq(ranked, 1, at) \in Seq(Ids) /\ SubSeq(ranked, at + 1, Len(ranked)) \in Seq(Ids)
  <2>1. Len(ranked) \in Nat /\ at \in Int /\ at <= Len(ranked) /\ 0 <= at
    BY <1>2, LenProperties
  <2>2. \A i \in 1..at : i \in 1..Len(ranked)
    BY <2>1
  <2>3. \A i \in (at + 1)..Len(ranked) : i \in 1..Len(ranked)
    BY <2>1
  <2>4. \A i \in 1..Len(ranked) : ranked[i] \in Ids
    BY <1>2, ElementOfSeq
  <2>5. SubSeq(ranked, 1, at) \in Seq(Ids)
    BY <2>1, <2>2, <2>4, SubSeqProperties
  <2>6. SubSeq(ranked, at + 1, Len(ranked)) \in Seq(Ids)
    BY <2>1, <2>3, <2>4, SubSeqProperties
  <2> QED
    BY <2>5, <2>6
<1>6. <<id>> \in Seq(Ids)
  BY <1>3
<1>7. ranked' \in Seq(Ids)
  BY <1>4, <1>5, <1>6, ConcatProperties
<1>8. /\ todo' = Tail(todo) /\ phase' = phase /\ half' = half /\ rows' = rows
      /\ atTotal' = atTotal /\ atLock' = atLock /\ published' = published /\ phase = "rank"
  BY DEF RankOne
<1>9. SnapshotType'
  BY <1>1, <1>3, <1>7, <1>8 DEF SnapshotType, IInv, TypeOK, Ids
<1>10. Control'
  BY <1>1, <1>8 DEF IInv, Control
<1> QED
  BY <1>1, <1>9, <1>10, SnapshotKeeps

(* Cutting the ranking keeps the invariant.                                *)
LEMMA RankDoneStep == ASSUME IInv, RankDone PROVE IInv'
<1>1. UNCHANGED Aggregates /\ objs' = objs /\ kind' = kind
  BY DEF RankDone, Aggregates, lru
<1> DEFINE Ids == 1..Len(objs)
           n   == AtMostTopN(Len(ranked))
<1>2. ranked \in Seq(Ids) /\ Len(ranked) \in Nat
  BY LenProperties DEF IInv, TypeOK
<1>3. n \in Int /\ n <= Len(ranked)
  BY <1>2, TopNAssumption DEF AtMostTopN
<1> HIDE DEF Ids, n
<1>4. \A i \in 1..n : ranked[i] \in Ids
  <2>1. \A i \in 1..n : i \in 1..Len(ranked)
    BY <1>2, <1>3
  <2> QED
    BY <1>2, <2>1, ElementOfSeq
<1>5. SubSeq(ranked, 1, n) \in Seq(Ids)
  BY <1>3, <1>4, SubSeqProperties
<1>6. todo' \in Seq(Ids)
  BY <1>5 DEF RankDone, Top, n
<1>7. /\ ranked' = <<>> /\ phase' = "read" /\ half' = half /\ rows' = rows /\ phase = "rank"
      /\ atTotal' = atTotal /\ atLock' = atLock /\ published' = published
  BY DEF RankDone
<1>8. SnapshotType'
  <2>1. <<>> \in Seq(Ids)
    OBVIOUS
  <2> QED
    BY <1>1, <1>6, <1>7, <2>1 DEF SnapshotType, IInv, TypeOK, Ids
<1>9. Control'
  BY <1>1, <1>7 DEF IInv, Control
<1> QED
  BY <1>1, <1>8, <1>9, SnapshotKeeps

(* The first load of an entry keeps the invariant.                         *)
LEMMA ReadFirstStep == ASSUME IInv, ReadFirst PROVE IInv'
<1>1. UNCHANGED Aggregates /\ objs' = objs /\ kind' = kind
  BY DEF ReadFirst, Aggregates, lru
<1>2. todo \in Seq(1..Len(objs)) /\ todo # <<>> /\ objs \in Seq(Objects)
  BY DEF IInv, TypeOK, ReadFirst
<1>3. objs[Head(todo)] \in Objects
  BY <1>2, HeadTailProperties, ElementOfSeq
<1>4. half' \in Seq(Objects) /\ Len(half') <= 1
  BY <1>3 DEF ReadFirst
<1>5. /\ phase' = phase /\ todo' = todo /\ ranked' = ranked /\ rows' = rows /\ phase = "read"
      /\ atTotal' = atTotal /\ atLock' = atLock /\ published' = published
  BY DEF ReadFirst
<1>6. SnapshotType'
  BY <1>1, <1>4, <1>5 DEF SnapshotType, IInv, TypeOK
<1>7. Control'
  BY <1>1, <1>2, <1>5 DEF IInv, Control
<1> QED
  BY <1>1, <1>6, <1>7, SnapshotKeeps

(* The second load, which completes a row, keeps the invariant.            *)
LEMMA ReadSecondStep == ASSUME IInv, ReadSecond PROVE IInv'
<1>1. UNCHANGED Aggregates /\ objs' = objs /\ kind' = kind
  BY DEF ReadSecond, Aggregates, lru
<1>2. /\ todo \in Seq(1..Len(objs)) /\ todo # <<>> /\ objs \in Seq(Objects) /\ Len(objs) \in Nat
      /\ half \in Seq(Objects) /\ half # <<>> /\ kind \in {"fd", "tcp", "sched"}
  BY LenProperties DEF IInv, TypeOK, Control, ReadSecond
<1> DEFINE id    == Head(todo)
           first == half[1]
           then  == Row(id, objs[id])
           r     == CASE kind = "fd"    -> [then EXCEPT !.delta = first.n - first.m]
                      [] kind = "sched" -> [then EXCEPT !.n = first.n]
                      [] kind = "tcp"   -> [then EXCEPT !.hi = first.hi]
<1>3. id \in 1..Len(objs) /\ Tail(todo) \in Seq(1..Len(objs))
  BY <1>2, HeadTailProperties
<1>4. then \in Rows
  <2>1. id \in Nat /\ objs[id] \in Objects
    BY <1>2, <1>3, ElementOfSeq
  <2> HIDE DEF id
  <2> QED
    BY <2>1, RowType
<1>5. first \in Objects
  <2>1. Len(half) \in Nat \ {0}
    BY <1>2, EmptySeq
  <2>2. 1 \in 1..Len(half)
    BY <2>1
  <2> QED
    BY <1>2, <2>2, ElementOfSeq
<1> HIDE DEF id, first, then
<1>6. r \in Rows
  <2>1. first.n - first.m \in Int /\ first.n \in Nat /\ first.hi \in Latencies
    BY <1>5 DEF Objects
  <2>2. CASE kind = "fd"
    BY <1>4, <2>1, <2>2 DEF Rows
  <2>3. CASE kind = "sched"
    BY <1>4, <2>1, <2>3 DEF Rows
  <2>4. CASE kind = "tcp"
    BY <1>4, <2>1, <2>4 DEF Rows
  <2> QED
    BY <1>2, <2>2, <2>3, <2>4
<1>7. rows' = Append(rows, r)
  BY DEF ReadSecond, id, first, then
<1> HIDE DEF r
<1>8. rows' \in Seq(Rows)
  BY <1>6, <1>7 DEF IInv, TypeOK
<1>9. /\ half' = <<>> /\ todo' = Tail(todo) /\ phase' = phase /\ ranked' = ranked
      /\ atTotal' = atTotal /\ atLock' = atLock /\ published' = published
  BY DEF ReadSecond
<1>10. SnapshotType'
  <2>1. <<>> \in Seq(Objects) /\ Len(<<>>) <= 1
    OBVIOUS
  <2> QED
    BY <1>1, <1>3, <1>8, <1>9, <2>1 DEF SnapshotType, IInv, TypeOK
<1>11. Control'
  BY <1>1, <1>9 DEF IInv, Control
<1> QED
  BY <1>1, <1>10, <1>11, SnapshotKeeps

(* Publishing the rows keeps the invariant.                                *)
LEMMA PublishStep == ASSUME IInv, Publish PROVE IInv'
<1>1. UNCHANGED Aggregates /\ objs' = objs /\ kind' = kind
  BY DEF Publish, Aggregates, lru
<1>2. /\ phase' = "idle" /\ rows' = <<>> /\ atTotal' = [n |-> 0, m |-> 0] /\ atLock' = NotLocked
      /\ todo' = todo /\ ranked' = ranked /\ half' = half
  BY DEF Publish
<1>3. Len(published') <= 1
  <2>1. PICK final : published' = <<[total |-> atTotal, rows |-> Top(final)]>>
    BY DEF Publish
  <2> QED
    BY <2>1
<1>4. half = <<>>
  BY DEF IInv, Control, Publish
<1>5. /\ <<>> \in Seq(Rows) /\ [n |-> 0, m |-> 0] \in Counters
      /\ NotLocked \in [live : SUBSET (1..Len(objs)), objs : Seq(Objects)]
  BY DEF Counters, NotLocked
<1>6. SnapshotType'
  BY <1>1, <1>2, <1>3, <1>5 DEF SnapshotType, IInv, TypeOK
<1>7. Control'
  BY <1>2, <1>4 DEF Control
<1> QED
  BY <1>1, <1>6, <1>7, SnapshotKeeps

(***************************************************************************)
(* The invariant, and what follows from it.                                *)
(***************************************************************************)
(* The initial state satisfies the invariant.                              *)
LEMMA InvInit == Init => IInv
<1> SUFFICES ASSUME Init PROVE IInv
  OBVIOUS
<1>1. /\ order = <<>> /\ objs = <<>> /\ evicted = 0 /\ seen = 0 /\ half = <<>>
      /\ slot = [k \in Keys |-> 0] /\ lastUse = [k \in Keys |-> 0] /\ phase = "idle"
  BY DEF Init
<1>2. Len(order) = 0 /\ Len(objs) = 0 /\ \A k \in Keys : ~Tracks(order, k)
  BY <1>1 DEF Tracks
<1>3. TypeOK
  <2>1. /\ order \in Seq(Keys) /\ Len(order) <= Cap
        /\ slot \in [Keys -> 0..Len(objs)] /\ objs \in Seq(Objects)
        /\ evicted \in Nat /\ seen \in 0..MaxRecords /\ lastUse \in [Keys -> 0..seen]
    <3>1. 0 \in 0..Len(objs) /\ 0 \in 0..seen /\ 0 \in 0..MaxRecords
      BY <1>1, <1>2, MaxRecordsAssumption
    <3>2. order \in Seq(Keys) /\ objs \in Seq(Objects) /\ Len(order) <= Cap /\ evicted \in Nat
      BY <1>1, <1>2, CapPositive
    <3> QED
      BY <1>1, <3>1, <3>2
  <2>2. /\ kind \in Kinds /\ total \in Counters /\ atTotal \in Counters
        /\ phase \in {"idle", "rank", "read", "publish"}
    BY DEF Init, Counters
  <2>3. /\ todo \in Seq(1..Len(objs)) /\ ranked \in Seq(1..Len(objs))
        /\ half \in Seq(Objects) /\ Len(half) <= 1 /\ rows \in Seq(Rows) /\ Len(published) <= 1
    BY DEF Init
  <2>4. atLock \in [live : SUBSET (1..Len(objs)), objs : Seq(Objects)]
    BY DEF Init, NotLocked
  <2> QED
    BY <2>1, <2>2, <2>3, <2>4 DEF TypeOK
<1>4. LruExact
  BY <1>1, <1>2 DEF LruExact
<1>5. SlotsMatch
  BY <1>1, <1>2 DEF SlotsMatch
<1>6. Control
  BY <1>1 DEF Control
<1>7. SumsMatch
  <2>1. ASSUME NEW f PROVE SumOf(f) = 0
    <3>1. SumTo(f, 0) = 0
      BY SumToIs
    <3> QED
      BY <1>2, <3>1 DEF SumOf, SumTo
  <2> QED
    BY <2>1 DEF Init, SumsMatch
<1> QED
  BY <1>3, <1>4, <1>5, <1>6, <1>7 DEF IInv

(* A stuttering step keeps the invariant.                                  *)
LEMMA InvStutter == ASSUME IInv, UNCHANGED vars PROVE IInv'
<1>1. UNCHANGED Aggregates
  BY DEF vars, Aggregates
<1>2. SnapshotType'
  <2>1. UNCHANGED <<objs, phase, todo, ranked, half, rows, atTotal, atLock, published>>
    BY DEF vars, lru, snapshot
  <2> QED
    BY <2>1 DEF IInv, TypeOK, SnapshotType
<1>3. Control'
  BY DEF vars, snapshot, IInv, Control, lru
<1> QED
  BY <1>1, <1>2, <1>3, SnapshotKeeps

(* The inductive invariant holds in every state of every behaviour.        *)
THEOREM Invariance == Spec => []IInv
<1>1. Init => IInv
  BY InvInit
<1>2. IInv /\ [Next]_vars => IInv'
  <2> SUFFICES ASSUME IInv, [Next]_vars PROVE IInv'
    OBVIOUS
  <2>1. ASSUME NEW e \in EventsOf(kind), Record(e) PROVE IInv'
    BY <2>1, RecordStep
  <2>2. CASE SnapshotLock
    BY <2>2, SnapshotLockStep
  <2>3. CASE RankOne
    BY <2>3, RankOneStep
  <2>4. CASE RankDone
    BY <2>4, RankDoneStep
  <2>5. CASE ReadFirst
    BY <2>5, ReadFirstStep
  <2>6. CASE ReadSecond
    BY <2>6, ReadSecondStep
  <2>7. CASE Publish
    BY <2>7, PublishStep
  <2>8. CASE UNCHANGED vars
    BY <2>8, InvStutter
  <2> QED
    BY <2>1, <2>2, <2>3, <2>4, <2>5, <2>6, <2>7, <2>8 DEF Next
<1> QED
  BY <1>1, <1>2, PTL DEF Spec

(* Every variable keeps its type, whatever Snapshot and record interleave. *)
THEOREM TypeCorrect == Spec => []TypeOK
<1>1. IInv => TypeOK
  BY DEF IInv
<1> QED
  BY <1>1, Invariance, PTL

(* For every capacity and every set of keys the LRU tracks exactly the     *)
(* keys used most recently, newest first.                                  *)
THEOREM LruExactHolds == Spec => []LruExact
<1>1. IInv => LruExact
  BY DEF IInv
<1> QED
  BY <1>1, Invariance, PTL

(* Tracked keys have an object of their own, no other key has one, the     *)
(* eviction counter is exactly the number of objects given up, and the     *)
(* totals are the sums over all objects: no entry leaks from the map or    *)
(* vanishes without being counted, and no event is lost or counted twice.  *)
THEOREM TotalsAccountedFor == Spec => []EntriesAccountForTotals
<1>1. IInv => EntriesAccountForTotals
  BY DEF IInv, SlotsMatch, SumsMatch, EntriesAccountForTotals
<1> QED
  BY <1>1, Invariance, PTL
=============================================================================
