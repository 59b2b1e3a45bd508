--------------------------- MODULE KeyedSnapshotProofs ---------------------------
(***************************************************************************)
(* Snapshot of a keyed collector: what it publishes, although record goes  *)
(* on while it ranks and reads, and what it publishes when record does not *)
(***************************************************************************)
EXTENDS KeyedCollectorProofs

(***************************************************************************)
(* The inductive invariant.  Snapshot works on the objects it saw under    *)
(* the lock: first they are ranked (todo and ranked share them out), then  *)
(* they are read in an order that no longer changes (Picked).              *)
(***************************************************************************)
NoLess(o, p) == o.key = p.key /\ o.n <= p.n /\ o.m <= p.m /\ o.hi <= p.hi

(* Objects only grow, and those seen under the lock have different keys.   *)
Held ==
    phase # "idle" =>
        /\ atLock.live \subseteq 1..Len(atLock.objs) /\ Len(atLock.objs) <= Len(objs)
        /\ \A id \in 1..Len(atLock.objs) : NoLess(atLock.objs[id], objs[id])
        /\ \A a, b \in atLock.live : atLock.objs[a].key = atLock.objs[b].key => a = b

(* The ranking that the counters seen under the lock call for.             *)
Better(a, b) == RowBefore(kind, Row(a, atLock.objs[a]), Row(b, atLock.objs[b]))

(* The pointers still to be ranked and the ranked ones are all that there  *)
(* were, and if nothing was recorded those that are ranked are in order.   *)
Ranking ==
    /\ phase # "rank" => ranked = <<>>
    /\ phase = "rank" =>
        /\ rows = <<>>
        /\ \A i \in 1..Len(todo) : todo[i] \in atLock.live
        /\ \A i \in 1..Len(ranked) : ranked[i] \in atLock.live
        /\ Distinct(todo) /\ Distinct(ranked)
        /\ \A i \in 1..Len(todo), j \in 1..Len(ranked) : todo[i] # ranked[j]
        /\ \A id \in atLock.live : Tracks(todo, id) \/ Tracks(ranked, id)
        /\ Len(todo) + Len(ranked) = Cardinality(atLock.live)
        /\ objs = atLock.objs =>
              \A i, j \in 1..Len(ranked) : i < j => ~Better(ranked[j], ranked[i])

(* syscall and fd rank after reading, and so read everything.              *)
Whole == kind \in {"syscall", "fd"}

(* The objects of the rows, built or to be built.                          *)
PickedOf(built, left) ==
    [i \in 1..(Len(built) + Len(left)) |->
        IF i <= Len(built) THEN built[i].obj ELSE left[i - Len(built)]]

Picked == PickedOf(rows, todo)

Reading ==
    phase \in {"read", "publish"} =>
        /\ \A i \in 1..Len(Picked) : Picked[i] \in atLock.live
        /\ Distinct(Picked)
        /\ Len(Picked) = IF Whole THEN Cardinality(atLock.live)
                                  ELSE AtMostTopN(Cardinality(atLock.live))
        /\ Whole => \A id \in atLock.live : Tracks(Picked, id)
        /\ objs = atLock.objs /\ ~Whole =>
              /\ \A i, j \in 1..Len(Picked) : i < j => ~Better(Picked[j], Picked[i])
              /\ \A id \in atLock.live :
                    Tracks(Picked, id) \/ \A i \in 1..Len(Picked) : ~Better(id, Picked[i])
        /\ phase = "publish" => todo = <<>> /\ kind = "syscall"

(* What was loaded of an entry is no older than the lock.                  *)
Halfway ==
    half # <<>> =>
        LET id == Head(todo)
        IN  /\ Between(atLock.objs[id], half[1], objs[id])
            /\ objs = atLock.objs => half[1] = atLock.objs[id]

RowsAreTrue ==
    phase \in {"read", "publish"} =>
        \A i \in 1..Len(rows) :
            LET id == rows[i].obj
            IN  /\ rows[i].key = atLock.objs[id].key
                /\ Between(atLock.objs[id], rows[i], objs[id])
                /\ objs = atLock.objs => rows[i] = Row(id, atLock.objs[id])

SInv == Held /\ Ranking /\ Reading /\ Halfway /\ RowsAreTrue

(***************************************************************************)
(* Lemmas about the operators                                              *)
(***************************************************************************)
(* "less" of every collector is a strict weak order.                       *)
LEMMA RankIsWeakOrder ==
  ASSUME NEW k \in {"syscall", "fd", "tcp", "sched"},
         NEW x \in Rows, NEW y \in Rows, NEW z \in Rows
  PROVE  /\ RowBefore(k, x, y) => ~RowBefore(k, y, x)
         /\ ~RowBefore(k, x, y) /\ ~RowBefore(k, y, z) => ~RowBefore(k, x, z)
<1>1. /\ x.n \in Nat /\ y.n \in Nat /\ z.n \in Nat
      /\ x.hi \in Nat /\ y.hi \in Nat /\ z.hi \in Nat
      /\ x.delta \in Int /\ y.delta \in Int /\ z.delta \in Int
  BY LatenciesAssumption DEF Rows
<1>2. CASE k = "fd"
  BY <1>1, <1>2 DEF RowBefore
<1>3. CASE k = "syscall"
  BY <1>1, <1>3 DEF RowBefore, Before
<1>4. CASE k = "tcp"
  BY <1>1, <1>4 DEF RowBefore, Before
<1>5. CASE k = "sched"
  BY <1>1, <1>5 DEF RowBefore, Before
<1> QED
  BY <1>2, <1>3, <1>4, <1>5

(* tcp and sched rank entries as they would rank their rows.               *)
LEMMA EntriesRankAsRows ==
  ASSUME NEW k \in {"tcp", "sched"}, NEW a, NEW b, NEW o, NEW p
  PROVE  Before(k, o, p) <=> RowBefore(k, Row(a, o), Row(b, p))
  BY DEF Before, RowBefore, Row

(* An insertion makes room at its place and moves what follows.            *)
Inserted(s, at, x) == SubSeq(s, 1, at) \o <<x>> \o SubSeq(s, at + 1, Len(s))

(* Every element before the place stays, every other one moves by one.     *)
LEMMA InsertProperties ==
  ASSUME NEW S, NEW s \in Seq(S), NEW x \in S, NEW at \in 0..Len(s)
  PROVE  /\ Len(Inserted(s, at, x)) = Len(s) + 1 /\ Len(s) \in Nat
         /\ \A i \in 1..(Len(s) + 1) :
               Inserted(s, at, x)[i] =
                  IF i <= at THEN s[i] ELSE IF i = at + 1 THEN x ELSE s[i - 1]
<1> DEFINE u == SubSeq(s, 1, at)
           v == SubSeq(s, at + 1, Len(s))
           o == <<x>>
           t == u \o o \o v
<1>1. Len(s) \in Nat /\ at \in Nat /\ at <= Len(s) /\ \A i \in 1..Len(s) : s[i] \in S
  BY LenProperties, ElementOfSeq
<1>2. PICK n \in Nat : n = Len(s)
  BY <1>1
<1>3. u \in Seq(S) /\ Len(u) = at /\ \A i \in 1..at : u[i] = s[i]
  <2>1. \A i \in 1..at : s[i] \in S
    BY <1>1
  <2>2. /\ u \in Seq(S) /\ Len(u) = (IF 1 <= at THEN at - 1 + 1 ELSE 0)
        /\ \A i \in 1..(at - 1 + 1) : u[i] = s[1 + i - 1]
    BY <1>1, <2>1, SubSeqProperties
  <2> HIDE DEF u
  <2>3. \A i \in 1..at : u[i] = s[i]
    <3> SUFFICES ASSUME NEW i \in 1..at PROVE u[i] = s[i]
      OBVIOUS
    <3>1. i \in 1..(at - 1 + 1) /\ 1 + i - 1 = i
      BY <1>1
    <3> QED
      BY <2>2, <3>1
  <2> QED
    BY <1>1, <2>2, <2>3
<1>4. v \in Seq(S) /\ Len(v) = n - at /\ \A i \in 1..(n - at) : v[i] = s[at + i]
  <2>1. \A i \in (at + 1)..Len(s) : s[i] \in S
    BY <1>1
  <2>2. at + 1 \in Int /\ Len(s) \in Int
    BY <1>1
  <2>3. /\ v \in Seq(S) /\ Len(v) = (IF at + 1 <= Len(s) THEN Len(s) - (at + 1) + 1 ELSE 0)
        /\ \A i \in 1..(Len(s) - (at + 1) + 1) : v[i] = s[(at + 1) + i - 1]
    BY <2>1, <2>2, SubSeqProperties
  <2> HIDE DEF v
  <2>4. \A i \in 1..(n - at) : v[i] = s[at + i]
    <3> SUFFICES ASSUME NEW i \in 1..(n - at) PROVE v[i] = s[at + i]
      OBVIOUS
    <3>1. i \in 1..(Len(s) - (at + 1) + 1) /\ (at + 1) + i - 1 = at + i
      BY <1>1, <1>2
    <3> QED
      BY <2>3, <3>1
  <2> QED
    BY <1>1, <1>2, <2>3, <2>4
<1>5. o \in Seq(S) /\ Len(o) = 1 /\ o[1] = x
  OBVIOUS
<1> HIDE DEF u, v, o
<1>6. /\ u \o o \in Seq(S) /\ Len(u \o o) = at + 1
      /\ \A i \in 1..(at + 1) : (u \o o)[i] = IF i <= at THEN s[i] ELSE x
  <2>1. /\ u \o o \in Seq(S) /\ Len(u \o o) = Len(u) + Len(o)
        /\ \A i \in 1..(Len(u) + Len(o)) : (u \o o)[i] = IF i <= Len(u) THEN u[i] ELSE o[i - Len(u)]
    BY <1>3, <1>5, ConcatProperties
  <2>2. Len(u) = at /\ Len(o) = 1 /\ \A i \in 1..(at + 1) : i <= at \/ i - at = 1
    BY <1>1, <1>3, <1>5
  <2>3. ASSUME NEW i \in 1..(at + 1) PROVE (u \o o)[i] = IF i <= at THEN s[i] ELSE x
    <3>1. (u \o o)[i] = IF i <= at THEN u[i] ELSE o[i - at]
      BY <2>1, <2>2
    <3>2. CASE i <= at
      <4>1. i \in 1..at
        BY <3>2
      <4> QED
        BY <1>3, <3>1, <3>2, <4>1
    <3>3. CASE ~(i <= at)
      BY <1>5, <2>2, <3>1, <3>3
    <3> QED
      BY <3>2, <3>3
  <2> QED
    BY <2>1, <2>2, <2>3
<1> DEFINE w == u \o o
<1> HIDE DEF w
<1>7. /\ t \in Seq(S) /\ Len(t) = n + 1
      /\ \A i \in 1..(n + 1) : t[i] = IF i <= at + 1 THEN w[i] ELSE v[i - (at + 1)]
  <2>1. /\ w \in Seq(S) /\ Len(w) = at + 1 /\ t = w \o v
    BY <1>6 DEF w
  <2>2. /\ w \o v \in Seq(S) /\ Len(w \o v) = Len(w) + Len(v)
        /\ \A i \in 1..(Len(w) + Len(v)) : (w \o v)[i] = IF i <= Len(w) THEN w[i] ELSE v[i - Len(w)]
    BY <1>4, <2>1, ConcatProperties
  <2>3. Len(w) + Len(v) = n + 1
    BY <1>1, <1>2, <1>4, <2>1
  <2> HIDE DEF t
  <2> QED
    BY <2>1, <2>2, <2>3
<1> HIDE DEF t
<1>8. ASSUME NEW i \in 1..(n + 1)
      PROVE  t[i] = IF i <= at THEN s[i] ELSE IF i = at + 1 THEN x ELSE s[i - 1]
  <2>1. CASE i <= at + 1
    <3>1. i \in 1..(at + 1)
      BY <2>1
    <3>2. t[i] = IF i <= at THEN s[i] ELSE x
      BY <1>6, <1>7, <2>1, <3>1 DEF w
    <3> QED
      BY <1>1, <2>1, <3>2
  <2>2. CASE ~(i <= at + 1)
    <3>1. i - (at + 1) \in 1..(n - at) /\ at + (i - (at + 1)) = i - 1 /\ ~(i <= at) /\ i # at + 1
      BY <1>1, <2>2
    <3>2. t[i] = v[i - (at + 1)]
      BY <1>7, <2>2
    <3> QED
      BY <1>4, <3>1, <3>2
  <2> QED
    BY <2>1, <2>2
<1>9. /\ Len(t) = Len(s) + 1 /\ Len(s) \in Nat
      /\ \A i \in 1..(Len(s) + 1) :
            t[i] = IF i <= at THEN s[i] ELSE IF i = at + 1 THEN x ELSE s[i - 1]
  BY <1>2, <1>7, <1>8
<1> QED
  BY <1>9, Zenon DEF t, u, v, o, Inserted

(* The first rows.                                                         *)
LEMMA TopProperties ==
  ASSUME NEW S, NEW s \in Seq(S)
  PROVE  /\ Top(s) \in Seq(S) /\ Len(Top(s)) = AtMostTopN(Len(s))
         /\ Len(Top(s)) \in Nat /\ Len(Top(s)) <= Len(s)
         /\ \A i \in 1..Len(Top(s)) : Top(s)[i] = s[i]
<1>1. PICK n \in Nat : n = Len(s)
  BY LenProperties
<1>2. PICK m \in Nat : m = AtMostTopN(Len(s)) /\ m <= n
  BY <1>1, TopNAssumption DEF AtMostTopN
<1>3. \A i \in 1..m : s[i] \in S
  <2>1. \A i \in 1..m : i \in 1..Len(s)
    BY <1>1, <1>2
  <2> QED
    BY <2>1, ElementOfSeq
<1>4. Top(s) = SubSeq(s, 1, m)
  BY <1>2 DEF Top
<1>5. /\ Top(s) \in Seq(S) /\ Len(Top(s)) = (IF 1 <= m THEN m - 1 + 1 ELSE 0)
      /\ \A i \in 1..(m - 1 + 1) : Top(s)[i] = s[1 + i - 1]
  BY <1>3, <1>4, SubSeqProperties
<1>6. Len(Top(s)) = m
  BY <1>5
<1>7. ASSUME NEW i \in 1..m PROVE Top(s)[i] = s[i]
  <2>1. i \in 1..(m - 1 + 1) /\ 1 + i - 1 = i
    OBVIOUS
  <2> QED
    BY <1>5, <2>1
<1> QED
  BY <1>1, <1>2, <1>5, <1>6, <1>7

(* p tells where each element of t comes from in s; all are used.          *)
Rearranges(p, s, t) ==
    /\ p \in [1..Len(s) -> 1..Len(s)]
    /\ \A i \in 1..Len(s) : t[i] = s[p[i]]
    /\ \A i, j \in 1..Len(s) : i # j => p[i] # p[j]
    /\ \A j \in 1..Len(s) : \E i \in 1..Len(s) : p[i] = j

(* Sorting rearranges: every row is in it, once, and none comes before one *)
(* that ranks before it.                                                   *)
LEMMA SortedProperties ==
  ASSUME NEW k, NEW S, NEW s \in Seq(S), NEW t \in Sorted(k, s)
  PROVE  /\ t \in Seq(S) /\ Len(t) = Len(s)
         /\ \E p : Rearranges(p, s, t)
         /\ \A i, j \in 1..Len(s) : i < j => ~RowBefore(k, t[j], t[i])
<1>1. PICK n \in Nat : n = Len(s) /\ DOMAIN s = 1..n
  BY LenProperties
<1>2. PICK p \in [1..n -> 1..n] :
        /\ \A i, j \in 1..n : i # j => p[i] # p[j]
        /\ t = [i \in 1..n |-> s[p[i]]]
  <2> DEFINE places == {q \in [DOMAIN s -> DOMAIN s] : \A i, j \in DOMAIN s : i # j => q[i] # q[j]}
  <2>1. t \in {[i \in DOMAIN s |-> s[q[i]]] : q \in places}
    BY DEF Sorted
  <2>2. PICK q \in places : t = [i \in DOMAIN s |-> s[q[i]]]
    BY <2>1
  <2>3. /\ q \in [1..n -> 1..n] /\ t = [i \in 1..n |-> s[q[i]]]
        /\ \A i, j \in 1..n : i # j => q[i] # q[j]
    BY <1>1, <2>2
  <2> QED
    BY <2>3
<1>3. \A i \in 1..n : s[p[i]] \in S
  BY <1>1, ElementOfSeq
<1>4. t \in [1..n -> S] /\ \A i \in 1..n : t[i] = s[p[i]]
  BY <1>2, <1>3
<1>5. t \in Seq(S) /\ Len(t) = n /\ DOMAIN t = 1..n
  BY <1>4, FunctionIsSeq
<1>6. p \in Surjection(1..n, 1..n)
  <2>1. p \in Injection(1..n, 1..n)
    BY <1>2, Fun_IsInj
  <2>2. IsFiniteSet(1..n)
    BY FS_Interval
  <2> QED
    BY <2>1, <2>2, FS_Injection
<1>7. \A j \in 1..n : \E i \in 1..n : p[i] = j
  BY <1>6 DEF Surjection
<1>8. \A i, j \in DOMAIN t : i < j => ~RowBefore(k, t[j], t[i])
  BY Zenon DEF Sorted
<1>9. Rearranges(p, s, t)
  BY <1>1, <1>2, <1>4, <1>7 DEF Rearranges
<1> QED
  BY <1>1, <1>5, <1>8, <1>9

(***************************************************************************)
(* Elements and types of the pointers and rows Snapshot holds              *)
(***************************************************************************)
(* Picked is the objects of the rows and then the pointers to read.        *)
LEMMA PickedOfProperties ==
  ASSUME NEW built \in Seq(Rows), NEW left \in Seq(Nat)
  PROVE  LET s == PickedOf(built, left) IN
         /\ Len(built) \in Nat /\ Len(left) \in Nat
         /\ s \in Seq(Nat) /\ Len(s) = Len(built) + Len(left) /\ DOMAIN s = 1..Len(s)
         /\ \A i \in 1..Len(built) : i \in 1..Len(s) /\ s[i] = built[i].obj
         /\ \A i \in 1..Len(left) : Len(built) + i \in 1..Len(s) /\ s[Len(built) + i] = left[i]
<1> DEFINE s == PickedOf(built, left)
<1>2. PICK r \in Nat, d \in Nat : r = Len(built) /\ d = Len(left)
  BY LenProperties
<1>3. /\ \A i \in 1..r : built[i].obj \in Nat
      /\ \A i \in 1..d : left[i] \in Nat
  <2>1. \A i \in 1..r : built[i] \in Rows
    BY <1>2, ElementOfSeq
  <2>2. \A i \in 1..d : left[i] \in Nat
    BY <1>2, ElementOfSeq
  <2> QED
    BY <2>1, <2>2 DEF Rows
<1>4. s = [i \in 1..(r + d) |-> IF i <= r THEN built[i].obj ELSE left[i - r]]
  BY <1>2 DEF PickedOf
<1>5. \A i \in 1..(r + d) : (IF i <= r THEN built[i].obj ELSE left[i - r]) \in Nat
  <2> SUFFICES ASSUME NEW i \in 1..(r + d) PROVE (IF i <= r THEN built[i].obj ELSE left[i - r]) \in Nat
    OBVIOUS
  <2>1. CASE i <= r
    BY <1>3, <2>1
  <2>2. CASE ~(i <= r)
    <3>1. i - r \in 1..d
      BY <2>2
    <3> QED
      BY <1>3, <2>2, <3>1
  <2> QED
    BY <2>1, <2>2
<1>6. s \in [1..(r + d) -> Nat]
  BY <1>4, <1>5
<1> HIDE DEF s
<1>7. s \in Seq(Nat) /\ Len(s) = r + d /\ DOMAIN s = 1..(r + d)
  BY <1>6, FunctionIsSeq
<1>8. \A i \in 1..r : i \in 1..(r + d) /\ s[i] = built[i].obj
  BY <1>4
<1>9. \A i \in 1..d : r + i \in 1..(r + d) /\ s[r + i] = left[i]
  <2> SUFFICES ASSUME NEW i \in 1..d PROVE r + i \in 1..(r + d) /\ s[r + i] = left[i]
    OBVIOUS
  <2>1. r + i \in 1..(r + d) /\ ~(r + i <= r) /\ (r + i) - r = i
    OBVIOUS
  <2> QED
    BY <1>4, <2>1
<1>10. /\ Len(built) \in Nat /\ Len(left) \in Nat
       /\ s \in Seq(Nat) /\ Len(s) = Len(built) + Len(left) /\ DOMAIN s = 1..Len(s)
       /\ \A i \in 1..Len(built) : i \in 1..Len(s) /\ s[i] = built[i].obj
       /\ \A i \in 1..Len(left) : Len(built) + i \in 1..Len(s) /\ s[Len(built) + i] = left[i]
  BY <1>2, <1>7, <1>8, <1>9
<1> QED
  BY <1>10, Zenon DEF s

(* The same of the present rows and pointers.                              *)
LEMMA PickedProperties ==
  ASSUME TypeOK
  PROVE  /\ Len(rows) \in Nat /\ Len(todo) \in Nat
         /\ Picked \in Seq(Nat) /\ Len(Picked) = Len(rows) + Len(todo)
         /\ \A i \in 1..Len(rows) : i \in 1..Len(Picked) /\ Picked[i] = rows[i].obj
         /\ \A i \in 1..Len(todo) :
               Len(rows) + i \in 1..Len(Picked) /\ Picked[Len(rows) + i] = todo[i]
<1>1. rows \in Seq(Rows) /\ todo \in Seq(1..Len(objs))
  BY DEF TypeOK
<1>2. todo \in Seq(Nat)
  <2>1. 1..Len(objs) \subseteq Nat
    OBVIOUS
  <2> QED
    BY <1>1, <2>1, SeqMonotonic
<1> QED
  BY <1>1, <1>2, PickedOfProperties DEF Picked

(* The first pointer to read is picked.                                    *)
LEMMA HeadIsFirst ==
  ASSUME TypeOK, todo # <<>>
  PROVE  /\ Len(todo) \in Nat \ {0} /\ 1 \in 1..Len(todo)
         /\ Head(todo) = todo[1] /\ Head(todo) \in 1..Len(objs)
         /\ Tail(todo) \in Seq(1..Len(objs)) /\ Len(Tail(todo)) = Len(todo) - 1
         /\ \A i \in 1..(Len(todo) - 1) : Tail(todo)[i] = todo[i + 1]
<1>1. todo \in Seq(1..Len(objs))
  BY DEF TypeOK
<1>2. Len(todo) \in Nat \ {0}
  BY <1>1, EmptySeq
<1>3. 1 \in 1..Len(todo) /\ Len(todo) \in 1..Len(todo)
  BY <1>2
<1>4. Head(todo) = todo[1]
  <2>1. Head(SubSeq(todo, 1, Len(todo))) = todo[1]
    BY <1>1, <1>3, HeadTailOfSubSeq
  <2> QED
    BY <1>1, <1>3, <2>1, SubSeqFull
<1>5. /\ Head(todo) \in 1..Len(objs) /\ Tail(todo) \in Seq(1..Len(objs))
      /\ Len(Tail(todo)) = Len(todo) - 1
      /\ \A i \in 1..Len(Tail(todo)) : Tail(todo)[i] = todo[i + 1]
  BY <1>1, HeadTailProperties
<1> QED
  BY <1>2, <1>3, <1>4, <1>5

(* What Snapshot saw under the lock are entries.                           *)
LEMMA LockTypes ==
  ASSUME TypeOK
  PROVE  /\ atLock.objs \in Seq(Objects) /\ Len(atLock.objs) \in Nat /\ Len(objs) \in Nat
         /\ \A i \in 1..Len(atLock.objs) : atLock.objs[i] \in Objects
         /\ \A i \in 1..Len(objs) : objs[i] \in Objects
  BY LenProperties, ElementOfSeq DEF TypeOK

(* An entry that was live is an entry still, and has only grown.           *)
LEMMA HeldObjects ==
  ASSUME TypeOK, Held, phase # "idle", NEW id \in atLock.live
  PROVE  /\ id \in 1..Len(atLock.objs) /\ id \in 1..Len(objs) /\ id \in Nat
         /\ atLock.objs[id] \in Objects /\ objs[id] \in Objects
         /\ NoLess(atLock.objs[id], objs[id])
<1>1. id \in 1..Len(atLock.objs) /\ Len(atLock.objs) <= Len(objs)
  BY DEF Held
<1>2. Len(atLock.objs) \in Nat /\ Len(objs) \in Nat
  BY LockTypes
<1>3. id \in 1..Len(objs) /\ id \in Nat
  BY <1>1, <1>2
<1> QED
  BY <1>1, <1>3, LockTypes DEF Held

(***************************************************************************)
(* record, while Snapshot is under way                                     *)
(***************************************************************************)
(* record never lowers a counter, and so cannot restore what it changed.   *)
LEMMA RecordGrows ==
  ASSUME IInv, NEW e \in EventsOf(kind), Record(e)
  PROVE  /\ Len(objs) <= Len(objs')
         /\ \A i \in 1..Len(objs) : NoLess(objs[i], objs'[i])
<1>1. /\ Len(objs) \in Nat
      /\ Len(objs') = IF Tracks(order, e.key) THEN Len(objs) ELSE Len(objs) + 1
      /\ \A i \in 1..Len(objs) : i # Touched(e) => objs'[i] = objs[i]
      /\ Tracks(order, e.key) => objs'[Touched(e)] = Bump(objs[Touched(e)], kind, e)
      /\ ~Tracks(order, e.key) => Touched(e) = Len(objs) + 1
      /\ \A i \in 1..Len(objs) : objs[i] \in Objects
  BY RecordObjs, ElementOfSeq DEF Touched
<1>2. Len(objs) <= Len(objs')
  BY <1>1
<1>3. ASSUME NEW i \in 1..Len(objs) PROVE NoLess(objs[i], objs'[i])
  <2>1. /\ objs[i] \in Objects
        /\ objs[i].n \in Nat /\ objs[i].m \in Nat /\ objs[i].hi \in Nat
    BY <1>1, LatenciesAssumption DEF Objects
  <2>2. CASE i # Touched(e)
    BY <1>1, <2>1, <2>2 DEF NoLess
  <2>3. CASE i = Touched(e)
    <3>1. Tracks(order, e.key)
      BY <1>1, <2>3
    <3>2. objs'[i] = Bump(objs[i], kind, e)
      BY <1>1, <2>3, <3>1
    <3>3. AddsToEntry(kind, e).n \in {0, 1} /\ AddsToEntry(kind, e).m \in {0, 1}
      BY OneType DEF AddsToEntry
    <3>4. e.lat \in Nat
      BY LatenciesAssumption DEF EventsOf, Events
    <3>5. PICK o \in Objects : o = objs[i]
      BY <2>1
    <3>6. /\ Bump(o, kind, e).key = o.key
          /\ Bump(o, kind, e).n = o.n + AddsToEntry(kind, e).n
          /\ Bump(o, kind, e).m = o.m + AddsToEntry(kind, e).m
          /\ Bump(o, kind, e).hi = IF e.lat > o.hi THEN e.lat ELSE o.hi
      BY DEF Bump, Objects
    <3>7. o.hi <= Bump(o, kind, e).hi
      BY <2>1, <3>4, <3>5, <3>6
    <3>8. o.n <= Bump(o, kind, e).n /\ o.m <= Bump(o, kind, e).m
      BY <2>1, <3>3, <3>5, <3>6
    <3> QED
      BY <3>2, <3>5, <3>6, <3>7, <3>8 DEF NoLess
  <2> QED
    BY <2>2, <2>3
<1> QED
  BY <1>2, <1>3

(* Entries that are no less than each other are equal.                     *)
LEMMA NoLessOrder ==
  ASSUME NEW o \in Objects, NEW p \in Objects, NEW q \in Objects
  PROVE  /\ NoLess(o, p) /\ NoLess(p, q) => NoLess(o, q)
         /\ NoLess(o, p) /\ NoLess(p, o) => o = p
<1>1. /\ o.n \in Nat /\ o.m \in Nat /\ o.hi \in Nat /\ p.n \in Nat /\ p.m \in Nat /\ p.hi \in Nat
      /\ q.n \in Nat /\ q.m \in Nat /\ q.hi \in Nat
  BY LatenciesAssumption DEF Objects
<1>2. NoLess(o, p) /\ NoLess(p, q) => NoLess(o, q)
  BY <1>1 DEF NoLess
<1>3. ASSUME NoLess(o, p), NoLess(p, o) PROVE o = p
  <2>1. o.key = p.key /\ o.n = p.n /\ o.m = p.m /\ o.hi = p.hi
    BY <1>1, <1>3 DEF NoLess
  <2> QED
    BY <2>1 DEF Objects
<1> QED
  BY <1>2, <1>3

(* record keeps what Snapshot relies on.                                   *)
LEMMA SnapshotDuringRecord ==
  ASSUME IInv, SInv, NEW e \in EventsOf(kind), Record(e)
  PROVE  SInv'
<1>1. /\ kind' = kind /\ phase' = phase /\ todo' = todo /\ ranked' = ranked /\ half' = half
      /\ rows' = rows /\ atLock' = atLock
  BY DEF Record, snapshot
<1>2. TypeOK /\ Held
  BY DEF IInv, SInv
<1>3. /\ Len(objs) <= Len(objs') /\ Len(objs') \in Nat
      /\ \A i \in 1..Len(objs) : NoLess(objs[i], objs'[i]) /\ objs'[i] \in Objects
  <2>1. objs' \in Seq(Objects) /\ Len(objs') \in Nat
    BY RecordObjs, LenProperties
  <2>2. Len(objs) <= Len(objs') /\ Len(objs) \in Nat
    BY <1>2, RecordGrows, LockTypes
  <2>3. \A i \in 1..Len(objs) : i \in 1..Len(objs')
    BY <2>1, <2>2
  <2> QED
    BY <2>1, <2>2, <2>3, RecordGrows, ElementOfSeq
<1>4. ASSUME phase # "idle", NEW id \in 1..Len(atLock.objs)
      PROVE  /\ id \in 1..Len(objs) /\ atLock.objs[id] \in Objects /\ objs[id] \in Objects
             /\ NoLess(atLock.objs[id], objs[id]) /\ NoLess(atLock.objs[id], objs'[id])
  <2>1. Len(atLock.objs) \in Nat /\ Len(objs) \in Nat /\ Len(atLock.objs) <= Len(objs)
    BY <1>2, <1>4, LockTypes DEF Held
  <2>2. id \in 1..Len(objs) /\ NoLess(atLock.objs[id], objs[id])
    BY <1>2, <1>4, <2>1 DEF Held
  <2>3. atLock.objs[id] \in Objects /\ objs[id] \in Objects
    BY <1>2, <2>2, LockTypes
  <2> QED
    BY <1>3, <2>2, <2>3, NoLessOrder
<1>5. ASSUME phase # "idle", objs' = atLock.objs
      PROVE  objs = atLock.objs
  <2>1. Len(objs) = Len(atLock.objs)
    <3>1. Len(atLock.objs) <= Len(objs) /\ Len(objs) \in Nat /\ Len(atLock.objs) \in Nat
      BY <1>2, <1>5, LockTypes DEF Held
    <3> QED
      BY <1>3, <1>5, <3>1
  <2>2. \A i \in 1..Len(objs) : objs[i] = atLock.objs[i]
    <3> SUFFICES ASSUME NEW i \in 1..Len(objs) PROVE objs[i] = atLock.objs[i]
      OBVIOUS
    <3>1. NoLess(atLock.objs[i], objs[i]) /\ atLock.objs[i] \in Objects /\ objs[i] \in Objects
      BY <1>4, <1>5, <2>1
    <3>2. NoLess(objs[i], atLock.objs[i])
      BY <1>3, <1>5
    <3> QED
      BY <3>1, <3>2, NoLessOrder
  <2>3. objs \in Seq(Objects) /\ atLock.objs \in Seq(Objects)
    BY <1>2 DEF TypeOK
  <2>4. objs \in [1..Len(objs) -> Objects] /\ atLock.objs \in [1..Len(objs) -> Objects]
    BY <2>1, <2>3, LenProperties
  <2> QED
    BY <2>2, <2>4
<1>6. ASSUME phase # "idle", NEW id \in atLock.live, NEW r,
             r.n \in Nat, r.m \in Nat, r.hi \in Nat,
             Between(atLock.objs[id], r, objs[id])
      PROVE  Between(atLock.objs[id], r, objs'[id])
  <2>1. id \in 1..Len(objs) /\ objs[id] \in Objects
    BY <1>2, <1>6, HeldObjects
  <2>2. NoLess(objs[id], objs'[id]) /\ objs'[id] \in Objects
    BY <1>3, <2>1
  <2>3. /\ objs[id].n \in Nat /\ objs[id].m \in Nat /\ objs[id].hi \in Nat
        /\ objs'[id].n \in Nat /\ objs'[id].m \in Nat /\ objs'[id].hi \in Nat
    BY <2>1, <2>2, LatenciesAssumption DEF Objects
  <2> QED
    BY <1>6, <2>2, <2>3 DEF Between, NoLess
<1>7. Held'
  <2> SUFFICES ASSUME phase # "idle"
               PROVE  /\ atLock.live \subseteq 1..Len(atLock.objs) /\ Len(atLock.objs) <= Len(objs')
                      /\ \A id \in 1..Len(atLock.objs) : NoLess(atLock.objs[id], objs'[id])
                      /\ \A a, b \in atLock.live : atLock.objs[a].key = atLock.objs[b].key => a = b
    BY <1>1 DEF Held
  <2>1. Len(atLock.objs) <= Len(objs')
    <3>1. Len(atLock.objs) <= Len(objs) /\ Len(objs) \in Nat /\ Len(atLock.objs) \in Nat
      BY <1>2, LockTypes DEF Held
    <3> QED
      BY <1>3, <3>1
  <2> QED
    BY <1>2, <1>4, <2>1 DEF Held
<1>8. Ranking'
  BY <1>1, <1>5 DEF SInv, Ranking, Better
<1>9. Reading'
  BY <1>1, <1>5 DEF SInv, Reading, Better, Whole, Picked
<1>10. Halfway'
  <2> SUFFICES ASSUME half # <<>>
               PROVE  /\ Between(atLock.objs[Head(todo)], half[1], objs'[Head(todo)])
                      /\ objs' = atLock.objs => half[1] = atLock.objs[Head(todo)]
    BY <1>1 DEF Halfway
  <2>1. phase = "read" /\ todo # <<>>
    BY DEF IInv, Control
  <2>2. Head(todo) \in atLock.live
    <3>1. Len(rows) + 1 \in 1..Len(Picked) /\ Picked[Len(rows) + 1] = Head(todo)
      BY <1>2, <2>1, HeadIsFirst, PickedProperties
    <3> QED
      BY <2>1, <3>1 DEF SInv, Reading
  <2>3. half[1].n \in Nat /\ half[1].m \in Nat /\ half[1].hi \in Nat
    <3>1. half \in Seq(Objects) /\ Len(half) \in Nat \ {0}
      BY <1>2, EmptySeq DEF TypeOK
    <3>2. 1 \in 1..Len(half)
      BY <3>1
    <3>3. half[1] \in Objects
      BY <3>1, <3>2, ElementOfSeq
    <3> QED
      BY <3>3, LatenciesAssumption DEF Objects
  <2>4. Between(atLock.objs[Head(todo)], half[1], objs[Head(todo)])
        /\ (objs = atLock.objs => half[1] = atLock.objs[Head(todo)])
    BY DEF SInv, Halfway
  <2> QED
    BY <1>5, <1>6, <2>1, <2>2, <2>3, <2>4
<1>11. RowsAreTrue'
  <2> SUFFICES ASSUME phase \in {"read", "publish"}, NEW i \in 1..Len(rows)
               PROVE  /\ rows[i].key = atLock.objs[rows[i].obj].key
                      /\ Between(atLock.objs[rows[i].obj], rows[i], objs'[rows[i].obj])
                      /\ objs' = atLock.objs => rows[i] = Row(rows[i].obj, atLock.objs[rows[i].obj])
    BY <1>1 DEF RowsAreTrue
  <2>1. phase # "idle"
    OBVIOUS
  <2>2. rows[i].obj \in atLock.live
    BY <1>2, PickedProperties DEF SInv, Reading
  <2>3. rows[i].n \in Nat /\ rows[i].m \in Nat /\ rows[i].hi \in Nat
    <3>1. rows[i] \in Rows
      BY <1>2, ElementOfSeq DEF TypeOK
    <3> QED
      BY <3>1, LatenciesAssumption DEF Rows
  <2>4. /\ rows[i].key = atLock.objs[rows[i].obj].key
        /\ Between(atLock.objs[rows[i].obj], rows[i], objs[rows[i].obj])
        /\ objs = atLock.objs => rows[i] = Row(rows[i].obj, atLock.objs[rows[i].obj])
    BY DEF SInv, RowsAreTrue
  <2> QED
    BY <1>5, <1>6, <2>1, <2>2, <2>3, <2>4
<1> QED
  BY <1>7, <1>8, <1>9, <1>10, <1>11 DEF SInv

(***************************************************************************)
(* The steps of Snapshot                                                   *)
(***************************************************************************)
(* Under the lock the pointers are those of the live objects, one each.    *)
LEMMA PointersAreLive ==
  ASSUME IInv
  PROVE  LET live == {slot[k] : k \in Keys} \ {0} IN
         /\ Len(order) \in Nat
         /\ \A i \in 1..Len(order) : Pointers[i] \in live
         /\ \A id \in live : \E i \in 1..Len(order) : Pointers[i] = id
         /\ \A i, j \in 1..Len(order) : i # j => Pointers[i] # Pointers[j]
         /\ live \subseteq 1..Len(objs)
         /\ \A a, b \in live : objs[a].key = objs[b].key => a = b
         /\ Cardinality(live) = Len(order)
<1> DEFINE live == {slot[k] : k \in Keys} \ {0}
<1>1. /\ order \in Seq(Keys) /\ Len(order) \in Nat /\ slot \in [Keys -> 0..Len(objs)]
      /\ Distinct(order)
  BY LenProperties, ExactIsDistinct, TypeIsLruType DEF IInv, TypeOK
<1>2. \A k \in Keys : IF Tracks(order, k) THEN slot[k] # 0 /\ objs[slot[k]].key = k ELSE slot[k] = 0
  BY DEF IInv, SlotsMatch
<1>3. \A i \in 1..Len(order) :
         /\ order[i] \in Keys /\ Pointers[i] = slot[order[i]] /\ Pointers[i] # 0
         /\ objs[Pointers[i]].key = order[i]
  <2> SUFFICES ASSUME NEW i \in 1..Len(order)
               PROVE  /\ order[i] \in Keys /\ Pointers[i] = slot[order[i]] /\ Pointers[i] # 0
                      /\ objs[Pointers[i]].key = order[i]
    OBVIOUS
  <2>1. order[i] \in Keys /\ Tracks(order, order[i])
    BY <1>1, ElementOfSeq DEF Tracks
  <2>2. Pointers[i] = slot[order[i]]
    BY DEF Pointers
  <2> QED
    BY <1>2, <2>1, <2>2
<1>4. \A i \in 1..Len(order) : Pointers[i] \in live
  BY <1>3
<1>5. \A id \in live : \E i \in 1..Len(order) : Pointers[i] = id
  <2> SUFFICES ASSUME NEW id \in live PROVE \E i \in 1..Len(order) : Pointers[i] = id
    OBVIOUS
  <2>1. PICK k \in Keys : id = slot[k] /\ id # 0
    OBVIOUS
  <2>2. PICK i \in 1..Len(order) : order[i] = k
    BY <1>2, <2>1 DEF Tracks
  <2> QED
    BY <1>3, <2>1, <2>2
<1>6. \A i, j \in 1..Len(order) : i # j => Pointers[i] # Pointers[j]
  BY <1>1, <1>3 DEF Distinct
<1>7. live \subseteq 1..Len(objs)
  <2>1. Len(objs) \in Nat
    BY LockTypes DEF IInv
  <2> QED
    BY <1>1, <2>1
<1>8. \A a, b \in live : objs[a].key = objs[b].key => a = b
  BY <1>2
<1>9. Cardinality(live) = Len(order)
  <2>1. Pointers \in [1..Len(order) -> live]
    <3> HIDE DEF live
    <3> QED
      BY <1>4 DEF Pointers
  <2> HIDE DEF live
  <2>2. Pointers \in Injection(1..Len(order), live)
    BY <1>6, <2>1, Fun_IsInj
  <2>3. Pointers \in Surjection(1..Len(order), live)
    BY <1>5, <2>1, Fun_IsSurj
  <2>4. IsFiniteSet(1..Len(order)) /\ Cardinality(1..Len(order)) = Len(order)
    <3>1. 1 \in Int /\ Len(order) \in Int /\ (1 > Len(order) => Len(order) = 0)
          /\ Len(order) - 1 + 1 = Len(order)
      BY <1>1
    <3>2. IsFiniteSet(1..Len(order))
          /\ Cardinality(1..Len(order)) = IF 1 > Len(order) THEN 0 ELSE Len(order) - 1 + 1
      BY <3>1, FS_Interval, Zenon
    <3> QED
      BY <3>1, <3>2
  <2>5. Cardinality(live) = Cardinality(1..Len(order))
    BY <2>2, <2>3, <2>4, FS_Surjection
  <2> QED
    BY <2>4, <2>5
<1> QED
  BY <1>1, <1>4, <1>5, <1>6, <1>7, <1>8, <1>9

(* Snapshot starts from all live objects.                                  *)
LEMMA LockSees == ASSUME IInv, SInv, SnapshotLock PROVE SInv'
<1> DEFINE live == {slot[k] : k \in Keys} \ {0}
           n    == Len(order)
<1>1. /\ atLock' = [live |-> live, objs |-> objs] /\ objs' = objs /\ kind' = kind
      /\ ranked' = ranked /\ half' = half /\ phase = "idle"
  BY DEF SnapshotLock, lru
<1>2. ranked = <<>> /\ half = <<>>
  BY <1>1 DEF SInv, Ranking, IInv, Control
<1>3. /\ n \in Nat
      /\ \A i \in 1..n : Pointers[i] \in live
      /\ \A id \in live : \E i \in 1..n : Pointers[i] = id
      /\ \A i, j \in 1..n : i # j => Pointers[i] # Pointers[j]
      /\ live \subseteq 1..Len(objs)
      /\ \A a, b \in live : objs[a].key = objs[b].key => a = b
      /\ Cardinality(live) = n
  BY PointersAreLive
<1>4. atLock'.live = live /\ atLock'.objs = objs
  BY <1>1
<1> HIDE DEF live
<1>5. TypeOK
  BY DEF IInv
<1>6. \A i \in 1..Len(objs) : NoLess(objs[i], objs[i]) /\ objs[i] \in Objects
  <2>1. \A o \in Objects : NoLess(o, o)
    <3>1. \A o \in Objects : o.n \in Nat /\ o.m \in Nat /\ o.hi \in Nat
      BY LatenciesAssumption DEF Objects
    <3> QED
      BY <3>1 DEF NoLess
  <2> QED
    BY <1>5, <2>1, LockTypes
<1>7. Held'
  <2>1. Len(objs) <= Len(objs)
    BY <1>5, LockTypes
  <2> QED
    BY <1>1, <1>3, <1>4, <1>6, <2>1 DEF Held
<1>8. Halfway'
  BY <1>1, <1>2 DEF Halfway
<1>9. Pointers \in Seq(1..Len(objs)) /\ Len(Pointers) = n /\ DOMAIN Pointers = 1..n
  <2>1. Pointers \in [1..n -> 1..Len(objs)]
    BY PointersType DEF Pointers
  <2> QED
    BY <1>3, <2>1, FunctionIsSeq
<1>10. CASE kind = "syscall"
  <2>1. /\ rows' = [i \in DOMAIN Pointers |-> Row(Pointers[i], objs[Pointers[i]])]
        /\ phase' = "publish" /\ todo' = <<>>
    BY <1>10 DEF SnapshotLock
  <2>2. /\ \A i \in 1..n : rows'[i] = Row(Pointers[i], objs[Pointers[i]])
        /\ rows' \in Seq(Rows) /\ Len(rows') = n
    <3>1. \A i \in 1..n : Pointers[i] \in Nat /\ Pointers[i] \in 1..Len(objs)
      <4>1. Len(objs) \in Nat
        BY <1>5, LockTypes
      <4>2. \A i \in 1..n : Pointers[i] \in 1..Len(objs)
        BY <1>3, Zenon
      <4> QED
        BY <4>1, <4>2
    <3>2. \A i \in 1..n : Row(Pointers[i], objs[Pointers[i]]) \in Rows
      BY <1>6, <3>1, RowType
    <3>3. rows' \in [1..n -> Rows]
      BY <1>9, <2>1, <3>2
    <3> QED
      BY <1>3, <1>9, <2>1, <3>3, FunctionIsSeq
  <2>3. \A i \in 1..n : /\ rows'[i].obj = Pointers[i]
                         /\ rows'[i].key = objs[Pointers[i]].key
                         /\ Between(objs[Pointers[i]], rows'[i], objs[Pointers[i]])
    <3> SUFFICES ASSUME NEW i \in 1..n
                 PROVE  /\ rows'[i].obj = Pointers[i]
                        /\ rows'[i].key = objs[Pointers[i]].key
                        /\ Between(objs[Pointers[i]], rows'[i], objs[Pointers[i]])
      OBVIOUS
    <3>1. PICK o : o = objs[Pointers[i]]
      OBVIOUS
    <3>2. NoLess(o, o)
      BY <1>3, <1>6, <3>1
    <3>3. rows'[i] = Row(Pointers[i], o)
      BY <2>2, <3>1
    <3>4. /\ rows'[i].obj = Pointers[i] /\ rows'[i].key = o.key
          /\ rows'[i].n = o.n /\ rows'[i].m = o.m /\ rows'[i].hi = o.hi
      BY <3>3 DEF Row
    <3> QED
      BY <3>1, <3>2, <3>4 DEF NoLess, Between
  <2>4. /\ Len(Picked') = n
        /\ \A i \in 1..n : Picked'[i] = Pointers[i]
    <3>1. todo' \in Seq(Nat) /\ Len(todo') = 0
      BY <2>1
    <3>2. rows' \in Seq(Rows) /\ todo' \in Seq(Nat)
      BY <2>2, <3>1
    <3>3. /\ Len(PickedOf(rows', todo')) = Len(rows') + Len(todo')
          /\ \A i \in 1..Len(rows') : PickedOf(rows', todo')[i] = rows'[i].obj
      BY <3>2, PickedOfProperties, Zenon
    <3>4. Picked' = PickedOf(rows', todo')
      BY DEF Picked
    <3>5. /\ Len(Picked') = Len(rows') + Len(todo')
          /\ \A i \in 1..Len(rows') : Picked'[i] = rows'[i].obj
      BY <3>3, <3>4, Zenon
    <3> HIDE DEF n
    <3> QED
      BY <1>3, <2>2, <2>3, <3>1, <3>5
  <2>5. Ranking'
    BY <1>1, <1>2, <2>1 DEF Ranking
  <2>6. Reading'
    <3>1. Whole'
      BY <1>1, <1>10 DEF Whole
    <3>2. Distinct(Picked')
      BY <1>3, <2>4 DEF Distinct
    <3>3. \A id \in live : Tracks(Picked', id)
      BY <1>3, <2>4 DEF Tracks
    <3> QED
      BY <1>1, <1>3, <1>4, <1>10, <2>1, <2>4, <3>1, <3>2, <3>3 DEF Reading
  <2>7. RowsAreTrue'
    BY <1>1, <1>4, <2>2, <2>3 DEF RowsAreTrue
  <2> QED
    BY <1>7, <1>8, <2>5, <2>6, <2>7 DEF SInv
<1>11. CASE kind # "syscall"
  <2>1. /\ rows' = <<>> /\ todo' = Pointers
        /\ phase' = IF kind = "fd" THEN "read" ELSE "rank"
    BY <1>11 DEF SnapshotLock
  <2>2. /\ Len(Picked') = n
        /\ \A i \in 1..n : Picked'[i] = Pointers[i]
    <3>1. rows' \in Seq(Rows) /\ Len(rows') = 0
      BY <2>1
    <3>2. todo' \in Seq(Nat)
      <4>1. 1..Len(objs) \subseteq Nat
        OBVIOUS
      <4> QED
        BY <1>9, <2>1, <4>1, SeqMonotonic
    <3>3. /\ Len(PickedOf(rows', todo')) = Len(rows') + Len(todo')
          /\ \A i \in 1..Len(todo') : PickedOf(rows', todo')[Len(rows') + i] = todo'[i]
      BY <3>1, <3>2, PickedOfProperties, Zenon
    <3>4. Picked' = PickedOf(rows', todo')
      BY DEF Picked
    <3>5. /\ Len(Picked') = Len(rows') + Len(todo')
          /\ \A i \in 1..Len(todo') : Picked'[Len(rows') + i] = todo'[i]
      BY <3>3, <3>4, Zenon
    <3>6. Len(todo') = n /\ \A i \in 1..n : todo'[i] = Pointers[i]
      BY <1>9, <2>1, Zenon
    <3>7. 0 + n = n /\ \A i \in 1..n : 0 + i = i
      BY <1>3
    <3> HIDE DEF n
    <3> QED
      BY <3>1, <3>5, <3>6, <3>7
  <2>3. RowsAreTrue'
    <3>1. 1..Len(rows') = {}
      BY <2>1
    <3> QED
      BY <3>1 DEF RowsAreTrue
  <2>4. CASE kind = "fd"
    <3>1. phase' = "read"
      BY <2>1, <2>4
    <3>2. Ranking'
      BY <1>1, <1>2, <3>1 DEF Ranking
    <3>3. Reading'
      <4>1. Whole'
        BY <1>1, <2>4 DEF Whole
      <4>2. Distinct(Picked')
        BY <1>3, <2>2 DEF Distinct
      <4>3. \A id \in live : Tracks(Picked', id)
        BY <1>3, <2>2 DEF Tracks
      <4> QED
        BY <1>3, <1>4, <2>2, <3>1, <4>1, <4>2, <4>3 DEF Reading
    <3> QED
      BY <1>7, <1>8, <2>3, <3>2, <3>3 DEF SInv
  <2>5. CASE kind # "fd"
    <3>1. phase' = "rank"
      BY <2>1, <2>5
    <3>2. Reading'
      BY <3>1 DEF Reading
    <3>3. Ranking'
      <4>1. Len(ranked') = 0 /\ 1..Len(ranked') = {} /\ Len(todo') = n
        BY <1>1, <1>2, <1>9, <2>1
      <4>2. Distinct(todo') /\ Distinct(ranked')
        BY <1>3, <1>9, <2>1, <4>1 DEF Distinct
      <4>3. \A id \in live : Tracks(todo', id)
        BY <1>3, <2>1, <4>1 DEF Tracks
      <4>4. Len(todo') + Len(ranked') = Cardinality(live)
        BY <1>3, <4>1
      <4> QED
        BY <1>3, <1>4, <2>1, <3>1, <4>1, <4>2, <4>3, <4>4 DEF Ranking
    <3> QED
      BY <1>7, <1>8, <2>3, <3>2, <3>3 DEF SInv
  <2> QED
    BY <2>4, <2>5
<1> QED
  BY <1>10, <1>11

(* Better is the rank of the collector: a strict weak order, which the     *)
(* sorts of tcp and sched follow when no counter has moved.                *)
LEMMA BetterIsRank ==
  ASSUME TypeOK, Held, phase # "idle",
         NEW a \in atLock.live, NEW b \in atLock.live, NEW c \in atLock.live
  PROVE  /\ Better(a, b) => ~Better(b, a)
         /\ ~Better(a, b) /\ ~Better(b, c) => ~Better(a, c)
         /\ kind \in {"tcp", "sched"} /\ objs = atLock.objs =>
               (Better(a, b) <=> Before(kind, objs[a], objs[b]))
<1>1. kind \in {"syscall", "fd", "tcp", "sched"}
  BY KindsAssumption DEF TypeOK
<1>2. \A id \in {a, b, c} : Row(id, atLock.objs[id]) \in Rows
  BY HeldObjects, RowType
<1>3. /\ Better(a, b) => ~Better(b, a)
      /\ ~Better(a, b) /\ ~Better(b, c) => ~Better(a, c)
  BY <1>1, <1>2, RankIsWeakOrder DEF Better
<1>4. ASSUME kind \in {"tcp", "sched"}, objs = atLock.objs
      PROVE  Better(a, b) <=> Before(kind, objs[a], objs[b])
  BY <1>4, EntriesRankAsRows DEF Better
<1> QED
  BY <1>3, <1>4

(* The insertion keeps the ranking a ranking of what has been inserted.    *)
LEMMA RankOneKeeps == ASSUME IInv, SInv, RankOne PROVE SInv'
<1> DEFINE Ids  == 1..Len(objs)
           live == atLock.live
           m    == Len(ranked)
           n    == Len(todo)
           id   == Head(todo)
<1>1. /\ kind' = kind /\ phase' = phase /\ half' = half /\ rows' = rows /\ atLock' = atLock
      /\ objs' = objs /\ todo' = Tail(todo) /\ phase = "rank" /\ todo # <<>>
  BY DEF RankOne, lru
<1>2. TypeOK /\ Held /\ kind \in {"tcp", "sched"} /\ half = <<>> /\ rows = <<>>
  BY <1>1 DEF IInv, SInv, Control, Ranking
<1>3. PICK at \in 0..m :
        /\ at # 0 => ~Before(kind, objs[id], objs[ranked[at]])
        /\ \A q \in (at + 1)..m : Before(kind, objs[id], objs[ranked[q]])
        /\ ranked' = SubSeq(ranked, 1, at) \o <<id>> \o SubSeq(ranked, at + 1, Len(ranked))
  BY DEF RankOne
<1>4. /\ \A i \in 1..n : todo[i] \in live
      /\ \A i \in 1..m : ranked[i] \in live
      /\ Distinct(todo) /\ Distinct(ranked)
      /\ \A i \in 1..n, j \in 1..m : todo[i] # ranked[j]
      /\ \A x \in live : Tracks(todo, x) \/ Tracks(ranked, x)
      /\ n + m = Cardinality(live)
      /\ objs = atLock.objs =>
            \A i, j \in 1..m : i < j => ~Better(ranked[j], ranked[i])
  BY <1>1 DEF SInv, Ranking
<1>5. /\ n \in Nat \ {0} /\ 1 \in 1..n /\ id = todo[1] /\ id \in Ids
      /\ Len(todo') = n - 1 /\ \A i \in 1..(n - 1) : todo'[i] = todo[i + 1]
  BY <1>1, <1>2, HeadIsFirst
<1>6. id \in live /\ \A j \in 1..m : ranked[j] # id
  BY <1>4, <1>5
<1> HIDE DEF Ids, live, id
<1>7. /\ m \in Nat /\ Len(ranked') = m + 1
      /\ \A i \in 1..(m + 1) :
            ranked'[i] = IF i <= at THEN ranked[i] ELSE IF i = at + 1 THEN id ELSE ranked[i - 1]
  <2>1. ranked \in Seq(Ids) /\ id \in Ids /\ at \in 0..Len(ranked)
    BY <1>2, <1>5 DEF TypeOK, Ids
  <2> DEFINE t == Inserted(ranked, at, id)
  <2>2. /\ Len(t) = Len(ranked) + 1 /\ Len(ranked) \in Nat
        /\ \A i \in 1..(Len(ranked) + 1) :
              t[i] = IF i <= at THEN ranked[i] ELSE IF i = at + 1 THEN id ELSE ranked[i - 1]
    BY <2>1, InsertProperties
  <2>3. ranked' = t
    BY <1>3, Zenon DEF Inserted
  <2> HIDE DEF t
  <2>4. /\ Len(ranked') = Len(ranked) + 1 /\ Len(ranked) \in Nat
        /\ \A i \in 1..(Len(ranked) + 1) :
              ranked'[i] = IF i <= at THEN ranked[i] ELSE IF i = at + 1 THEN id ELSE ranked[i - 1]
    BY <2>2, <2>3, Zenon
  <2> QED
    BY <2>4, Zenon
<1> HIDE DEF m, n
<1>8. ASSUME NEW i \in 1..(m + 1)
      PROVE  \/ i <= at /\ i \in 1..m /\ ranked'[i] = ranked[i]
             \/ i = at + 1 /\ ranked'[i] = id
             \/ i > at + 1 /\ i - 1 \in 1..m /\ i - 1 \in (at + 1)..m /\ ranked'[i] = ranked[i - 1]
  <2>1. at \in 0..m /\ m \in Nat
    BY <1>3, <1>7
  <2>2. CASE i <= at
    <3>1. i \in 1..m
      BY <2>1, <2>2
    <3> QED
      BY <1>7, <2>2, <3>1
  <2>3. CASE i = at + 1
    <3>1. ~(i <= at)
      BY <2>1, <2>3
    <3> QED
      BY <1>7, <2>3, <3>1
  <2>4. CASE i > at + 1
    <3>1. ~(i <= at) /\ i # at + 1 /\ i - 1 \in 1..m /\ i - 1 \in (at + 1)..m
      BY <2>1, <2>4
    <3> QED
      BY <1>7, <2>4, <3>1
  <2> QED
    BY <2>1, <2>2, <2>3, <2>4
<1>9. \A i \in 1..(m + 1) : ranked'[i] \in live
  BY <1>4, <1>6, <1>8
<1>10. Distinct(ranked')
  <2> SUFFICES ASSUME NEW i \in 1..(m + 1), NEW j \in 1..(m + 1), i # j
               PROVE  ranked'[i] # ranked'[j]
    BY <1>7 DEF Distinct
  <2>1. \A a, b \in 1..m : a # b => ranked[a] # ranked[b]
    BY <1>4 DEF Distinct, m
  <2>2. i \in Int /\ j \in Int /\ at \in Int
    BY <1>3, <1>7
  <2> QED
    BY <1>6, <1>8, <2>1, <2>2
<1>11. \A x \in live : Tracks(todo', x) \/ Tracks(ranked', x)
  <2> SUFFICES ASSUME NEW x \in live PROVE Tracks(todo', x) \/ Tracks(ranked', x)
    OBVIOUS
  <2>1. at \in 0..m /\ m \in Nat
    BY <1>3, <1>7
  <2>2. CASE x = id
    <3>1. at + 1 \in 1..(m + 1) /\ ~(at + 1 <= at)
      BY <2>1
    <3>2. ranked'[at + 1] = id
      BY <1>7, <3>1
    <3> QED
      BY <1>7, <2>2, <3>1, <3>2 DEF Tracks
  <2>3. CASE \E j \in 1..m : ranked[j] = x
    <3>1. PICK j \in 1..m : ranked[j] = x
      BY <2>3
    <3>2. CASE j <= at
      <4>1. j \in 1..(m + 1)
        BY <2>1
      <4> QED
        BY <1>7, <3>1, <3>2, <4>1 DEF Tracks
    <3>3. CASE ~(j <= at)
      <4>1. j + 1 \in 1..(m + 1) /\ ~(j + 1 <= at) /\ j + 1 # at + 1 /\ (j + 1) - 1 = j
        BY <2>1, <3>3
      <4>2. ranked'[j + 1] = ranked[j]
        BY <1>7, <4>1
      <4> QED
        BY <1>7, <3>1, <4>1, <4>2 DEF Tracks
    <3> QED
      BY <3>2, <3>3
  <2>4. CASE x # id /\ \E j \in 1..n : todo[j] = x
    <3>1. PICK j \in 1..n : todo[j] = x
      BY <2>4
    <3>2. j # 1
      BY <1>5, <2>4, <3>1
    <3>3. j - 1 \in 1..(n - 1) /\ (j - 1) + 1 = j
      BY <1>5, <3>2
    <3>4. todo'[j - 1] = x
      BY <1>5, <3>1, <3>3
    <3> QED
      BY <1>5, <3>3, <3>4 DEF Tracks
  <2> QED
    BY <1>4, <2>2, <2>3, <2>4 DEF Tracks, m, n
<1>12. /\ \A i \in 1..(n - 1) : todo'[i] \in live
       /\ Distinct(todo')
       /\ \A i \in 1..(n - 1), j \in 1..(m + 1) : todo'[i] # ranked'[j]
  <2>1. \A i \in 1..(n - 1) : i + 1 \in 1..n /\ i + 1 # 1 /\ i \in Int
    BY <1>5
  <2>2. \A a, b \in 1..n : a # b => todo[a] # todo[b]
    BY <1>4 DEF Distinct, n
  <2>3. \A i \in 1..(n - 1) : todo'[i] # id
    BY <1>5, <2>1, <2>2
  <2>4. \A i \in 1..(n - 1), j \in 1..m : todo'[i] # ranked[j]
    BY <1>4, <1>5, <2>1
  <2>5. \A i \in 1..(n - 1), j \in 1..(m + 1) : todo'[i] # ranked'[j]
    BY <1>8, <2>3, <2>4
  <2>6. Distinct(todo')
    <3> SUFFICES ASSUME NEW i \in 1..(n - 1), NEW j \in 1..(n - 1), i # j
                 PROVE  todo'[i] # todo'[j]
      BY <1>5 DEF Distinct
    <3>1. i + 1 # j + 1
      BY <2>1
    <3> QED
      BY <1>5, <2>1, <2>2, <3>1
  <2> QED
    BY <1>4, <1>5, <2>1, <2>5, <2>6
<1>13. (n - 1) + (m + 1) = Cardinality(live)
  BY <1>4, <1>5, <1>7
<1>14. ASSUME objs = atLock.objs, NEW i \in 1..(m + 1), NEW j \in 1..(m + 1), i < j
       PROVE  ~Better(ranked'[j], ranked'[i])
  <2>1. phase # "idle"
    BY <1>1
  <2>2. /\ \A a, b \in live : Better(a, b) => ~Better(b, a)
        /\ \A a, b, c \in live : ~Better(a, b) /\ ~Better(b, c) => ~Better(a, c)
        /\ \A a, b \in live : Better(a, b) <=> Before(kind, objs[a], objs[b])
    BY <1>2, <1>14, <2>1, BetterIsRank DEF live
  <2>3. \A q \in (at + 1)..m : ~Better(ranked[q], id)
    <3> SUFFICES ASSUME NEW q \in (at + 1)..m PROVE ~Better(ranked[q], id)
      OBVIOUS
    <3>1. q \in 1..m
      BY <1>3, <1>7
    <3>2. Better(id, ranked[q]) /\ ranked[q] \in live
      BY <1>3, <1>4, <1>6, <2>2, <3>1
    <3> QED
      BY <1>6, <2>2, <3>2
  <2>4. \A q \in 1..m : q <= at => ~Better(id, ranked[q])
    <3> SUFFICES ASSUME NEW q \in 1..m, q <= at PROVE ~Better(id, ranked[q])
      OBVIOUS
    <3>1. at # 0 /\ at \in 1..m
      BY <1>3, <1>7
    <3>2. ~Better(id, ranked[at]) /\ ranked[at] \in live /\ ranked[q] \in live
      BY <1>3, <1>4, <1>6, <2>2, <3>1
    <3>3. CASE q = at
      BY <3>2, <3>3
    <3>4. CASE q # at
      <4>1. q < at
        BY <1>3, <1>7, <3>4
      <4>2. ~Better(ranked[at], ranked[q])
        BY <1>4, <1>14, <3>1, <4>1
      <4> QED
        BY <1>6, <2>2, <3>2, <4>2
    <3> QED
      BY <3>3, <3>4
  <2>5. \A a, b \in 1..m : a < b => ~Better(ranked[b], ranked[a])
    BY <1>4, <1>14
  <2>6. i \in Int /\ j \in Int /\ at \in Int
    BY <1>3, <1>7
  <2>7. CASE j = at + 1
    <3>1. i <= at /\ i \in 1..m /\ ranked'[i] = ranked[i] /\ ranked'[j] = id
      BY <1>8, <1>14, <2>6, <2>7
    <3> QED
      BY <2>4, <3>1
  <2>8. CASE i = at + 1
    <3>1. j - 1 \in (at + 1)..m /\ ranked'[j] = ranked[j - 1] /\ ranked'[i] = id
      BY <1>8, <1>14, <2>6, <2>8
    <3> QED
      BY <2>3, <3>1
  <2>9. CASE i # at + 1 /\ j # at + 1
    <3>1. PICK a \in 1..m : ranked'[i] = ranked[a] /\ (IF i <= at THEN a = i ELSE a = i - 1 /\ i > at + 1)
      BY <1>8, <2>6, <2>9
    <3>2. PICK b \in 1..m : ranked'[j] = ranked[b] /\ (IF j <= at THEN b = j ELSE b = j - 1 /\ j > at + 1)
      BY <1>8, <2>6, <2>9
    <3>3. a < b
      BY <1>14, <2>6, <3>1, <3>2
    <3> QED
      BY <2>5, <3>1, <3>2, <3>3
  <2> QED
    BY <2>7, <2>8, <2>9
<1>15. Ranking'
  <2>1. /\ phase' = "rank" /\ rows' = <<>> /\ Len(todo') = n - 1 /\ Len(ranked') = m + 1
        /\ atLock'.live = live /\ atLock'.objs = atLock.objs /\ objs' = objs
    BY <1>1, <1>2, <1>5, <1>7 DEF live
  <2>2. \A a, b : Better(a, b)' <=> Better(a, b)
    BY <1>1 DEF Better
  <2>3. objs' = atLock'.objs =>
           \A i, j \in 1..Len(ranked') : i < j => ~Better(ranked'[j], ranked'[i])
    BY <1>14, <2>1
  <2>4. /\ \A i \in 1..Len(todo') : todo'[i] \in atLock'.live
        /\ \A i \in 1..Len(ranked') : ranked'[i] \in atLock'.live
        /\ Distinct(todo') /\ Distinct(ranked')
        /\ \A i \in 1..Len(todo'), j \in 1..Len(ranked') : todo'[i] # ranked'[j]
        /\ \A x \in atLock'.live : Tracks(todo', x) \/ Tracks(ranked', x)
        /\ Len(todo') + Len(ranked') = Cardinality(atLock'.live)
    BY <1>9, <1>10, <1>11, <1>12, <1>13, <2>1, Zenon
  <2> QED
    BY <1>1, <2>1, <2>3, <2>4 DEF Ranking, Better
<1>16. Held'
  BY <1>1 DEF SInv, Held
<1>17. Reading' /\ RowsAreTrue'
  BY <1>1 DEF Reading, RowsAreTrue
<1>18. Halfway'
  BY <1>1, <1>2 DEF Halfway
<1> QED
  BY <1>15, <1>16, <1>17, <1>18 DEF SInv

(* With nothing built, what is picked is the pointers.                     *)
LEMMA NothingBuilt ==
  ASSUME NEW built \in Seq(Rows), Len(built) = 0, NEW left \in Seq(Nat)
  PROVE  /\ Len(PickedOf(built, left)) = Len(left) /\ Len(left) \in Nat
         /\ \A i \in 1..Len(left) : PickedOf(built, left)[i] = left[i]
<1>1. /\ Len(PickedOf(built, left)) = Len(built) + Len(left) /\ Len(left) \in Nat
      /\ \A i \in 1..Len(left) : PickedOf(built, left)[Len(built) + i] = left[i]
  BY PickedOfProperties, Zenon
<1>2. \A i \in 1..Len(left) : Len(built) + i = i
  OBVIOUS
<1>3. Len(built) + Len(left) = Len(left)
  BY <1>1
<1> QED
  BY <1>1, <1>2, <1>3, Zenon

(* The ranking is cut, and the entries cut off rank after those kept.      *)
LEMMA RankDoneKeeps == ASSUME IInv, SInv, RankDone PROVE SInv'
<1> DEFINE Ids  == 1..Len(objs)
           live == atLock.live
           m    == Len(ranked)
           c    == AtMostTopN(Cardinality(live))
<1>1. /\ kind' = kind /\ half' = half /\ rows' = rows /\ atLock' = atLock /\ objs' = objs
      /\ todo' = Top(ranked) /\ ranked' = <<>> /\ phase' = "read" /\ phase = "rank" /\ todo = <<>>
  BY DEF RankDone, lru
<1>2. TypeOK /\ kind \in {"tcp", "sched"} /\ half = <<>> /\ rows = <<>>
  BY <1>1 DEF IInv, SInv, Control, Ranking
<1>3. /\ \A i \in 1..m : ranked[i] \in live
      /\ Distinct(ranked)
      /\ \A x \in live : Tracks(ranked, x)
      /\ m = Cardinality(live)
      /\ objs = atLock.objs =>
            \A i, j \in 1..m : i < j => ~Better(ranked[j], ranked[i])
  <2>1. Len(todo) = 0 /\ \A x : ~Tracks(todo, x)
    BY <1>1 DEF Tracks
  <2>2. m \in Nat
    BY <1>2, LenProperties DEF TypeOK
  <2>3. /\ \A i \in 1..m : ranked[i] \in live
        /\ Distinct(ranked)
        /\ \A x \in live : Tracks(todo, x) \/ Tracks(ranked, x)
        /\ Len(todo) + m = Cardinality(live)
        /\ objs = atLock.objs =>
              \A i, j \in 1..m : i < j => ~Better(ranked[j], ranked[i])
    BY <1>1 DEF SInv, Ranking
  <2>4. m = Cardinality(live)
    BY <2>1, <2>2, <2>3
  <2> QED
    BY <2>1, <2>3, <2>4, Zenon
<1>4. /\ todo' \in Seq(Ids) /\ Len(todo') = c /\ c \in Nat /\ c <= m /\ m \in Nat
      /\ \A i \in 1..c : todo'[i] = ranked[i]
  <2>1. ranked \in Seq(Ids)
    BY <1>2 DEF TypeOK
  <2> HIDE DEF Ids
  <2>2. /\ Top(ranked) \in Seq(Ids) /\ Len(Top(ranked)) = AtMostTopN(Len(ranked))
        /\ Len(Top(ranked)) \in Nat /\ Len(Top(ranked)) <= Len(ranked)
        /\ \A i \in 1..Len(Top(ranked)) : Top(ranked)[i] = ranked[i]
    BY <2>1, TopProperties, Zenon
  <2>3. Len(ranked) \in Nat
    BY <2>1, LenProperties
  <2> QED
    BY <1>1, <1>3, <2>2, <2>3, Zenon
<1> HIDE DEF live, m
<1>5. Len(Picked') = c /\ \A i \in 1..c : Picked'[i] = ranked[i]
  <2>1. rows' \in Seq(Rows) /\ Len(rows') = 0
    BY <1>1, <1>2
  <2>2. todo' \in Seq(Nat)
    <3>1. Ids \subseteq Nat
      OBVIOUS
    <3> QED
      BY <1>4, <3>1, SeqMonotonic
  <2>3. /\ Len(PickedOf(rows', todo')) = Len(todo')
        /\ \A i \in 1..Len(todo') : PickedOf(rows', todo')[i] = todo'[i]
    BY <2>1, <2>2, NothingBuilt
  <2>4. Picked' = PickedOf(rows', todo')
    BY DEF Picked
  <2> QED
    BY <1>4, <2>3, <2>4, Zenon
<1>6. \A i \in 1..c : i \in 1..m
  BY <1>4
<1>7. ASSUME objs = atLock.objs
      PROVE  /\ \A i, j \in 1..c : i < j => ~Better(ranked[j], ranked[i])
             /\ \A x \in live :
                   Tracks(Picked', x) \/ \A i \in 1..c : ~Better(x, ranked[i])
  <2>1. \A i, j \in 1..m : i < j => ~Better(ranked[j], ranked[i])
    BY <1>3, <1>7
  <2>2. ASSUME NEW x \in live, ~Tracks(Picked', x), NEW i \in 1..c
        PROVE  ~Better(x, ranked[i])
    <3>1. PICK j \in 1..m : ranked[j] = x
      BY <1>3 DEF Tracks, m
    <3>2. ~(j \in 1..c)
      BY <1>5, <2>2, <3>1 DEF Tracks
    <3>3. i < j /\ i \in 1..m
      BY <1>4, <3>2
    <3> QED
      BY <2>1, <3>1, <3>3
  <2>3. \A i, j \in 1..c : i < j => ~Better(ranked[j], ranked[i])
    BY <1>6, <2>1
  <2> QED
    BY <2>2, <2>3
<1>8. Reading'
  <2>1. /\ \A i \in 1..Len(Picked') : Picked'[i] \in live
        /\ Distinct(Picked')
    BY <1>3, <1>5, <1>6 DEF Distinct, m
  <2>2. ~Whole /\ ~Whole' /\ Len(Picked') = c /\ phase' # "publish"
    BY <1>1, <1>2, <1>5 DEF Whole
  <2>3. objs' = atLock'.objs =>
           /\ \A i, j \in 1..Len(Picked') : i < j => ~Better(Picked'[j], Picked'[i])
           /\ \A x \in live :
                 Tracks(Picked', x) \/ \A i \in 1..Len(Picked') : ~Better(x, Picked'[i])
    <3>1. \A i \in 1..c : Picked'[i] = ranked[i]
      BY <1>5
    <3> HIDE DEF c
    <3> QED
      BY <1>1, <1>5, <1>7, <3>1
  <2> QED
    BY <1>1, <2>1, <2>2, <2>3 DEF Reading, Better, live
<1>9. Ranking' /\ Held' /\ RowsAreTrue' /\ Halfway'
  <2>1. Ranking'
    BY <1>1 DEF Ranking
  <2>2. Held'
    BY <1>1 DEF SInv, Held
  <2>3. RowsAreTrue'
    <3>1. 1..Len(rows') = {}
      BY <1>1, <1>2
    <3> QED
      BY <3>1 DEF RowsAreTrue
  <2>4. Halfway'
    BY <1>1, <1>2 DEF Halfway
  <2> QED
    BY <2>1, <2>2, <2>3, <2>4
<1> QED
  BY <1>8, <1>9 DEF SInv

(* The entry of the first pointer is one that was live.                    *)
LEMMA HeadIsLive ==
  ASSUME IInv, SInv, phase = "read", todo # <<>>
  PROVE  /\ Head(todo) \in atLock.live /\ Head(todo) \in Nat
         /\ atLock.objs[Head(todo)] \in Objects /\ objs[Head(todo)] \in Objects
         /\ NoLess(atLock.objs[Head(todo)], objs[Head(todo)])
<1>1. TypeOK /\ Held
  BY DEF IInv, SInv
<1>2. Len(rows) + 1 \in 1..Len(Picked) /\ Picked[Len(rows) + 1] = Head(todo)
  BY <1>1, HeadIsFirst, PickedProperties
<1>3. Head(todo) \in atLock.live
  BY <1>2 DEF SInv, Reading
<1>4. phase # "idle"
  OBVIOUS
<1> QED
  BY <1>1, <1>3, <1>4, HeldObjects

(* The first load of an entry shows it as it is.                           *)
LEMMA ReadFirstKeeps == ASSUME IInv, SInv, ReadFirst PROVE SInv'
<1> DEFINE id == Head(todo)
<1>1. /\ kind' = kind /\ rows' = rows /\ atLock' = atLock /\ objs' = objs /\ phase' = phase
      /\ todo' = todo /\ ranked' = ranked /\ phase = "read" /\ todo # <<>>
      /\ half' = <<objs[id]>>
  BY DEF ReadFirst, lru
<1>2. Held' /\ Ranking' /\ Reading' /\ RowsAreTrue'
  <2>1. Held'
    BY <1>1 DEF SInv, Held
  <2>2. Ranking'
    BY <1>1 DEF SInv, Ranking
  <2>3. Reading'
    BY <1>1 DEF SInv, Reading, Picked, Whole, Better
  <2>4. RowsAreTrue'
    BY <1>1 DEF SInv, RowsAreTrue
  <2> QED
    BY <2>1, <2>2, <2>3, <2>4
<1>3. Halfway'
  <2>1. /\ atLock.objs[id] \in Objects /\ objs[id] \in Objects
        /\ NoLess(atLock.objs[id], objs[id])
    BY <1>1, HeadIsLive
  <2>2. half'[1] = objs[id] /\ Head(todo') = id
    BY <1>1
  <2> HIDE DEF id
  <2>3. objs[id].n \in Nat /\ objs[id].m \in Nat /\ objs[id].hi \in Nat
    BY <2>1, LatenciesAssumption DEF Objects
  <2>4. Between(atLock.objs[id], objs[id], objs[id])
    BY <2>1, <2>3 DEF NoLess, Between
  <2> QED
    BY <1>1, <2>2, <2>4 DEF Halfway
<1> QED
  BY <1>2, <1>3 DEF SInv

(* Building the row of the first pointer picks nothing new.                *)
LEMMA PickedStays ==
  ASSUME NEW built \in Seq(Rows), NEW left \in Seq(Nat), left # <<>>,
         NEW r \in Rows, r.obj = Head(left)
  PROVE  PickedOf(Append(built, r), Tail(left)) = PickedOf(built, left)
<1>1. PICK p \in Nat, d \in Nat \ {0} : p = Len(built) /\ d = Len(left)
  BY LenProperties, EmptySeq
<1>2. Len(Append(built, r)) = p + 1 /\ Append(built, r)[p + 1] = r
      /\ \A i \in 1..p : Append(built, r)[i] = built[i]
  BY <1>1, AppendProperties
<1>3. /\ Len(Tail(left)) = d - 1 /\ \A i \in 1..(d - 1) : Tail(left)[i] = left[i + 1]
  BY <1>1, HeadTailProperties
<1>4. Head(left) = left[1]
  <2>1. 1 \in 1..Len(left) /\ Len(left) \in 1..Len(left)
    BY <1>1
  <2>2. Head(SubSeq(left, 1, Len(left))) = left[1]
    BY <2>1, HeadTailOfSubSeq
  <2> QED
    BY <2>1, <2>2, SubSeqFull
<1> DEFINE b == Append(built, r)
           l == Tail(left)
<1>5. b[p + 1] = r /\ \A i \in 1..p : b[i] = built[i]
  BY <1>2
<1>6. \A i \in 1..(d - 1) : l[i] = left[i + 1]
  BY <1>3
<1>7. PickedOf(b, l) = [i \in 1..((p + 1) + (d - 1)) |-> IF i <= p + 1 THEN b[i].obj ELSE l[i - (p + 1)]]
  BY <1>2, <1>3 DEF PickedOf
<1>8. PickedOf(built, left) = [i \in 1..(p + d) |-> IF i <= p THEN built[i].obj ELSE left[i - p]]
  BY <1>1 DEF PickedOf
<1> HIDE DEF b, l
<1>9. ASSUME NEW i \in 1..(p + d)
      PROVE  (IF i <= p + 1 THEN b[i].obj ELSE l[i - (p + 1)])
                = (IF i <= p THEN built[i].obj ELSE left[i - p])
  <2>1. CASE i <= p
    <3>1. i \in 1..p /\ i <= p + 1
      BY <2>1
    <3> QED
      BY <1>5, <2>1, <3>1
  <2>2. CASE i = p + 1
    <3>1. i <= p + 1 /\ ~(i <= p) /\ i - p = 1
      BY <2>2
    <3> QED
      BY <1>4, <1>5, <2>2, <3>1
  <2>3. CASE i > p + 1
    <3>1. ~(i <= p + 1) /\ ~(i <= p) /\ i - (p + 1) \in 1..(d - 1) /\ (i - (p + 1)) + 1 = i - p
      BY <2>3
    <3> QED
      BY <1>6, <3>1
  <2> QED
    BY <2>1, <2>2, <2>3
<1>10. (p + 1) + (d - 1) = p + d
  OBVIOUS
<1>11. PickedOf(b, l) = PickedOf(built, left)
  BY <1>7, <1>8, <1>9, <1>10
<1> QED
  BY <1>11 DEF b, l

(* A row, of which f was loaded first and c later.                         *)
RowRead(k, id, f, c) ==
    LET then == Row(id, c)
    IN  CASE k = "fd"    -> [then EXCEPT !.delta = f.n - f.m]
          [] k = "sched" -> [then EXCEPT !.n = f.n]
          [] k = "tcp"   -> [then EXCEPT !.hi = f.hi]

(* It shows no less than the first load and no more than the second, and   *)
(* if they are the same it is a row of that entry.                         *)
LEMMA RowReadProperties ==
  ASSUME NEW k \in {"fd", "sched", "tcp"}, NEW id \in Nat,
         NEW lo \in Objects, NEW f \in Objects, NEW c \in Objects,
         NoLess(lo, c), Between(lo, f, c)
  PROVE  /\ RowRead(k, id, f, c) \in Rows
         /\ RowRead(k, id, f, c).obj = id /\ RowRead(k, id, f, c).key = lo.key
         /\ Between(lo, RowRead(k, id, f, c), c)
         /\ f = c => RowRead(k, id, f, c) = Row(id, c)
<1>1. /\ lo.n \in Nat /\ lo.m \in Nat /\ lo.hi \in Nat
      /\ f.n \in Nat /\ f.m \in Nat /\ f.hi \in Nat /\ f.hi \in Latencies
      /\ c.n \in Nat /\ c.m \in Nat /\ c.hi \in Nat
  BY LatenciesAssumption DEF Objects
<1>2. PICK then \in Rows : then = Row(id, c)
  BY RowType
<1>3. /\ then.obj = id /\ then.key = c.key /\ then.n = c.n /\ then.m = c.m /\ then.hi = c.hi
      /\ then.delta = c.n - c.m
  BY <1>2 DEF Row
<1>4. c.key = lo.key /\ lo.n <= c.n /\ lo.m <= c.m /\ lo.hi <= c.hi
  BY DEF NoLess
<1>5. /\ lo.n <= f.n /\ f.n <= c.n /\ lo.m <= f.m /\ f.m <= c.m /\ lo.hi <= f.hi /\ f.hi <= c.hi
  BY DEF Between
<1> DEFINE r == RowRead(k, id, f, c)
<1>6. CASE k = "fd"
  <2>1. r = [then EXCEPT !.delta = f.n - f.m]
    BY <1>2, <1>6 DEF RowRead
  <2> HIDE DEF r
  <2>2. r \in Rows /\ r.obj = id /\ r.key = c.key /\ r.n = c.n /\ r.m = c.m /\ r.hi = c.hi
    BY <1>1, <1>3, <2>1 DEF Rows
  <2>3. f = c => r = then
    BY <1>3, <2>1 DEF Rows
  <2>4. Between(lo, r, c)
    BY <1>1, <1>4, <2>2 DEF Between
  <2> QED
    BY <1>2, <1>4, <2>2, <2>3, <2>4 DEF r
<1>7. CASE k = "sched"
  <2>1. r = [then EXCEPT !.n = f.n]
    BY <1>2, <1>7 DEF RowRead
  <2> HIDE DEF r
  <2>2. r \in Rows /\ r.obj = id /\ r.key = c.key /\ r.n = f.n /\ r.m = c.m /\ r.hi = c.hi
    BY <1>1, <1>3, <2>1 DEF Rows
  <2>3. f = c => r = then
    BY <1>3, <2>1 DEF Rows
  <2>4. Between(lo, r, c)
    BY <1>1, <1>4, <1>5, <2>2 DEF Between
  <2> QED
    BY <1>2, <1>4, <2>2, <2>3, <2>4 DEF r
<1>8. CASE k = "tcp"
  <2>1. r = [then EXCEPT !.hi = f.hi]
    BY <1>2, <1>8 DEF RowRead
  <2> HIDE DEF r
  <2>2. r \in Rows /\ r.obj = id /\ r.key = c.key /\ r.n = c.n /\ r.m = c.m /\ r.hi = f.hi
    BY <1>1, <1>3, <2>1 DEF Rows
  <2>3. f = c => r = then
    BY <1>3, <2>1 DEF Rows
  <2>4. Between(lo, r, c)
    BY <1>1, <1>4, <1>5, <2>2 DEF Between
  <2> QED
    BY <1>2, <1>4, <2>2, <2>3, <2>4 DEF r
<1> QED
  BY <1>6, <1>7, <1>8

(* A row is added for the first pointer.                                   *)
LEMMA ReadSecondKeeps == ASSUME IInv, SInv, ReadSecond PROVE SInv'
<1> DEFINE id    == Head(todo)
           first == half[1]
           lo    == atLock.objs[id]
           now   == objs[id]
           r     == RowRead(kind, id, first, now)
           n     == Len(rows)
<1>1. /\ kind' = kind /\ atLock' = atLock /\ objs' = objs /\ phase' = phase
      /\ ranked' = ranked /\ phase = "read" /\ half # <<>> /\ half' = <<>> /\ todo' = Tail(todo)
  BY DEF ReadSecond, lru
<1>2. rows' = Append(rows, r)
  BY DEF ReadSecond, RowRead
<1>3. TypeOK /\ todo # <<>> /\ kind \in {"fd", "sched", "tcp"}
  BY <1>1 DEF IInv, Control
<1>4. /\ id \in atLock.live /\ id \in Nat /\ lo \in Objects /\ now \in Objects
      /\ NoLess(lo, now)
  BY <1>1, <1>3, HeadIsLive
<1>5. first \in Objects
  <2>1. half \in Seq(Objects) /\ Len(half) \in Nat \ {0}
    BY <1>1, <1>3, EmptySeq DEF TypeOK
  <2>2. 1 \in 1..Len(half)
    BY <2>1
  <2> QED
    BY <2>1, <2>2, ElementOfSeq
<1>6. Between(lo, first, now) /\ (objs = atLock.objs => first = lo)
  BY <1>1 DEF SInv, Halfway
<1> HIDE DEF id, first, lo, now
<1>7. /\ r \in Rows /\ r.obj = id /\ r.key = lo.key /\ Between(lo, r, now)
      /\ first = now => r = Row(id, now)
  BY <1>3, <1>4, <1>5, <1>6, RowReadProperties
<1> HIDE DEF r
<1>8. /\ n \in Nat /\ rows \in Seq(Rows) /\ Len(rows') = n + 1 /\ rows'[n + 1] = r
      /\ \A i \in 1..n : rows'[i] = rows[i]
  BY <1>2, <1>3, <1>7, AppendProperties, LenProperties DEF TypeOK
<1>9. Picked' = Picked
  <2>1. todo \in Seq(Nat)
    <3>1. todo \in Seq(1..Len(objs)) /\ 1..Len(objs) \subseteq Nat
      BY <1>3 DEF TypeOK
    <3> QED
      BY <3>1, SeqMonotonic
  <2>2. r.obj = Head(todo)
    BY <1>7 DEF id
  <2>3. PickedOf(Append(rows, r), Tail(todo)) = PickedOf(rows, todo)
    BY <1>3, <1>7, <1>8, <2>1, <2>2, PickedStays, Zenon
  <2>4. Picked' = PickedOf(rows', todo')
    BY DEF Picked
  <2>5. rows' = Append(rows, r) /\ todo' = Tail(todo)
    BY <1>1, <1>2, Zenon
  <2> QED
    BY <2>3, <2>4, <2>5, Zenon DEF Picked
<1>10. Held' /\ Ranking' /\ Halfway'
  <2>1. Held'
    BY <1>1 DEF SInv, Held
  <2>2. Ranking'
    BY <1>1 DEF SInv, Ranking
  <2>3. Halfway'
    BY <1>1 DEF Halfway
  <2> QED
    BY <2>1, <2>2, <2>3
<1>11. Reading'
  <2>1. phase' = "read" /\ (Whole' <=> Whole)
    BY <1>1 DEF Whole
  <2> QED
    BY <1>1, <1>9, <2>1 DEF SInv, Reading, Better
<1>12. RowsAreTrue'
  <2> SUFFICES ASSUME NEW i \in 1..(n + 1)
               PROVE  /\ rows'[i].key = atLock.objs[rows'[i].obj].key
                      /\ Between(atLock.objs[rows'[i].obj], rows'[i], objs[rows'[i].obj])
                      /\ objs = atLock.objs =>
                            rows'[i] = Row(rows'[i].obj, atLock.objs[rows'[i].obj])
    BY <1>1, <1>8 DEF RowsAreTrue
  <2>1. CASE i \in 1..n
    <3>1. rows'[i] = rows[i]
      BY <1>8, <2>1
    <3>2. /\ rows[i].key = atLock.objs[rows[i].obj].key
          /\ Between(atLock.objs[rows[i].obj], rows[i], objs[rows[i].obj])
          /\ objs = atLock.objs => rows[i] = Row(rows[i].obj, atLock.objs[rows[i].obj])
      BY <1>1, <2>1 DEF SInv, RowsAreTrue
    <3> QED
      BY <3>1, <3>2, Zenon
  <2>2. CASE i = n + 1
    <3>1. rows'[i] = r /\ rows'[i].obj = id
      BY <1>7, <1>8, <2>2
    <3>2. objs = atLock.objs => first = now /\ now = lo
      BY <1>6 DEF lo, now
    <3>3. objs = atLock.objs => r = Row(id, lo)
      BY <1>7, <3>2
    <3> QED
      BY <1>7, <3>1, <3>3 DEF lo, now
  <2> QED
    BY <1>8, <2>1, <2>2
<1> QED
  BY <1>10, <1>11, <1>12 DEF SInv

(* Publishing ends the snapshot.                                           *)
LEMMA PublishKeeps == ASSUME IInv, SInv, Publish PROVE SInv'
<1>1. /\ phase' = "idle" /\ ranked' = ranked /\ half' = half
      /\ phase \in {"publish", "read"} /\ (phase = "read" => todo = <<>>)
  BY DEF Publish
<1>2. ranked = <<>> /\ half = <<>>
  BY <1>1 DEF SInv, Ranking, IInv, Control
<1>3. Held' /\ Ranking' /\ Reading' /\ RowsAreTrue'
  BY <1>1, <1>2 DEF Held, Ranking, Reading, RowsAreTrue
<1>4. Halfway'
  BY <1>1, <1>2 DEF Halfway
<1> QED
  BY <1>3, <1>4 DEF SInv

(* What Snapshot relies on holds from the start and is kept by every step. *)
THEOREM SnapshotInvariance == Spec => [](IInv /\ SInv)
<1>1. Init => SInv
  BY DEF Init, SInv, Held, Ranking, Reading, RowsAreTrue, Halfway
<1>2. IInv /\ SInv /\ [Next]_vars => SInv'
  <2> SUFFICES ASSUME IInv, SInv, [Next]_vars PROVE SInv'
    OBVIOUS
  <2>1. CASE \E e \in EventsOf(kind) : Record(e)
    BY <2>1, SnapshotDuringRecord
  <2>2. CASE SnapshotLock
    BY <2>2, LockSees
  <2>3. CASE RankOne
    BY <2>3, RankOneKeeps
  <2>4. CASE RankDone
    BY <2>4, RankDoneKeeps
  <2>5. CASE ReadFirst
    BY <2>5, ReadFirstKeeps
  <2>6. CASE ReadSecond
    BY <2>6, ReadSecondKeeps
  <2>7. CASE Publish
    BY <2>7, PublishKeeps
  <2>8. CASE UNCHANGED vars
    <3>1. /\ kind' = kind /\ phase' = phase /\ todo' = todo /\ ranked' = ranked
          /\ half' = half /\ rows' = rows /\ atLock' = atLock /\ objs' = objs
      BY <2>8 DEF vars, snapshot, lru
    <3> QED
      BY <3>1 DEF SInv, Held, Ranking, Reading, RowsAreTrue, Halfway, Better, Whole, Picked
  <2> QED
    BY <2>1, <2>2, <2>3, <2>4, <2>5, <2>6, <2>7, <2>8 DEF Next
<1> QED
  BY <1>1, <1>2, Invariance, PTL DEF Spec

(***************************************************************************)
(* What is published                                                       *)
(***************************************************************************)
(* The rows before the cut: rows of live entries, at most one of each, and *)
(* if nothing was recorded in rank order, with every entry that may belong *)
(* to the first TopN.                                                      *)
FinalRows(final) ==
    /\ final \in Seq(Rows)
    /\ \A i \in 1..Len(final) :
          /\ final[i].obj \in atLock.live
          /\ final[i].key = atLock.objs[final[i].obj].key
          /\ Between(atLock.objs[final[i].obj], final[i], objs[final[i].obj])
    /\ \A i, j \in 1..Len(final) : i # j => final[i].obj # final[j].obj
    /\ AtMostTopN(Len(final)) = AtMostTopN(Cardinality(atLock.live))
    /\ objs = atLock.objs =>
          /\ \A i, j \in 1..Len(final) : i < j => ~RowBefore(kind, final[j], final[i])
          /\ \A id \in atLock.live :
                \/ \E i \in 1..Len(final) : final[i] = Row(id, objs[id])
                \/ \A i \in 1..Len(final) : ~RowBefore(kind, Row(id, objs[id]), final[i])

(* Everything has been read when Publish runs.                             *)
LEMMA AllIsRead ==
  ASSUME IInv, SInv, Publish
  PROVE  /\ phase \in {"read", "publish"} /\ todo = <<>> /\ TypeOK /\ Held
         /\ Len(rows) \in Nat /\ rows \in Seq(Rows)
         /\ Len(Picked) = Len(rows)
         /\ \A i \in 1..Len(rows) : Picked[i] = rows[i].obj /\ Picked[i] \in atLock.live
<1>1. phase \in {"read", "publish"} /\ (phase = "read" => todo = <<>>)
  BY DEF Publish
<1>2. todo = <<>>
  BY <1>1 DEF SInv, Reading
<1>3. TypeOK /\ Held
  BY DEF IInv, SInv
<1>4. Len(todo) = 0
  BY <1>2
<1>5. Len(rows) \in Nat /\ Len(Picked) = Len(rows) + Len(todo) /\ rows \in Seq(Rows)
  BY <1>3, PickedProperties DEF TypeOK
<1>6. Len(Picked) = Len(rows)
  BY <1>4, <1>5
<1>7. \A i \in 1..Len(rows) : Picked[i] = rows[i].obj
  BY <1>3, PickedProperties
<1>8. \A i \in 1..Len(rows) : Picked[i] \in atLock.live
  BY <1>1, <1>6 DEF SInv, Reading
<1> QED
  BY <1>1, <1>2, <1>3, <1>5, <1>6, <1>7, <1>8

(* The rows that have been built are final for tcp and sched.              *)
LEMMA RowsAreFinal ==
  ASSUME IInv, SInv, Publish, ~Whole
  PROVE  FinalRows(rows)
<1> DEFINE n == Len(rows)
           live == atLock.live
<1>1. /\ phase \in {"read", "publish"} /\ TypeOK /\ Held /\ n \in Nat /\ rows \in Seq(Rows)
      /\ Len(Picked) = n
      /\ \A i \in 1..n : Picked[i] = rows[i].obj /\ Picked[i] \in live
  BY AllIsRead
<1>2. \A i \in 1..n :
         /\ rows[i].key = atLock.objs[rows[i].obj].key
         /\ Between(atLock.objs[rows[i].obj], rows[i], objs[rows[i].obj])
         /\ objs = atLock.objs => rows[i] = Row(rows[i].obj, atLock.objs[rows[i].obj])
  BY <1>1 DEF SInv, RowsAreTrue
<1>3. \A i, j \in 1..n : i # j => rows[i].obj # rows[j].obj
  BY <1>1 DEF SInv, Reading, Distinct
<1>4. n = AtMostTopN(Cardinality(live))
  BY <1>1 DEF SInv, Reading
<1>5. AtMostTopN(n) = n
  <2>1. live \subseteq 1..Len(atLock.objs) /\ Len(atLock.objs) \in Nat
    BY <1>1, LockTypes DEF Held
  <2>2. 1 \in Int /\ Len(atLock.objs) \in Int
    BY <2>1
  <2>3. IsFiniteSet(1..Len(atLock.objs))
    BY <2>2, FS_Interval, Zenon
  <2>4. IsFiniteSet(live)
    BY <2>1, <2>3, FS_Subset, Zenon
  <2>5. Cardinality(live) \in Nat
    BY <2>4, FS_CardinalityType, Zenon
  <2> HIDE DEF live, n
  <2> QED
    BY <1>4, <2>5, TopNAssumption DEF AtMostTopN
<1>6. ASSUME objs = atLock.objs
      PROVE  /\ \A i, j \in 1..n : i < j => ~RowBefore(kind, rows[j], rows[i])
             /\ \A id \in live :
                   \/ \E i \in 1..n : rows[i] = Row(id, objs[id])
                   \/ \A i \in 1..n : ~RowBefore(kind, Row(id, objs[id]), rows[i])
  <2>1. \A i \in 1..n : rows[i] = Row(Picked[i], atLock.objs[Picked[i]])
    BY <1>1, <1>2, <1>6
  <2>2. /\ \A i, j \in 1..n : i < j => ~Better(Picked[j], Picked[i])
        /\ \A id \in live :
              Tracks(Picked, id) \/ \A i \in 1..n : ~Better(id, Picked[i])
    BY <1>1, <1>6 DEF SInv, Reading
  <2>3. \A i, j \in 1..n : i < j => ~RowBefore(kind, rows[j], rows[i])
    BY <2>1, <2>2 DEF Better
  <2>4. ASSUME NEW id \in live, Tracks(Picked, id)
        PROVE  \E i \in 1..n : rows[i] = Row(id, objs[id])
    <3>1. PICK i \in 1..n : Picked[i] = id
      BY <1>1, <2>4 DEF Tracks
    <3> QED
      BY <1>6, <2>1, <3>1
  <2>5. ASSUME NEW id \in live, \A i \in 1..n : ~Better(id, Picked[i])
        PROVE  \A i \in 1..n : ~RowBefore(kind, Row(id, objs[id]), rows[i])
    BY <1>6, <2>1, <2>5 DEF Better
  <2> QED
    BY <2>2, <2>3, <2>4, <2>5
<1>7. \A i \in 1..n : rows[i].obj \in live
  BY <1>1
<1>8. AtMostTopN(n) = AtMostTopN(Cardinality(live))
  BY <1>4, <1>5
<1> QED
  BY <1>1, <1>2, <1>3, <1>5, <1>6, <1>7, <1>8 DEF FinalRows

(* syscall and fd publish all rows, sorted.                                *)
LEMMA SortedIsFinal ==
  ASSUME IInv, SInv, Publish, Whole, NEW final \in Sorted(kind, rows)
  PROVE  FinalRows(final)
<1> DEFINE n == Len(rows)
           live == atLock.live
<1>1. /\ phase \in {"read", "publish"} /\ TypeOK /\ Held /\ n \in Nat /\ rows \in Seq(Rows)
      /\ Len(Picked) = n
      /\ \A i \in 1..n : Picked[i] = rows[i].obj /\ Picked[i] \in live
  BY AllIsRead
<1>2. \A i \in 1..n :
         /\ rows[i].key = atLock.objs[rows[i].obj].key
         /\ Between(atLock.objs[rows[i].obj], rows[i], objs[rows[i].obj])
         /\ objs = atLock.objs => rows[i] = Row(rows[i].obj, atLock.objs[rows[i].obj])
  BY <1>1 DEF SInv, RowsAreTrue
<1>3. \A i, j \in 1..n : i # j => rows[i].obj # rows[j].obj
  BY <1>1 DEF SInv, Reading, Distinct
<1>4. n = Cardinality(live) /\ \A id \in live : Tracks(Picked, id)
  BY <1>1 DEF SInv, Reading
<1>5. /\ final \in Seq(Rows) /\ Len(final) = n
      /\ \A i, j \in 1..n : i < j => ~RowBefore(kind, final[j], final[i])
  BY <1>1, SortedProperties
<1>6. PICK p \in [1..n -> 1..n] :
        /\ \A i \in 1..n : final[i] = rows[p[i]]
        /\ \A i, j \in 1..n : i # j => p[i] # p[j]
        /\ \A j \in 1..n : \E i \in 1..n : p[i] = j
  <2>1. PICK p : Rearranges(p, rows, final)
    BY <1>1, SortedProperties
  <2> QED
    BY <2>1, Zenon DEF Rearranges
<1> HIDE DEF n, live
<1>7. \A i \in 1..n : p[i] \in 1..n
  BY <1>6
<1>8. \A i \in 1..n :
         /\ final[i].obj \in live
         /\ final[i].key = atLock.objs[final[i].obj].key
         /\ Between(atLock.objs[final[i].obj], final[i], objs[final[i].obj])
         /\ objs = atLock.objs => final[i] = Row(final[i].obj, atLock.objs[final[i].obj])
  <2> SUFFICES ASSUME NEW i \in 1..n
               PROVE  /\ final[i].obj \in live
                      /\ final[i].key = atLock.objs[final[i].obj].key
                      /\ Between(atLock.objs[final[i].obj], final[i], objs[final[i].obj])
                      /\ objs = atLock.objs =>
                            final[i] = Row(final[i].obj, atLock.objs[final[i].obj])
    OBVIOUS
  <2>1. p[i] \in 1..n /\ final[i] = rows[p[i]]
    BY <1>6, <1>7
  <2>2. PICK r : r = rows[p[i]] /\ final[i] = r
    BY <2>1
  <2>3. r.obj \in live
    BY <1>1, <2>1, <2>2
  <2>4. /\ r.key = atLock.objs[r.obj].key
        /\ Between(atLock.objs[r.obj], r, objs[r.obj])
        /\ objs = atLock.objs => r = Row(r.obj, atLock.objs[r.obj])
    BY <1>2, <2>1, <2>2
  <2> QED
    BY <2>2, <2>3, <2>4
<1>9. \A i, j \in 1..n : i # j => final[i].obj # final[j].obj
  <2> SUFFICES ASSUME NEW i \in 1..n, NEW j \in 1..n, i # j
               PROVE  final[i].obj # final[j].obj
    OBVIOUS
  <2>1. p[i] \in 1..n /\ p[j] \in 1..n /\ p[i] # p[j]
    BY <1>6, <1>7, Zenon
  <2>2. final[i] = rows[p[i]] /\ final[j] = rows[p[j]]
    BY <1>6, Zenon
  <2>3. rows[p[i]].obj # rows[p[j]].obj
    BY <1>3, <2>1, Zenon
  <2> QED
    BY <2>2, <2>3, Zenon
<1>10. ASSUME objs = atLock.objs, NEW id \in live
       PROVE  \E i \in 1..n : final[i] = Row(id, objs[id])
  <2>1. PICK j \in 1..n : Picked[j] = id
    BY <1>1, <1>4 DEF Tracks
  <2>2. rows[j] = Row(id, objs[id])
    BY <1>1, <1>2, <1>10, <2>1
  <2>3. PICK i \in 1..n : p[i] = j
    BY <1>6
  <2> QED
    BY <1>6, <2>2, <2>3
<1> QED
  BY <1>4, <1>5, <1>8, <1>9, <1>10 DEF FinalRows, n, live

(* So final rows, cut at TopN, are what is published.                      *)
LEMMA PublishedRows ==
  ASSUME IInv, SInv, Publish
  PROVE  \E final : FinalRows(final) /\ published'[1].rows = Top(final)
<1>1. CASE Whole
  <2>1. PICK final \in Sorted(kind, rows) : published' = <<[total |-> atTotal, rows |-> Top(final)]>>
    BY <1>1 DEF Publish, Whole
  <2>2. published'[1].rows = Top(final)
    BY <2>1
  <2>3. FinalRows(final)
    BY <1>1, SortedIsFinal
  <2> QED
    BY <2>2, <2>3
<1>2. CASE ~Whole
  <2>1. published' = <<[total |-> atTotal, rows |-> Top(rows)]>>
    BY <1>2 DEF Publish, Whole
  <2>2. published'[1].rows = Top(rows)
    BY <2>1
  <2>3. FinalRows(rows)
    BY <1>2, RowsAreFinal
  <2> QED
    BY <2>2, <2>3
<1> QED
  BY <1>1, <1>2

(* Only Publish returns.                                                   *)
LEMMA PublishReturns == ASSUME Next, Returns PROVE Publish
<1>1. phase' # phase /\ phase' = "idle"
  BY DEF Returns
<1>2. ASSUME NEW e, Record(e) PROVE FALSE
  BY <1>1, <1>2 DEF Record, snapshot
<1>3. ~SnapshotLock
  BY <1>1 DEF SnapshotLock
<1>4. ~RankOne /\ ~RankDone /\ ~ReadFirst /\ ~ReadSecond
  BY <1>1 DEF RankOne, RankDone, ReadFirst, ReadSecond
<1> QED
  BY <1>2, <1>3, <1>4 DEF Next

(* A published row is of an entry tracked when Snapshot held the lock, one *)
(* row each, none missing below the cut, and shows counters the entry had  *)
(* between that moment and publication, whatever record did meanwhile.     *)
THEOREM SnapshotRegularHolds == Spec => SnapshotRegular
<1> DEFINE Regular ==
             LET out == published'[1].rows
             IN  /\ Len(out) = AtMostTopN(Cardinality(atLock.live))
                 /\ \A i \in DOMAIN out :
                       /\ out[i].obj \in atLock.live
                       /\ Between(atLock.objs[out[i].obj], out[i], objs[out[i].obj])
                       /\ \A j \in DOMAIN out : i # j => out[i].key # out[j].key
<1>1. IInv /\ SInv /\ [Next]_vars => [Returns => Regular]_vars
  <2> SUFFICES ASSUME IInv, SInv, Next, Returns PROVE Regular
    OBVIOUS
  <2>1. Publish
    BY PublishReturns
  <2>2. PICK final : FinalRows(final) /\ published'[1].rows = Top(final)
    BY <2>1, PublishedRows
  <2> DEFINE out == published'[1].rows
             c   == AtMostTopN(Len(final))
  <2>3. /\ out \in Seq(Rows) /\ Len(out) = c /\ c \in Nat /\ c <= Len(final)
        /\ \A i \in 1..c : out[i] = final[i]
    <3>1. final \in Seq(Rows)
      BY <2>2 DEF FinalRows
    <3> HIDE DEF c
    <3>2. out = Top(final)
      BY <2>2
    <3> HIDE DEF out
    <3>3. /\ Top(final) \in Seq(Rows) /\ Len(Top(final)) = AtMostTopN(Len(final))
          /\ Len(Top(final)) \in Nat /\ Len(Top(final)) <= Len(final)
          /\ \A i \in 1..Len(Top(final)) : Top(final)[i] = final[i]
      BY <3>1, TopProperties, Zenon
    <3> QED
      BY <3>2, <3>3, Zenon DEF c
  <2> HIDE DEF out, c
  <2>4. DOMAIN out = 1..c
    BY <2>3, LenProperties
  <2>5. \A i \in 1..c : i \in 1..Len(final)
    <3>1. Len(final) \in Nat
      BY <2>2, LenProperties DEF FinalRows
    <3> QED
      BY <2>3, <3>1
  <2>6. c = AtMostTopN(Cardinality(atLock.live))
    BY <2>2 DEF FinalRows, c
  <2>7. \A i \in 1..c :
           /\ out[i].obj \in atLock.live
           /\ out[i].key = atLock.objs[out[i].obj].key
           /\ Between(atLock.objs[out[i].obj], out[i], objs[out[i].obj])
    BY <2>2, <2>3, <2>5 DEF FinalRows
  <2>8. \A i, j \in 1..c : i # j => out[i].obj # out[j].obj
    BY <2>2, <2>3, <2>5 DEF FinalRows
  <2>9. \A a, b \in atLock.live : atLock.objs[a].key = atLock.objs[b].key => a = b
    BY DEF SInv, Held, Returns
  <2>10. \A i, j \in 1..c : i # j => out[i].key # out[j].key
    BY <2>7, <2>8, <2>9
  <2>11. /\ Len(out) = AtMostTopN(Cardinality(atLock.live))
         /\ \A i \in DOMAIN out :
               /\ out[i].obj \in atLock.live
               /\ Between(atLock.objs[out[i].obj], out[i], objs[out[i].obj])
               /\ \A j \in DOMAIN out : i # j => out[i].key # out[j].key
    BY <2>3, <2>4, <2>6, <2>7, <2>10, Zenon
  <2> QED
    BY <2>11, Zenon DEF out
<1> QED
  BY <1>1, SnapshotInvariance, PTL DEF Spec, SnapshotRegular

(* When no event arrives during Snapshot, the rows are the worst offenders *)
(* in rank order: no entry cut off ranks before a published one.           *)
THEOREM WorstOffendersFirstHolds == Spec => WorstOffendersFirst
<1> DEFINE Worst ==
             LET out == published'[1].rows
             IN  /\ \A i, j \in DOMAIN out : i < j => ~RowBefore(kind, out[j], out[i])
                 /\ \A id \in atLock.live :
                       \/ \E i \in DOMAIN out : out[i].obj = id
                       \/ \A i \in DOMAIN out : ~RowBefore(kind, Row(id, objs[id]), out[i])
<1>1. IInv /\ SInv /\ [Next]_vars => [Returns /\ objs = atLock.objs => Worst]_vars
  <2> SUFFICES ASSUME IInv, SInv, Next, Returns, objs = atLock.objs PROVE Worst
    OBVIOUS
  <2>1. Publish
    BY PublishReturns
  <2>2. PICK final : FinalRows(final) /\ published'[1].rows = Top(final)
    BY <2>1, PublishedRows
  <2> DEFINE out == published'[1].rows
             c   == AtMostTopN(Len(final))
  <2>3. /\ out \in Seq(Rows) /\ Len(out) = c /\ c \in Nat /\ c <= Len(final)
        /\ \A i \in 1..c : out[i] = final[i]
    <3>1. final \in Seq(Rows)
      BY <2>2 DEF FinalRows
    <3> HIDE DEF c
    <3>2. out = Top(final)
      BY <2>2
    <3> HIDE DEF out
    <3>3. /\ Top(final) \in Seq(Rows) /\ Len(Top(final)) = AtMostTopN(Len(final))
          /\ Len(Top(final)) \in Nat /\ Len(Top(final)) <= Len(final)
          /\ \A i \in 1..Len(Top(final)) : Top(final)[i] = final[i]
      BY <3>1, TopProperties, Zenon
    <3> QED
      BY <3>2, <3>3, Zenon DEF c
  <2> HIDE DEF out
  <2>4. DOMAIN out = 1..c
    BY <2>3, LenProperties
  <2>5. Len(final) \in Nat
    BY <2>2, LenProperties DEF FinalRows
  <2>6. c = IF Len(final) < TopN THEN Len(final) ELSE TopN
    BY DEF AtMostTopN
  <2> HIDE DEF c
  <2>7. \A i \in 1..c : i \in 1..Len(final)
    BY <2>3, <2>5
  <2>8. \A i, j \in 1..Len(final) : i < j => ~RowBefore(kind, final[j], final[i])
    BY <2>2 DEF FinalRows
  <2>9. \A i, j \in 1..c : i < j => ~RowBefore(kind, out[j], out[i])
    BY <2>3, <2>7, <2>8
  <2>10. ASSUME NEW id \in atLock.live
         PROVE  \/ \E i \in 1..c : out[i].obj = id
                \/ \A i \in 1..c : ~RowBefore(kind, Row(id, objs[id]), out[i])
    <3>1. CASE \E i \in 1..Len(final) : final[i] = Row(id, objs[id])
      <4>1. PICK i \in 1..Len(final) : final[i] = Row(id, objs[id])
        BY <3>1
      <4>2. CASE i \in 1..c
        <5>1. out[i].obj = id
          BY <2>3, <4>1, <4>2 DEF Row
        <5> QED
          BY <4>2, <5>1
      <4>3. CASE ~(i \in 1..c)
        <5>1. \A j \in 1..c : j < i /\ j \in 1..Len(final)
          BY <2>3, <2>5, <4>3
        <5>2. \A j \in 1..c : ~RowBefore(kind, Row(id, objs[id]), out[j])
          BY <2>3, <2>8, <4>1, <5>1
        <5> QED
          BY <5>2
      <4> QED
        BY <4>2, <4>3
    <3>2. CASE \A i \in 1..Len(final) : ~RowBefore(kind, Row(id, objs[id]), final[i])
      BY <2>3, <2>7, <3>2
    <3> QED
      BY <2>2, <3>1, <3>2 DEF FinalRows
  <2>11. /\ \A i, j \in DOMAIN out : i < j => ~RowBefore(kind, out[j], out[i])
         /\ \A id \in atLock.live :
               \/ \E i \in DOMAIN out : out[i].obj = id
               \/ \A i \in DOMAIN out : ~RowBefore(kind, Row(id, objs[id]), out[i])
    BY <2>4, <2>9, <2>10, Zenon
  <2> QED
    BY <2>11, Zenon DEF out
<1> QED
  BY <1>1, SnapshotInvariance, PTL DEF Spec, WorstOffendersFirst
=============================================================================
