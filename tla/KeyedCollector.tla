------------------------------ MODULE KeyedCollector ------------------------------
(***************************************************************************)
(* The collectors that aggregate events by key under an LRU: "syscall" by  *)
(* (syscall, comm), "fd" and "sched" by (pid, comm), "tcp" by connection.  *)
(* Two goroutines touch a collector: its consumer calls record for every   *)
(* event, and main calls Snapshot.  Both take c.mu, but Snapshot of fd,    *)
(* tcp and sched copies only POINTERS to the entries under it and reads    *)
(* the counters after unlocking, while record goes on.                     *)
(*                                                                         *)
(* Entries are objects: objs[i] is the i-th entry ever allocated, slot     *)
(* maps a tracked key to its object, and an evicted object lives on in the *)
(* hands of a Snapshot that copied its pointer.                            *)
(***************************************************************************)
EXTENDS Integers, Sequences, FiniteSets, LRU

CONSTANTS
    Keys,         \* the keys events carry
    KeyCap,       \* capacity given to the LRU (4096 in the code)
    TopN,         \* rows of a published snapshot (64, 16, 32, 32)
    Latencies,    \* latencies an event carries, 0 the shortest
    MaxRecords,   \* bound of the model: events recorded
    Kinds         \* the collectors to consider

ASSUME KeyCapAssumption     == KeyCap \in Int
ASSUME TopNAssumption       == TopN \in Nat
ASSUME LatenciesAssumption  == Latencies \subseteq Nat /\ 0 \in Latencies
ASSUME MaxRecordsAssumption == MaxRecords \in Nat
ASSUME KindsAssumption      == Kinds \subseteq {"syscall", "fd", "tcp", "sched"}

VARIABLES
    kind,       \* which collector this is; never changes
    order,      \* the LRU's keys, newest first
    slot,       \* [Keys -> Nat]: the object of a tracked key, 0 of any other
    objs,       \* every entry allocated so far
    evicted,    \* the LRU's eviction counter
    total,      \* the collector's totals
    seen,       \* history: events recorded
    lastUse,    \* history: [Keys -> Nat], the latest event of a key, 0 if none
    phase,      \* Snapshot: "idle", "rank", "read", "publish"
    todo,       \* Snapshot: copied pointers not yet processed
    ranked,     \* Snapshot: pointers sorted so far (tcp and sched)
    half,       \* Snapshot: an entry of which the first half has been read
    rows,       \* Snapshot: rows built so far
    atTotal,    \* Snapshot: the totals copied under the lock
    atLock,     \* history: the live objects when Snapshot held the lock
    published   \* the snapshot last returned, until the next call; <<>> if none

lru      == <<order, slot, objs, evicted>>
history  == <<seen, lastUse>>
snapshot == <<phase, todo, ranked, half, rows, atTotal, atLock>>
vars     == <<kind, lru, total, history, snapshot, published>>

Cap == EffectiveCap(KeyCap)

(***************************************************************************)
(* What an event does.  An entry and the totals have two counters:         *)
(*             n of entry / totals           m of entry / totals           *)
(*   syscall   count / totalCount            errorCount / -                *)
(*   sched     count / total                 - / -                         *)
(*   tcp       retransmits/totalRetransmits  - / totalEvents               *)
(*   fd        opens / totalOpens            closes / totalCloses          *)
(* A "flagged" event is a failed syscall, a retransmit, or an open.  hi is *)
(* the largest latency of the entry's histogram: of so few events as occur *)
(* here, the 99th percentile is the largest.                               *)
(***************************************************************************)
Events == [key : Keys, flagged : BOOLEAN, lat : Latencies]

EventsOf(k) ==
    {e \in Events : /\ k = "sched" => ~e.flagged
                    /\ k = "fd" => e.lat = 0}

One(cond) == IF cond THEN 1 ELSE 0

AddsToEntry(k, e) ==
    [n |-> One(k \in {"syscall", "sched"} \/ e.flagged),
     m |-> One(CASE k = "syscall" -> e.flagged
                 [] k = "fd"      -> ~e.flagged
                 [] OTHER         -> FALSE)]

AddsToTotal(k, e) ==
    [n |-> AddsToEntry(k, e).n,
     m |-> One(k = "tcp" \/ (k = "fd" /\ ~e.flagged))]

Counters == [n : Nat, m : Nat]
Objects  == [key : Keys, n : Nat, m : Nat, hi : Latencies]
Fresh(k) == [key |-> k, n |-> 0, m |-> 0, hi |-> 0]

Bump(o, k, e) ==
    [o EXCEPT !.n  = @ + AddsToEntry(k, e).n,
              !.m  = @ + AddsToEntry(k, e).m,
              !.hi = IF e.lat > @ THEN e.lat ELSE @]

(***************************************************************************)
(* Rows of a snapshot.  Before is the "less" of each collector's sort.     *)
(***************************************************************************)
Rows == [key : Keys, obj : Nat, n : Nat, m : Nat, hi : Latencies, delta : Int]

Row(id, o) ==
    [key |-> o.key, obj |-> id, n |-> o.n, m |-> o.m, hi |-> o.hi, delta |-> o.n - o.m]

Before(k, a, b) ==
    CASE k = "syscall" -> a.hi > b.hi \/ (a.hi = b.hi /\ a.n > b.n)
      [] k = "tcp"     -> a.n > b.n \/ (a.n = b.n /\ a.hi > b.hi)
      [] k = "sched"   -> a.hi > b.hi
      [] k = "fd"      -> a.n - a.m > b.n - b.m

\* fd ranks finished rows, by the difference it computed first.
RowBefore(k, a, b) == IF k = "fd" THEN a.delta > b.delta ELSE Before(k, a, b)

\* sort.Slice is not stable: any ordering that "less" does not contradict.
Sorted(k, s) ==
    LET places == {p \in [DOMAIN s -> DOMAIN s] : \A i, j \in DOMAIN s : i # j => p[i] # p[j]}
    IN  {t \in {[i \in DOMAIN s |-> s[p[i]]] : p \in places} :
            \A i, j \in DOMAIN t : i < j => ~RowBefore(k, t[j], t[i])}

AtMostTopN(n) == IF n < TopN THEN n ELSE TopN
Top(s) == SubSeq(s, 1, AtMostTopN(Len(s)))

TypeOK ==
    /\ kind \in Kinds
    /\ order \in Seq(Keys) /\ Len(order) <= Cap
    /\ slot \in [Keys -> 0..Len(objs)]
    /\ objs \in Seq(Objects)
    /\ evicted \in Nat /\ seen \in 0..MaxRecords
    /\ total \in Counters /\ atTotal \in Counters
    /\ lastUse \in [Keys -> 0..seen]
    /\ phase \in {"idle", "rank", "read", "publish"}
    /\ todo \in Seq(1..Len(objs)) /\ ranked \in Seq(1..Len(objs))
    /\ half \in Seq(Objects) /\ Len(half) <= 1
    /\ rows \in Seq(Rows)
    /\ atLock \in [live : SUBSET (1..Len(objs)), objs : Seq(Objects)]
    /\ Len(published) <= 1

NotLocked == [live |-> {}, objs |-> <<>>]

Init ==
    /\ kind \in Kinds
    /\ order = <<>> /\ slot = [k \in Keys |-> 0] /\ objs = <<>> /\ evicted = 0
    /\ total = [n |-> 0, m |-> 0]
    /\ seen = 0 /\ lastUse = [k \in Keys |-> 0]
    /\ phase = "idle" /\ todo = <<>> /\ ranked = <<>> /\ half = <<>> /\ rows = <<>>
    /\ atTotal = [n |-> 0, m |-> 0]
    /\ atLock = NotLocked
    /\ published = <<>>

(***************************************************************************)
(* record(event), all of it under c.mu.                                    *)
(***************************************************************************)
Oldest == order[Len(order)]

\* Mutant of Slots: the evicted key stays in the map.
SlotsKept(k, id, full) == [slot EXCEPT ![k] = id]

\* The map after k has been used: k has object id, an evicted key has none.
Slots(k, id, full) ==
    [x \in Keys |-> IF x = k THEN id
                    ELSE IF full /\ x = Oldest THEN 0 ELSE slot[x]]

Record(e) ==
    /\ seen < MaxRecords
    /\ LET k    == e.key
           hit  == Tracks(order, k)
           full == Evicts(order, k, Cap)
           id   == IF hit THEN slot[k] ELSE Len(objs) + 1
       IN  /\ order' = Use(order, k, Cap)
           /\ slot'  = Slots(k, id, full)
           /\ objs'  = IF hit THEN [objs EXCEPT ![id] = Bump(@, kind, e)]
                              ELSE Append(objs, Bump(Fresh(k), kind, e))
           /\ evicted' = evicted + One(full)
           /\ total' = [n |-> total.n + AddsToTotal(kind, e).n,
                        m |-> total.m + AddsToTotal(kind, e).m]
           /\ seen' = seen + 1
           /\ lastUse' = [lastUse EXCEPT ![k] = seen + 1]
    /\ UNCHANGED <<kind, snapshot, published>>

(***************************************************************************)
(* Snapshot.                                                               *)
(***************************************************************************)
\* Mutant of Pointers: the loop over the list stops before the last element.
PointersButLast == [i \in 1..(Len(order) - 1) |-> slot[order[i]]]

Pointers == [i \in 1..Len(order) |-> slot[order[i]]]

\* The part under c.mu: syscall builds its rows there, the others copy pointers.
SnapshotLock ==
    /\ phase = "idle"
    /\ atTotal' = total
    /\ atLock' = [live |-> {slot[k] : k \in Keys} \ {0}, objs |-> objs]
    /\ IF kind = "syscall"
       THEN /\ rows' = [i \in DOMAIN Pointers |-> Row(Pointers[i], objs[Pointers[i]])]
            /\ phase' = "publish" /\ todo' = <<>>
       ELSE /\ rows' = <<>> /\ todo' = Pointers
            /\ phase' = IF kind = "fd" THEN "read" ELSE "rank"
    /\ published' = <<>>
    /\ UNCHANGED <<kind, lru, total, history, ranked, half>>

\* tcp and sched sort the pointers by counters that record may be changing:
\* insertion, each comparison reading the entries as they are now.
RankOne ==
    /\ phase = "rank" /\ todo # <<>>
    /\ \E at \in 0..Len(ranked) :
          LET id == Head(todo)
          IN  /\ at # 0 => ~Before(kind, objs[id], objs[ranked[at]])
              /\ \A q \in (at + 1)..Len(ranked) : Before(kind, objs[id], objs[ranked[q]])
              /\ ranked' = SubSeq(ranked, 1, at) \o <<id>> \o SubSeq(ranked, at + 1, Len(ranked))
    /\ todo' = Tail(todo)
    /\ UNCHANGED <<kind, lru, total, history, phase, half, rows, atTotal, atLock, published>>

RankDone ==
    /\ phase = "rank" /\ todo = <<>>
    /\ todo' = Top(ranked) /\ ranked' = <<>> /\ phase' = "read"
    /\ UNCHANGED <<kind, lru, total, history, half, rows, atTotal, atLock, published>>

\* A row is built from several loads of the entry, in this order: fd computes
\* the difference and then loads opens and closes again; sched loads the count
\* and then the histogram; tcp the histogram and then the retransmits.
ReadFirst ==
    /\ phase = "read" /\ todo # <<>> /\ half = <<>>
    /\ half' = <<objs[Head(todo)]>>
    /\ UNCHANGED <<kind, lru, total, history, phase, todo, ranked, rows,
                   atTotal, atLock, published>>

ReadSecond ==
    /\ phase = "read" /\ half # <<>>
    /\ LET first == half[1]
           then  == Row(Head(todo), objs[Head(todo)])
       IN  rows' = Append(rows,
                     CASE kind = "fd"    -> [then EXCEPT !.delta = first.n - first.m]
                       [] kind = "sched" -> [then EXCEPT !.n = first.n]
                       [] kind = "tcp"   -> [then EXCEPT !.hi = first.hi])
    /\ half' = <<>> /\ todo' = Tail(todo)
    /\ UNCHANGED <<kind, lru, total, history, phase, ranked, atTotal, atLock, published>>

\* Mutant of Publish: the rows are cut before they are ranked.
PublishCutsFirst ==
    /\ \/ phase = "publish"
       \/ phase = "read" /\ todo = <<>>
    /\ \E final \in IF kind \in {"syscall", "fd"} THEN Sorted(kind, Top(rows)) ELSE {rows} :
          published' = <<[total |-> atTotal, rows |-> final]>>
    /\ phase' = "idle" /\ rows' = <<>>
    /\ atTotal' = [n |-> 0, m |-> 0] /\ atLock' = NotLocked
    /\ UNCHANGED <<kind, lru, total, history, todo, ranked, half>>

\* syscall and fd rank and cut the finished rows; tcp and sched did so before.
Publish ==
    /\ \/ phase = "publish"
       \/ phase = "read" /\ todo = <<>>
    /\ \E final \in IF kind \in {"syscall", "fd"} THEN Sorted(kind, rows) ELSE {rows} :
          published' = <<[total |-> atTotal, rows |-> Top(final)]>>
    /\ phase' = "idle" /\ rows' = <<>>
    /\ atTotal' = [n |-> 0, m |-> 0] /\ atLock' = NotLocked
    /\ UNCHANGED <<kind, lru, total, history, todo, ranked, half>>

Next == \/ \E e \in EventsOf(kind) : Record(e)
        \/ SnapshotLock \/ RankOne \/ RankDone \/ ReadFirst \/ ReadSecond \/ Publish

Spec == Init /\ [][Next]_vars

(***************************************************************************)
(* Properties.                                                             *)
(***************************************************************************)
(* The LRU tracks exactly the keys used most recently, newest first, and   *)
(* gives a key up only when Cap others have been used since: a collector   *)
(* under cardinality pressure keeps the keys that are active.              *)
LruExact ==
    /\ \A i, j \in 1..Len(order) : i < j => lastUse[order[i]] > lastUse[order[j]]
    /\ \A k \in Keys :
          /\ Tracks(order, k) => lastUse[k] > 0
          /\ lastUse[k] > 0 /\ ~Tracks(order, k) =>
                /\ Len(order) = Cap
                /\ \A i \in 1..Len(order) : lastUse[order[i]] > lastUse[k]

SumOf(f) == LET upTo[i \in 0..Len(objs)] == IF i = 0 THEN 0 ELSE upTo[i - 1] + f[i]
            IN  upTo[Len(objs)]

(* Every event is counted in exactly one entry, live or evicted, so the    *)
(* totals exceed the sum over the tracked keys by what evictions took; and *)
(* the eviction counter tells how many entries those were.                 *)
EntriesAccountForTotals ==
    /\ evicted = Len(objs) - Len(order)
    /\ \A k \in Keys : IF Tracks(order, k) THEN slot[k] # 0 /\ objs[slot[k]].key = k
                                           ELSE slot[k] = 0
    /\ total.n = SumOf([i \in DOMAIN objs |-> objs[i].n])
    /\ kind = "fd" => total.m = SumOf([i \in DOMAIN objs |-> objs[i].m])

Returns == phase # "idle" /\ phase' = "idle"

Between(lo, r, hi) ==
    lo.n <= r.n /\ r.n <= hi.n /\ lo.m <= r.m /\ r.m <= hi.m /\ lo.hi <= r.hi /\ r.hi <= hi.hi

(* A published row is of an entry tracked when Snapshot held the lock, one *)
(* row each, none missing below the cut, and shows counters the entry had  *)
(* between that moment and publication, even if it was evicted meanwhile.  *)
SnapshotRegular ==
    [][Returns =>
        LET out == published'[1].rows
        IN  /\ Len(out) = AtMostTopN(Cardinality(atLock.live))
            /\ \A i \in DOMAIN out :
                  /\ out[i].obj \in atLock.live
                  /\ Between(atLock.objs[out[i].obj], out[i], objs[out[i].obj])
                  /\ \A j \in DOMAIN out : i # j => out[i].key # out[j].key]_vars

(* When no event arrives during Snapshot, the rows are the worst offenders *)
(* in rank order: no entry cut off ranks before a published one.           *)
WorstOffendersFirst ==
    [][Returns /\ objs = atLock.objs =>
        LET out == published'[1].rows
        IN  /\ \A i, j \in DOMAIN out : i < j => ~RowBefore(kind, out[j], out[i])
            /\ \A id \in atLock.live :
                  \/ \E i \in DOMAIN out : out[i].obj = id
                  \/ \A i \in DOMAIN out : ~RowBefore(kind, Row(id, objs[id]), out[i])]_vars

(* collector.go: "Snapshot returns a point-in-time copy of the aggregated  *)
(* signals": the rows do not count more events than the total beside them. *)
SnapshotIsPointInTime ==
    published # <<>> =>
        LET out == published[1].rows
            upTo[i \in 0..Len(out)] == IF i = 0 THEN 0 ELSE upTo[i - 1] + out[i].n
        IN  upTo[Len(out)] <= published[1].total.n
=============================================================================
