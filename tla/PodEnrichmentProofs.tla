-------------------------- MODULE PodEnrichmentProofs --------------------------
(***************************************************************************)
(* What the Kubernetes adapter and the cgroup collector guarantee for any  *)
(* cluster and any tree of groups: the indexes follow the informer, the    *)
(* gauge shows the snapshot, every limit is reported once and no rate      *)
(* counts more than happened.                                              *)
(***************************************************************************)
EXTENDS PodEnrichment, SequenceTheorems, FiniteSetTheorems, WellFoundedInduction, TLAPS

(***************************************************************************)
(* Keys of the indexes.                                                    *)
(***************************************************************************)
(* A key tells the uid it was made from.                                   *)
LEMMA KeyTellsUid ==
  ASSUME NEW p, NEW k \in CgroupKeys(p)
  PROVE  k[2][1] = p.uid
<1>1. CASE k \in {"uid", "uid_"} \X {<<p.uid>>}
  BY <1>1
<1>2. CASE k \in {"id", "id12"} \X ({p.uid} \X p.containers)
  BY <1>2
<1> QED BY <1>1, <1>2 DEF CgroupKeys

(***************************************************************************)
(* What the indexes u and c hold for one state w of the pods.              *)
(***************************************************************************)
PodOrGone == Pods \cup {Gone}

Known(w) == {n \in Names : w[n] # Gone}

Indexed(w, u, c) ==
    /\ DOMAIN u = {w[n].uid : n \in Known(w)}
    /\ DOMAIN c = UNION {CgroupKeys(w[n]) : n \in Known(w)}
    /\ \A n \in Known(w) : u[w[n].uid] = n /\ \A k \in CgroupKeys(w[n]) : c[k] = n

(* Pods have uids, and what is gone has none.                              *)
LEMMA PodFacts ==
  /\ \A p \in Pods : p.uid \in Uids /\ p.uid \in Nat /\ p.uid # 0 /\ p # Gone
  /\ Gone.uid = 0 /\ \A p \in PodOrGone : p # Gone => p \in Pods
<1>1. \A p \in Pods : p.uid \in Uids
  BY DEF Pods
<1>2. \A p \in Uids : p \in Nat /\ p # 0
  BY MaxUidAssumption DEF Uids
<1>3. Gone.uid = 0
  BY DEF Gone
<1> QED BY <1>1, <1>2, <1>3 DEF PodOrGone

(* addPod puts in a pod whose uid no other pod has.                        *)
LEMMA AddIndexes ==
  ASSUME NEW w \in [Names -> PodOrGone], NEW n \in Names, w[n] = Gone, NEW p \in Pods,
         \A m \in Names : w[m].uid # p.uid,
         Indexed(w, uidIndex, cgroupIndex), addPod(n, p)
  PROVE  Indexed([w EXCEPT ![n] = p], uidIndex', cgroupIndex')
<1> DEFINE x == [w EXCEPT ![n] = p]
<1>1. x[n] = p /\ \A m \in Names \ {n} : x[m] = w[m]
  OBVIOUS
<1>2. p # Gone
  BY PodFacts
<1>3. n \in Known(x) /\ n \notin Known(w) /\ Known(x) = Known(w) \cup {n}
  BY <1>1, <1>2 DEF Known
<1> HIDE DEF x
<1>4. \A m \in Known(w) : m \in Names /\ m # n /\ x[m] = w[m] /\ w[m].uid # p.uid
  BY <1>1, <1>3 DEF Known
<1>5. uidIndex' = With(uidIndex, {p.uid}, n) /\ cgroupIndex' = With(cgroupIndex, CgroupKeys(p), n)
  BY DEF addPod
<1>6. /\ DOMAIN uidIndex' = {p.uid} \cup DOMAIN uidIndex /\ uidIndex'[p.uid] = n
      /\ \A u \in DOMAIN uidIndex \ {p.uid} : uidIndex'[u] = uidIndex[u]
  BY <1>5 DEF With
<1>7. /\ DOMAIN cgroupIndex' = CgroupKeys(p) \cup DOMAIN cgroupIndex
      /\ \A k \in CgroupKeys(p) : cgroupIndex'[k] = n
      /\ \A k \in DOMAIN cgroupIndex \ CgroupKeys(p) : cgroupIndex'[k] = cgroupIndex[k]
  BY <1>5 DEF With
<1>8. \A m \in Known(w) : CgroupKeys(w[m]) \cap CgroupKeys(p) = {}
  BY <1>4, KeyTellsUid
<1>9. DOMAIN uidIndex' = {x[m].uid : m \in Known(x)}
  BY <1>1, <1>3, <1>4, <1>6 DEF Indexed
<1>10. DOMAIN cgroupIndex' = UNION {CgroupKeys(x[m]) : m \in Known(x)}
  <2>1. {CgroupKeys(x[m]) : m \in Known(x)} = {CgroupKeys(w[m]) : m \in Known(w)} \cup {CgroupKeys(p)}
    BY <1>1, <1>3, <1>4
  <2> QED BY <2>1, <1>7 DEF Indexed
<1>11. ASSUME NEW m \in Known(x)
       PROVE  uidIndex'[x[m].uid] = m /\ \A k \in CgroupKeys(x[m]) : cgroupIndex'[k] = m
  <2>1. CASE m = n
    BY <1>1, <1>6, <1>7, <2>1
  <2>2. CASE m \in Known(w)
    <3>1. w[m].uid \in DOMAIN uidIndex /\ uidIndex[w[m].uid] = m
      BY <2>2 DEF Indexed
    <3>2. \A k \in CgroupKeys(w[m]) : k \in DOMAIN cgroupIndex /\ cgroupIndex[k] = m
      BY <2>2 DEF Indexed
    <3> QED BY <1>4, <1>6, <1>7, <1>8, <2>2, <3>1, <3>2
  <2> QED BY <1>3, <2>1, <2>2
<1>12. Indexed(x, uidIndex', cgroupIndex')
  BY <1>9, <1>10, <1>11 DEF Indexed
<1> QED BY <1>12 DEF x

(* removePod takes out all that addPod put in, and nothing of another pod. *)
LEMMA RemoveUnindexes ==
  ASSUME NEW w \in [Names -> PodOrGone], NEW n \in Names, w[n] # Gone,
         \A m \in Names \ {n} : w[m].uid # w[n].uid,
         Indexed(w, uidIndex, cgroupIndex), removePod(w[n])
  PROVE  Indexed([w EXCEPT ![n] = Gone], uidIndex', cgroupIndex')
<1> DEFINE x == [w EXCEPT ![n] = Gone]
           p == w[n]
<1>1. x[n] = Gone /\ \A m \in Names \ {n} : x[m] = w[m]
  OBVIOUS
<1>2. n \in Known(w) /\ Known(x) = Known(w) \ {n}
  BY <1>1 DEF Known
<1>3. \A m \in Names \ {n} : w[m].uid # p.uid
  OBVIOUS
<1>4. uidIndex' = Without(uidIndex, {p.uid}) /\ cgroupIndex' = Without(cgroupIndex, CgroupKeys(p))
  BY DEF removePod
<1> HIDE DEF x, p
<1>5. \A m \in Known(x) : m \in Known(w) /\ m \in Names /\ m # n /\ x[m] = w[m] /\ w[m].uid # p.uid
  BY <1>1, <1>2, <1>3 DEF Known
<1>6. /\ DOMAIN uidIndex' = DOMAIN uidIndex \ {p.uid}
      /\ \A u \in DOMAIN uidIndex \ {p.uid} : uidIndex'[u] = uidIndex[u]
  BY <1>4 DEF Without
<1>7. /\ DOMAIN cgroupIndex' = DOMAIN cgroupIndex \ CgroupKeys(p)
      /\ \A k \in DOMAIN cgroupIndex \ CgroupKeys(p) : cgroupIndex'[k] = cgroupIndex[k]
  BY <1>4 DEF Without
<1>8. \A m \in Known(x) : CgroupKeys(w[m]) \cap CgroupKeys(p) = {}
  BY <1>5, KeyTellsUid
<1>9. \A m \in Known(w) : m = n \/ m \in Known(x)
  BY <1>2
<1>10. DOMAIN uidIndex' = {x[m].uid : m \in Known(x)}
  <2>1. DOMAIN uidIndex = {w[m].uid : m \in Known(w)}
    BY DEF Indexed
  <2>2. w[n].uid = p.uid
    BY DEF p
  <2>3. ASSUME NEW u \in DOMAIN uidIndex' PROVE u \in {x[m].uid : m \in Known(x)}
    <3>1. PICK m \in Known(w) : u = w[m].uid
      BY <1>6, <2>1
    <3> QED BY <1>5, <1>6, <1>9, <2>2, <3>1
  <2>4. ASSUME NEW m \in Known(x) PROVE x[m].uid \in DOMAIN uidIndex'
    BY <1>5, <1>6, <2>1
  <2> QED BY <2>3, <2>4
<1>11. DOMAIN cgroupIndex' = UNION {CgroupKeys(x[m]) : m \in Known(x)}
  <2>1. DOMAIN cgroupIndex = UNION {CgroupKeys(w[m]) : m \in Known(w)}
    BY DEF Indexed
  <2>2. CgroupKeys(w[n]) = CgroupKeys(p)
    BY DEF p
  <2>3. ASSUME NEW k \in DOMAIN cgroupIndex' PROVE k \in UNION {CgroupKeys(x[m]) : m \in Known(x)}
    <3>1. PICK m \in Known(w) : k \in CgroupKeys(w[m])
      BY <1>7, <2>1
    <3>2. m \in Known(x) /\ x[m] = w[m]
      BY <1>5, <1>7, <1>9, <2>2, <3>1
    <3> QED BY <3>1, <3>2
  <2>4. ASSUME NEW m \in Known(x), NEW k \in CgroupKeys(x[m]) PROVE k \in DOMAIN cgroupIndex'
    BY <1>5, <1>7, <1>8, <2>1
  <2> QED BY <2>3, <2>4
<1>12. ASSUME NEW m \in Known(x)
       PROVE  uidIndex'[x[m].uid] = m /\ \A k \in CgroupKeys(x[m]) : cgroupIndex'[k] = m
  <2>1. w[m].uid \in DOMAIN uidIndex /\ uidIndex[w[m].uid] = m
    BY <1>5 DEF Indexed
  <2>2. \A k \in CgroupKeys(w[m]) : k \in DOMAIN cgroupIndex /\ cgroupIndex[k] = m
    BY <1>5 DEF Indexed
  <2> QED BY <1>5, <1>6, <1>7, <1>8, <2>1, <2>2
<1>13. Indexed(x, uidIndex', cgroupIndex')
  BY <1>10, <1>11, <1>12 DEF Indexed
<1> QED BY <1>13 DEF x

(***************************************************************************)
(* The invariant of the adapter.  v is the history of the copy that the    *)
(* calls still to come describe: v[0] is what the handlers have been told, *)
(* the last of v is the copy.  own says which name a uid was given to.     *)
(***************************************************************************)
CallType == [name : Names, old : PodOrGone, new : PodOrGone]

History(v) ==
    /\ v \in [0..Len(calls) -> [Names -> PodOrGone]]
    /\ v[Len(calls)] = copy
    /\ \A i \in 1..Len(calls) :
          /\ calls[i].old = v[i - 1][calls[i].name] /\ calls[i].old # calls[i].new
          /\ v[i] = [v[i - 1] EXCEPT ![calls[i].name] = calls[i].new]

\* One state of the pods is of uids that were given, each to the name that has it.
Owned(w, own) == \A n \in Names : w[n] # Gone => own[w[n].uid] = n /\ w[n].uid <= made

OwnedAll(v, own) == Owned(cluster, own) /\ \A i \in 0..Len(calls) : Owned(v[i], own)

\* What the handlers were told, less the pod that UpdateFunc has yet to add.
Told(w, x) ==
    \/ adding = {} /\ x = w
    \/ \E a \in adding : /\ adding = {a} /\ a.name \in Names /\ a.pod = w[a.name] /\ a.pod # Gone
                         /\ x = [w EXCEPT ![a.name] = Gone]

Kept(v) == \E x \in [Names -> PodOrGone] : Told(v[0], x) /\ Indexed(x, uidIndex, cgroupIndex)

AdapterTyped ==
    /\ made \in 0..MaxUid /\ cluster \in [Names -> PodOrGone] /\ copy \in [Names -> PodOrGone]
    /\ calls \in Seq(CallType)

AdapterInv == AdapterTyped /\ \E v, own : History(v) /\ OwnedAll(v, own) /\ Kept(v)

(* In one state of the pods, no two have the same uid.                     *)
LEMMA UidsDiffer ==
  ASSUME NEW w \in [Names -> PodOrGone], NEW own, Owned(w, own),
         NEW n \in Names, w[n] # Gone, NEW m \in Names \ {n}
  PROVE  w[m].uid # w[n].uid
<1>1. w[n] \in Pods /\ w[n].uid # 0 /\ own[w[n].uid] = n
  BY PodFacts DEF Owned
<1>2. CASE w[m] = Gone
  BY <1>1, <1>2, PodFacts
<1>3. CASE w[m] # Gone
  BY <1>1, <1>3 DEF Owned
<1> QED BY <1>2, <1>3

(* The first call to come, and what is left of the history after it.       *)
LEMMA HandlerFacts ==
  ASSUME AdapterTyped, calls # <<>>, calls' = Tail(calls), copy' = copy, made' = made,
         cluster' = cluster, NEW v, NEW own, History(v), OwnedAll(v, own)
  PROVE  /\ Call.name \in Names /\ Call.old = v[0][Call.name] /\ Call.old # Call.new
         /\ Call.new \in PodOrGone
         /\ v[1] = [v[0] EXCEPT ![Call.name] = Call.new]
         /\ v[0] \in [Names -> PodOrGone] /\ v[1] \in [Names -> PodOrGone]
         /\ Owned(v[0], own) /\ Owned(v[1], own)
         /\ AdapterTyped'
         /\ \E h : History(h)' /\ OwnedAll(h, own)' /\ h[0] = v[1]
<1>1. /\ calls \in Seq(CallType) /\ Len(calls) \in Nat /\ Len(calls) >= 1
      /\ Len(calls') = Len(calls) - 1 /\ calls' \in Seq(CallType)
  BY DEF AdapterTyped
<1>2. calls[1] = Call /\ Call \in CallType
  BY <1>1, ElementOfSeq DEF Call
<1>3. 0 \in 0..Len(calls) /\ 1 \in 0..Len(calls) /\ 1 \in 1..Len(calls) /\ 1 - 1 = 0
  BY <1>1
<1>4. Call.name \in Names /\ Call.new \in PodOrGone
  BY <1>2 DEF CallType
<1>5. /\ Call.old = v[0][Call.name] /\ Call.old # Call.new
      /\ v[1] = [v[0] EXCEPT ![Call.name] = Call.new]
  BY <1>2, <1>3 DEF History
<1>6. v[0] \in [Names -> PodOrGone] /\ v[1] \in [Names -> PodOrGone]
  BY <1>3 DEF History
<1>7. Owned(v[0], own) /\ Owned(v[1], own)
  BY <1>3 DEF OwnedAll
<1>8. AdapterTyped'
  BY <1>1 DEF AdapterTyped
<1>h. PICK h : h = [i \in 0..Len(calls') |-> v[i + 1]]
  OBVIOUS
<1>9. \A i \in 0..Len(calls') : i + 1 \in 0..Len(calls) /\ h[i] = v[i + 1]
  BY <1>1, <1>h
<1>10. \A i \in 1..Len(calls') : calls'[i] = calls[i + 1] /\ i + 1 \in 1..Len(calls)
  BY <1>1, HeadTailProperties
<1>11. 0 \in 0..Len(calls') /\ Len(calls') \in 0..Len(calls') /\ Len(calls') + 1 = Len(calls)
  BY <1>1
<1>12. h[0] = v[1] /\ h[Len(calls')] = copy
  BY <1>9, <1>11 DEF History
<1>13. h \in [0..Len(calls') -> [Names -> PodOrGone]]
  BY <1>9, <1>h DEF History
<1>14. ASSUME NEW i \in 1..Len(calls')
       PROVE  /\ calls'[i].old = h[i - 1][calls'[i].name] /\ calls'[i].old # calls'[i].new
              /\ h[i] = [h[i - 1] EXCEPT ![calls'[i].name] = calls'[i].new]
  <2>1. i \in 0..Len(calls') /\ i - 1 \in 0..Len(calls') /\ (i - 1) + 1 = i /\ (i + 1) - 1 = i
    BY <1>1
  <2>2. h[i] = v[i + 1] /\ h[i - 1] = v[i]
    BY <1>9, <2>1
  <2>3. calls'[i] = calls[i + 1] /\ i + 1 \in 1..Len(calls)
    BY <1>10
  <2>4. /\ calls[i + 1].old = v[i][calls[i + 1].name] /\ calls[i + 1].old # calls[i + 1].new
        /\ v[i + 1] = [v[i] EXCEPT ![calls[i + 1].name] = calls[i + 1].new]
    BY <2>1, <2>3 DEF History
  <2> QED BY <2>2, <2>3, <2>4
<1>15. History(h)'
  BY <1>12, <1>13, <1>14 DEF History
<1>16. OwnedAll(h, own)'
  <2>1. Owned(cluster, own)'
    BY DEF OwnedAll, Owned
  <2>2. \A i \in 0..Len(calls') : Owned(h[i], own)'
    BY <1>9 DEF OwnedAll, Owned
  <2> QED BY <2>1, <2>2 DEF OwnedAll
<1> QED BY <1>4, <1>5, <1>6, <1>7, <1>8, <1>12, <1>15, <1>16

(* AddFunc, DeleteFunc and the first half of UpdateFunc: the indexes move  *)
(* on by one call.                                                         *)
LEMMA CallKeeps ==
  ASSUME AdapterInv, AddFunc \/ DeleteFunc \/ UpdateFunc
  PROVE  AdapterInv'
<1>1. /\ calls # <<>> /\ adding = {} /\ calls' = Tail(calls) /\ copy' = copy /\ made' = made
      /\ cluster' = cluster
  BY DEF AddFunc, DeleteFunc, UpdateFunc, Handling, outside
<1>2. PICK v, own : History(v) /\ OwnedAll(v, own) /\ Kept(v)
  BY DEF AdapterInv
<1>3. AdapterTyped
  BY DEF AdapterInv
<1>4. /\ Call.name \in Names /\ Call.old = v[0][Call.name] /\ Call.old # Call.new
      /\ Call.new \in PodOrGone
      /\ v[1] = [v[0] EXCEPT ![Call.name] = Call.new]
      /\ v[0] \in [Names -> PodOrGone] /\ v[1] \in [Names -> PodOrGone]
      /\ Owned(v[0], own) /\ Owned(v[1], own)
      /\ AdapterTyped'
  BY <1>1, <1>2, <1>3, HandlerFacts
<1>5. PICK h : History(h)' /\ OwnedAll(h, own)' /\ h[0] = v[1]
  BY <1>1, <1>2, <1>3, HandlerFacts
<1>6. Indexed(v[0], uidIndex, cgroupIndex)
  BY <1>1, <1>2 DEF Kept, Told
<1> DEFINE n == Call.name
<1>7. Call.old # Gone => Call.old = v[0][n] /\ \A m \in Names \ {n} : v[0][m].uid # v[0][n].uid
  BY <1>4, UidsDiffer
<1>8. CASE AddFunc
  <2>1. Call.old = Gone /\ addPod(n, Call.new) /\ adding' = {}
    BY <1>1, <1>8 DEF AddFunc
  <2>2. Call.new \in Pods /\ Call.new # Gone
    BY <1>4, <2>1, PodFacts
  <2>3. v[1][n] = Call.new /\ \A m \in Names \ {n} : v[1][m] = v[0][m]
    BY <1>4
  <2>4. \A m \in Names : v[0][m].uid # Call.new.uid
    <3>1. \A m \in Names \ {n} : v[1][m].uid # v[1][n].uid
      BY <1>4, <2>2, <2>3, UidsDiffer
    <3>2. v[0][n].uid # Call.new.uid
      BY <1>4, <2>1, <2>2, PodFacts
    <3> QED BY <2>3, <3>1, <3>2
  <2>5. Indexed(v[1], uidIndex', cgroupIndex')
    <3>1. n \in Names /\ v[0] \in [Names -> PodOrGone] /\ v[0][n] = Gone
      BY <1>4, <2>1
    <3>2. Indexed([v[0] EXCEPT ![n] = Call.new], uidIndex', cgroupIndex')
      BY <3>1, <1>6, <2>1, <2>2, <2>4, AddIndexes
    <3> QED BY <1>4, <3>2
  <2>6. Kept(h)'
    BY <1>4, <1>5, <2>1, <2>5 DEF Kept, Told
  <2> QED BY <1>4, <1>5, <2>6 DEF AdapterInv
<1>9. CASE DeleteFunc
  <2>1. Call.new = Gone /\ removePod(Call.old) /\ adding' = {}
    BY <1>1, <1>9 DEF DeleteFunc
  <2>2. Indexed([v[0] EXCEPT ![n] = Gone], uidIndex', cgroupIndex')
    BY <1>4, <1>6, <1>7, <2>1, RemoveUnindexes
  <2>3. Kept(h)'
    BY <1>4, <1>5, <2>1, <2>2 DEF Kept, Told
  <2> QED BY <1>4, <1>5, <2>3 DEF AdapterInv
<1>10. CASE UpdateFunc
  <2>1. Call.old # Gone /\ Call.new # Gone /\ removePod(Call.old)
        /\ adding' = {[name |-> n, pod |-> Call.new]}
    BY <1>10 DEF UpdateFunc
  <2>2. Indexed([v[0] EXCEPT ![n] = Gone], uidIndex', cgroupIndex')
    BY <1>4, <1>6, <1>7, <2>1, RemoveUnindexes
  <2>3. PICK x \in [Names -> PodOrGone] : x = [v[0] EXCEPT ![n] = Gone]
    BY <1>4 DEF PodOrGone
  <2>4. v[1][n] = Call.new /\ x = [v[1] EXCEPT ![n] = Gone]
    BY <1>4, <2>3
  <2>5. PICK a : a = [name |-> n, pod |-> Call.new]
    OBVIOUS
  <2>6. a \in adding' /\ adding' = {a} /\ a.name = n /\ a.pod = Call.new
    BY <2>1, <2>5
  <2>7. Told(v[1], x)'
    BY <1>4, <2>1, <2>4, <2>6 DEF Told
  <2>8. Kept(h)'
    BY <1>5, <2>2, <2>3, <2>7 DEF Kept
  <2> QED BY <1>4, <1>5, <2>8 DEF AdapterInv
<1> QED BY <1>8, <1>9, <1>10

(* Steps that leave the copy, the calls and the indexes alone.             *)
LEMMA HistoryKept ==
  ASSUME calls' = calls, copy' = copy, NEW v, History(v)
  PROVE  History(v)'
  BY DEF History

LEMMA IndexesKept ==
  ASSUME UNCHANGED <<adding, uidIndex, cgroupIndex>>, NEW v, Kept(v), NEW h, h[0] = v[0]
  PROVE  Kept(h)'
  BY DEF Kept, Told

LEMMA OwnersKept ==
  ASSUME calls' = calls, cluster' = cluster, made' = made, NEW v, NEW own, OwnedAll(v, own)
  PROVE  OwnedAll(v, own)'
  BY DEF OwnedAll, Owned

(* The second half of UpdateFunc.                                          *)
LEMMA SecondHalfKeeps ==
  ASSUME AdapterInv, UpdateFuncAdds
  PROVE  AdapterInv'
<1>1. UNCHANGED <<calls, copy, cluster, made>> /\ adding' = {}
  BY DEF UpdateFuncAdds, informer, outside
<1>2. PICK a \in adding : addPod(a.name, a.pod)
  BY DEF UpdateFuncAdds
<1>3. PICK v, own : History(v) /\ OwnedAll(v, own) /\ Kept(v)
  BY DEF AdapterInv
<1>4. PICK x \in [Names -> PodOrGone] : Told(v[0], x) /\ Indexed(x, uidIndex, cgroupIndex)
  BY <1>3 DEF Kept
<1>5. /\ a.name \in Names /\ a.pod = v[0][a.name] /\ a.pod # Gone
      /\ x = [v[0] EXCEPT ![a.name] = Gone]
  BY <1>2, <1>4 DEF Told
<1>6. 0 \in 0..Len(calls) /\ v[0] \in [Names -> PodOrGone] /\ Owned(v[0], own)
  <2>1. 0 \in 0..Len(calls)
    BY DEF AdapterInv, AdapterTyped
  <2> QED BY <1>3, <2>1 DEF History, OwnedAll
<1>7. a.pod \in Pods /\ x[a.name] = Gone /\ v[0] = [x EXCEPT ![a.name] = a.pod]
  <2>1. v[0][a.name] \in PodOrGone
    BY <1>5, <1>6
  <2> QED BY <1>5, <1>6, <2>1, PodFacts
<1>8. \A m \in Names : x[m].uid # a.pod.uid
  <2>1. \A m \in Names \ {a.name} : x[m] = v[0][m] /\ v[0][m].uid # a.pod.uid
    BY <1>5, <1>6, UidsDiffer
  <2>2. x[a.name].uid # a.pod.uid
    BY <1>7, PodFacts
  <2> QED BY <2>1, <2>2
<1>9. Indexed(v[0], uidIndex', cgroupIndex')
  BY <1>2, <1>4, <1>5, <1>7, <1>8, AddIndexes
<1>10. Kept(v)'
  BY <1>1, <1>6, <1>9 DEF Kept, Told
<1>11. History(v)' /\ OwnedAll(v, own)' /\ AdapterTyped'
  BY <1>1, <1>3, HistoryKept, OwnersKept DEF AdapterInv, AdapterTyped
<1> QED BY <1>10, <1>11 DEF AdapterInv

(* The copy takes in one pod, and a call for it is added.                  *)
LEMMA NoticeKeeps ==
  ASSUME AdapterInv, NEW n \in Names, Notice(n)
  PROVE  AdapterInv'
<1>1. /\ copy[n] # cluster[n] /\ copy' = [copy EXCEPT ![n] = cluster[n]]
      /\ calls' = Append(calls, [name |-> n, old |-> copy[n], new |-> cluster[n]])
      /\ UNCHANGED <<cluster, made, adding, uidIndex, cgroupIndex>>
  BY DEF Notice, outside, indexes
<1>2. PICK v, own : History(v) /\ OwnedAll(v, own) /\ Kept(v)
  BY DEF AdapterInv
<1>3. AdapterTyped /\ Len(calls) \in Nat
  BY DEF AdapterInv, AdapterTyped
<1>4. PICK c : c = [name |-> n, old |-> copy[n], new |-> cluster[n]]
  OBVIOUS
<1>5. c \in CallType /\ c.name = n /\ c.old = copy[n] /\ c.new = cluster[n]
  BY <1>3, <1>4 DEF AdapterTyped, CallType
<1>6. /\ Len(calls') = Len(calls) + 1 /\ calls' \in Seq(CallType)
      /\ calls'[Len(calls) + 1] = c /\ \A i \in 1..Len(calls) : calls'[i] = calls[i]
  BY <1>1, <1>3, <1>4, <1>5, AppendProperties DEF AdapterTyped
<1>7. copy' \in [Names -> PodOrGone] /\ copy' = [copy EXCEPT ![n] = cluster[n]]
  BY <1>1, <1>3 DEF AdapterTyped
<1>8. PICK h : h = [i \in 0..Len(calls) + 1 |-> IF i <= Len(calls) THEN v[i] ELSE copy']
  OBVIOUS
<1>9. /\ \A i \in 0..Len(calls) : h[i] = v[i]
      /\ h[Len(calls) + 1] = copy' /\ h[Len(calls)] = copy /\ h[0] = v[0]
  BY <1>2, <1>3, <1>8 DEF History
<1>10. h \in [0..Len(calls') -> [Names -> PodOrGone]]
  BY <1>2, <1>3, <1>6, <1>7, <1>8 DEF History
<1>11. ASSUME NEW i \in 1..Len(calls')
       PROVE  /\ calls'[i].old = h[i - 1][calls'[i].name] /\ calls'[i].old # calls'[i].new
              /\ h[i] = [h[i - 1] EXCEPT ![calls'[i].name] = calls'[i].new]
  <2>1. i \in 1..Len(calls) \/ i = Len(calls) + 1
    BY <1>3, <1>6
  <2>2. CASE i \in 1..Len(calls)
    <3>1. i \in 0..Len(calls) /\ i - 1 \in 0..Len(calls)
      BY <1>3, <2>2
    <3>2. h[i] = v[i] /\ h[i - 1] = v[i - 1] /\ calls'[i] = calls[i]
      BY <1>6, <1>9, <2>2, <3>1
    <3> QED BY <1>2, <2>2, <3>2 DEF History
  <2>3. CASE i = Len(calls) + 1
    <3>1. i - 1 = Len(calls)
      BY <1>3, <2>3
    <3>2. h[i] = copy' /\ h[i - 1] = copy /\ calls'[i] = c
      BY <1>6, <1>9, <2>3, <3>1
    <3> QED BY <1>1, <1>5, <3>2
  <2> QED BY <2>1, <2>2, <2>3
<1>12. History(h)'
  BY <1>6, <1>9, <1>10, <1>11 DEF History
<1>13. OwnedAll(h, own)'
  <2>1. Owned(cluster, own)'
    BY <1>1, <1>2 DEF OwnedAll, Owned
  <2>2. \A i \in 0..Len(calls) : Owned(h[i], own)'
    BY <1>1, <1>2, <1>9 DEF OwnedAll, Owned
  <2>3. Owned(copy, own)'
    <3>1. Owned(v[Len(calls)], own) /\ Owned(cluster, own)
      BY <1>2, <1>3 DEF OwnedAll
    <3>2. Owned(copy, own)
      BY <1>2, <3>1 DEF History
    <3> QED BY <1>1, <1>3, <3>1, <3>2 DEF Owned, AdapterTyped
  <2>4. ASSUME NEW i \in 0..Len(calls'), i \notin 0..Len(calls) PROVE Owned(h[i], own)'
    <3>1. i = Len(calls) + 1
      BY <1>3, <1>6, <2>4
    <3>2. h[i] = copy'
      BY <1>9, <3>1
    <3> QED BY <2>3, <3>2 DEF Owned
  <2> QED BY <2>1, <2>2, <2>4 DEF OwnedAll
<1>14. Kept(h)' /\ AdapterTyped'
  BY <1>1, <1>2, <1>3, <1>6, <1>7, <1>9, IndexesKept DEF AdapterTyped
<1> QED BY <1>12, <1>13, <1>14 DEF AdapterInv

(* The cluster changes a pod, unseen by the adapter.                       *)
LEMMA ClusterKeeps ==
  ASSUME AdapterInv, NEW n \in Names, CreatePod(n) \/ UpdateStatus(n) \/ DeletePod(n)
  PROVE  AdapterInv'
<1>1. UNCHANGED <<calls, copy, adding, uidIndex, cgroupIndex>>
  BY DEF CreatePod, UpdateStatus, DeletePod, informer, indexes
<1>2. PICK v, own : History(v) /\ OwnedAll(v, own) /\ Kept(v)
  BY DEF AdapterInv
<1>3. AdapterTyped /\ made \in Nat /\ MaxUid \in Nat
  BY MaxUidAssumption DEF AdapterInv, AdapterTyped
<1>4. History(v)' /\ Kept(v)'
  BY <1>1, <1>2, HistoryKept, IndexesKept
<1>5. CASE UpdateStatus(n) \/ DeletePod(n)
  <2>1. made' = made
    BY <1>5 DEF UpdateStatus, DeletePod
  <2>2. cluster' \in [Names -> PodOrGone]
        /\ \A m \in Names : cluster'[m] # Gone => cluster[m] # Gone /\ cluster'[m].uid = cluster[m].uid
    <3>1. CASE DeletePod(n)
      BY <1>3, <3>1 DEF DeletePod, AdapterTyped, PodOrGone
    <3>2. CASE UpdateStatus(n)
      <4>1. PICK ids \in SUBSET Slots : cluster' = [cluster EXCEPT ![n].containers = ids]
        BY <3>2 DEF UpdateStatus
      <4>2. cluster[n] \in Pods /\ cluster[n] # Gone
        BY <1>3, <3>2, PodFacts DEF UpdateStatus, AdapterTyped
      <4>3. cluster'[n] \in Pods /\ cluster'[n].uid = cluster[n].uid
            /\ \A m \in Names \ {n} : cluster'[m] = cluster[m]
        BY <1>3, <4>1, <4>2 DEF AdapterTyped, Pods
      <4>4. DOMAIN cluster' = Names
        BY <1>3, <4>1 DEF AdapterTyped
      <4>5. cluster' \in [Names -> PodOrGone]
        BY <1>3, <4>1, <4>3, <4>4 DEF AdapterTyped, PodOrGone
      <4> QED BY <4>2, <4>3, <4>5
    <3> QED BY <1>5, <3>1, <3>2
  <2>3. OwnedAll(v, own)'
    <3>1. Owned(cluster, own)'
      BY <1>2, <2>1, <2>2 DEF OwnedAll, Owned
    <3>2. \A i \in 0..Len(calls') : Owned(v[i], own)'
      BY <1>1, <1>2, <2>1 DEF OwnedAll, Owned
    <3> QED BY <3>1, <3>2 DEF OwnedAll
  <2> QED BY <1>1, <1>3, <1>4, <2>1, <2>2, <2>3 DEF AdapterInv, AdapterTyped
<1>6. CASE CreatePod(n)
  <2>1. /\ made < MaxUid /\ made' = made + 1
        /\ cluster' = [cluster EXCEPT ![n] = [uid |-> made + 1, containers |-> {}]]
    BY <1>6 DEF CreatePod
  <2>2. PICK u : u = made + 1
    OBVIOUS
  <2>3. u \in Uids /\ u = made' /\ made' \in 0..MaxUid /\ made <= made' /\ ~(u <= made) /\ u <= made'
    BY <1>3, <2>1, <2>2 DEF Uids
  <2>4. PICK q : q = [uid |-> u, containers |-> {}]
    OBVIOUS
  <2>5. q \in Pods /\ q.uid = u /\ cluster' = [cluster EXCEPT ![n] = q]
    BY <2>1, <2>2, <2>3, <2>4 DEF Pods
  <2>6. cluster' \in [Names -> PodOrGone] /\ cluster'[n] = q
        /\ \A m \in Names \ {n} : cluster'[m] = cluster[m]
    BY <1>3, <2>5 DEF AdapterTyped, PodOrGone
  <2>7. PICK owner : owner = [w \in Uids |-> IF w = u THEN n ELSE own[w]]
    OBVIOUS
  <2>8. ASSUME NEW w \in [Names -> PodOrGone], Owned(w, own)
        PROVE  \A m \in Names : w[m] # Gone => owner[w[m].uid] = m /\ w[m].uid <= made'
    <3> SUFFICES ASSUME NEW m \in Names, w[m] # Gone
                 PROVE  owner[w[m].uid] = m /\ w[m].uid <= made'
      OBVIOUS
    <3>1. w[m].uid \in Uids /\ w[m].uid \in Nat
      BY <2>8, PodFacts
    <3>2. own[w[m].uid] = m /\ w[m].uid <= made
      BY <2>8 DEF Owned
    <3>3. w[m].uid <= made' /\ w[m].uid # u
      BY <1>3, <2>1, <2>3, <3>1, <3>2
    <3> QED BY <2>7, <3>1, <3>2, <3>3
  <2>9. Owned(cluster, owner)'
    <3>1. \A m \in Names \ {n} : cluster'[m] # Gone => owner[cluster'[m].uid] = m /\ cluster'[m].uid <= made'
      BY <1>2, <1>3, <2>6, <2>8 DEF OwnedAll, AdapterTyped
    <3>2. owner[cluster'[n].uid] = n /\ cluster'[n].uid <= made'
      BY <2>3, <2>5, <2>6, <2>7
    <3> QED BY <3>1, <3>2 DEF Owned
  <2>10. \A i \in 0..Len(calls') : Owned(v[i], owner)'
    <3> SUFFICES ASSUME NEW i \in 0..Len(calls) PROVE Owned(v[i], owner)'
      BY <1>1
    <3>1. v[i] \in [Names -> PodOrGone] /\ Owned(v[i], own)
      BY <1>2 DEF History, OwnedAll
    <3> QED BY <2>8, <3>1 DEF Owned
  <2>11. OwnedAll(v, owner)'
    BY <2>9, <2>10 DEF OwnedAll
  <2> QED BY <1>1, <1>3, <1>4, <2>3, <2>6, <2>11 DEF AdapterInv, AdapterTyped
<1> QED BY <1>5, <1>6

(* Everything else leaves the cluster, the copy and the indexes alone.     *)
LEMMA AdapterQuiet ==
  ASSUME AdapterInv, UNCHANGED <<made, cluster, copy, calls, adding, uidIndex, cgroupIndex>>
  PROVE  AdapterInv'
<1>1. PICK v, own : History(v) /\ OwnedAll(v, own) /\ Kept(v)
  BY DEF AdapterInv
<1>2. History(v)' /\ OwnedAll(v, own)' /\ Kept(v)'
  BY <1>1, HistoryKept, OwnersKept, IndexesKept
<1> QED BY <1>2 DEF AdapterInv, AdapterTyped

(* Every step of the adapter, of client-go and of the cluster.             *)
LEMMA AdapterStep ==
  ASSUME AdapterInv, Run \/ Handlers \/ ClientGo \/ Stop \/ World
  PROVE  AdapterInv'
<1>1. CASE Run \/ Stop
  <2>1. UNCHANGED <<made, cluster, copy, calls, adding, uidIndex, cgroupIndex>>
    BY <1>1 DEF Run, Start, BuildFails, Retry, BuildSucceeds, WaitForCacheSync, ServeEnds, Stop,
       outside, informer, indexes
  <2> QED BY <2>1, AdapterQuiet
<1>2. CASE Handlers
  BY <1>2, CallKeeps, SecondHalfKeeps DEF Handlers
<1>3. CASE ClientGo
  <2>1. CASE List
    BY <2>1, AdapterQuiet DEF List, outside, indexes
  <2> QED BY <1>3, <2>1, NoticeKeeps DEF ClientGo
<1>4. CASE World
  <2>1. ASSUME NEW part \in {"config", "api"}, Outage(part) PROVE AdapterInv'
    BY <2>1, AdapterQuiet DEF Outage, informer, indexes
  <2> QED BY <1>4, <2>1, ClusterKeeps DEF World
<1> QED BY <1>1, <1>2, <1>3, <1>4

(***************************************************************************)
(* The gauge.  While it is filled, it holds the labels of the entries that *)
(* were taken off found, and the rest of found matches the snapshot.       *)
(***************************************************************************)
Shows(labels) ==
    /\ DOMAIN gauge = labels
    /\ \A l \in DOMAIN gauge : \E i \in 1..Len(snap) : snap[i].label = l /\ snap[i].dir = gauge[l]

Labels(k) == {snap[i].label : i \in 1..k}

Filling ==
    /\ found # <<>> /\ Len(found) <= Len(snap)
    /\ \A i \in 1..Len(found) : /\ found[i].label = snap[Len(snap) - Len(found) + i].label
                                /\ found[i].dir = snap[Len(snap) - Len(found) + i].dir
    /\ Shows(Labels(Len(snap) - Len(found)))

GaugeInv ==
    /\ \E E : found \in Seq(E)
    /\ Len(snap) \in Nat
    /\ polling \in {"new", "idle", "ended"} => Shows(Labels(Len(snap)))
    /\ polling = "gauge" => Filling

(* The snapshot and the labels change in poll alone.                       *)
LEMMA PublishKeeps ==
  ASSUME GaugeInv, Publish
  PROVE  GaugeInv'
<1>1. /\ polling' = (IF found = <<>> THEN "idle" ELSE "gauge") /\ found' = found /\ gauge' = <<>>
      /\ snap' = [i \in 1..Len(found) |-> Entry(found[i])]
  BY DEF Publish
<1>2. PICK E : found \in Seq(E)
  BY DEF GaugeInv
<1>3. Len(found) \in Nat
  BY <1>2
<1>4. Len(snap') = Len(found)
  BY <1>1, <1>3
<1>5. \A i \in 1..Len(found) : snap'[i].label = found[i].label /\ snap'[i].dir = found[i].dir
  BY <1>1 DEF Entry
<1>6. DOMAIN gauge' = {}
  BY <1>1
<1>7. Shows({})'
  BY <1>6 DEF Shows
<1>8. CASE found = <<>>
  <2>1. polling' = "idle" /\ Len(snap') = 0 /\ Labels(Len(snap))' = {}
    BY <1>1, <1>4, <1>8 DEF Labels
  <2> QED BY <1>1, <1>2, <1>7, <2>1 DEF GaugeInv, Shows
<1>9. CASE found # <<>>
  <2>1. polling' = "gauge" /\ Len(snap') - Len(found') = 0
    BY <1>1, <1>3, <1>4, <1>9
  <2>2. Labels(Len(snap) - Len(found))' = {}
    BY <2>1 DEF Labels
  <2>3. \A i \in 1..Len(found') : Len(snap') - Len(found') + i = i
    BY <1>1, <1>3, <1>4
  <2>4. Filling'
    BY <1>1, <1>3, <1>4, <1>5, <1>7, <1>9, <2>2, <2>3 DEF Filling, Shows
  <2> QED BY <1>1, <1>2, <1>3, <1>4, <2>1, <2>4 DEF GaugeInv
<1> QED BY <1>8, <1>9

(* One label more, and one result less.                                    *)
LEMMA SetGaugeKeeps ==
  ASSUME GaugeInv, SetGauge
  PROVE  GaugeInv'
<1>1. /\ polling = "gauge" /\ found' = Tail(found) /\ snap' = snap
      /\ gauge' = [l \in {Head(found).label} \cup DOMAIN gauge |->
                      IF l = Head(found).label THEN Head(found).dir ELSE gauge[l]]
      /\ polling' = IF Len(found) = 1 THEN "idle" ELSE "gauge"
  BY DEF SetGauge
<1>2. PICK E : found \in Seq(E)
  BY DEF GaugeInv
<1>3. Filling /\ Len(snap) \in Nat
  BY <1>1 DEF GaugeInv
<1>k. PICK k : k = Len(snap) - Len(found)
  OBVIOUS
<1>f. PICK f : f = Head(found)
  OBVIOUS
<1>4. /\ Len(found) \in Nat /\ Len(found) > 0 /\ f = found[1] /\ 1 \in 1..Len(found)
      /\ Tail(found) \in Seq(E) /\ Len(Tail(found)) = Len(found) - 1
  BY <1>f, <1>2, <1>3 DEF Filling
<1>5. k \in Nat /\ k + 1 \in 1..Len(snap) /\ Len(snap') - Len(found') = k + 1
  BY <1>1, <1>3, <1>4, <1>k DEF Filling
<1>6. f.label = snap[k + 1].label /\ f.dir = snap[k + 1].dir
  BY <1>3, <1>4, <1>k DEF Filling
<1>7. Shows(Labels(k))
  BY <1>3, <1>k DEF Filling
<1>8. \A i \in 1..Len(found') : found'[i] = found[i + 1] /\ i + 1 \in 1..Len(found)
  BY <1>1, <1>2, <1>3, <1>4, HeadTailProperties DEF Filling
<1>9. \A i \in 1..Len(found') : k + (i + 1) = (Len(snap') - Len(found')) + i
  <2>1. Len(found') \in Nat
    BY <1>1, <1>4
  <2> QED BY <1>5, <2>1
<1>10. Labels(k + 1)' = Labels(k) \cup {f.label}
  <2>1. 1..(k + 1) = (1..k) \cup {k + 1}
    BY <1>5
  <2>2. {snap[i].label : i \in 1..(k + 1)} = {snap[i].label : i \in 1..k} \cup {f.label}
    BY <1>6, <2>1
  <2> QED BY <1>1, <2>2 DEF Labels
<1>11. Shows(Labels(k + 1))'
  <2>1. DOMAIN gauge' = Labels(k + 1)'
    BY <1>1, <1>7, <1>10, <1>f DEF Shows
  <2>2. ASSUME NEW l \in DOMAIN gauge'
        PROVE  \E i \in 1..Len(snap') : snap'[i].label = l /\ snap'[i].dir = gauge'[l]
    <3>1. CASE l = f.label
      <4>1. gauge'[l] = f.dir
        BY <1>1, <1>f, <3>1
      <4> QED BY <1>1, <1>5, <1>6, <3>1, <4>1
    <3>2. CASE l # f.label
      <4>1. l \in DOMAIN gauge /\ gauge'[l] = gauge[l]
        BY <1>1, <1>f, <2>2, <3>2
      <4> QED BY <1>1, <1>7, <4>1 DEF Shows
    <3> QED BY <3>1, <3>2
  <2> QED BY <2>1, <2>2 DEF Shows
<1>12. found' \in Seq(E) /\ Len(found') \in Nat /\ Len(snap') \in Nat
  BY <1>1, <1>3, <1>4
<1>13. CASE Len(found) = 1
  <2>1. polling' = "idle" /\ k + 1 = Len(snap')
    BY <1>1, <1>3, <1>13, <1>k
  <2>2. Shows(Labels(Len(snap)))'
    BY <1>11, <2>1 DEF Shows, Labels
  <2> QED BY <1>12, <2>1, <2>2 DEF GaugeInv
<1>14. CASE Len(found) # 1
  <2>1. polling' = "gauge" /\ found' # <<>> /\ Len(found') <= Len(snap')
    <3>1. polling' = "gauge"
      BY <1>1, <1>14
    <3>2. Len(found') = Len(found) - 1 /\ Len(found) > 1
      BY <1>1, <1>4, <1>14
    <3>3. found' # <<>>
      BY <1>4, <1>12, <3>2
    <3>4. Len(found) <= Len(snap)
      BY <1>3 DEF Filling
    <3>5. Len(found') <= Len(snap')
      BY <1>1, <1>3, <1>4, <3>2, <3>4
    <3> QED BY <3>1, <3>3, <3>5
  <2>2. \A i \in 1..Len(found') : /\ found'[i].label = snap'[Len(snap') - Len(found') + i].label
                                  /\ found'[i].dir = snap'[Len(snap') - Len(found') + i].dir
    BY <1>1, <1>3, <1>8, <1>9, <1>k DEF Filling
  <2>3. Shows(Labels(Len(snap) - Len(found)))'
    BY <1>5, <1>11 DEF Shows, Labels
  <2>4. Filling'
    BY <2>1, <2>2, <2>3 DEF Filling
  <2> QED BY <1>12, <2>1, <2>4 DEF GaugeInv
<1> QED BY <1>13, <1>14

(* The rest of a poll looks at the tree, and fills found anew.             *)
LEMMA WalkKeeps ==
  ASSUME GaugeInv, PollBegins \/ Descend \/ Walk
  PROVE  GaugeInv'
<1>1. snap' = snap /\ gauge' = gauge /\ polling' \in {"walk", "publish"}
  BY DEF PollBegins, Descend, Walk, Leave, Return, published
<1>2. PICK E : found \in Seq(E)
  BY DEF GaugeInv
<1>3. \E F : found' \in Seq(F)
  <2>1. CASE found' = <<>>
    BY <2>1
  <2>2. CASE found' = found
    BY <1>2, <2>2
  <2>3. ASSUME NEW e, found' = Append(found, e) PROVE \E F : found' \in Seq(F)
    <3>1. found \in Seq(E \cup {e})
      BY <1>2
    <3> QED BY <2>3, <3>1
  <2>4. found' = <<>> \/ found' = found \/ found' = Append(found, Result(Top.dir, Named))
    BY DEF PollBegins, Descend, Walk, Leave, Return
  <2> QED BY <2>1, <2>2, <2>3, <2>4
<1> QED BY <1>1, <1>3 DEF GaugeInv

(* Every step of the collector and of the kernel.                          *)
LEMMA CollectorStep ==
  ASSUME GaugeInv, Poll \/ StopCollector \/ Kernel \/ ReadDirFails
  PROVE  GaugeInv'
<1>1. CASE LoopEnds \/ StopCollector \/ Kernel
  <2>1. /\ UNCHANGED <<found, snap, gauge>>
        /\ polling' = polling \/ (polling = "idle" /\ polling' = "ended")
    BY <1>1 DEF LoopEnds, StopCollector, Kernel, Mkdir, Rmdir, WriteMemoryMax, HighEvent,
       walkVars, published
  <2> QED BY <2>1 DEF GaugeInv, Filling, Shows, Labels
<1>2. CASE ReadDirFails
  <2>1. /\ UNCHANGED <<found, snap, gauge>>
        /\ polling' = polling \/ (polling \in {"new", "idle"} /\ polling' = "idle")
    BY <1>2 DEF ReadDirFails, published
  <2>2. CASE polling' = polling
    BY <2>1, <2>2 DEF GaugeInv, Filling, Shows, Labels
  <2>3. CASE polling \in {"new", "idle"} /\ polling' = "idle"
    <3>1. Shows(Labels(Len(snap)))
      BY <2>3 DEF GaugeInv
    <3>2. Shows(Labels(Len(snap)))'
      BY <2>1, <3>1 DEF Shows, Labels
    <3> QED BY <2>1, <2>3, <3>2 DEF GaugeInv
  <2> QED BY <2>1, <2>2, <2>3
<1> QED BY <1>1, <1>2, WalkKeeps, PublishKeeps, SetGaugeKeeps DEF Poll

(***************************************************************************)
(* The tree of paths.                                                      *)
(***************************************************************************)
(* A nonempty set of paths has a first one.                                *)
LEMMA FirstPath ==
  ASSUME NEW S \in SUBSET Dirs, S # {}
  PROVE  \E m \in S : \A k \in S : m <= k
<1>1. S \in SUBSET Nat
  BY DirsAssumption
<1>2. PICK m \in S : \A k \in S : ~(<<k, m>> \in OpToRel(<, Nat))
  BY <1>1, NatLessThanWellFounded, WFMin
<1>3. ASSUME NEW k \in S PROVE m <= k
  <2>1. ~(k < m)
    BY <1>1, <1>2 DEF OpToRel
  <2> QED BY <1>1, <2>1
<1> QED BY <1>3

(* What the recursion of Above defines: of the sets that are closed under  *)
(* Parent and hold the parent of d, the least.                             *)
LEMMA AboveUnfolds ==
  Above = [d \in Dirs |-> IF d = 0 THEN {} ELSE {Parent[d]} \cup Above[Parent[d]]]
<1> DEFINE Closed(S) == \A x \in S : x # 0 => Parent[x] \in S
           Holds(S, d) == Closed(S) /\ (d # 0 => Parent[d] \in S)
           A == [d \in Dirs |-> {e \in Dirs : \A S \in SUBSET Dirs : Holds(S, d) => e \in S}]
<1>1. A[0] = {}
  <2>1. {} \in SUBSET Dirs /\ Holds({}, 0)
    OBVIOUS
  <2>2. A[0] = {e \in Dirs : \A S \in SUBSET Dirs : Holds(S, 0) => e \in S}
    BY DirsAssumption
  <2> QED BY <2>1, <2>2
<1>2. ASSUME NEW d \in Dirs, d # 0 PROVE A[d] = {Parent[d]} \cup A[Parent[d]]
  <2>p. PICK p \in Dirs : p = Parent[d]
    BY <1>2, ParentAssumption
  <2>1. ASSUME NEW e \in A[d], e # p PROVE e \in A[p]
    <3>1. ASSUME NEW S \in SUBSET Dirs, Holds(S, p) PROVE e \in S
      <4>1. S \cup {p} \in SUBSET Dirs /\ Holds(S \cup {p}, d)
        BY <2>p, <3>1
      <4> QED BY <2>1, <4>1
    <3> QED BY <2>1, <3>1
  <2>2. p \in A[d]
    BY <1>2, <2>p
  <2>3. ASSUME NEW e \in A[p] PROVE e \in A[d]
    <3>1. ASSUME NEW S \in SUBSET Dirs, Holds(S, d) PROVE e \in S
      <4>1. Holds(S, p)
        BY <1>2, <2>p, <3>1
      <4> QED BY <2>3, <3>1, <4>1
    <3> QED BY <2>3, <3>1
  <2> QED BY <2>p, <2>1, <2>2, <2>3
<1>3. A = [d \in Dirs |-> IF d = 0 THEN {} ELSE {Parent[d]} \cup A[Parent[d]]]
  <2>1. A = [d \in Dirs |-> A[d]]
    OBVIOUS
  <2> HIDE DEF A
  <2> QED BY <1>1, <1>2, <2>1
<1> HIDE DEF A
<1> QED BY <1>3 DEF Above

(* One step up.                                                            *)
LEMMA AboveParent ==
  /\ Above[0] = {}
  /\ \A d \in Dirs \ {0} : Parent[d] \in Dirs /\ Parent[d] < d /\ Above[d] = {Parent[d]} \cup Above[Parent[d]]
  /\ \A d \in Dirs : d \in Nat
<1> QED BY AboveUnfolds, DirsAssumption, ParentAssumption

(* A path comes after those above it.                                      *)
LEMMA AboveBefore ==
  ASSUME NEW d \in Dirs, NEW e \in Above[d]
  PROVE  d # 0 /\ e \in Dirs /\ e < d
<1> DEFINE Bad == {x \in Dirs : \E y \in Above[x] : ~(y \in Dirs /\ y < x)}
<1>1. Bad = {}
  <2> SUFFICES ASSUME Bad # {} PROVE FALSE
    OBVIOUS
  <2>1. PICK x \in Bad : \A k \in Bad : x <= k
    BY FirstPath
  <2>2. PICK y \in Above[x] : ~(y \in Dirs /\ y < x)
    OBVIOUS
  <2>3. x # 0 /\ Parent[x] \in Dirs /\ Parent[x] < x /\ y \in Above[Parent[x]]
    BY <2>2, AboveParent
  <2>4. Parent[x] \notin Bad
    BY <2>1, <2>3, AboveParent
  <2>5. y \in Dirs /\ y < Parent[x]
    BY <2>3, <2>4
  <2> QED BY <2>2, <2>3, <2>5, AboveParent
<1>2. d # 0
  BY AboveParent
<1> QED BY <1>1, <1>2

(* What is above a path above is above.                                    *)
LEMMA AboveAbove ==
  ASSUME NEW d \in Dirs, NEW e \in Above[d]
  PROVE  Above[e] \subseteq Above[d]
<1> DEFINE Bad == {x \in Dirs : \E y \in Above[x] : ~(Above[y] \subseteq Above[x])}
<1>1. Bad = {}
  <2> SUFFICES ASSUME Bad # {} PROVE FALSE
    OBVIOUS
  <2>1. PICK x \in Bad : \A k \in Bad : x <= k
    BY FirstPath
  <2>2. PICK y \in Above[x] : ~(Above[y] \subseteq Above[x])
    OBVIOUS
  <2>3. x # 0 /\ Parent[x] \in Dirs /\ Parent[x] < x /\ Above[x] = {Parent[x]} \cup Above[Parent[x]]
    BY <2>2, AboveParent
  <2>4. Parent[x] \notin Bad
    BY <2>1, <2>3, AboveParent
  <2> QED BY <2>2, <2>3, <2>4
<1> QED BY <1>1

(* What is inside a group is inside one of its children.                   *)
LEMMA WithinChild ==
  ASSUME NEW d \in Dirs, NEW e \in Above[d]
  PROVE  \E c \in Children(e) : d \in Within(c)
<1> DEFINE Bad == {x \in Dirs : e \in Above[x] /\ ~(\E c \in Children(e) : x \in Within(c))}
<1>1. Bad = {}
  <2> SUFFICES ASSUME Bad # {} PROVE FALSE
    OBVIOUS
  <2>1. PICK x \in Bad : \A k \in Bad : x <= k
    BY FirstPath
  <2>3. x # 0 /\ Parent[x] \in Dirs /\ Parent[x] < x /\ Above[x] = {Parent[x]} \cup Above[Parent[x]]
    BY AboveParent
  <2>4. CASE e = Parent[x]
    BY <2>3, <2>4 DEF Children, Within
  <2>5. CASE e \in Above[Parent[x]]
    <3>1. Parent[x] \notin Bad
      BY <2>1, <2>3, AboveParent
    <3>2. PICK c \in Children(e) : Parent[x] \in Within(c)
      BY <2>3, <2>5, <3>1
    <3>3. x \in Within(c)
      BY <2>3, <3>2 DEF Within
    <3> QED BY <3>2, <3>3
  <2> QED BY <2>3, <2>4, <2>5
<1> QED BY <1>1

(* The depth of a path, which is what walkCgroups counts.                  *)
LEMMA Depth ==
  ASSUME NEW d \in Dirs
  PROVE  /\ IsFiniteSet(Above[d]) /\ Cardinality(Above[d]) \in Nat
         /\ d # 0 => Cardinality(Above[d]) = Cardinality(Above[Parent[d]]) + 1
         /\ \A e \in Above[d] : Cardinality(Above[e]) <= Cardinality(Above[d])
<1>1. ASSUME NEW x \in Dirs PROVE IsFiniteSet(Above[x]) /\ Cardinality(Above[x]) \in Nat
  <2>1. Above[x] \in SUBSET Dirs
    BY AboveBefore
  <2>2. IsFiniteSet(Above[x])
    BY <2>1, DirsAssumption, FS_Subset
  <2> QED BY <2>2, FS_CardinalityType
<1>2. ASSUME d # 0 PROVE Cardinality(Above[d]) = Cardinality(Above[Parent[d]]) + 1
  <2>p. PICK p \in Dirs : p = Parent[d] /\ Above[d] = Above[p] \cup {p}
    BY <1>2, AboveParent
  <2>1. p \notin Above[p]
    BY AboveBefore, AboveParent
  <2>2. IsFiniteSet(Above[p])
    BY <1>1
  <2> QED BY <2>p, <2>1, <2>2, FS_AddElement
<1>3. ASSUME NEW e \in Above[d] PROVE Cardinality(Above[e]) <= Cardinality(Above[d])
  <2>1. Above[e] \in SUBSET Above[d]
    BY AboveAbove
  <2>2. IsFiniteSet(Above[d])
    BY <1>1
  <2> QED BY <2>1, <2>2, FS_Subset
<1> QED BY <1>1, <1>2, <1>3

\* Neither of two groups is inside the other.
Apart(a, b) == a \notin Within(b) /\ b \notin Within(a)

(* What is apart from a group is apart from its children.                  *)
LEMMA ApartBelow ==
  ASSUME NEW a \in Dirs, NEW p \in Dirs, NEW c \in Children(p), Apart(a, p)
  PROVE  Apart(a, c)
<1>1. c \in Dirs /\ c # 0 /\ Parent[c] = p
  BY DEF Children
<1>2. Above[c] = {p} \cup Above[p] /\ p \in Above[c]
  BY <1>1, AboveParent
<1>3. a # p /\ p \notin Above[a] /\ a \notin Above[p]
  BY DEF Apart, Within
<1>4. c \notin Above[a] /\ a # c
  BY <1>2, <1>3, AboveAbove
<1>5. a \notin Above[c]
  BY <1>2, <1>3
<1> QED BY <1>4, <1>5 DEF Apart, Within

(* Children of a group are apart.                                          *)
LEMMA SiblingsApart ==
  ASSUME NEW p \in Dirs, NEW a \in Children(p), NEW c \in Children(p), a # c
  PROVE  Apart(a, c)
<1>1. ASSUME NEW x \in Children(p), NEW y \in Children(p), x # y PROVE x \notin Within(y)
  <2>1. x \in Dirs /\ y \in Dirs /\ Above[x] = {p} \cup Above[p] /\ p \in Above[y]
    BY AboveParent DEF Children
  <2>2. y \notin Above[x]
    BY <2>1, AboveBefore, AboveParent
  <2> QED BY <1>1, <2>2 DEF Within
<1> QED BY <1>1 DEF Apart

(***************************************************************************)
(* The calls of walkCgroups.  They are those of a path down the tree, and  *)
(* what is left to do of one is apart from those it has called.            *)
(***************************************************************************)
FrameType == [dir : Dirs, limited : BOOLEAN, todo : SUBSET Dirs, mark : Nat]

Stack(w) ==
    /\ w \in Seq(FrameType)
    /\ \A k \in 1..Len(w) :
          /\ w[k].todo \subseteq Children(w[k].dir)
          /\ Cardinality(Above[w[k].dir]) = k - 1
          /\ k > 1 => Parent[w[k].dir] = w[k - 1].dir
          /\ \A j \in 1..(k - 1) : /\ w[j].dir \in Above[w[k].dir]
                                   /\ \A e \in w[j].todo : Apart(e, w[k].dir)

\* A call has found what lies inside its group since it began, and no group that is
\* found contains another of the groups that are found or still to be visited.
Places(w, f) ==
    \A k \in 1..Len(w) :
        /\ w[k].mark <= Len(f)
        /\ \A i \in 1..Len(f) : /\ i <= w[k].mark => Apart(f[i].dir, w[k].dir)
                                /\ i > w[k].mark => w[k].dir \in Above[f[i].dir]
                                /\ \A e \in w[k].todo : Apart(f[i].dir, e)

\* A group is found, or something within it, or it is yet to be looked at.
Covered(w, f, d) ==
    \/ \E i \in 1..Len(f) : f[i].dir \in Within(d)
    \/ \E k \in 1..Len(w) : w[k].dir = d /\ w[k].limited
    \/ \E k \in 1..Len(w) : \E e \in w[k].todo : d \in Within(e)

Seen(f) == Len(f) \in Nat /\ \A i \in 1..Len(f) : f[i].dir \in Dirs

\* The same calls, with less to do.
Narrowed(w, v) ==
    /\ v \in Seq(FrameType) /\ Len(v) = Len(w)
    /\ \A k \in 1..Len(w) : /\ v[k].dir = w[k].dir /\ v[k].limited = w[k].limited
                            /\ v[k].mark = w[k].mark /\ v[k].todo \subseteq w[k].todo

(* What a frame consists of.                                               *)
LEMMA FrameFacts ==
  ASSUME NEW w, Stack(w), NEW k \in 1..Len(w)
  PROVE  /\ Len(w) \in Nat
         /\ w[k] \in FrameType /\ w[k].dir \in Dirs /\ w[k].limited \in BOOLEAN /\ w[k].mark \in Nat
         /\ w[k].todo \subseteq Children(w[k].dir)
         /\ w[k].todo \subseteq Dirs
<1>1. w \in Seq(FrameType) /\ Len(w) \in Nat /\ w[k] \in FrameType
  BY ElementOfSeq DEF Stack
<1> QED BY <1>1 DEF Stack, FrameType

(* To have less to do breaks nothing.                                      *)
LEMMA NarrowedKeeps ==
  ASSUME NEW w, NEW v, NEW f, Stack(w), Places(w, f), Narrowed(w, v)
  PROVE  Stack(v) /\ Places(v, f)
<1>1. Len(w) \in Nat
  BY DEF Stack
<1>2. ASSUME NEW k \in 1..Len(v)
      PROVE  /\ v[k].todo \subseteq Children(v[k].dir)
             /\ Cardinality(Above[v[k].dir]) = k - 1
             /\ k > 1 => Parent[v[k].dir] = v[k - 1].dir
             /\ \A j \in 1..(k - 1) : /\ v[j].dir \in Above[v[k].dir]
                                      /\ \A e \in v[j].todo : Apart(e, v[k].dir)
  <2>1. k \in 1..Len(w) /\ v[k].dir = w[k].dir /\ v[k].todo \subseteq w[k].todo
    BY DEF Narrowed
  <2>2. \A j \in 1..(k - 1) : j \in 1..Len(w) /\ v[j].dir = w[j].dir /\ v[j].todo \subseteq w[j].todo
    BY <1>1, <2>1 DEF Narrowed
  <2>3. k > 1 => k - 1 \in 1..(k - 1)
    BY <2>1, <1>1
  <2> QED BY <2>1, <2>2, <2>3 DEF Stack
<1>3. Stack(v)
  BY <1>2 DEF Stack, Narrowed
<1>4. Places(v, f)
  BY DEF Places, Narrowed
<1> QED BY <1>3, <1>4

(* A call of walkCgroups for a child.                                      *)
LEMMA CallKeepsStack ==
  ASSUME NEW w, Stack(w), NEW n \in Nat, n = Len(w), n > 0, NEW x \in FrameType,
         x.dir \in Children(w[n].dir), x.dir \notin w[n].todo, x.todo \subseteq Children(x.dir)
  PROVE  Stack(Append(w, x))
<1>v. PICK v : v = Append(w, x)
  OBVIOUS
<1>1. /\ v \in Seq(FrameType) /\ Len(v) = n + 1 /\ v[n + 1] = x
      /\ \A k \in 1..n : v[k] = w[k]
  BY <1>v DEF Stack
<1>2. n \in 1..Len(w) /\ w[n].dir \in Dirs
  <2>1. n \in 1..Len(w)
    OBVIOUS
  <2> QED BY <2>1, FrameFacts
<1>p. PICK p \in Dirs : p = w[n].dir
  BY <1>2
<1>c. PICK c : c = x.dir
  OBVIOUS
<1>3. c \in Children(p) /\ c \in Dirs /\ c # 0 /\ Parent[c] = p /\ Above[c] = {p} \cup Above[p]
  BY <1>c, <1>p, AboveParent DEF Children
<1>4. Cardinality(Above[c]) = n
  <2>1. Cardinality(Above[p]) = n - 1
    BY <1>2, <1>p DEF Stack
  <2>2. Cardinality(Above[c]) = Cardinality(Above[p]) + 1
    BY <1>3, Depth
  <2> QED BY <2>1, <2>2
<1>5. ASSUME NEW j \in 1..n PROVE w[j].dir \in Above[c] /\ \A e \in w[j].todo : Apart(e, c)
  <2>1. CASE j = n
    <3>1. w[n].todo \subseteq Children(p) /\ c \notin w[n].todo
      BY <1>2, <1>p, <1>c DEF Stack
    <3>2. \A e \in w[n].todo : Apart(e, c)
      BY <1>3, <3>1, SiblingsApart
    <3> QED BY <1>3, <1>p, <2>1, <3>2
  <2>2. CASE j < n
    <3>1. j \in 1..(n - 1) /\ j \in 1..Len(w)
      BY <2>2
    <3>2. w[j].dir \in Above[p] /\ \A e \in w[j].todo : Apart(e, p)
      BY <1>2, <1>p, <3>1 DEF Stack
    <3>3. w[j].todo \subseteq Dirs
      BY <3>1, FrameFacts
    <3>4. \A e \in w[j].todo : Apart(e, c)
      BY <1>3, <3>2, <3>3, ApartBelow
    <3> QED BY <1>3, <3>2, <3>4
  <2> QED BY <2>1, <2>2
<1>6. ASSUME NEW k \in 1..Len(v)
      PROVE  /\ v[k].todo \subseteq Children(v[k].dir)
             /\ Cardinality(Above[v[k].dir]) = k - 1
             /\ k > 1 => Parent[v[k].dir] = v[k - 1].dir
             /\ \A j \in 1..(k - 1) : /\ v[j].dir \in Above[v[k].dir]
                                      /\ \A e \in v[j].todo : Apart(e, v[k].dir)
  <2>1. CASE k = n + 1
    <3>1. k - 1 = n /\ v[k] = x /\ v[n] = w[n] /\ \A j \in 1..n : v[j] = w[j]
      BY <1>1, <1>2, <2>1
    <3> QED BY <1>3, <1>4, <1>5, <1>c, <1>p, <3>1
  <2>2. CASE k # n + 1
    <3>1. k \in 1..Len(w) /\ v[k] = w[k] /\ \A j \in 1..(k - 1) : j \in 1..n /\ v[j] = w[j]
      BY <1>1, <2>2
    <3>2. k > 1 => k - 1 \in 1..(k - 1)
      BY <3>1
    <3> QED BY <3>1, <3>2 DEF Stack
  <2> QED BY <2>1, <2>2
<1>7. Stack(v)
  BY <1>1, <1>6 DEF Stack
<1> QED BY <1>7, <1>v

(* What it can find is apart from all that was found before.               *)
LEMMA CallKeepsPlaces ==
  ASSUME NEW w, NEW f, Stack(w), Seen(f), Places(w, f), NEW x \in FrameType,
         x.mark = Len(f), x.todo \subseteq Children(x.dir),
         \A i \in 1..Len(f) : Apart(f[i].dir, x.dir)
  PROVE  Places(Append(w, x), f)
<1>v. PICK v : v = Append(w, x)
  OBVIOUS
<1>n. PICK n \in Nat : n = Len(w)
  BY DEF Stack
<1>1. /\ Len(v) = n + 1 /\ v[n + 1] = x
      /\ \A k \in 1..n : v[k] = w[k]
  BY <1>v, <1>n DEF Stack
<1>2. x.dir \in Dirs
  BY DEF FrameType
<1>3. \A i \in 1..Len(f) : \A e \in x.todo : Apart(f[i].dir, e)
  BY <1>2, ApartBelow DEF Seen
<1>4. \A i \in 1..Len(f) : i <= x.mark /\ ~(i > x.mark)
  BY DEF Seen
<1>5. ASSUME NEW k \in 1..Len(v)
      PROVE  /\ v[k].mark <= Len(f)
             /\ \A i \in 1..Len(f) : /\ i <= v[k].mark => Apart(f[i].dir, v[k].dir)
                                     /\ i > v[k].mark => v[k].dir \in Above[f[i].dir]
                                     /\ \A e \in v[k].todo : Apart(f[i].dir, e)
  <2>1. CASE k = n + 1
    <3>1. v[k] = x /\ x.mark <= Len(f)
      BY <1>1, <2>1 DEF Seen
    <3> QED BY <1>3, <1>4, <3>1
  <2>2. CASE k # n + 1
    <3>1. k \in 1..Len(w) /\ v[k] = w[k]
      BY <1>1, <1>n, <2>2
    <3> QED BY <3>1 DEF Places
  <2> QED BY <2>1, <2>2
<1>6. Places(v, f)
  BY <1>5 DEF Places
<1> QED BY <1>6, <1>v

(* The return of a call.                                                   *)
LEMMA ReturnKeepsStack ==
  ASSUME NEW w, NEW f, Stack(w), Places(w, f), NEW n \in Nat, n = Len(w), n > 0
  PROVE  Stack(SubSeq(w, 1, n - 1)) /\ Places(SubSeq(w, 1, n - 1), f)
<1>v. PICK v : v = SubSeq(w, 1, n - 1)
  OBVIOUS
<1>1. v \in Seq(FrameType) /\ Len(v) = n - 1 /\ \A k \in 1..(n - 1) : v[k] = w[k]
  BY <1>v DEF Stack
<1>2. \A k \in 1..Len(v) : k \in 1..Len(w) /\ v[k] = w[k]
  BY <1>1
<1>3. ASSUME NEW k \in 1..Len(v)
      PROVE  /\ v[k].todo \subseteq Children(v[k].dir)
             /\ Cardinality(Above[v[k].dir]) = k - 1
             /\ k > 1 => Parent[v[k].dir] = v[k - 1].dir
             /\ \A j \in 1..(k - 1) : /\ v[j].dir \in Above[v[k].dir]
                                      /\ \A e \in v[j].todo : Apart(e, v[k].dir)
  <2>1. k \in 1..Len(w) /\ v[k] = w[k] /\ \A j \in 1..(k - 1) : v[j] = w[j]
    BY <1>1, <1>2
  <2>2. k > 1 => k - 1 \in 1..(k - 1)
    BY <2>1
  <2> QED BY <2>1, <2>2 DEF Stack
<1>4. Stack(v)
  BY <1>1, <1>3 DEF Stack
<1>5. Places(v, f)
  BY <1>2 DEF Places
<1> QED BY <1>4, <1>5, <1>v

(* What a call reports is inside the groups of the calls that are left,    *)
(* and apart from what they have to do.                                    *)
LEMMA ReportKeepsPlaces ==
  ASSUME NEW w, NEW f, NEW r, Stack(w), Seen(f), Places(w, f), NEW n \in Nat, n = Len(w), n > 0,
         r.dir = w[n].dir
  PROVE  Places(SubSeq(w, 1, n - 1), Append(f, r))
<1>v. PICK v : v = SubSeq(w, 1, n - 1)
  OBVIOUS
<1>1. Len(v) = n - 1 /\ \A k \in 1..(n - 1) : v[k] = w[k]
  BY <1>v DEF Stack
<1> DEFINE g == Append(f, r)
           l == Len(f)
<1>2. l \in Nat /\ Len(g) = l + 1 /\ g[l + 1] = r /\ \A i \in 1..l : g[i] = f[i]
  BY DEF Seen
<1> HIDE DEF g, l
<1>3. ASSUME NEW k \in 1..Len(v)
      PROVE  /\ v[k].mark <= Len(g)
             /\ \A i \in 1..Len(g) : /\ i <= v[k].mark => Apart(g[i].dir, v[k].dir)
                                     /\ i > v[k].mark => v[k].dir \in Above[g[i].dir]
                                     /\ \A e \in v[k].todo : Apart(g[i].dir, e)
  <2>1. k \in 1..Len(w) /\ k \in 1..(n - 1) /\ v[k] = w[k] /\ n \in 1..Len(w)
    BY <1>1
  <2>2. w[k].mark \in Nat /\ w[k].mark <= l /\ w[k].mark <= Len(g)
    <3>1. w[k].mark \in Nat /\ w[k].mark <= l
      BY <2>1, FrameFacts DEF Places, l
    <3> QED BY <1>2, <3>1
  <2>3. w[k].dir \in Above[r.dir] /\ \A e \in w[k].todo : Apart(r.dir, e)
    <3>1. w[k].dir \in Above[w[n].dir] /\ \A e \in w[k].todo : Apart(e, w[n].dir)
      BY <2>1 DEF Stack
    <3> QED BY <3>1 DEF Apart
  <2>4. ASSUME NEW i \in 1..Len(g)
        PROVE  /\ i <= v[k].mark => Apart(g[i].dir, v[k].dir)
               /\ i > v[k].mark => v[k].dir \in Above[g[i].dir]
               /\ \A e \in v[k].todo : Apart(g[i].dir, e)
    <3>1. CASE i = l + 1
      <4>1. g[i] = r /\ ~(i <= w[k].mark)
        BY <1>2, <2>2, <3>1
      <4> QED BY <2>1, <2>3, <4>1
    <3>2. CASE i # l + 1
      <4>1. i \in 1..Len(f) /\ g[i] = f[i]
        BY <1>2, <3>2 DEF l
      <4> QED BY <2>1, <4>1 DEF Places
    <3> QED BY <3>1, <3>2
  <2> QED BY <2>1, <2>2, <2>4
<1>4. Places(v, g)
  BY <1>3 DEF Places
<1> QED BY <1>4, <1>v DEF g

(***************************************************************************)
(* The tree while others change it.                                        *)
(***************************************************************************)
Tree ==
    /\ group \in [Dirs -> {"none", "free", "limited"}]
    /\ high \in [Dirs -> 0..MaxHigh] /\ happened \in [Dirs -> 0..MaxHigh]
    /\ \A d \in Dirs \ {0} : Exists(d) => Exists(Parent[d])
    /\ \A d \in Dirs : ~Exists(d) => high[d] = 0
    /\ steady \subseteq Dirs /\ \A d \in steady : group[d] = "limited"

(* The root is above every other path.                                     *)
LEMMA RootAbove ==
  ASSUME NEW d \in Dirs \ {0}
  PROVE  0 \in Above[d]
<1> DEFINE Bad == {x \in Dirs \ {0} : 0 \notin Above[x]}
<1>1. Bad = {}
  <2> SUFFICES ASSUME Bad # {} PROVE FALSE
    OBVIOUS
  <2>1. PICK x \in Bad : \A k \in Bad : x <= k
    BY FirstPath
  <2>2. x # 0 /\ Parent[x] \in Dirs /\ Parent[x] < x /\ Above[x] = {Parent[x]} \cup Above[Parent[x]]
    BY AboveParent
  <2>3. Parent[x] # 0 /\ Parent[x] \notin Bad
    BY <2>1, <2>2, AboveParent
  <2> QED BY <2>2, <2>3
<1> QED BY <1>1

(* A group exists only inside groups that exist.                           *)
LEMMA ExistsAbove ==
  ASSUME Tree, NEW d \in Dirs, Exists(d), NEW e \in Above[d]
  PROVE  Exists(e)
<1> DEFINE Bad == {x \in Dirs : Exists(x) /\ \E y \in Above[x] : ~Exists(y)}
<1>1. Bad = {}
  <2> SUFFICES ASSUME Bad # {} PROVE FALSE
    OBVIOUS
  <2>1. PICK x \in Bad : \A k \in Bad : x <= k
    BY FirstPath
  <2>2. PICK y \in Above[x] : ~Exists(y)
    OBVIOUS
  <2>3. x # 0 /\ Parent[x] \in Dirs /\ Parent[x] < x /\ Above[x] = {Parent[x]} \cup Above[Parent[x]]
    BY <2>2, AboveParent
  <2>4. Exists(Parent[x])
    BY <2>3 DEF Tree
  <2>5. Parent[x] \notin Bad
    BY <2>1, <2>3, AboveParent
  <2> QED BY <2>2, <2>3, <2>4, <2>5
<1> QED BY <1>1

(* A call for a group sees to every limited group inside it.               *)
LEMMA VisitCovers ==
  ASSUME Tree, NEW c \in Dirs, NEW d \in Within(c), group[d] = "limited"
  PROVE  /\ Exists(c)
         /\ \/ Frame(c).dir = d /\ Frame(c).limited
            \/ \E e \in Frame(c).todo : d \in Within(e)
<1>1. d \in Dirs /\ group[d] = "limited" /\ Exists(d)
  BY DEF Within, Exists
<1>2. CASE d = c
  BY <1>1, <1>2 DEF Frame
<1>3. CASE c \in Above[d]
  <2>1. Exists(c)
    BY <1>1, <1>3, ExistsAbove
  <2>2. PICK e \in Children(c) : d \in Within(e)
    BY <1>1, <1>3, WithinChild
  <2>3. Exists(e)
    BY <1>1, <2>2, ExistsAbove DEF Within
  <2> QED BY <2>1, <2>2, <2>3 DEF Frame
<1> QED BY <1>2, <1>3 DEF Within

(* What a call begins with.                                                *)
LEMMA FrameTyped ==
  ASSUME NEW c \in Dirs, Len(found) \in Nat
  PROVE  /\ Frame(c) \in FrameType /\ Frame(c).dir = c /\ Frame(c).mark = Len(found)
         /\ Frame(c).todo \subseteq Children(c)
         /\ [Frame(c) EXCEPT !.mark = 0] \in FrameType
<1> QED BY DEF Frame, FrameType, Children

(* To pass over a child gives up what is inside it, and nothing else.      *)
LEMMA NarrowedCovers ==
  ASSUME NEW w, NEW v, NEW f, NEW d, NEW c, Stack(w), Narrowed(w, v),
         \A k \in 1..Len(w) : w[k].todo \subseteq v[k].todo \cup {c},
         Covered(w, f, d), d \notin Within(c)
  PROVE  Covered(v, f, d)
<1>1. Len(v) = Len(w)
  BY DEF Narrowed
<1>2. CASE \E k \in 1..Len(w) : w[k].dir = d /\ w[k].limited
  BY <1>1, <1>2 DEF Covered, Narrowed
<1>3. CASE \E k \in 1..Len(w) : \E e \in w[k].todo : d \in Within(e)
  BY <1>1, <1>3 DEF Covered
<1> QED BY <1>2, <1>3 DEF Covered

(* A call adds to what is looked at.                                       *)
LEMMA CallCovers ==
  ASSUME NEW w, NEW x, NEW f, NEW d, Stack(w),
         Covered(w, f, d) \/ (x.dir = d /\ x.limited) \/ \E e \in x.todo : d \in Within(e)
  PROVE  Covered(Append(w, x), f, d)
<1>v. PICK v : v = Append(w, x)
  OBVIOUS
<1>n. PICK n \in Nat : n = Len(w)
  BY DEF Stack
<1>1. Len(v) = n + 1 /\ v[n + 1] = x /\ \A k \in 1..n : v[k] = w[k]
  BY <1>v, <1>n DEF Stack
<1> SUFFICES Covered(v, f, d)
  BY <1>v
<1>2. n + 1 \in 1..Len(v) /\ \A k \in 1..Len(w) : k \in 1..Len(v) /\ v[k] = w[k]
  BY <1>1, <1>n
<1>3. CASE Covered(w, f, d)
  BY <1>2, <1>3 DEF Covered
<1>4. CASE x.dir = d /\ x.limited
  BY <1>1, <1>2, <1>4 DEF Covered
<1>5. CASE \E e \in x.todo : d \in Within(e)
  <2>1. \E e \in v[n + 1].todo : d \in Within(e)
    BY <1>1, <1>5
  <2> QED BY <1>2, <2>1 DEF Covered
<1> QED BY <1>3, <1>4, <1>5

(* A call that returns has found its limited group, or one within.         *)
LEMMA ReturnCovers ==
  ASSUME NEW w, NEW f, NEW g, NEW d, Stack(w), NEW n \in Nat, n = Len(w), n > 0, w[n].todo = {},
         Covered(w, f, d),
         \A i \in 1..Len(f) : \E j \in 1..Len(g) : g[j].dir = f[i].dir,
         w[n].limited => \E i \in 1..Len(g) : g[i].dir \in Within(w[n].dir)
  PROVE  Covered(SubSeq(w, 1, n - 1), g, d)
<1>v. PICK v : v = SubSeq(w, 1, n - 1)
  OBVIOUS
<1>1. Len(v) = n - 1 /\ \A k \in 1..(n - 1) : v[k] = w[k]
  BY <1>v DEF Stack
<1> SUFFICES Covered(v, g, d)
  BY <1>v
<1>2. \A k \in 1..Len(w) : k = n \/ (k \in 1..Len(v) /\ v[k] = w[k])
  BY <1>1
<1>3. CASE \E i \in 1..Len(f) : f[i].dir \in Within(d)
  <2>1. PICK i \in 1..Len(f) : f[i].dir \in Within(d)
    BY <1>3
  <2>2. PICK j \in 1..Len(g) : g[j].dir = f[i].dir
    OBVIOUS
  <2> QED BY <2>1, <2>2 DEF Covered
<1>4. CASE \E k \in 1..Len(w) : w[k].dir = d /\ w[k].limited
  <2>1. PICK k \in 1..Len(w) : w[k].dir = d /\ w[k].limited
    BY <1>4
  <2>2. CASE k = n
    BY <2>1, <2>2 DEF Covered
  <2>3. CASE k # n
    BY <1>2, <2>1, <2>3 DEF Covered
  <2> QED BY <2>2, <2>3
<1>5. CASE \E k \in 1..Len(w) : \E e \in w[k].todo : d \in Within(e)
  <2>1. PICK k \in 1..Len(w) : \E e \in w[k].todo : d \in Within(e)
    BY <1>5
  <2>2. k # n
    BY <2>1
  <2> QED BY <1>2, <2>1, <2>2 DEF Covered
<1> QED BY <1>3, <1>4, <1>5 DEF Covered

(***************************************************************************)
(* The invariant of the walk, in parts.                                    *)
(***************************************************************************)
Working == polling \in {"walk", "publish"}

Antichain(f) == \A i, j \in 1..Len(f) : i # j => f[i].dir \notin Within(f[j].dir)

Results(f) == \E L : f \in Seq([dir : Dirs, label : L, high : 0..MaxHigh, real : 0..MaxHigh])

Shape ==
    /\ polling \in {"new", "idle", "walk", "publish", "gauge", "ended"} /\ stopping \in BOOLEAN
    /\ Stack(walk) /\ Len(walk) <= MaxDepth + 1 /\ (walk # <<>> <=> polling = "walk")
    /\ Results(found) /\ Places(walk, found)
    /\ (Working => Antichain(found)) /\ (polling = "gauge" => found # <<>>)

Complete ==
    Working => \A d \in steady : Cardinality(Above[d]) <= MaxDepth => Covered(walk, found, d)

\* The events at a path since its last sample are counted, also while the sample that
\* takes its place has yet to be published.
Counted ==
    /\ DOMAIN prev \subseteq Dirs
    /\ \A d \in DOMAIN prev :
          /\ prev[d] \in Nat
          /\ \/ Working /\ \E i \in 1..Len(found) : found[i].dir = d
             \/ high[d] <= prev[d] + happened[d]
    /\ Working => \A i \in 1..Len(found) :
          /\ high[found[i].dir] <= found[i].high + happened[found[i].dir]
          /\ found[i].dir \in DOMAIN prev => found[i].high <= prev[found[i].dir] + found[i].real

Shown == LimitsReportedOnce /\ RatesAreReal

(* What a result consists of.                                              *)
LEMMA ResultFacts ==
  ASSUME NEW f, Results(f)
  PROVE  /\ Seen(f)
         /\ \A i \in 1..Len(f) : f[i].high \in 0..MaxHigh /\ f[i].real \in 0..MaxHigh
<1>1. PICK L : f \in Seq([dir : Dirs, label : L, high : 0..MaxHigh, real : 0..MaxHigh])
  BY DEF Results
<1>2. \A i \in 1..Len(f) : f[i] \in [dir : Dirs, label : L, high : 0..MaxHigh, real : 0..MaxHigh]
  BY <1>1, ElementOfSeq
<1> QED BY <1>1, <1>2 DEF Seen

(* The innermost call, and the child it is at.                             *)
LEMMA TopFacts ==
  ASSUME Shape, polling = "walk"
  PROVE  /\ Len(walk) \in Nat /\ Len(walk) > 0 /\ Len(walk) \in 1..Len(walk)
         /\ Top.dir \in Dirs /\ Top.todo \subseteq Children(Top.dir) /\ Top.todo \subseteq Dirs
         /\ Top.mark \in Nat /\ Top.limited \in BOOLEAN
<1>1. Stack(walk) /\ walk # <<>> /\ walk \in Seq(FrameType)
  BY DEF Shape, Stack
<1>2. Len(walk) \in Nat /\ Len(walk) > 0 /\ Len(walk) \in 1..Len(walk)
  BY <1>1
<1> QED BY <1>1, <1>2, FrameFacts DEF Top

(* It is passed over.                                                      *)
LEMMA PassFacts ==
  ASSUME Shape, polling = "walk", Top.todo # {}
  PROVE  /\ Child \in Top.todo /\ Child \in Dirs /\ Child \in Children(Top.dir)
         /\ Narrowed(walk, Passed) /\ Len(Passed) = Len(walk)
         /\ Passed[Len(walk)].todo = Top.todo \ {Child} /\ Passed[Len(walk)].dir = Top.dir
         /\ \A k \in 1..Len(walk) : walk[k].todo \subseteq Passed[k].todo \cup {Child}
<1>1. Child \in Top.todo
  <2>1. \E d \in Top.todo : \A e \in Top.todo : d <= e
    BY TopFacts, FirstPath
  <2> QED BY <2>1 DEF Child
<1>2. Child \in Dirs /\ Child \in Children(Top.dir)
  BY <1>1, TopFacts
<1>n. PICK n \in Nat : n = Len(walk) /\ n > 0 /\ n \in 1..Len(walk)
  BY TopFacts
<1>c. PICK c : c = Child
  OBVIOUS
<1>3. walk \in Seq(FrameType) /\ walk[n] \in FrameType /\ walk[n] = Top
  <2>1. walk \in Seq(FrameType)
    BY DEF Shape, Stack
  <2> QED BY <1>n, <2>1, ElementOfSeq DEF Top
<1>x. PICK x : x = [walk[n] EXCEPT !.todo = @ \ {c}]
  OBVIOUS
<1>4. /\ x \in FrameType /\ x.dir = walk[n].dir /\ x.limited = walk[n].limited /\ x.mark = walk[n].mark
      /\ x.todo = walk[n].todo \ {c}
  BY <1>3, <1>x DEF FrameType
<1>5. Passed = [walk EXCEPT ![n] = x]
  BY <1>n, <1>c, <1>x DEF Passed
<1>v. PICK v : v = [walk EXCEPT ![n] = x]
  OBVIOUS
<1>6. v \in Seq(FrameType) /\ Len(v) = n /\ v[n] = x /\ \A k \in 1..n : k # n => v[k] = walk[k]
  BY <1>3, <1>4, <1>n, <1>v
<1>7. Narrowed(walk, v)
  BY <1>4, <1>6, <1>n DEF Narrowed
<1>8. \A k \in 1..Len(walk) : walk[k].todo \subseteq v[k].todo \cup {c}
  BY <1>4, <1>6, <1>n
<1>9. v = Passed /\ Passed[Len(walk)] = x /\ Len(Passed) = Len(walk)
  BY <1>5, <1>6, <1>n, <1>v
<1> QED BY <1>1, <1>2, <1>3, <1>4, <1>7, <1>8, <1>9, <1>c

WalkInv == Tree /\ Shape /\ Complete /\ Counted /\ Shown

(***************************************************************************)
(* The steps of a poll.                                                    *)
(***************************************************************************)
(* The first call, for the root, sees to the whole tree.                   *)
LEMMA BeginKeeps ==
  ASSUME WalkInv, PollBegins
  PROVE  WalkInv'
<1>x. PICK x : x = [Frame(0) EXCEPT !.mark = 0]
  OBVIOUS
<1>1. /\ polling \in {"new", "idle"} /\ polling' = "walk" /\ found' = <<>> /\ walk' = <<x>>
      /\ steady' = {d \in Dirs : group[d] = "limited"}
      /\ UNCHANGED <<group, high, prev, snap, stopping, happened>>
  BY <1>x DEF PollBegins, kernelVars, published
<1>2. 0 \in Dirs /\ Len(found) \in Nat
  BY DirsAssumption, ResultFacts DEF WalkInv, Shape, Seen
<1>3. x \in FrameType /\ x.todo \subseteq Children(x.dir) /\ x.dir = 0 /\ x.mark = 0
      /\ x.limited = Frame(0).limited /\ x.todo = Frame(0).todo
  BY <1>2, <1>x, FrameTyped DEF Frame
<1>4. Tree'
  BY <1>1 DEF WalkInv, Tree, Exists
<1>5. Len(<<x>>) = 1 /\ <<x>>[1] = x /\ <<x>> \in Seq(FrameType) /\ <<x>> # <<>>
  BY <1>3
<1>w. PICK w : w = <<x>>
  OBVIOUS
<1>6. Stack(w)
  <2>1. Cardinality(Above[0]) = 0
    BY AboveParent, FS_EmptySet
  <2>2. Len(w) = 1 /\ w[1] = x /\ w \in Seq(FrameType) /\ \A k \in 1..Len(w) : k = 1
    BY <1>5, <1>w
  <2>3. 1..(1 - 1) = {} /\ ~(1 > 1) /\ 1 - 1 = 0
    OBVIOUS
  <2> QED BY <1>3, <2>1, <2>2, <2>3 DEF Stack
<1>7. Places(w, <<>>)
  BY <1>3, <1>5, <1>w DEF Places
<1>8. Shape'
  <2>1. Len(w) <= MaxDepth + 1
    BY <1>5, <1>w, MaxDepthAssumption
  <2>2. Results(<<>>) /\ Antichain(<<>>)
    BY DEF Results, Antichain
  <2>3. stopping \in BOOLEAN
    BY DEF WalkInv, Shape
  <2> QED BY <1>1, <1>5, <1>6, <1>7, <1>w, <2>1, <2>2, <2>3 DEF Shape
<1>9. Complete'
  <2>1. ASSUME NEW d \in steady' PROVE Covered(w, <<>>, d)
    <3>1. d \in Dirs /\ group[d] = "limited"
      BY <1>1
    <3>2. d \in Within(0)
      BY <1>2, <3>1, RootAbove DEF Within
    <3>3. (x.dir = d /\ x.limited) \/ \E e \in x.todo : d \in Within(e)
      BY <1>2, <1>3, <3>1, <3>2, VisitCovers, FrameTyped DEF WalkInv
    <3> QED BY <1>5, <1>w, <3>3 DEF Covered
  <2> QED BY <1>1, <1>w, <2>1 DEF Complete
<1>10. Counted'
  <2>1. ~Working
    BY <1>1 DEF Working
  <2>2. \A i \in 1..Len(found') : FALSE
    BY <1>1
  <2> QED BY <1>1, <2>1, <2>2 DEF WalkInv, Counted
<1>11. Shown'
  BY <1>1 DEF WalkInv, Shown, LimitsReportedOnce, RatesAreReal
<1> QED BY <1>4, <1>8, <1>9, <1>10, <1>11 DEF WalkInv

(* A call goes on to a child, unless it has gone or is too deep.           *)
LEMMA DescendKeeps ==
  ASSUME WalkInv, Descend
  PROVE  WalkInv'
<1>1. /\ polling = "walk" /\ Top.todo # {}
      /\ walk' = IF Exists(Child) /\ Len(walk) <= MaxDepth THEN Append(Passed, Frame(Child)) ELSE Passed
      /\ UNCHANGED <<group, high, polling, found, prev, snap, stopping, happened, steady>>
  BY DEF Descend, kernelVars, published
<1>2. Tree /\ Shape /\ Stack(walk) /\ Places(walk, found) /\ Seen(found) /\ walk # <<>>
  BY <1>1, ResultFacts DEF WalkInv, Shape
<1>n. PICK n \in Nat : n = Len(walk) /\ n > 0 /\ n \in 1..Len(walk) /\ n <= MaxDepth + 1
  BY <1>1, <1>2, TopFacts DEF Shape
<1>c. PICK c \in Dirs : c = Child
  BY <1>1, <1>2, PassFacts
<1>v. PICK v : v = Passed
  OBVIOUS
<1>3. /\ c \in Top.todo /\ c \in Children(Top.dir)
      /\ Narrowed(walk, v) /\ Len(v) = n
      /\ v[n].todo = Top.todo \ {c} /\ v[n].dir = Top.dir /\ walk[n] = Top
      /\ \A k \in 1..Len(walk) : walk[k].todo \subseteq v[k].todo \cup {c}
  BY <1>1, <1>2, <1>c, <1>n, <1>v, PassFacts DEF Top
<1>4. Stack(v) /\ Places(v, found)
  BY <1>2, <1>3, NarrowedKeeps
<1>x. PICK x : x = Frame(c)
  OBVIOUS
<1>5. x \in FrameType /\ x.dir = c /\ x.mark = Len(found) /\ x.todo \subseteq Children(x.dir)
  BY <1>2, <1>x, FrameTyped DEF Seen
<1>6. Tree'
  BY <1>1 DEF WalkInv, Tree, Exists
<1>7. Counted' /\ Shown'
  BY <1>1 DEF WalkInv, Counted, Working, Shown, LimitsReportedOnce, RatesAreReal
<1>8. CASE Exists(c) /\ n <= MaxDepth
  <2>1. walk' = Append(v, x)
    BY <1>1, <1>8, <1>c, <1>n, <1>v, <1>x
  <2>2. Stack(Append(v, x))
    BY <1>3, <1>4, <1>5, <1>n, CallKeepsStack
  <2>3. \A i \in 1..Len(found) : Apart(found[i].dir, x.dir)
    BY <1>2, <1>3, <1>5, <1>n DEF Places
  <2>4. Places(Append(v, x), found)
    BY <1>2, <1>4, <1>5, <2>3, CallKeepsPlaces
  <2>5. Len(Append(v, x)) = n + 1 /\ Append(v, x) # <<>>
    BY <1>3, <1>4, <1>n DEF Stack
  <2>6. n + 1 <= MaxDepth + 1
    BY <1>8, <1>n, MaxDepthAssumption
  <2>7. Shape'
    BY <1>1, <1>2, <2>1, <2>2, <2>4, <2>5, <2>6 DEF Shape, Working
  <2>8. ASSUME NEW d \in steady, Cardinality(Above[d]) <= MaxDepth
        PROVE  Covered(Append(v, x), found, d)
    <3>1. Covered(walk, found, d)
      BY <1>1, <2>8 DEF WalkInv, Complete, Working
    <3>2. CASE d \in Within(c)
      <4>1. group[d] = "limited"
        BY <1>2 DEF Tree
      <4>2. (x.dir = d /\ x.limited) \/ \E e \in x.todo : d \in Within(e)
        BY <1>2, <1>x, <3>2, <4>1, VisitCovers
      <4> QED BY <1>4, <4>2, CallCovers
    <3>3. CASE d \notin Within(c)
      <4>1. Covered(v, found, d)
        BY <1>2, <1>3, <3>1, <3>3, NarrowedCovers
      <4> QED BY <1>4, <4>1, CallCovers
    <3> QED BY <3>2, <3>3
  <2>9. Complete'
    BY <1>1, <2>1, <2>8 DEF Complete, Working
  <2> QED BY <1>6, <1>7, <2>7, <2>9 DEF WalkInv
<1>9. CASE ~(Exists(c) /\ n <= MaxDepth)
  <2>1. walk' = v
    BY <1>1, <1>9, <1>c, <1>n, <1>v
  <2>2. v # <<>>
    BY <1>3, <1>n
  <2>3. Shape'
    BY <1>1, <1>2, <1>3, <1>4, <1>n, <2>1, <2>2 DEF Shape, Working
  <2>4. ASSUME NEW d \in steady, Cardinality(Above[d]) <= MaxDepth
        PROVE  Covered(v, found, d)
    <3>1. Covered(walk, found, d)
      BY <1>1, <2>4 DEF WalkInv, Complete, Working
    <3>2. d \notin Within(c)
      <4> SUFFICES ASSUME d \in Within(c) PROVE FALSE
        OBVIOUS
      <4>1. group[d] = "limited" /\ d \in Dirs
        BY <1>2 DEF Tree
      <4>2. Exists(c)
        BY <1>2, <4>1, VisitCovers
      <4>3. n = MaxDepth + 1
        BY <1>9, <1>n, <4>2, MaxDepthAssumption
      <4>4. Cardinality(Above[Top.dir]) = n - 1 /\ Parent[c] = Top.dir /\ c # 0
        BY <1>2, <1>3, <1>n DEF Stack, Children
      <4>5. Cardinality(Above[c]) = n
        BY <1>n, <4>4, Depth
      <4>6. Cardinality(Above[c]) <= Cardinality(Above[d])
        <5>1. CASE c = d
          BY <1>n, <4>5, <5>1
        <5>2. CASE c \in Above[d]
          BY <4>1, <5>2, Depth
        <5> QED BY <5>1, <5>2 DEF Within
      <4>7. Cardinality(Above[d]) \in Nat
        BY <4>1, Depth
      <4> QED BY <2>4, <4>3, <4>5, <4>6, <4>7, MaxDepthAssumption
    <3> QED BY <1>2, <1>3, <3>1, <3>2, NarrowedCovers
  <2>5. Complete'
    BY <1>1, <2>1, <2>4 DEF Complete, Working
  <2> QED BY <1>6, <1>7, <2>3, <2>5 DEF WalkInv
<1> QED BY <1>8, <1>9

(* One result more, apart from the others.                                 *)
LEMMA ReportKeepsResults ==
  ASSUME NEW f, Results(f), Antichain(f), NEW d \in Dirs, NEW r, NEW l, NEW h \in 0..MaxHigh, NEW e \in 0..MaxHigh,
         r = [dir |-> d, label |-> l, high |-> h, real |-> e],
         \A i \in 1..Len(f) : Apart(f[i].dir, d)
  PROVE  Results(Append(f, r)) /\ Antichain(Append(f, r))
<1>1. PICK L : f \in Seq([dir : Dirs, label : L, high : 0..MaxHigh, real : 0..MaxHigh])
  BY DEF Results
<1>2. Results(Append(f, r))
  <2> DEFINE R(M) == [dir : Dirs, label : M, high : 0..MaxHigh, real : 0..MaxHigh]
  <2>1. r \in R(L \cup {l}) /\ R(L) \subseteq R(L \cup {l})
    OBVIOUS
  <2> HIDE DEF R
  <2>2. f \in Seq(R(L))
    BY <1>1 DEF R
  <2>3. f \in Seq(R(L \cup {l}))
    <3> DEFINE A == R(L)
               B == R(L \cup {l})
    <3>1. A \subseteq B /\ f \in Seq(A)
      BY <2>1, <2>2
    <3> HIDE DEF A, B
    <3>2. Seq(A) \subseteq Seq(B)
      BY <3>1, SeqMonotonic
    <3> QED BY <3>1, <3>2 DEF B
  <2>4. Append(f, r) \in Seq(R(L \cup {l}))
    BY <2>1, <2>3
  <2> QED BY <2>4 DEF Results, R
<1>n. PICK n \in Nat : n = Len(f)
  BY <1>1
<1>g. PICK g : g = Append(f, r)
  OBVIOUS
<1>3. Len(g) = n + 1 /\ g[n + 1] = r /\ \A i \in 1..n : g[i] = f[i]
  BY <1>1, <1>n, <1>g
<1>4. \A i \in 1..Len(g) : i = n + 1 \/ i \in 1..n
  BY <1>3
<1>5. d \notin Above[d]
  BY AboveBefore, AboveParent
<1>6. r.dir = d
  OBVIOUS
<1>7. Antichain(g)
  <2> SUFFICES ASSUME NEW i \in 1..Len(g), NEW j \in 1..Len(g), i # j
               PROVE  g[i].dir \notin Within(g[j].dir)
    BY DEF Antichain
  <2>1. CASE i = n + 1
    BY <1>3, <1>4, <1>6, <1>n, <2>1 DEF Apart
  <2>2. CASE j = n + 1
    BY <1>3, <1>4, <1>6, <1>n, <2>2 DEF Apart
  <2>3. CASE i \in 1..n /\ j \in 1..n
    BY <1>3, <1>n, <2>3 DEF Antichain
  <2> QED BY <1>4, <2>1, <2>2, <2>3
<1> QED BY <1>2, <1>7, <1>g

(* A call that returns reports its group, if it is limited and nothing     *)
(* within it was reported.                                                 *)
LEMMA LeaveKeeps ==
  ASSUME WalkInv, NEW names, Leave(names)
  PROVE  WalkInv'
<1>d. PICK D : D = Top.dir
  OBVIOUS
<1>r. PICK r : r = Result(D, names)
  OBVIOUS
<1>b. PICK emits \in BOOLEAN : emits = (Top.limited /\ Len(found) = Top.mark)
  OBVIOUS
<1>1. /\ polling = "walk" /\ Top.todo = {}
      /\ found' = (IF emits THEN Append(found, r) ELSE found)
      /\ happened' = (IF emits THEN [happened EXCEPT ![D] = 0] ELSE happened)
      /\ walk' = SubSeq(walk, 1, Len(walk) - 1)
      /\ polling' = (IF Len(walk) = 1 THEN "publish" ELSE "walk")
      /\ UNCHANGED <<group, high, prev, snap, stopping, steady>>
  BY <1>b, <1>d, <1>r DEF Leave, Return, kernelVars, published
<1>2. /\ Tree /\ Shape /\ Stack(walk) /\ Places(walk, found) /\ Seen(found) /\ Results(found)
      /\ Antichain(found)
  BY <1>1, ResultFacts DEF WalkInv, Shape, Working
<1>n. PICK n \in Nat : n = Len(walk) /\ n > 0 /\ n \in 1..Len(walk) /\ n <= MaxDepth + 1
  BY <1>1, <1>2, TopFacts DEF Shape
<1>3. /\ walk[n] = Top /\ walk[n].dir = D /\ D \in Dirs /\ walk[n].todo = {}
      /\ walk[n].mark \in Nat /\ walk[n].mark <= Len(found)
  BY <1>1, <1>2, <1>n, <1>d, TopFacts DEF Top, Places
<1>w. PICK w : w = SubSeq(walk, 1, n - 1)
  OBVIOUS
<1>4. walk' = w /\ polling' = (IF n = 1 THEN "publish" ELSE "walk")
  BY <1>1, <1>n, <1>w
<1>5. Stack(w) /\ Places(w, found)
  BY <1>2, <1>n, <1>w, ReturnKeepsStack
<1>6. Len(w) <= MaxDepth + 1 /\ (w # <<>> <=> polling' = "walk")
  <2>1. Len(w) = n - 1
    BY <1>2, <1>n, <1>w DEF Stack
  <2>2. w \in Seq(FrameType)
    BY <1>5 DEF Stack
  <2> QED BY <1>4, <1>n, <2>1, <2>2, MaxDepthAssumption
<1>7. Shown'
  BY <1>1 DEF WalkInv, Shown, LimitsReportedOnce, RatesAreReal
<1>8. Working /\ Working'
  BY <1>1, <1>4 DEF Working
<1>9. CASE emits
  <2>1. walk[n].limited /\ walk[n].mark = Len(found) /\ found' = Append(found, r)
        /\ happened' = [happened EXCEPT ![D] = 0]
    BY <1>1, <1>3, <1>9, <1>b
  <2>2. /\ r = [dir |-> D, label |-> Label(D, names), high |-> high[D], real |-> happened[D]]
        /\ high[D] \in 0..MaxHigh /\ happened[D] \in 0..MaxHigh
    BY <1>2, <1>3, <1>r DEF Result, Tree
  <2>3. \A i \in 1..Len(found) : Apart(found[i].dir, D)
    BY <1>2, <1>3, <1>n, <2>1 DEF Places, Seen
  <2>4. Results(found') /\ Antichain(found')
    BY <1>2, <1>3, <2>1, <2>2, <2>3, ReportKeepsResults
  <2>5. Places(w, found')
    BY <1>2, <1>3, <1>n, <1>w, <2>1, <2>2, ReportKeepsPlaces
  <2>6. Shape'
    BY <1>1, <1>2, <1>4, <1>5, <1>6, <1>8, <2>4, <2>5 DEF Shape
  <2>7. Tree'
    <3>1. 0 \in 0..MaxHigh /\ happened \in [Dirs -> 0..MaxHigh]
      BY <1>2, MaxHighAssumption DEF Tree
    <3>2. happened' \in [Dirs -> 0..MaxHigh]
      BY <2>1, <3>1
    <3> QED BY <1>1, <1>2, <3>2 DEF Tree, Exists
  <2>g. PICK m \in Nat : m = Len(found)
    BY <1>2 DEF Seen
  <2>8. Len(found') = m + 1 /\ found'[m + 1] = r /\ \A i \in 1..m : found'[i] = found[i]
    BY <1>2, <2>1, <2>g DEF Seen
  <2>9. \A i \in 1..Len(found') : i = m + 1 \/ i \in 1..m
    BY <2>8
  <2>10. Complete'
    <3>1. m + 1 \in 1..Len(found') /\ found'[m + 1].dir = D /\ D \in Within(D)
      BY <1>3, <2>2, <2>8 DEF Within
    <3>2. \A i \in 1..Len(found) : \E j \in 1..Len(found') : found'[j].dir = found[i].dir
      BY <2>8, <2>g
    <3>3. \E i \in 1..Len(found') : found'[i].dir \in Within(walk[n].dir)
      BY <1>3, <3>1
    <3>4. ASSUME NEW d, Covered(walk, found, d) PROVE Covered(w, found', d)
      BY <1>2, <1>3, <1>n, <1>w, <3>2, <3>3, <3>4, ReturnCovers
    <3> QED BY <1>1, <1>4, <1>8, <3>4 DEF WalkInv, Complete
  <2>11. Counted'
    <3>1. \A i \in 1..m : found[i].dir # D /\ found[i].dir \in Dirs
      BY <1>2, <1>3, <2>3, <2>g DEF Apart, Within, Seen
    <3>2. \A d \in Dirs : d # D => happened'[d] = happened[d]
      BY <1>2, <2>1 DEF Tree
    <3>3. happened'[D] = 0 /\ r.dir = D /\ r.high = high[D] /\ r.real = happened[D]
      BY <1>2, <1>3, <2>1, <2>2 DEF Tree
    <3>4. \A d \in DOMAIN prev : d \in Dirs /\ prev[d] \in Nat
      BY DEF WalkInv, Counted
    <3>5. ASSUME NEW d \in DOMAIN prev
          PROVE  (\E i \in 1..Len(found') : found'[i].dir = d) \/ high[d] <= prev[d] + happened'[d]
      <4>1. CASE d = D
        <5>1. m + 1 \in 1..Len(found')
          BY <2>8
        <5> QED BY <2>8, <3>3, <4>1, <5>1
      <4>2. CASE d # D
        <5>1. (\E i \in 1..m : found[i].dir = d) \/ high[d] <= prev[d] + happened[d]
          BY <1>8, <2>g DEF WalkInv, Counted
        <5>2. CASE \E i \in 1..m : found[i].dir = d
          BY <2>8, <5>2
        <5>3. CASE high[d] <= prev[d] + happened[d]
          BY <3>2, <3>4, <4>2, <5>3
        <5> QED BY <5>1, <5>2, <5>3
      <4> QED BY <4>1, <4>2
    <3>6. ASSUME NEW i \in 1..Len(found')
          PROVE  /\ high[found'[i].dir] <= found'[i].high + happened'[found'[i].dir]
                 /\ found'[i].dir \in DOMAIN prev => found'[i].high <= prev[found'[i].dir] + found'[i].real
      <4>1. CASE i = m + 1
        <5>1. high[D] <= high[D] + 0
          BY <2>2
        <5>2. D \in DOMAIN prev => high[D] <= prev[D] + happened[D]
          BY <1>8, <2>g, <3>1 DEF WalkInv, Counted
        <5> QED BY <2>8, <3>3, <4>1, <5>1, <5>2
      <4>2. CASE i \in 1..m
        <5>1. /\ high[found[i].dir] <= found[i].high + happened[found[i].dir]
              /\ found[i].dir \in DOMAIN prev => found[i].high <= prev[found[i].dir] + found[i].real
          BY <1>8, <2>g, <4>2 DEF WalkInv, Counted
        <5> QED BY <2>8, <3>1, <3>2, <4>2, <5>1
      <4> QED BY <2>9, <4>1, <4>2
    <3> QED BY <1>1, <1>8, <3>4, <3>5, <3>6 DEF Counted
  <2> QED BY <1>7, <2>6, <2>7, <2>10, <2>11 DEF WalkInv
<1>10. CASE ~emits
  <2>1. found' = found /\ happened' = happened
    BY <1>1, <1>10
  <2>2. Shape'
    BY <1>1, <1>2, <1>4, <1>5, <1>6, <1>8, <2>1 DEF Shape
  <2>3. Tree'
    BY <1>1, <1>2, <2>1 DEF Tree, Exists
  <2>4. Counted'
    BY <1>1, <1>8, <2>1 DEF WalkInv, Counted
  <2>5. walk[n].limited => \E i \in 1..Len(found) : found[i].dir \in Within(walk[n].dir)
    <3> SUFFICES ASSUME walk[n].limited
                 PROVE  \E i \in 1..Len(found) : found[i].dir \in Within(walk[n].dir)
      OBVIOUS
    <3>m. PICK m \in Nat : m = Len(found)
      BY <1>2 DEF Seen
    <3>0. Len(found) # Top.mark
      BY <1>3, <1>10, <1>b, Zenon
    <3>1. m > walk[n].mark
      BY <1>3, <3>0, <3>m
    <3>2. m \in 1..Len(found)
      BY <1>3, <3>1, <3>m
    <3>3. walk[n].dir \in Above[found[m].dir] /\ found[m].dir \in Dirs
      BY <1>2, <1>n, <3>1, <3>2 DEF Places, Seen
    <3> QED BY <3>2, <3>3 DEF Within
  <2>6. ASSUME NEW d, Covered(walk, found, d) PROVE Covered(w, found, d)
    <3>1. \A i \in 1..Len(found) : \E j \in 1..Len(found) : found[j].dir = found[i].dir
      OBVIOUS
    <3> QED BY <1>2, <1>3, <1>n, <1>w, <2>5, <2>6, <3>1, ReturnCovers
  <2>7. Complete'
    BY <1>1, <1>4, <1>8, <2>1, <2>6 DEF WalkInv, Complete
  <2> QED BY <1>7, <2>2, <2>3, <2>4, <2>7 DEF WalkInv
<1> QED BY <1>9, <1>10

(* What was found is published: every group that was limited throughout is *)
(* covered, and as no call is left, by a result.                           *)
LEMMA PublishCounts ==
  ASSUME WalkInv, Publish
  PROVE  WalkInv'
<1>1. /\ polling = "publish" /\ polling' = (IF found = <<>> THEN "idle" ELSE "gauge")
      /\ snap' = [i \in 1..Len(found) |-> Entry(found[i])]
      /\ prev' = Sampled
      /\ UNCHANGED <<group, high, walk, found, stopping, happened, steady>>
  BY DEF Publish, kernelVars
<1>2. /\ Tree /\ Shape /\ Seen(found) /\ Antichain(found) /\ walk = <<>> /\ Working /\ ~Working'
      /\ \A i \in 1..Len(found) : found[i].high \in 0..MaxHigh /\ found[i].real \in 0..MaxHigh
  BY <1>1, ResultFacts DEF WalkInv, Shape, Working
<1>m. PICK m \in Nat : m = Len(found)
  BY <1>2 DEF Seen
<1>3. Tree'
  BY <1>1, <1>2 DEF Tree, Exists
<1>4. Shape'
  BY <1>1, <1>2 DEF Shape
<1>5. Complete'
  BY <1>2 DEF Complete
<1>6. Len(snap') = m /\ \A i \in 1..m : snap'[i] = Entry(found[i])
  BY <1>1, <1>m
<1>7. ASSUME NEW d \in DOMAIN prev'
      PROVE  \/ \E i \in 1..m : found[i].dir = d /\ prev'[d] = found[i].high
             \/ d \in DOMAIN prev /\ prev'[d] = prev[d] /\ ~\E i \in 1..m : found[i].dir = d
  <2>1. CASE \E i \in 1..m : found[i].dir = d
    <3>c. PICK c : c = CHOOSE i \in 1..m : found[i].dir = d
      OBVIOUS
    <3>1. c \in 1..m /\ found[c].dir = d
      BY <2>1, <3>c
    <3>2. prev'[d] = found[c].high
      BY <1>1, <1>7, <1>m, <2>1, <3>c DEF Sampled
    <3> QED BY <3>1, <3>2
  <2>2. CASE ~\E i \in 1..m : found[i].dir = d
    <3>1. d \in DOMAIN prev /\ prev'[d] = prev[d]
      BY <1>1, <1>7, <1>m, <2>2 DEF Sampled
    <3> QED BY <2>2, <3>1
  <2> QED BY <2>1, <2>2
<1>8. DOMAIN prev' = DOMAIN prev \cup {found[i].dir : i \in 1..m}
  BY <1>1, <1>m DEF Sampled
<1>9. Counted'
  <2>1. DOMAIN prev' \subseteq Dirs
    BY <1>2, <1>8, <1>m DEF WalkInv, Counted, Seen
  <2>2. ASSUME NEW d \in DOMAIN prev' PROVE prev'[d] \in Nat /\ high[d] <= prev'[d] + happened[d]
    <3>1. CASE \E i \in 1..m : found[i].dir = d /\ prev'[d] = found[i].high
      <4>1. PICK i \in 1..m : found[i].dir = d /\ prev'[d] = found[i].high
        BY <3>1
      <4>2. found[i].high \in Nat
        BY <1>2, <1>m, MaxHighAssumption
      <4>3. high[d] <= found[i].high + happened[d]
        BY <1>2, <1>m, <4>1 DEF WalkInv, Counted
      <4> QED BY <4>1, <4>2, <4>3
    <3>2. CASE d \in DOMAIN prev /\ prev'[d] = prev[d] /\ ~\E i \in 1..m : found[i].dir = d
      BY <1>m, <3>2 DEF WalkInv, Counted
    <3> QED BY <1>7, <3>1, <3>2
  <2> QED BY <1>1, <1>2, <2>1, <2>2 DEF Counted
<1>10. LimitsReportedOnce'
  <2>1. \A i \in 1..m : snap'[i].dir = found[i].dir
    BY <1>6 DEF Entry
  <2>2. \A i, j \in 1..Len(snap') : i # j => snap'[i].dir \notin Within(snap'[j].dir)
    BY <1>2, <1>6, <1>m, <2>1 DEF Antichain
  <2>3. ASSUME NEW d \in steady, Cardinality(Above[d]) <= MaxDepth
        PROVE  \E i \in 1..Len(snap') : snap'[i].dir \in Within(d)
    <3>1. Covered(walk, found, d)
      BY <1>2, <2>3 DEF WalkInv, Complete
    <3>2. Len(walk) = 0
      BY <1>2
    <3>3. \E i \in 1..m : found[i].dir \in Within(d)
      BY <1>m, <3>1, <3>2 DEF Covered
    <3> QED BY <1>6, <2>1, <3>3
  <2> QED BY <1>1, <2>2, <2>3 DEF LimitsReportedOnce
<1>11. RatesAreReal'
  <2> SUFFICES ASSUME NEW i \in 1..m PROVE snap'[i].rate <= snap'[i].real
    BY <1>6 DEF RatesAreReal
  <2>1. snap'[i].rate = Rate(found[i]) /\ snap'[i].real = found[i].real
    BY <1>6 DEF Entry
  <2>2. found[i].high \in Nat /\ found[i].real \in Nat
    BY <1>2, <1>m, MaxHighAssumption
  <2>3. CASE found[i].dir \in DOMAIN prev /\ found[i].high > prev[found[i].dir]
    <3>1. prev[found[i].dir] \in Nat /\ found[i].high <= prev[found[i].dir] + found[i].real
      BY <1>2, <1>m, <2>3 DEF WalkInv, Counted
    <3> QED BY <2>1, <2>2, <2>3, <3>1 DEF Rate
  <2>4. CASE ~(found[i].dir \in DOMAIN prev /\ found[i].high > prev[found[i].dir])
    BY <2>1, <2>2, <2>4 DEF Rate
  <2> QED BY <2>3, <2>4
<1> QED BY <1>3, <1>4, <1>5, <1>9, <1>10, <1>11 DEF WalkInv, Shown

(* Between the walks only the order of what polling shows matters.         *)
LEMMA RestKeeps ==
  ASSUME WalkInv, SetGauge \/ LoopEnds \/ StopCollector
  PROVE  WalkInv'
<1>1. /\ UNCHANGED <<group, high, walk, prev, snap, happened, steady>>
      /\ stopping' \in BOOLEAN
  BY DEF WalkInv, Shape, SetGauge, LoopEnds, StopCollector, kernelVars, published, walkVars
<1>2. Tree'
  BY <1>1 DEF WalkInv, Tree, Exists
<1>3. CASE SetGauge
  <2>1. polling = "gauge" /\ found' = Tail(found) /\ polling' = (IF Len(found) = 1 THEN "idle" ELSE "gauge")
    BY <1>3 DEF SetGauge
  <2>2. ~Working /\ ~Working' /\ found # <<>> /\ Results(found) /\ walk = <<>> /\ Stack(walk)
        /\ Len(walk) <= MaxDepth + 1
    BY <2>1 DEF WalkInv, Shape, Working
  <2>3. PICK L : found \in Seq([dir : Dirs, label : L, high : 0..MaxHigh, real : 0..MaxHigh])
    BY <2>2 DEF Results
  <2>4. Tail(found) \in Seq([dir : Dirs, label : L, high : 0..MaxHigh, real : 0..MaxHigh])
        /\ Len(Tail(found)) = Len(found) - 1 /\ Len(found) \in Nat /\ Len(found) > 0
    BY <2>2, <2>3
  <2>5. Results(found')
    BY <2>1, <2>4 DEF Results
  <2>6. polling' = "gauge" => found' # <<>>
    <3>t. PICK t : t = Tail(found)
      OBVIOUS
    <3>1. polling' = "gauge" => Len(t) > 0
      BY <2>1, <2>4, <3>t
    <3>2. Len(t) > 0 => t # <<>>
      OBVIOUS
    <3> QED BY <2>1, <3>1, <3>2, <3>t
  <2>7. Places(walk, found')
    BY <2>2 DEF Places
  <2>8. Shape'
    BY <1>1, <2>1, <2>2, <2>5, <2>6, <2>7 DEF Shape
  <2>9. Complete' /\ Counted'
    BY <1>1, <2>2 DEF WalkInv, Complete, Counted
  <2>10. Shown'
    BY <1>1, <2>1 DEF WalkInv, Shown, LimitsReportedOnce, RatesAreReal
  <2> QED BY <1>2, <2>8, <2>9, <2>10 DEF WalkInv
<1>4. CASE LoopEnds \/ StopCollector
  <2>1. found' = found /\ (polling' = polling \/ (polling = "idle" /\ polling' = "ended"))
    BY <1>4 DEF LoopEnds, StopCollector, walkVars
  <2>2. Working' = Working
    BY <2>1 DEF Working
  <2>3. Shape'
    BY <1>1, <2>1, <2>2 DEF WalkInv, Shape
  <2>4. Complete' /\ Counted'
    BY <1>1, <2>1, <2>2 DEF WalkInv, Complete, Counted
  <2>5. Shown'
    BY <1>1, <2>1 DEF WalkInv, Shown, LimitsReportedOnce, RatesAreReal
  <2> QED BY <1>2, <2>3, <2>4, <2>5 DEF WalkInv
<1> QED BY <1>3, <1>4

(* A directory that cannot be read is passed over, with what is inside it. *)
LEMMA FailureKeeps ==
  ASSUME WalkInv, ReadDirFails
  PROVE  WalkInv'
<1>1. UNCHANGED <<group, high, found, prev, snap, stopping, happened>>
  BY DEF ReadDirFails, kernelVars, published
<1>2. CASE polling = "walk" /\ Top.todo # {} /\ walk' = Passed /\ steady' = steady \ Within(Child)
           /\ polling' = polling
  <2>1. Tree /\ Shape /\ Stack(walk) /\ Places(walk, found)
    BY DEF WalkInv, Shape
  <2>2. /\ Narrowed(walk, Passed) /\ Len(Passed) = Len(walk)
        /\ \A k \in 1..Len(walk) : walk[k].todo \subseteq Passed[k].todo \cup {Child}
    BY <1>2, <2>1, PassFacts
  <2>3. Stack(Passed) /\ Places(Passed, found)
    BY <2>1, <2>2, NarrowedKeeps
  <2>4. Passed # <<>> /\ Len(Passed) <= MaxDepth + 1
    <3>1. Len(walk) > 0 /\ Len(walk) <= MaxDepth + 1
      BY <1>2, <2>1, TopFacts DEF Shape
    <3>2. Passed \in Seq(FrameType)
      BY <2>3 DEF Stack
    <3> QED BY <2>2, <3>1, <3>2
  <2>5. Tree'
    BY <1>1, <1>2, <2>1 DEF Tree, Exists
  <2>6. Shape'
    BY <1>1, <1>2, <2>1, <2>3, <2>4 DEF Shape, Working
  <2>7. ASSUME NEW d \in steady', Cardinality(Above[d]) <= MaxDepth
        PROVE  Covered(Passed, found, d)
    <3>1. d \in steady /\ d \notin Within(Child)
      BY <1>2
    <3>2. Covered(walk, found, d)
      BY <1>2, <2>7, <3>1 DEF WalkInv, Complete, Working
    <3> QED BY <2>1, <2>2, <3>1, <3>2, NarrowedCovers
  <2>8. Complete'
    BY <1>1, <1>2, <2>7 DEF Complete
  <2>9. Counted' /\ Shown'
    BY <1>1, <1>2 DEF WalkInv, Counted, Working, Shown, LimitsReportedOnce, RatesAreReal
  <2> QED BY <2>5, <2>6, <2>8, <2>9 DEF WalkInv
<1>3. CASE polling \in {"new", "idle"} /\ polling' = "idle" /\ steady' = {} /\ walk' = walk
  <2>1. ~Working /\ ~Working'
    BY <1>3 DEF Working
  <2>2. Tree'
    BY <1>1, <1>3 DEF WalkInv, Tree, Exists
  <2>3. Shape'
    BY <1>1, <1>3, <2>1 DEF WalkInv, Shape
  <2>4. Complete' /\ Counted'
    BY <1>1, <2>1 DEF WalkInv, Complete, Counted
  <2>5. Shown'
    BY <1>1, <1>3 DEF WalkInv, Shown, LimitsReportedOnce, RatesAreReal
  <2> QED BY <2>2, <2>3, <2>4, <2>5 DEF WalkInv
<1> QED BY <1>2, <1>3 DEF ReadDirFails

(* Whatever becomes of the tree, what was found and is to be looked at     *)
(* stays, and only groups that keep their limit are still held against it. *)
LEMMA KernelKeeps ==
  ASSUME WalkInv, Kernel
  PROVE  WalkInv'
<1>d. PICK d \in Dirs \ {0} : Mkdir(d) \/ Rmdir(d) \/ WriteMemoryMax(d) \/ HighEvent(d)
  BY DEF Kernel
<1>1. UNCHANGED <<polling, walk, found, prev, snap, gauge, stopping>> /\ steady' \subseteq steady
  BY <1>d DEF Mkdir, Rmdir, WriteMemoryMax, HighEvent, walkVars, published
<1>2. Tree /\ Shape /\ Seen(found) /\ d \in Dirs /\ d # 0
  BY <1>d, ResultFacts DEF WalkInv, Shape
<1>3. Shape' /\ Complete' /\ Shown'
  <2>1. Shape'
    BY <1>1, <1>2 DEF Shape, Working
  <2>2. Complete' /\ Shown'
    BY <1>1 DEF WalkInv, Complete, Working, Shown, LimitsReportedOnce, RatesAreReal
  <2> QED BY <2>1, <2>2
<1>4. Tree'
  <2>1. CASE Mkdir(d)
    BY <1>2, <2>1 DEF Mkdir, Tree, Exists
  <2>2. CASE Rmdir(d)
    <3>1. /\ group' = [group EXCEPT ![d] = "none"] /\ high' = [high EXCEPT ![d] = 0]
          /\ steady' = steady \ {d} /\ happened' = happened
          /\ \A e \in Dirs \ {0} : Parent[e] = d => ~Exists(e)
      BY <2>2 DEF Rmdir, Children
    <3>2. 0 \in 0..MaxHigh
      BY MaxHighAssumption
    <3>3. group' \in [Dirs -> {"none", "free", "limited"}] /\ high' \in [Dirs -> 0..MaxHigh]
      BY <1>2, <3>1, <3>2 DEF Tree
    <3>4. \A e \in Dirs : Exists(e)' <=> Exists(e) /\ e # d
      BY <1>2, <3>1 DEF Tree, Exists
    <3>5. \A e \in Dirs \ {0} : Exists(e)' => Exists(Parent[e])'
      BY <1>2, <3>1, <3>4, AboveParent DEF Tree
    <3>6. \A e \in Dirs : ~Exists(e)' => high'[e] = 0
      BY <1>2, <3>1, <3>4 DEF Tree
    <3>7. \A e \in steady' : group'[e] = "limited"
      BY <1>2, <3>1 DEF Tree
    <3> QED BY <1>1, <1>2, <3>1, <3>3, <3>5, <3>6, <3>7 DEF Tree
  <2>3. CASE WriteMemoryMax(d)
    <3>1. /\ group' = [group EXCEPT ![d] = IF @ = "free" THEN "limited" ELSE "free"]
          /\ steady' = steady \ {d} /\ Exists(d) /\ UNCHANGED <<high, happened>>
      BY <2>3 DEF WriteMemoryMax
    <3>2. group' \in [Dirs -> {"none", "free", "limited"}]
      BY <1>2, <3>1 DEF Tree
    <3>3. \A e \in Dirs : Exists(e)' <=> Exists(e)
      BY <1>2, <3>1 DEF Tree, Exists
    <3>4. \A e \in steady' : group'[e] = "limited"
      BY <1>2, <3>1 DEF Tree
    <3> QED BY <1>1, <1>2, <3>1, <3>2, <3>3, <3>4, AboveParent DEF Tree
  <2>4. CASE HighEvent(d)
    <3>1. /\ Exists(d) /\ high[d] < MaxHigh /\ happened[d] < MaxHigh
          /\ high' = [high EXCEPT ![d] = @ + 1] /\ UNCHANGED <<group, steady>>
          /\ happened' = [happened EXCEPT ![d] =
                 IF d \in DOMAIN prev \cup {found[i].dir : i \in 1..Len(found)} THEN @ + 1 ELSE 0]
      BY <2>4 DEF HighEvent
    <3>2. high[d] + 1 \in 0..MaxHigh /\ happened[d] + 1 \in 0..MaxHigh /\ 0 \in 0..MaxHigh
      BY <1>2, <3>1, MaxHighAssumption DEF Tree
    <3>3. high' \in [Dirs -> 0..MaxHigh]
      BY <1>2, <3>1, <3>2 DEF Tree
    <3>4. happened' \in [Dirs -> 0..MaxHigh]
      BY <1>2, <3>1, <3>2 DEF Tree
    <3>5. \A e \in Dirs : ~Exists(e) => high'[e] = 0
      BY <1>2, <3>1 DEF Tree
    <3> QED BY <1>1, <1>2, <3>1, <3>3, <3>4, <3>5 DEF Tree, Exists
  <2> QED BY <1>d, <2>1, <2>2, <2>3, <2>4
<1>5. /\ \A e \in Dirs : high[e] \in Nat /\ happened[e] \in Nat
      /\ \A i \in 1..Len(found) : found[i].dir \in Dirs
      /\ \A e \in DOMAIN prev : e \in Dirs /\ prev[e] \in Nat
      /\ \A i \in 1..Len(found) : found[i].high \in Nat
  <2>1. \A i \in 1..Len(found) : found[i].high \in 0..MaxHigh
    BY ResultFacts DEF WalkInv, Shape
  <2>2. \A x \in 0..MaxHigh : x \in Nat
    BY MaxHighAssumption
  <2>3. \A e \in Dirs : high[e] \in 0..MaxHigh /\ happened[e] \in 0..MaxHigh
    BY <1>2 DEF Tree
  <2> QED BY <1>2, <2>1, <2>2, <2>3 DEF WalkInv, Counted, Seen
<1>6. ASSUME NEW e \in Dirs, e \in DOMAIN prev \/ \E i \in 1..Len(found) : found[i].dir = e
      PROVE  \A x \in Nat : high[e] <= x + happened[e] => high'[e] <= x + happened'[e]
  <2>1. CASE UNCHANGED <<high, happened>>
    BY <2>1
  <2>2. CASE Rmdir(d)
    <3>1. high' = [high EXCEPT ![d] = 0] /\ happened' = happened
      BY <2>2 DEF Rmdir
    <3> QED BY <1>2, <1>5, <3>1 DEF Tree
  <2>3. CASE HighEvent(d)
    <3>1. /\ high' = [high EXCEPT ![d] = @ + 1]
          /\ happened' = [happened EXCEPT ![d] =
                 IF d \in DOMAIN prev \cup {found[i].dir : i \in 1..Len(found)} THEN @ + 1 ELSE 0]
      BY <2>3 DEF HighEvent
    <3>2. CASE e = d
      <4>1. e \in DOMAIN prev \cup {found[i].dir : i \in 1..Len(found)}
        BY <1>6
      <4>2. high'[e] = high[e] + 1 /\ happened'[e] = happened[e] + 1
        BY <1>2, <3>1, <3>2, <4>1 DEF Tree
      <4> QED BY <1>5, <4>2
    <3>3. CASE e # d
      <4>1. high'[e] = high[e] /\ happened'[e] = happened[e]
        BY <1>2, <3>1, <3>3 DEF Tree
      <4> QED BY <4>1
    <3> QED BY <3>2, <3>3
  <2>4. Mkdir(d) \/ WriteMemoryMax(d) => UNCHANGED <<high, happened>>
    BY DEF Mkdir, WriteMemoryMax
  <2> QED BY <1>d, <2>1, <2>2, <2>3, <2>4
<1>7. Counted'
  <2>1. ASSUME NEW e \in DOMAIN prev
        PROVE  (Working /\ \E i \in 1..Len(found) : found[i].dir = e) \/ high'[e] <= prev[e] + happened'[e]
    BY <1>5, <1>6 DEF WalkInv, Counted
  <2>2. ASSUME Working, NEW i \in 1..Len(found)
        PROVE  high'[found[i].dir] <= found[i].high + happened'[found[i].dir]
    BY <1>5, <1>6, <2>2 DEF WalkInv, Counted
  <2>3. DOMAIN prev \subseteq Dirs /\ \A e \in DOMAIN prev : prev[e] \in Nat
    BY DEF WalkInv, Counted
  <2>4. Working => \A i \in 1..Len(found) :
            found[i].dir \in DOMAIN prev => found[i].high <= prev[found[i].dir] + found[i].real
    BY DEF WalkInv, Counted
  <2>5. Working' = Working
    BY <1>1 DEF Working
  <2> QED BY <1>1, <2>1, <2>2, <2>3, <2>4, <2>5 DEF Counted
<1> QED BY <1>3, <1>4, <1>7 DEF WalkInv

(***************************************************************************)
(* The rest of the types.                                                  *)
(***************************************************************************)
Typed ==
    /\ working \subseteq {"config", "api"} /\ loop \in Loops /\ backoff \in 1..MaxBackoff
    /\ ready \in BOOLEAN /\ canStop \in BOOLEAN /\ cancelled \in BOOLEAN /\ listed \in BOOLEAN
    /\ adding \subseteq [name : Names, pod : Pods]
    /\ left \in [inCluster : Nat, onNode : Nat]

(* Steps of the adapter and of the cluster keep them.                      *)
LEMMA AdapterKeepsTypes ==
  ASSUME Typed, AdapterTyped, Run \/ Handlers \/ ClientGo \/ Stop \/ World, left' \in [inCluster : Nat, onNode : Nat]
  PROVE  Typed'
<1>1. CASE Run \/ Stop
  <2>1. UNCHANGED <<working, listed, adding>>
    BY <1>1 DEF Run, Start, BuildFails, Retry, BuildSucceeds, WaitForCacheSync, ServeEnds, Stop,
       outside, informer, indexes
  <2>2. loop' \in Loops /\ ready' \in BOOLEAN /\ canStop' \in BOOLEAN
    BY <1>1 DEF Run, Start, BuildFails, Retry, BuildSucceeds, WaitForCacheSync, ServeEnds, Stop,
       Typed, Loops
  <2>3. cancelled' = cancelled \/ cancelled' = (cancelled \/ canStop)
    BY <1>1 DEF Run, Start, BuildFails, Retry, BuildSucceeds, WaitForCacheSync, ServeEnds, Stop
  <2>4. backoff' = backoff \/ backoff' = IF 2 * backoff <= MaxBackoff THEN 2 * backoff ELSE MaxBackoff
    BY <1>1 DEF Run, Start, BuildFails, Retry, BuildSucceeds, WaitForCacheSync, ServeEnds, Stop
  <2>5. backoff' \in 1..MaxBackoff
    BY <2>4, MaxBackoffAssumption DEF Typed
  <2>6. cancelled' \in BOOLEAN
    BY <2>3 DEF Typed
  <2> QED BY <2>1, <2>2, <2>5, <2>6 DEF Typed
<1>2. CASE Handlers
  <2>1. UNCHANGED <<working, loop, backoff, ready, canStop, cancelled, listed>>
    BY <1>2 DEF Handlers, AddFunc, DeleteFunc, UpdateFunc, UpdateFuncAdds, outside, runVars, informer
  <2>2. adding' = adding \/ adding' = {} \/ (UpdateFunc /\ adding' = {[name |-> Call.name, pod |-> Call.new]})
    BY <1>2 DEF Handlers, AddFunc, DeleteFunc, UpdateFunc, UpdateFuncAdds
  <2>3. ASSUME UpdateFunc PROVE Call.name \in Names /\ Call.new \in Pods
    <3>1. calls # <<>> /\ calls \in Seq(CallType) /\ Call.new # Gone
      BY <2>3 DEF UpdateFunc, Handling, AdapterTyped
    <3>2. Call \in CallType
      BY <3>1 DEF Call
    <3>3. Call.name \in Names /\ Call.new \in PodOrGone
      BY <3>2 DEF CallType
    <3> QED BY <3>1, <3>3, PodFacts
  <2>4. adding' \subseteq [name : Names, pod : Pods]
    BY <2>2, <2>3 DEF Typed
  <2> QED BY <2>1, <2>4 DEF Typed
<1>3. CASE ClientGo
  BY <1>3 DEF ClientGo, List, Notice, outside, runVars, indexes, Typed
<1>4. CASE World
  <2>1. UNCHANGED <<loop, backoff, ready, canStop, cancelled, listed, adding>>
    BY <1>4 DEF World, Outage, CreatePod, UpdateStatus, DeletePod, runVars, informer, indexes
  <2>2. working' \subseteq {"config", "api"}
    BY <1>4 DEF World, Outage, CreatePod, UpdateStatus, DeletePod, Typed
  <2> QED BY <2>1, <2>2 DEF Typed
<1> QED BY <1>1, <1>2, <1>3, <1>4

(***************************************************************************)
(* All together.                                                           *)
(***************************************************************************)
IInv == AdapterInv /\ GaugeInv /\ WalkInv /\ Typed

(* At first there is no pod, no entry and no label.                        *)
LEMMA InitiallyInv == Init => IInv
<1> SUFFICES ASSUME Init PROVE IInv
  OBVIOUS
<1>1. /\ made = 0 /\ cluster = [n \in Names |-> Gone] /\ copy = cluster /\ calls = <<>>
      /\ adding = {} /\ uidIndex = <<>> /\ cgroupIndex = <<>>
      /\ found = <<>> /\ snap = <<>> /\ gauge = <<>>
  BY DEF Init, AdapterInit, CgroupInit
<1>2. Len(calls) = 0 /\ Len(snap) = 0 /\ DOMAIN gauge = {} /\ DOMAIN uidIndex = {}
      /\ DOMAIN cgroupIndex = {}
  BY <1>1
<1>3. cluster \in [Names -> PodOrGone]
  BY <1>1 DEF PodOrGone
<1>4. AdapterTyped
  BY <1>1, <1>3, MaxUidAssumption DEF AdapterTyped
<1>5. PICK v : v = [i \in 0..0 |-> copy]
  OBVIOUS
<1>6. v[0] = copy /\ v \in [0..0 -> [Names -> PodOrGone]]
  BY <1>1, <1>3, <1>5
<1>7. History(v)
  BY <1>2, <1>6 DEF History
<1>8. PICK own : own = 0
  OBVIOUS
<1>9. OwnedAll(v, own)
  BY <1>1, <1>2, <1>6 DEF OwnedAll, Owned
<1>10. Kept(v)
  <2>1. Known(copy) = {}
    BY <1>1 DEF Known
  <2>2. Indexed(copy, uidIndex, cgroupIndex)
    BY <1>2, <2>1 DEF Indexed
  <2> QED BY <1>1, <1>3, <1>6, <2>2 DEF Kept, Told
<1>11. GaugeInv
  <2>1. Labels(0) = {} /\ polling # "gauge"
    BY DEF Labels, Init, CgroupInit
  <2>2. found \in Seq({})
    BY <1>1
  <2> QED BY <1>2, <2>1, <2>2 DEF GaugeInv, Shows
<1>12. WalkInv
  <2>1. /\ group \in [Dirs -> {"none", "free", "limited"}]
        /\ \A d \in Dirs \ {0} : Exists(d) => Exists(Parent[d])
        /\ high = [d \in Dirs |-> IF Exists(d) THEN 1 ELSE 0] /\ happened = [d \in Dirs |-> 0]
        /\ polling = "new" /\ walk = <<>> /\ stopping = FALSE /\ prev = <<>> /\ steady = {}
    BY DEF Init, CgroupInit
  <2>2. Tree
    <3>1. 0 \in 0..MaxHigh /\ 1 \in 0..MaxHigh
      BY MaxHighAssumption
    <3> QED BY <2>1, <3>1 DEF Tree
  <2>3. Shape
    <3>1. Stack(<<>>) /\ Len(<<>>) = 0 /\ 0 <= MaxDepth + 1
      BY MaxDepthAssumption DEF Stack
    <3>2. Results(<<>>) /\ Places(<<>>, <<>>)
      BY DEF Results, Places
    <3> QED BY <1>1, <2>1, <3>1, <3>2 DEF Shape, Working
  <2>4. ~Working /\ DOMAIN prev = {}
    BY <2>1 DEF Working
  <2>5. Complete /\ Counted
    BY <2>4 DEF Complete, Counted
  <2>6. Shown
    BY <1>2, <2>1 DEF Shown, LimitsReportedOnce, RatesAreReal
  <2> QED BY <2>2, <2>3, <2>5, <2>6 DEF WalkInv
<1>13. Typed
  <2>1. PICK s \in Scenarios : left = [inCluster |-> s.inCluster, onNode |-> s.onNode]
    BY DEF Init
  <2>2. left \in [inCluster : Nat, onNode : Nat]
    BY <2>1, ScenariosAssumption
  <2>3. /\ working \subseteq {"config", "api"} /\ loop = "new" /\ backoff = 1 /\ adding = {}
        /\ ready = FALSE /\ canStop = FALSE /\ cancelled = FALSE /\ listed = FALSE
    BY DEF Init, AdapterInit
  <2>4. "new" \in Loops
    BY DEF Loops
  <2>5. 1 \in 1..MaxBackoff
    BY MaxBackoffAssumption
  <2> QED BY <2>2, <2>3, <2>4, <2>5 DEF Typed
<1> QED BY <1>4, <1>7, <1>9, <1>10, <1>11, <1>12, <1>13 DEF IInv, AdapterInv

(* Steps of the one leave the variables of the other alone.                *)
LEMMA NextKeeps ==
  ASSUME IInv, [Next]_vars
  PROVE  IInv'
<1>1. ASSUME UNCHANGED adapterVars PROVE AdapterInv'
  BY <1>1, AdapterQuiet DEF IInv, adapterVars, outside, informer, indexes
<1>2. ASSUME UNCHANGED cgroupVars PROVE GaugeInv' /\ WalkInv'
  <2>1. /\ UNCHANGED <<group, high, polling, walk, found, prev, snap, gauge, stopping, happened, steady>>
        /\ GaugeInv /\ WalkInv
    BY <1>2 DEF IInv, cgroupVars, kernelVars, walkVars, published
  <2>2. Filling' = Filling /\ Shows(Labels(Len(snap)))' = Shows(Labels(Len(snap)))
    BY <2>1 DEF Filling, Shows, Labels
  <2>3. GaugeInv'
    BY <2>1, <2>2 DEF GaugeInv
  <2>4. Working' = Working
    BY <2>1 DEF Working
  <2>5. Tree' /\ Shape'
    BY <2>1, <2>4 DEF WalkInv, Tree, Exists, Shape
  <2>6. Complete' /\ Counted' /\ Shown'
    BY <2>1, <2>4 DEF WalkInv, Complete, Counted, Shown, LimitsReportedOnce, RatesAreReal
  <2> QED BY <2>3, <2>5, <2>6 DEF WalkInv
<1>3. ASSUME UNCHANGED adapterVars, left' \in [inCluster : Nat, onNode : Nat] PROVE Typed'
  BY <1>3 DEF IInv, Typed, adapterVars, outside, runVars, informer, indexes
<1>4. left \in [inCluster : Nat, onNode : Nat] /\ AdapterTyped /\ Typed
  BY DEF IInv, Typed, AdapterInv
<1>5. CASE UNCHANGED vars
  BY <1>1, <1>2, <1>3, <1>4, <1>5 DEF vars, IInv
<1>6. CASE Collecting
  <2>1. Poll /\ UNCHANGED <<adapterVars, left>>
    BY <1>6 DEF Collecting
  <2>2. Walk => Leave(Named)
    BY DEF Walk
  <2>3. WalkInv'
    BY <2>1, <2>2, BeginKeeps, DescendKeeps, LeaveKeeps, PublishCounts, RestKeeps DEF Poll, IInv
  <2> QED BY <1>1, <1>3, <1>4, <2>1, <2>3, CollectorStep DEF IInv
<1>7. CASE OnNode
  <2>1. /\ left.onNode > 0 /\ left' = [left EXCEPT !.onNode = @ - 1] /\ (Kernel \/ ReadDirFails)
        /\ UNCHANGED adapterVars
    BY <1>7 DEF OnNode
  <2>2. left' \in [inCluster : Nat, onNode : Nat]
    BY <1>4, <2>1
  <2>3. WalkInv'
    BY <2>1, KernelKeeps, FailureKeeps DEF IInv
  <2> QED BY <1>1, <1>3, <2>1, <2>2, <2>3, CollectorStep DEF IInv
<1>8. CASE Adapting(Run) \/ Adapting(Handlers) \/ Adapting(ClientGo)
  <2>1. (Run \/ Handlers \/ ClientGo) /\ UNCHANGED <<cgroupVars, left>>
    BY <1>8 DEF Adapting
  <2> QED BY <1>2, <1>4, <2>1, AdapterStep, AdapterKeepsTypes DEF IInv
<1>9. CASE InCluster
  <2>1. /\ left.inCluster > 0 /\ left' = [left EXCEPT !.inCluster = @ - 1] /\ World
        /\ UNCHANGED cgroupVars
    BY <1>9 DEF InCluster
  <2>2. left' \in [inCluster : Nat, onNode : Nat]
    BY <1>4, <2>1
  <2> QED BY <1>2, <1>4, <2>1, <2>2, AdapterStep, AdapterKeepsTypes DEF IInv
<1>10. CASE Shutdown
  <2>1. CASE StopCollector /\ UNCHANGED <<adapterVars, left>>
    BY <1>1, <1>3, <1>4, <2>1, CollectorStep, RestKeeps DEF IInv
  <2>2. CASE Stop /\ UNCHANGED <<cgroupVars, left>>
    BY <1>2, <1>4, <2>2, AdapterStep, AdapterKeepsTypes DEF IInv
  <2> QED BY <1>10, <2>1, <2>2 DEF Shutdown
<1> QED BY <1>5, <1>6, <1>7, <1>8, <1>9, <1>10 DEF Next

(* The inductive invariant of the adapter and the collector, for every     *)
(* cluster, every tree of groups and every order of their steps.           *)
THEOREM Invariance == Spec => []IInv
<1>1. IInv /\ [Next]_vars => IInv'
  BY NextKeeps
<1> QED BY InitiallyInv, <1>1, PTL DEF Spec

(* When the handlers have caught up, the indexes hold exactly the pods of  *)
(* the informer's copy.                                                    *)
THEOREM IndexesFollowInformerHolds == Spec => []IndexesFollowInformer
<1>1. IInv => IndexesFollowInformer
  <2> SUFFICES ASSUME IInv, calls = <<>>, adding = {}
               PROVE  Indexed(copy, uidIndex, cgroupIndex)
    BY DEF IndexesFollowInformer, Indexed, Known
  <2>1. PICK v, own : History(v) /\ OwnedAll(v, own) /\ Kept(v)
    BY DEF IInv, AdapterInv
  <2>2. v[0] = copy
    BY <2>1 DEF History
  <2> QED BY <2>1, <2>2 DEF Kept, Told
<1> QED BY Invariance, <1>1, PTL

(* Between two polls the gauge shows the snapshot and nothing else.        *)
THEOREM GaugeMatchesSnapshotHolds == Spec => []GaugeMatchesSnapshot
<1>1. IInv => GaugeMatchesSnapshot
  BY DEF IInv, GaugeInv, Shows, Labels, GaugeMatchesSnapshot
<1> QED BY Invariance, <1>1, PTL

(* Every variable of the adapter and of the collector has its type: the    *)
(* handlers find pods in the calls that are queued, every frame of the     *)
(* walk is a child of the one before, and the walk stays within its depth. *)
THEOREM TypeCorrect == Spec => []TypeOK
<1>1. IInv => AdapterTypeOK
  <2> SUFFICES ASSUME IInv PROVE AdapterTypeOK
    OBVIOUS
  <2>1. AdapterTyped /\ Typed
    BY DEF IInv, AdapterInv
  <2>2. PICK v, own : Kept(v)
    BY DEF IInv, AdapterInv
  <2>3. PICK x \in [Names -> PodOrGone] : Indexed(x, uidIndex, cgroupIndex)
    BY <2>2 DEF Kept
  <2>4. \A n \in Known(x) : n \in Names /\ x[n].uid \in Uids
    BY PodFacts DEF Known
  <2>5. DOMAIN uidIndex \subseteq Uids /\ \A u \in DOMAIN uidIndex : uidIndex[u] \in Names
    BY <2>3, <2>4 DEF Indexed
  <2> QED BY <2>1, <2>5 DEF AdapterTypeOK, AdapterTyped, Typed, CallType, PodOrGone
<1>2. IInv => CgroupTypeOK
  <2> SUFFICES ASSUME IInv PROVE CgroupTypeOK
    OBVIOUS
  <2>1. Tree /\ Shape /\ Stack(walk) /\ Places(walk, found) /\ DOMAIN prev \subseteq Dirs
    BY DEF IInv, WalkInv, Shape, Counted
  <2>2. \A i \in 1..Len(walk) : /\ walk[i].todo \subseteq Children(walk[i].dir)
                                /\ walk[i].mark <= Len(found)
                                /\ i > 1 => Parent[walk[i].dir] = walk[i - 1].dir
    BY <2>1 DEF Stack, Places
  <2> QED BY <2>1, <2>2 DEF CgroupTypeOK, Tree, Shape
<1>3. IInv => TypeOK
  BY <1>1, <1>2 DEF IInv, Typed, TypeOK
<1> QED BY Invariance, <1>3, PTL

(* No entry of the snapshot is about a group inside another, and a group   *)
(* that was limited and readable throughout a walk is reported or covered, *)
(* for every tree and whatever is done to it during the walk.              *)
THEOREM LimitsReportedOnceHolds == Spec => []LimitsReportedOnce
<1>1. IInv => LimitsReportedOnce
  BY DEF IInv, WalkInv, Shown
<1> QED BY Invariance, <1>1, PTL

(* A rate counts no more events than there were at its path since the last *)
(* sample, however often the path was removed and made again.              *)
THEOREM RatesAreRealHolds == Spec => []RatesAreReal
<1>1. IInv => RatesAreReal
  BY DEF IInv, WalkInv, Shown
<1> QED BY Invariance, <1>1, PTL
=============================================================================
