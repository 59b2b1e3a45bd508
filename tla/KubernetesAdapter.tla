---------------------------- MODULE KubernetesAdapter ----------------------------
(***************************************************************************)
(* adapter/kubernetes.go: a goroutine that builds a client, retrying with  *)
(* back-off, and runs an informer for the pods of this node; the handlers  *)
(* of the informer, which keep the two indexes; the lookup by cgroup path. *)
(*                                                                         *)
(* Of the cluster and of client-go the module has what decides which calls *)
(* the handlers get: the informer keeps a copy of the pods by name, and    *)
(* queues a pair (old, new) for the handlers each time the copy changes.   *)
(* A pod that is deleted and made again under its name while the informer  *)
(* looks away arrives as an update from one uid to another.                *)
(***************************************************************************)
EXTENDS Naturals, Sequences

CONSTANTS
    Names,        \* names of pods (namespace and name)
    MaxUid,       \* bound of the model: pods ever created
    Slots,        \* container statuses of a pod; an id is a uid and a slot
    MaxBackoff    \* maxBackoff, in units of the first backoff

ASSUME MaxUidAssumption     == MaxUid \in Nat
ASSUME MaxBackoffAssumption == MaxBackoff \in Nat \ {0}

VARIABLES
    working,      \* external: which of "config" (what buildClientset reads) and "api" work
    cluster,      \* external: the pod of each name
    made,         \* external: uids given so far
    loop,         \* where runWithBackoff and run are
    backoff,      \* backoff
    ready,        \* ready
    canStop,      \* cancelFn is set
    cancelled,    \* ctx is done
    listed,       \* client-go: the first List has filled the copy
    copy,         \* client-go: the informer's copy of the pods
    calls,        \* client-go: handler calls to come
    adding,       \* what UpdateFunc has still to add, if anything
    uidIndex,     \* uidIndex
    cgroupIndex   \* cgroupIndex

outside     == <<working, cluster, made>>
runVars     == <<loop, backoff, ready, canStop, cancelled>>
informer    == <<listed, copy, calls>>
indexes     == <<adding, uidIndex, cgroupIndex>>
adapterVars == <<outside, runVars, informer, indexes>>

Uids == 1..MaxUid
Pods == [uid : Uids, containers : SUBSET Slots]
Gone == [uid |-> 0, containers |-> {}]     \* no pod
Loops == {"new", "build", "wait", "sync", "serve", "returned"}

AdapterTypeOK ==
    /\ working \subseteq {"config", "api"} /\ made \in 0..MaxUid
    /\ cluster \in [Names -> Pods \cup {Gone}] /\ copy \in [Names -> Pods \cup {Gone}]
    /\ loop \in Loops /\ backoff \in 1..MaxBackoff
    /\ {ready, canStop, cancelled, listed} \subseteq BOOLEAN
    /\ calls \in Seq([name : Names, old : Pods \cup {Gone}, new : Pods \cup {Gone}])
    /\ adding \subseteq [name : Names, pod : Pods]
    /\ DOMAIN uidIndex \subseteq Uids
    /\ \A u \in DOMAIN uidIndex : uidIndex[u] \in Names

AdapterInit ==
    /\ working \in SUBSET {"config", "api"} /\ made = 0 /\ cluster = [n \in Names |-> Gone]
    /\ loop = "new" /\ backoff = 1 /\ ready = FALSE /\ canStop = FALSE /\ cancelled = FALSE
    /\ listed = FALSE /\ copy = cluster /\ calls = <<>>
    /\ adding = {} /\ uidIndex = <<>> /\ cgroupIndex = <<>>

(***************************************************************************)
(* The indexes.                                                            *)
(***************************************************************************)
\* Keys of cgroupIndex: the uid, the uid with underscores, the id of each
\* container and its first twelve characters.
CgroupKeys(pod) ==
    ({"uid", "uid_"} \X {<<pod.uid>>}) \cup ({"id", "id12"} \X ({pod.uid} \X pod.containers))

With(index, keys, name) ==
    [k \in keys \cup DOMAIN index |-> IF k \in keys THEN name ELSE index[k]]
Without(index, keys) == [k \in DOMAIN index \ keys |-> index[k]]

addPod(name, pod) ==
    /\ uidIndex' = With(uidIndex, {pod.uid}, name)
    /\ cgroupIndex' = With(cgroupIndex, CgroupKeys(pod), name)

\* Mutant of removePod: the entries of the containers stay.
removePodOnly(pod) ==
    /\ uidIndex' = Without(uidIndex, {pod.uid})
    /\ cgroupIndex' = Without(cgroupIndex, {"uid", "uid_"} \X {<<pod.uid>>})

removePod(pod) ==
    /\ uidIndex' = Without(uidIndex, {pod.uid})
    /\ cgroupIndex' = Without(cgroupIndex, CgroupKeys(pod))

\* The name of the pod with this uid, as a set: empty where the code returns "".
LookupByPath(uid) ==
    IF uid \in DOMAIN uidIndex THEN {uidIndex[uid]}
    ELSE {cgroupIndex[k] : k \in {<<"uid_", <<uid>>>>} \cap DOMAIN cgroupIndex}

(***************************************************************************)
(* The handlers.  calls is served in order by one goroutine.               *)
(***************************************************************************)
Call == Head(calls)
Handling == calls # <<>> /\ adding = {}

AddFunc ==
    /\ Handling /\ Call.old = Gone
    /\ addPod(Call.name, Call.new)
    /\ calls' = Tail(calls)
    /\ UNCHANGED <<outside, runVars, listed, copy, adding>>

DeleteFunc ==
    /\ Handling /\ Call.new = Gone
    /\ removePod(Call.old)
    /\ calls' = Tail(calls)
    /\ UNCHANGED <<outside, runVars, listed, copy, adding>>

\* removePod and addPod take the lock one after the other.
UpdateFunc ==
    /\ Handling /\ Gone \notin {Call.old, Call.new}
    /\ removePod(Call.old)
    /\ adding' = {[name |-> Call.name, pod |-> Call.new]}
    /\ calls' = Tail(calls)
    /\ UNCHANGED <<outside, runVars, listed, copy>>

UpdateFuncAdds ==
    /\ \E a \in adding : addPod(a.name, a.pod)
    /\ adding' = {}
    /\ UNCHANGED <<outside, runVars, informer>>

(***************************************************************************)
(* runWithBackoff and run.                                                 *)
(***************************************************************************)
Start ==
    /\ loop = "new"
    /\ loop' = "build" /\ canStop' = TRUE
    /\ UNCHANGED <<outside, backoff, ready, cancelled, informer, indexes>>

\* Stop may come before Start, which doctor calls on a goroutine of its own.
Stop ==
    /\ cancelled' = (cancelled \/ canStop)
    /\ UNCHANGED <<outside, loop, backoff, ready, canStop, informer, indexes>>

\* Mutant of BuildFails: an error ends the loop.
BuildFailsForGood ==
    /\ loop = "build" /\ "config" \notin working
    /\ loop' = "returned" /\ ready' = FALSE
    /\ UNCHANGED <<outside, backoff, canStop, cancelled, informer, indexes>>

BuildFails ==
    /\ loop = "build" /\ "config" \notin working
    /\ loop' = IF cancelled THEN "returned" ELSE "wait"
    /\ ready' = IF cancelled THEN ready ELSE FALSE
    /\ UNCHANGED <<outside, backoff, canStop, cancelled, informer, indexes>>

\* Mutant of Retry: the delay has no cap.
RetryUncapped ==
    /\ loop = "wait" /\ loop' = "build" /\ backoff' = 2 * backoff
    /\ UNCHANGED <<outside, ready, canStop, cancelled, informer, indexes>>

Retry ==
    /\ loop = "wait"
    /\ \/ loop' = "build" /\ backoff' = IF 2 * backoff <= MaxBackoff THEN 2 * backoff ELSE MaxBackoff
       \/ cancelled /\ loop' = "returned" /\ UNCHANGED backoff
    /\ UNCHANGED <<outside, ready, canStop, cancelled, informer, indexes>>

BuildSucceeds ==
    /\ loop = "build" /\ "config" \in working
    /\ loop' = "sync"
    /\ UNCHANGED <<outside, backoff, ready, canStop, cancelled, informer, indexes>>

\* WaitForCacheSync ends with the List or with the context.
WaitForCacheSync ==
    /\ loop = "sync"
    /\ \/ listed /\ loop' = "serve" /\ ready' = TRUE
       \/ cancelled /\ loop' = "returned" /\ UNCHANGED ready
    /\ UNCHANGED <<outside, backoff, canStop, cancelled, informer, indexes>>

ServeEnds ==
    /\ loop = "serve" /\ cancelled
    /\ loop' = "returned"
    /\ UNCHANGED <<outside, backoff, ready, canStop, cancelled, informer, indexes>>

(***************************************************************************)
(* client-go and the cluster.                                              *)
(***************************************************************************)
InformerRuns == loop \in {"sync", "serve"} /\ ~cancelled /\ "api" \in working

\* The copy takes one pod as it is now, and the handlers are called for it.
Notice(n) ==
    /\ InformerRuns /\ listed /\ copy[n] # cluster[n]
    /\ copy' = [copy EXCEPT ![n] = cluster[n]]
    /\ calls' = Append(calls, [name |-> n, old |-> copy[n], new |-> cluster[n]])
    /\ UNCHANGED <<outside, runVars, listed, indexes>>

\* The first List; the pods in it are noticed one by one, this makes HasSynced true.
List ==
    /\ InformerRuns /\ ~listed
    /\ listed' = TRUE
    /\ UNCHANGED <<outside, runVars, copy, calls, indexes>>

Outage(part) ==
    /\ working' = IF part \in working THEN working \ {part} ELSE working \cup {part}
    /\ UNCHANGED <<cluster, made, runVars, informer, indexes>>

CreatePod(n) ==
    /\ cluster[n] = Gone /\ made < MaxUid
    /\ made' = made + 1
    /\ cluster' = [cluster EXCEPT ![n] = [uid |-> made + 1, containers |-> {}]]
    /\ UNCHANGED <<working, runVars, informer, indexes>>

\* Containers start, and one that restarts has a new id.
UpdateStatus(n) ==
    /\ cluster[n] # Gone
    /\ \E ids \in SUBSET Slots \ {cluster[n].containers} :
           cluster' = [cluster EXCEPT ![n].containers = ids]
    /\ UNCHANGED <<working, made, runVars, informer, indexes>>

DeletePod(n) ==
    /\ cluster[n] # Gone
    /\ cluster' = [cluster EXCEPT ![n] = Gone]
    /\ UNCHANGED <<working, made, runVars, informer, indexes>>

Handlers == AddFunc \/ DeleteFunc \/ UpdateFunc \/ UpdateFuncAdds
Run      == Start \/ BuildFails \/ Retry \/ BuildSucceeds \/ WaitForCacheSync \/ ServeEnds
ClientGo == List \/ \E n \in Names : Notice(n)
World    == \/ \E part \in {"config", "api"} : Outage(part)
            \/ \E n \in Names : CreatePod(n) \/ UpdateStatus(n) \/ DeletePod(n)

-----------------------------------------------------------------------------
\* When the handlers have caught up, both indexes hold exactly what the copy of
\* the informer says: no entry of a pod or a container that has gone, though a uid
\* changes under a name and containers change between two calls.
IndexesFollowInformer ==
    calls = <<>> /\ adding = {} =>
        LET Known == {n \in Names : copy[n] # Gone} IN
        /\ DOMAIN uidIndex = {copy[n].uid : n \in Known}
        /\ DOMAIN cgroupIndex = UNION {CgroupKeys(copy[n]) : n \in Known}
        /\ \A n \in Known : /\ uidIndex[copy[n].uid] = n
                            /\ \A k \in CgroupKeys(copy[n]) : cgroupIndex[k] = n

=============================================================================
