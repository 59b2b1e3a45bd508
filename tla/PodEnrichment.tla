------------------------------ MODULE PodEnrichment ------------------------------
(***************************************************************************)
(* What doctor builds of the two (cli/doctor.go): the collector of cgroup  *)
(* memory asks the Kubernetes adapter for the name behind a path, and the  *)
(* adapter is started on a goroutine of its own, so that the first polls   *)
(* may come before the adapter knows anything.                             *)
(***************************************************************************)
EXTENDS KubernetesAdapter, CgroupMemory

CONSTANT Scenarios    \* bound of the model: what works and which groups exist at first,
                      \* and how much may happen in the cluster and on the node

ASSUME ScenariosAssumption == \A s \in Scenarios :
    DOMAIN s = {"working", "group", "inCluster", "onNode"} /\ {s.inCluster, s.onNode} \subseteq Nat

VARIABLE left         \* how much still may

vars == <<adapterVars, cgroupVars, left>>

TypeOK == AdapterTypeOK /\ CgroupTypeOK /\ left \in [inCluster : Nat, onNode : Nat]

Init ==
    /\ \E s \in Scenarios : /\ working = s.working /\ group = s.group
                            /\ left = [inCluster |-> s.inCluster, onNode |-> s.onNode]
    /\ AdapterInit /\ CgroupInit

Named == LookupByPath(PodUid[Top.dir])

Walk == polling = "walk" /\ Top.todo = {} /\ Leave(Named)
Poll == PollBegins \/ Descend \/ Walk \/ Publish \/ SetGauge \/ LoopEnds

\* The registry is stopped before the closers run, among them the adapter's Stop.
Shutdown == \/ StopCollector /\ UNCHANGED <<adapterVars, left>>
            \/ stopping /\ Stop /\ UNCHANGED <<cgroupVars, left>>

InCluster == /\ left.inCluster > 0 /\ left' = [left EXCEPT !.inCluster = @ - 1]
             /\ World /\ UNCHANGED cgroupVars

OnNode == /\ left.onNode > 0 /\ left' = [left EXCEPT !.onNode = @ - 1]
          /\ (Kernel \/ ReadDirFails) /\ UNCHANGED adapterVars

Collecting == Poll /\ UNCHANGED <<adapterVars, left>>
Adapting(A) == A /\ UNCHANGED <<cgroupVars, left>>

Next == \/ Collecting \/ Adapting(Run) \/ Adapting(Handlers) \/ Adapting(ClientGo)
        \/ Shutdown \/ InCluster \/ OnNode

\* Goroutines run, timers fire and the API server answers while it works.
Fairness == /\ WF_vars(Collecting)
            /\ WF_vars(Adapting(Run)) /\ WF_vars(Adapting(Handlers)) /\ WF_vars(Adapting(ClientGo))

Spec == Init /\ [][Next]_vars /\ Fairness

-----------------------------------------------------------------------------
\* doctor.go:377, "later polls will have it once the index is built": if from some
\* time on the cluster can be reached and nobody shuts doctor down, the snapshot
\* comes to name the pod of every entry, for good, in spite of failed starts,
\* outages, and pods that changed before or during the synchronization.
EntriesAreNamed ==
    \A i \in 1..Len(snap) : \A n \in Names :
        cluster[n] # Gone /\ cluster[n].uid = PodUid[snap[i].dir] =>
            snap[i].label = <<"name", n>>

LaterPollsAreNamed ==
    <>[](working = {"config", "api"} /\ ~stopping) => <>[]EntriesAreNamed

=============================================================================
