------------------------------ MODULE CgroupMemory -------------------------------
(***************************************************************************)
(* collector/cgroup_memory.go: every interval the collector walks the tree *)
(* of control groups depth first, with the tree changing under it, and     *)
(* then publishes what it found: the snapshot, under the lock, and the     *)
(* pressure gauge, which is shared with whoever scrapes it.                *)
(*                                                                         *)
(* A frame of the walk is a call of walkCgroups.  It reads its list of     *)
(* children and its limit when it begins (two reads next to each other,    *)
(* one step here), and its counters when the children are done.            *)
(***************************************************************************)
EXTENDS Integers, Sequences, FiniteSets

CONSTANTS
    Dirs,         \* paths, numbered in the order ReadDir gives them; 0 is the root
    Parent,       \* the parent of every other path
    PodUid,       \* the uid that a path names, 0 if it names none
    MaxDepth,     \* maxCgroupWalkDepth
    MaxHigh       \* bound of the model: "high" events of a group

ASSUME DirsAssumption     == 0 \in Dirs /\ Dirs \subseteq Nat /\ IsFiniteSet(Dirs)
ASSUME ParentAssumption   == \A d \in Dirs \ {0} : Parent[d] \in Dirs /\ Parent[d] < d
ASSUME MaxDepthAssumption == MaxDepth \in Nat
ASSUME MaxHighAssumption  == MaxHigh \in Nat \ {0}

VARIABLES
    group,        \* external: "none", "free" (memory.max is "max") or "limited"
    high,         \* external: the "high" count of memory.events
    polling,      \* what the poll is doing
    walk,         \* calls of walkCgroups, the innermost last
    found,        \* what they have put into their results, without the gaps
    prev,         \* prev: the "high" count of every path ever reported
    snap,         \* snap: its entries; none is nil
    gauge,        \* CgroupMemoryPressurePct: the path whose value a label shows
    stopping,     \* the context of the loop is done
    happened,     \* history: "high" events at a path since its count was read, 0 if it never was
    steady        \* history: limited and readable ever since the walk began

kernelVars == <<group, high>>
walkVars   == <<polling, walk, found>>
published  == <<prev, snap, gauge>>
cgroupVars == <<kernelVars, walkVars, published, stopping, happened, steady>>

Children(d) == {e \in Dirs \ {0} : Parent[e] = d}
Exists(d)   == group[d] # "none"

Above[d \in Dirs] == IF d = 0 THEN {} ELSE {Parent[d]} \cup Above[Parent[d]]
Within(d) == {e \in Dirs : e = d \/ d \in Above[e]}

CgroupTypeOK ==
    /\ group \in [Dirs -> {"none", "free", "limited"}]
    /\ high \in [Dirs -> 0..MaxHigh] /\ happened \in [Dirs -> 0..MaxHigh]
    /\ polling \in {"new", "idle", "walk", "publish", "gauge", "ended"} /\ stopping \in BOOLEAN
    /\ Len(walk) <= MaxDepth + 1 /\ (walk # <<>> <=> polling = "walk")
    /\ \A i \in 1..Len(walk) : /\ walk[i].todo \subseteq Children(walk[i].dir)
                               /\ walk[i].mark <= Len(found)
                               /\ i > 1 => Parent[walk[i].dir] = walk[i - 1].dir
    /\ DOMAIN prev \subseteq Dirs /\ steady \subseteq Dirs

\* Any tree, of groups that have seen an event already.
CgroupInit ==
    /\ group \in [Dirs -> {"none", "free", "limited"}] /\ group[0] = "free"
    /\ \A d \in Dirs \ {0} : Exists(d) => Exists(Parent[d])
    /\ high = [d \in Dirs |-> IF Exists(d) THEN 1 ELSE 0] /\ happened = [d \in Dirs |-> 0]
    /\ polling = "new" /\ walk = <<>> /\ found = <<>> /\ stopping = FALSE
    /\ prev = <<>> /\ snap = <<>> /\ gauge = <<>> /\ steady = {}

(***************************************************************************)
(* walkCgroups                                                             *)
(***************************************************************************)
Frame(d) == [dir     |-> d,
             limited |-> group[d] = "limited",
             todo    |-> {e \in Children(d) : Exists(e)},
             mark    |-> Len(found)]

Top     == walk[Len(walk)]
Child   == CHOOSE d \in Top.todo : \A e \in Top.todo : d <= e
Passed  == [walk EXCEPT ![Len(walk)].todo = @ \ {Child}]

\* Start polls once before it starts the loop; a tick can win over the context.
PollBegins ==
    /\ polling \in {"new", "idle"}
    /\ polling' = "walk" /\ found' = <<>> /\ steady' = {d \in Dirs : group[d] = "limited"}
    /\ walk' = <<[Frame(0) EXCEPT !.mark = 0]>>
    /\ UNCHANGED <<kernelVars, published, stopping, happened>>

\* A child that has gone, or is too deep, contributes nothing.
Descend ==
    /\ polling = "walk" /\ Top.todo # {}
    /\ walk' = IF Exists(Child) /\ Len(walk) <= MaxDepth
               THEN Append(Passed, Frame(Child)) ELSE Passed
    /\ UNCHANGED <<kernelVars, polling, found, published, stopping, happened, steady>>

\* Any other error of ReadDir: the child is passed over, or the poll given up.
ReadDirFails ==
    /\ UNCHANGED <<kernelVars, found, published, stopping, happened>>
    /\ \/ /\ polling = "walk" /\ Top.todo # {}
          /\ walk' = Passed /\ steady' = steady \ Within(Child)
          /\ UNCHANGED polling
       \/ /\ polling \in {"new", "idle"}
          /\ polling' = "idle" /\ steady' = {}
          /\ UNCHANGED walk

\* names is what LookupByPath says.  parseCgroupPod takes the "pod<uid>" part of
\* the path, or else its last part.
Label(d, names) ==
    IF names # {} THEN <<"name", CHOOSE n \in names : TRUE>>
    ELSE IF PodUid[d] # 0 THEN <<"pod", PodUid[d]>> ELSE <<"dir", d>>

Result(d, names) == [dir   |-> d,
                     label |-> Label(d, names),
                     high  |-> IF Exists(d) THEN high[d] ELSE 0,
                     real  |-> happened[d]]

Return(names, emits) ==
    /\ polling = "walk" /\ Top.todo = {}
    /\ found' = IF emits THEN Append(found, Result(Top.dir, names)) ELSE found
    /\ happened' = IF emits THEN [happened EXCEPT ![Top.dir] = 0] ELSE happened
    /\ walk' = SubSeq(walk, 1, Len(walk) - 1)
    /\ polling' = IF Len(walk) = 1 THEN "publish" ELSE "walk"
    /\ UNCHANGED <<kernelVars, published, stopping, steady>>

\* Mutant of Leave: len(result) is not looked at.
LeaveAlways(names) == Return(names, Top.limited)

Leave(names) == Return(names, Top.limited /\ Len(found) = Top.mark)

(***************************************************************************)
(* The rest of poll, and the loop.  Snapshot waits while "publish" and     *)
(* "gauge" hold the lock; a scrape of the gauge does not.                  *)
(***************************************************************************)
\* Mutant of Rate: the difference is taken unsigned, of a counter that wraps.
RateUnsigned(e) ==
    IF e.dir \in DOMAIN prev THEN (e.high - prev[e.dir]) % 2^30 ELSE 0

\* HighEventRate, before the division by the time.
Rate(e) ==
    IF e.dir \in DOMAIN prev /\ e.high > prev[e.dir] THEN e.high - prev[e.dir] ELSE 0

Entry(e) == [dir |-> e.dir, label |-> e.label, rate |-> Rate(e), real |-> e.real]

\* What the next poll compares with: this one's counts, and those of other paths.
Sampled ==
    [d \in DOMAIN prev \cup {found[i].dir : i \in 1..Len(found)} |->
        IF \E i \in 1..Len(found) : found[i].dir = d
        THEN found[CHOOSE i \in 1..Len(found) : found[i].dir = d].high ELSE prev[d]]

\* Mutant of Publish: the gauge is not reset.
PublishOver ==
    /\ polling = "publish"
    /\ polling' = IF found = <<>> THEN "idle" ELSE "gauge"
    /\ snap' = [i \in 1..Len(found) |-> Entry(found[i])]
    /\ prev' = Sampled
    /\ UNCHANGED <<kernelVars, walk, found, gauge, stopping, happened, steady>>

Publish ==
    /\ polling = "publish"
    /\ polling' = IF found = <<>> THEN "idle" ELSE "gauge"
    /\ snap' = [i \in 1..Len(found) |-> Entry(found[i])]
    /\ prev' = Sampled
    /\ gauge' = <<>>
    /\ UNCHANGED <<kernelVars, walk, found, stopping, happened, steady>>

SetGauge ==
    /\ polling = "gauge"
    /\ gauge' = [l \in {Head(found).label} \cup DOMAIN gauge |->
                     IF l = Head(found).label THEN Head(found).dir ELSE gauge[l]]
    /\ found' = Tail(found)
    /\ polling' = IF Len(found) = 1 THEN "idle" ELSE "gauge"
    /\ UNCHANGED <<kernelVars, walk, prev, snap, stopping, happened, steady>>

StopCollector ==
    /\ ~stopping /\ polling # "new"
    /\ stopping' = TRUE
    /\ UNCHANGED <<kernelVars, walkVars, published, happened, steady>>

LoopEnds ==
    /\ polling = "idle" /\ stopping
    /\ polling' = "ended"
    /\ UNCHANGED <<kernelVars, walk, found, published, stopping, happened, steady>>

(***************************************************************************)
(* The kernel and whoever manages the groups.                              *)
(***************************************************************************)
Mkdir(d) ==
    /\ ~Exists(d) /\ Exists(Parent[d])
    /\ group' = [group EXCEPT ![d] = "free"]
    /\ UNCHANGED <<high, walkVars, published, stopping, happened, steady>>

Rmdir(d) ==
    /\ Exists(d) /\ \A e \in Children(d) : ~Exists(e)
    /\ group' = [group EXCEPT ![d] = "none"] /\ high' = [high EXCEPT ![d] = 0]
    /\ steady' = steady \ {d}
    /\ UNCHANGED <<walkVars, published, stopping, happened>>

WriteMemoryMax(d) ==
    /\ Exists(d)
    /\ group' = [group EXCEPT ![d] = IF @ = "free" THEN "limited" ELSE "free"]
    /\ steady' = steady \ {d}
    /\ UNCHANGED <<high, walkVars, published, stopping, happened>>

HighEvent(d) ==
    /\ Exists(d) /\ high[d] < MaxHigh /\ happened[d] < MaxHigh
    /\ high' = [high EXCEPT ![d] = @ + 1]
    /\ happened' = [happened EXCEPT ![d] =
           IF d \in DOMAIN prev \cup {found[i].dir : i \in 1..Len(found)} THEN @ + 1 ELSE 0]
    /\ UNCHANGED <<group, walkVars, published, stopping, steady>>

Kernel == \E d \in Dirs \ {0} : Mkdir(d) \/ Rmdir(d) \/ WriteMemoryMax(d) \/ HighEvent(d)

-----------------------------------------------------------------------------
\* Every limit is reported once.  No entry is about a group inside another that is
\* reported, and a group that was limited all the time the walk took, and could be
\* read, is reported itself or by a limited group within it, whatever was made,
\* removed and limited during the walk.  (Groups below MaxDepth are not looked at.)
LimitsReportedOnce ==
    /\ \A i, j \in 1..Len(snap) : i # j => snap[i].dir \notin Within(snap[j].dir)
    /\ polling \in {"gauge", "idle"} =>
          \A d \in steady : Cardinality(Above[d]) <= MaxDepth =>
              \E i \in 1..Len(snap) : snap[i].dir \in Within(d)

\* prev is never pruned, so that a group is compared with the one that had its path
\* before.  The rate it is given never counts more events than there really were
\* at that path since its last sample, however often the path changed hands.
RatesAreReal == \A i \in 1..Len(snap) : snap[i].rate <= snap[i].real

\* Between two polls the gauge shows exactly the labels of the snapshot, each with
\* the value of one of its groups: nothing of a pod that has gone.
GaugeMatchesSnapshot ==
    polling = "idle" =>
        /\ DOMAIN gauge = {snap[i].label : i \in 1..Len(snap)}
        /\ \A l \in DOMAIN gauge :
              \E i \in 1..Len(snap) : snap[i].label = l /\ snap[i].dir = gauge[l]

=============================================================================
