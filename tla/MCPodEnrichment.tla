------------------------------ MODULE MCPodEnrichment ------------------------------
(* A pod (1) with a container (2), and a service (3), under the root. *)
EXTENDS PodEnrichment

MCParent == [d \in {1, 2, 3} |-> IF d = 2 THEN 1 ELSE 0]
MCPodUid == [d \in {0, 1, 2, 3} |-> IF d \in {1, 2} THEN 1 ELSE 0]

MCTree(a, b, c) == [d \in {0, 1, 2, 3} |-> <<"free", a, b, c>>[d + 1]]
MCTrees == {MCTree(a, b, c) : a, b, c \in {"none", "free", "limited"}} \
           {MCTree("none", b, c) : b \in {"free", "limited"}, c \in {"none", "free", "limited"}}
Begin(w, g, c, n) == [working |-> w, group |-> g, inCluster |-> c, onNode |-> n]

\* A node without Kubernetes, with any tree, or with one path that is used again and
\* again; a cluster that changes; a little of both.
MCScenarios ==
    {Begin({}, g, 0, 2) : g \in MCTrees}
    \cup {Begin({}, MCTree("none", "none", "limited"), 0, 4)}
    \cup {Begin(w, MCTree("limited", "limited", "none"), 5, 0) : w \in SUBSET {"config", "api"}}
    \cup {Begin({"config"}, MCTree("free", "limited", c), 2, 1) : c \in {"none", "limited"}}
=============================================================================
