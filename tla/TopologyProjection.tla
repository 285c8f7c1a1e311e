------------------------- MODULE TopologyProjection -------------------------
(***************************************************************************)
(* A topology document on its way to the cluster: loaded and validated,    *)
(* resolved, and projected into labels, attributes and the topology of     *)
(* each scheduler (the first half of cluster.ApplyTopology).  The          *)
(* projections are made one by one from the same resolved nodes, and have  *)
(* to agree.                                                               *)
(***************************************************************************)
EXTENDS Topology, SequencesExt

CONSTANT Docs  \* the documents a user may write

ASSUME DocsAssumption ==
    \A d \in Docs :
        /\ \A p \in DOMAIN d.pools :
               d.pools[p] \in [profile : STRING, gpus : Int, nvlink : STRING, mig : BOOLEAN]
        /\ d.racks \in Seq([name : STRING, faultDomain : STRING, nvlinkDomain : STRING,
                            nodes : Seq([name : STRING, pool : STRING])])

VARIABLES
    doc,     \* the document
    phase,   \* "loaded", "invalid", "valid", "failed", "resolved" or "generated"
    nodes,   \* the resolved nodes
    labels,  \* node name -> labels of the Node object
    fabric,  \* node name -> fabric attributes of its devices
    kai,     \* levels of KAI's Topology
    tree     \* Volcano's HyperNodes

vars == <<doc, phase, nodes, labels, fabric, kai, tree>>

Init ==
    /\ doc \in Docs
    /\ phase = "loaded"
    /\ nodes = {} /\ labels = <<>> /\ fabric = <<>> /\ kai = <<>> /\ tree = {}

\* Load: a document with any problem is refused.
ValidateDoc ==
    /\ phase = "loaded"
    /\ phase' = IF Validate(doc) THEN "valid" ELSE "invalid"
    /\ UNCHANGED <<doc, nodes, labels, fabric, kai, tree>>

\* A GPU profile that cannot be loaded ends it here.
ResolveDoc ==
    /\ phase = "valid"
    /\ \/ phase' = "resolved" /\ nodes' = Resolve(doc)
       \/ phase' = "failed" /\ UNCHANGED nodes
    /\ UNCHANGED <<doc, labels, fabric, kai, tree>>

\* Nodes, ResourceSlices, KAITopologyFor, VolcanoHyperNodes.
Generate ==
    /\ phase = "resolved"
    /\ labels' = [x \in {n.name : n \in nodes} |-> Labels(CHOOSE n \in nodes : n.name = x)]
    /\ fabric' = [x \in {n.name : n \in nodes} |-> FabricAttributes(CHOOSE n \in nodes : n.name = x)]
    /\ kai' = KAILevels(nodes)
    /\ tree' = HyperNodes(nodes)
    /\ phase' = "generated"
    /\ UNCHANGED <<doc, nodes>>

Next == ValidateDoc \/ ResolveDoc \/ Generate

Spec == Init /\ [][Next]_vars

-----------------------------------------------------------------------------
(* What a scheduler reads from the projections *)

\* KAI: the nodes that carry the same value of a level's label.
LabelDomain(level, v) ==
    {x \in DOMAIN labels : level \in DOMAIN labels[x] /\ labels[x][level] = v}

\* Volcano: the nodes a HyperNode reaches through its members.
Reached(h) ==
    LET at(t) == {g \in tree : g.tier = t}
        under[t \in 1..h.tier] ==
            [g \in at(t) |->
                IF t = 1 THEN {m[2] : m \in g.members}
                ELSE UNION {under[t - 1][c] : c \in {c \in at(t - 1) : c.name \in g.members}}]
    IN  under[h.tier][h]

-----------------------------------------------------------------------------
(* Properties *)

Done == phase = "generated"

\* "All three come from the same resolved topology so they cannot disagree" (package
\* generate): the nodes under a HyperNode are those KAI groups by the same label.
TreeMatchesLabels ==
    Done => \A h \in tree : Reached(h) = LabelDomain(h.name[1], h.name[2])

\* "KAI drops any node missing a label for any level of the topology": no node lacks
\* one, nor is it missing from a tier of Volcano's tree; both schedulers are told of
\* the same levels; and a domain of one level lies within one domain of the next
\* coarser one, as both take for granted.
EveryNodeInEveryLevel ==
    Done =>
        /\ kai = Reverse(VolcanoLevels(nodes))
        /\ \A x \in DOMAIN labels : \A i \in DOMAIN kai : kai[i] \in DOMAIN labels[x]
        /\ \A t \in DOMAIN kai : UNION {Reached(h) : h \in {g \in tree : g.tier = t}} = DOMAIN labels
        /\ \A i \in DOMAIN kai \ {1} : \A x, y \in DOMAIN labels :
               labels[x][kai[i]] = labels[y][kai[i]]
               => labels[x][kai[i - 1]] = labels[y][kai[i - 1]]

\* A GPU is published with the number of the other GPUs of its domain ("a GPU reaches
\* every other GPU in the rack", nvlinkFor): all those of the nodes whose devices are
\* published with this domain, as GPUs or as partitions of them.
InDomain(d) == {m \in nodes : "domain" \in DOMAIN fabric[m.name] /\ fabric[m.name].domain = d}
PeerCountsAreTrue ==
    Done => \A n \in nodes :
        "peers" \in DOMAIN fabric[n.name] =>
            fabric[n.name].peers + 1
                = SumFunction([m \in InDomain(fabric[n.name].domain) |-> m.gpus])

\* "Naming it after the node keeps domain identifiers unique cluster-wide" (nvlinkFor):
\* two nodes are of one domain only in a rack that NVLink spans.
DomainsAreUnique ==
    Done => \A n, m \in nodes :
        n # m /\ n.nvlinkDomain # "" /\ n.nvlinkDomain = m.nvlinkDomain =>
            \E r \in DOMAIN doc.racks : /\ doc.racks[r].nvlinkDomain = n.nvlinkDomain
                                        /\ n.rack = doc.racks[r].name /\ m.rack = n.rack
=============================================================================
