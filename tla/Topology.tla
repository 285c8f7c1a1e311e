------------------------------ MODULE Topology ------------------------------
(***************************************************************************)
(* The cluster description and what is made of it: internal/topology       *)
(* (Validate, Resolve) and the projections of internal/generate (node      *)
(* labels, device attributes, KAI's Topology, Volcano's HyperNodes).       *)
(*                                                                         *)
(* A document is [pools, racks]: pools maps a pool name to its machine     *)
(* type, racks is a sequence of racks, each with a sequence of nodes.      *)
(* "" is a string left empty.  Of the MIG settings of a pool there is here *)
(* whether they are on; partitions are in MigGeometry.  The PCIe facts of  *)
(* the GPUs are left out: the levels and domains do not depend on them.    *)
(***************************************************************************)
EXTENDS Integers, Sequences, Functions

CONSTANT MIGModels  \* the GPU profiles there is a MIG geometry for

-----------------------------------------------------------------------------
(* Validation *)

ValidPool(p) ==
    /\ p.profile # ""
    /\ p.gpus > 0
    /\ p.mig => p.profile \in MIGModels
    /\ p.nvlink \in {"full-mesh", "none"}

\* The nodes of a document, by rack and position.
Slots(doc) == UNION {{<<r, i>> : i \in DOMAIN doc.racks[r].nodes} : r \in DOMAIN doc.racks}

NodeAt(doc, s) == doc.racks[s[1]].nodes[s[2]]

\* A rack that spans NVLink over its nodes has only nodes with NVLink.
NVLinkConsistent(doc) ==
    \A s \in Slots(doc) :
        /\ doc.racks[s[1]].nvlinkDomain # ""
        /\ NodeAt(doc, s).pool \in DOMAIN doc.pools
        => doc.pools[NodeAt(doc, s).pool].nvlink # "none"

ValidRacks(racks) ==
    /\ racks # <<>>
    /\ \A r \in DOMAIN racks :
        racks[r].name # "" /\ racks[r].faultDomain # "" /\ racks[r].nodes # <<>>
    /\ \A r, q \in DOMAIN racks : r # q => racks[r].name # racks[q].name

ValidNodes(doc) ==
    \A s, t \in Slots(doc) :
        /\ NodeAt(doc, s).name # "" /\ NodeAt(doc, s).pool \in DOMAIN doc.pools
        /\ s # t => NodeAt(doc, s).name # NodeAt(doc, t).name

\* No problem is reported.
Validate(doc) ==
    /\ DOMAIN doc.pools # {} /\ \A p \in DOMAIN doc.pools : ValidPool(doc.pools[p])
    /\ ValidRacks(doc.racks)
    /\ ValidNodes(doc)
    /\ NVLinkConsistent(doc)

-----------------------------------------------------------------------------
(* Resolution *)

GPUsInRack(doc, rack) ==
    SumFunction([i \in DOMAIN rack.nodes |-> doc.pools[rack.nodes[i].pool].gpus])

\* Slip: the rack's domain, with the peers of one node.
NVLinkForNode(pool, rack, nodeName, rackGPUs) ==
    IF pool.nvlink = "none" THEN [domain |-> "", peers |-> 0]
    ELSE [domain |-> IF rack.nvlinkDomain # "" THEN rack.nvlinkDomain ELSE nodeName,
          peers |-> pool.gpus - 1]

\* The domain of a node's GPUs, and how many others each reaches over NVLink.
NVLinkFor(pool, rack, nodeName, rackGPUs) ==
    IF pool.nvlink = "none" THEN [domain |-> "", peers |-> 0]
    ELSE IF rack.nvlinkDomain # "" THEN [domain |-> rack.nvlinkDomain, peers |-> rackGPUs - 1]
    ELSE [domain |-> nodeName, peers |-> pool.gpus - 1]

ResolveNode(doc, s) ==
    LET rack == doc.racks[s[1]]
        node == NodeAt(doc, s)
        pool == doc.pools[node.pool]
        nvl  == NVLinkFor(pool, rack, node.name, GPUsInRack(doc, rack))
    IN  [name |-> node.name, rack |-> rack.name, faultDomain |-> rack.faultDomain,
         nvlinkDomain |-> nvl.domain, peers |-> nvl.peers, gpus |-> pool.gpus,
         mig |-> pool.mig]

Resolve(doc) == {ResolveNode(doc, s) : s \in Slots(doc)}

-----------------------------------------------------------------------------
(* What is generated from the resolved nodes *)

\* The value of a level on a node, read off the resolved topology.
Value(level, n) == CASE level = "host" -> n.name
                     [] level = "rack" -> n.rack
                     [] level = "fault-domain" -> n.faultDomain
                     [] level = "nvlink-domain" -> n.nvlinkDomain

\* levelLabels: the levels there is a node label for.
KnownLevels == {"fault-domain", "rack", "nvlink-domain", "host"}

\* A node's labels, by level; without NVLink there is no label for the domain.
Labels(n) ==
    [level \in {l \in KnownLevels : l = "nvlink-domain" => n.nvlinkDomain # ""} |-> Value(level, n)]

\* The type attribute of a GPU, and of a partition of one.
GPUType       == "gpu"
PartitionType == "mig"

\* Slip: a partition is published as a GPU.
DeviceTypeAlways(n) == GPUType

\* A node publishes its GPUs, or if MIG is on their partitions.
DeviceType(n) == IF n.mig THEN PartitionType ELSE GPUType

\* The fabric attributes of a GPU, by name: none without NVLink.
GPUFabric(n) ==
    IF n.nvlinkDomain = "" THEN <<>> ELSE [domain |-> n.nvlinkDomain, peers |-> n.peers]

\* A partition has its GPU's domain, and no peer count.
PartitionFabric(n) == IF n.nvlinkDomain = "" THEN <<>> ELSE [domain |-> n.nvlinkDomain]

FabricAttributes(n) == IF n.mig THEN PartitionFabric(n) ELSE GPUFabric(n)

\* Slip: one node with a domain is enough.
SomeNodeHasNVLink(nodes) == \E n \in nodes : n.nvlinkDomain # ""

AllNodesHaveNVLink(nodes) == nodes # {} /\ \A n \in nodes : n.nvlinkDomain # ""

\* KAI's levels, coarsest first.
KAILevels(nodes) ==
    <<"fault-domain", "rack">>
    \o (IF AllNodesHaveNVLink(nodes) THEN <<"nvlink-domain">> ELSE <<>>)
    \o <<"host">>

\* Volcano's tiers, finest first.
VolcanoLevels(nodes) ==
    <<"host">>
    \o (IF AllNodesHaveNVLink(nodes) THEN <<"nvlink-domain">> ELSE <<>>)
    \o <<"rack", "fault-domain">>

\* Slip: members are counted one tier too low.
MembersFromHosts(levels, tier, group) ==
    IF tier = 1 THEN {<<"node", n.name>> : n \in group}
    ELSE {<<levels[1], Value(levels[1], n)>> : n \in group}

\* The members of a HyperNode that groups these nodes: themselves at the lowest
\* tier, above it the HyperNodes of the tier below.
Members(levels, tier, group) ==
    IF tier = 1 THEN {<<"node", n.name>> : n \in group}
    ELSE {<<levels[tier - 1], Value(levels[tier - 1], n)>> :
              n \in {m \in group : Value(levels[tier - 1], m) # ""}}

HyperNodes(nodes) ==
    LET levels == VolcanoLevels(nodes)
        at(t)  == {Value(levels[t], n) : n \in nodes} \ {""}
    IN  UNION {{[name |-> <<levels[t], v>>, tier |-> t,
                 members |-> Members(levels, t, {n \in nodes : Value(levels[t], n) = v})]
                : v \in at(t)} : t \in DOMAIN levels}
=============================================================================
