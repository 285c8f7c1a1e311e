------------------------ MODULE ApplyTopology_proofs ------------------------
(***************************************************************************)
(* Proofs about ApplyTopology for every set of topologies, every cluster   *)
(* and every number of applies, cut off anywhere.                          *)
(***************************************************************************)
EXTENDS ApplyTopology, TLAPS

NodeType == [managed : BOOLEAN, spec : Specs, status : Specs \cup {Unset}]
SliceType == [managed : BOOLEAN, spec : Specs, tainted : BOOLEAN]

NodeThere(n) ==
    /\ n \in DOMAIN nodes
    /\ nodes[n] = [managed |-> TRUE, spec |-> topo.name, status |-> topo.name]

SliceThere(s) ==
    /\ s \in DOMAIN slices
    /\ slices[s] = [managed |-> TRUE, spec |-> topo.name, tainted |-> FALSE]

HyperThere(h) == h \in DOMAIN hyper /\ hyper[h] = topo.name

\* The phases after each loop.
AfterHyper  == {"staleHyper", "staleSlices", "staleNodes"}
AfterSlices == {"kai", "hyper"} \cup AfterHyper
AfterNodes  == {"slices"} \cup AfterSlices

\* What the loop of a phase has done it has done for good: of the nodes, the slices
\* and the HyperNodes of the topology, those not left to do are in place.
NodesDone ==
    /\ pc = "nodes" => \A n \in topo.nodes \ todo : NodeThere(n)
    /\ pc = "status" =>
           /\ \A n \in topo.nodes \ (todo \cup {at}) : NodeThere(n)
           /\ at \in DOMAIN nodes
           /\ nodes[at].managed = TRUE /\ nodes[at].spec = topo.name
    /\ pc \in AfterNodes => \A n \in topo.nodes : NodeThere(n)

SlicesDone ==
    /\ pc = "slices" => \A s \in ResourceSlices(topo) \ todo : SliceThere(s)
    /\ pc \in AfterSlices =>
           (\A s \in ResourceSlices(topo) : SliceThere(s)) /\ (topo.mig # {} => class)

TreesDone ==
    /\ pc \in {"hyper"} \cup AfterHyper => topo.name \in kai
    /\ pc = "hyper" => \A h \in HyperNodes(topo) \ todo : HyperThere(h)
    /\ pc \in AfterHyper => \A h \in HyperNodes(topo) : HyperThere(h)

\* What is still to be deleted is not of the topology, and what is neither of it nor
\* still to be deleted is gone.
Pruned ==
    /\ pc = "staleHyper" =>
           todo \cap HyperNodes(topo) = {} /\ DOMAIN hyper \subseteq HyperNodes(topo) \cup todo
    /\ pc \in {"staleSlices", "staleNodes"} => DOMAIN hyper \subseteq HyperNodes(topo)
    /\ pc = "staleSlices" =>
           /\ todo \cap ResourceSlices(topo) = {}
           /\ todo \subseteq Managed(slices)
           /\ Managed(slices) \subseteq ResourceSlices(topo) \cup todo
    /\ pc = "staleNodes" =>
           /\ Managed(slices) \subseteq ResourceSlices(topo)
           /\ todo \cap topo.nodes = {}
           /\ todo \subseteq Managed(nodes)
           /\ Managed(nodes) \subseteq topo.nodes \cup todo

\* Slices of a topology with MIG are written only past the probe.
Probed == pc = "slices" /\ topo.mig # {} => env.gate

\* The inductive invariant.
ApplyInv ==
    /\ TypeOK
    /\ NodesDone
    /\ SlicesDone
    /\ TreesDone
    /\ Pruned
    /\ Probed
    /\ NoPartitionsWithoutCounters

-----------------------------------------------------------------------------

LEMMA InitInv == Init => ApplyInv
<1>. SUFFICES ASSUME Init
              PROVE  ApplyInv
  OBVIOUS
<1>1. TypeOK
  <2>1. /\ DOMAIN nodes = ForeignNodes /\ DOMAIN slices = ForeignSlices /\ DOMAIN hyper = {}
        /\ Foreign \in Specs
    BY DEF Init, Specs
  <2>2. ForeignNodes \subseteq Names /\ ForeignSlices \subseteq SliceNames
    BY DEF Names, SliceNames
  <2>3. \A n \in DOMAIN nodes :
          nodes[n] \in [managed : BOOLEAN, spec : Specs, status : Specs \cup {Unset}]
    BY <2>1 DEF Init
  <2>4. \A s \in DOMAIN slices : slices[s] \in [managed : BOOLEAN, spec : Specs, tainted : BOOLEAN]
    BY <2>1 DEF Init
  <2>5. applies \in 0..MaxApplies
    BY TopologiesAssumption DEF Init
  <2>6. class \in BOOLEAN
    BY DEF Init
  <2>. QED
    BY <2>1, <2>2, <2>3, <2>4, <2>5, <2>6 DEF Init, TypeOK, Idle
<1>2. NoPartitionsWithoutCounters
  BY DEF Init, NoPartitionsWithoutCounters, Managed
<1>. QED
  BY <1>1, <1>2
  DEF Init, ApplyInv, NodesDone, SlicesDone, TreesDone, Pruned, Probed, AfterHyper, AfterSlices,
      AfterNodes

\* A step that writes node n, and no more than moves on, keeps the types.
LEMMA NodeWritten ==
    ASSUME ApplyInv, NEW n \in topo.nodes, NEW r,
           r \in NodeType,
           nodes' = With(nodes, n, r)
    PROVE  /\ DOMAIN nodes' = DOMAIN nodes \cup {n}
           /\ nodes'[n] = r
           /\ \A m \in DOMAIN nodes : m # n => nodes'[m] = nodes[m]
           /\ \A m \in DOMAIN nodes' : m \in Names /\ nodes'[m] \in NodeType
<1>1. n \in Names
  BY DEF ApplyInv, TypeOK, Names
<1>2. /\ DOMAIN nodes' = DOMAIN nodes \cup {n}
      /\ nodes'[n] = r
      /\ \A m \in DOMAIN nodes : m # n => nodes'[m] = nodes[m]
  BY DEF With
<1>. QED
  BY <1>1, <1>2 DEF ApplyInv, TypeOK, NodeType

LEMMA NodeSpecKeepsInv ==
    ASSUME ApplyInv, NEW n \in todo, ApplyNodeSpec(n)
    PROVE  ApplyInv'
<1>1. /\ pc = "nodes" /\ todo' = todo \ {n} /\ at' = n /\ pc' = "status"
      /\ UNCHANGED <<env, slices, class, kai, hyper, topo, base, applies>>
      /\ n \in topo.nodes /\ topo.name \in Specs
  BY DEF ApplyNodeSpec, ApplyInv, TypeOK, Specs
<1>2. PICK r \in NodeType : r.managed = TRUE /\ r.spec = topo.name /\ nodes' = With(nodes, n, r)
  <2>1. CASE n \in DOMAIN nodes
    <3>. DEFINE r == [managed |-> TRUE, spec |-> topo.name, status |-> nodes[n].status]
    <3>1. nodes[n] \in NodeType
      BY <2>1 DEF ApplyInv, TypeOK, NodeType
    <3>2. r \in NodeType /\ r.managed = TRUE /\ r.spec = topo.name
      BY <1>1, <3>1 DEF NodeType
    <3>3. nodes' = With(nodes, n, r)
      BY <2>1 DEF ApplyNodeSpec
    <3>. QED
      BY <3>2, <3>3
  <2>2. CASE n \notin DOMAIN nodes
    <3>. DEFINE r == [managed |-> TRUE, spec |-> topo.name, status |-> Unset]
    <3>1. r \in NodeType /\ r.managed = TRUE /\ r.spec = topo.name
      BY <1>1 DEF NodeType
    <3>2. nodes' = With(nodes, n, r)
      BY <2>2 DEF ApplyNodeSpec
    <3>. QED
      BY <3>1, <3>2
  <2>. QED
    BY <2>1, <2>2
<1>3. /\ DOMAIN nodes' = DOMAIN nodes \cup {n}
      /\ nodes'[n] = r
      /\ \A m \in DOMAIN nodes : m # n => nodes'[m] = nodes[m]
      /\ \A m \in DOMAIN nodes' : m \in Names /\ nodes'[m] \in NodeType
  BY <1>1, <1>2, NodeWritten
<1>4. TypeOK'
  BY <1>1, <1>3 DEF ApplyInv, TypeOK, NodeType
<1>5. NodesDone'
  BY <1>1, <1>2, <1>3
  DEF ApplyInv, NodesDone, NodeThere, AfterNodes, AfterSlices, AfterHyper
<1>. QED
  BY <1>1, <1>4, <1>5
  DEF ApplyInv, SlicesDone, TreesDone, Pruned, Probed, NoPartitionsWithoutCounters, Managed,
      AfterSlices, AfterHyper

LEMMA NodeStatusKeepsInv ==
    ASSUME ApplyInv, ApplyNodeStatus
    PROVE  ApplyInv'
<1>1. /\ pc = "status" /\ pc' = "nodes" /\ nodes' = [nodes EXCEPT ![at].status = topo.name]
      /\ UNCHANGED <<env, slices, class, kai, hyper, topo, at, todo, base, applies>>
  BY DEF ApplyNodeStatus
<1>2. /\ at \in topo.nodes /\ at \in DOMAIN nodes /\ nodes[at] \in NodeType
      /\ nodes[at].managed = TRUE /\ nodes[at].spec = topo.name /\ topo.name \in Specs
  BY <1>1 DEF ApplyInv, TypeOK, NodesDone, NodeType, Specs
<1>3. /\ DOMAIN nodes' = DOMAIN nodes
      /\ nodes'[at] = [managed |-> TRUE, spec |-> topo.name, status |-> topo.name]
      /\ \A m \in DOMAIN nodes : m # at => nodes'[m] = nodes[m]
  BY <1>1, <1>2 DEF NodeType
<1>4. nodes'[at] \in NodeType
  BY <1>2, <1>3 DEF NodeType
<1>5. TypeOK'
  BY <1>1, <1>2, <1>3, <1>4 DEF ApplyInv, TypeOK, NodeType
<1>6. NodesDone'
  BY <1>1, <1>2, <1>3 DEF ApplyInv, NodesDone, NodeThere, AfterNodes, AfterSlices, AfterHyper
<1>. QED
  BY <1>1, <1>5, <1>6
  DEF ApplyInv, SlicesDone, TreesDone, Pruned, Probed, NoPartitionsWithoutCounters, Managed,
      AfterSlices, AfterHyper

\* Moving on to the next phase, with the cluster as it is.
LEMMA MovingOnKeepsInv ==
    ASSUME ApplyInv,
           \/ EnterSlices
           \/ ListHyperNodes
           \/ ListSlices
           \/ ListNodes
           \/ Return
           \/ CallFails
           \/ \E t \in Topologies : Begin(t)
    PROVE  ApplyInv'
<1>1. CASE EnterSlices
  <2>1. TypeOK'
    BY <1>1 DEF EnterSlices, cluster, ApplyInv, TypeOK, Idle
  <2>. QED
    BY <1>1, <2>1
    DEF EnterSlices, cluster, ApplyInv, TypeOK, NodesDone, NodeThere, SlicesDone, TreesDone, Pruned,
        Probed, NoPartitionsWithoutCounters, Managed, AfterNodes, AfterSlices, AfterHyper
<1>2. CASE ListHyperNodes
  <2>1. TypeOK'
    BY <1>2 DEF ListHyperNodes, cluster, ApplyInv, TypeOK, Idle
  <2>. QED
    BY <1>2, <2>1
    DEF ListHyperNodes, cluster, ApplyInv, NodesDone, NodeThere, SlicesDone, SliceThere, TreesDone,
        HyperThere, Pruned, Probed, NoPartitionsWithoutCounters, Managed, AfterNodes, AfterSlices,
        AfterHyper
<1>3. CASE ListSlices
  <2>1. TypeOK'
    BY <1>3 DEF ListSlices, cluster, ApplyInv, TypeOK, Idle, Managed
  <2>. QED
    BY <1>3, <2>1
    DEF ListSlices, cluster, ApplyInv, NodesDone, NodeThere, SlicesDone, SliceThere, TreesDone,
        HyperThere, Pruned, Probed, NoPartitionsWithoutCounters, Managed, AfterNodes, AfterSlices,
        AfterHyper
<1>4. CASE ListNodes
  <2>1. TypeOK'
    BY <1>4 DEF ListNodes, cluster, ApplyInv, TypeOK, Idle, Managed
  <2>. QED
    BY <1>4, <2>1
    DEF ListNodes, cluster, ApplyInv, NodesDone, NodeThere, SlicesDone, SliceThere, TreesDone,
        HyperThere, Pruned, Probed, NoPartitionsWithoutCounters, Managed, AfterNodes, AfterSlices,
        AfterHyper
<1>5. CASE Return
  <2>1. TypeOK'
    BY <1>5 DEF Return, cluster, ApplyInv, TypeOK, Idle
  <2>. QED
    BY <1>5, <2>1
    DEF Return, cluster, ApplyInv, NodesDone, SlicesDone, TreesDone, Pruned, Probed,
        NoPartitionsWithoutCounters, Managed, AfterNodes, AfterSlices, AfterHyper
<1>6. CASE CallFails
  <2>1. TypeOK'
    BY <1>6 DEF CallFails, cluster, ApplyInv, TypeOK, Idle
  <2>. QED
    BY <1>6, <2>1
    DEF CallFails, cluster, ApplyInv, NodesDone, SlicesDone, TreesDone, Pruned, Probed,
        NoPartitionsWithoutCounters, Managed, AfterNodes, AfterSlices, AfterHyper
<1>7. ASSUME NEW t \in Topologies, Begin(t)
      PROVE  ApplyInv'
  <2>1. applies' \in 0..MaxApplies
    BY <1>7, TopologiesAssumption DEF Begin, ApplyInv, TypeOK
  <2>2. TypeOK'
    BY <1>7, <2>1 DEF Begin, cluster, ApplyInv, TypeOK, Idle
  <2>. QED
    BY <1>7, <2>2
    DEF Begin, cluster, ApplyInv, NodesDone, SlicesDone, TreesDone, Pruned, Probed,
        NoPartitionsWithoutCounters, Managed, AfterNodes, AfterSlices, AfterHyper
<1>. QED
  BY <1>1, <1>2, <1>3, <1>4, <1>5, <1>6, <1>7

LEMMA SliceWriteKeepsInv ==
    ASSUME ApplyInv, NEW s \in todo, ApplyResourceSlice(s)
    PROVE  ApplyInv'
<1>. DEFINE r == [managed |-> TRUE, spec |-> topo.name, tainted |-> FALSE]
<1>1. /\ pc = "slices" /\ todo' = todo \ {s} /\ slices' = With(slices, s, r)
      /\ UNCHANGED <<env, nodes, class, kai, hyper, topo, pc, at, base, applies>>
      /\ s \in ResourceSlices(topo) /\ topo.name \in Specs
  BY DEF ApplyResourceSlice, ApplyInv, TypeOK, Specs
<1>2. /\ DOMAIN slices' = DOMAIN slices \cup {s}
      /\ slices'[s] = r
      /\ \A x \in DOMAIN slices : x # s => slices'[x] = slices[x]
  BY <1>1 DEF With
<1>3. s \in SliceNames
  BY <1>1 DEF ApplyInv, TypeOK, SliceNames
<1>4. r \in SliceType
  BY <1>1 DEF SliceType
<1>5. TypeOK'
  BY <1>1, <1>2, <1>3, <1>4 DEF ApplyInv, TypeOK, SliceType
<1>6. SlicesDone'
  BY <1>1, <1>2 DEF ApplyInv, SlicesDone, SliceThere, AfterSlices, AfterHyper
<1>7. s.part # <<"gpu">> => env.gate
  <2>1. s.part # <<"gpu">> => topo.mig # {}
    BY <1>1 DEF ResourceSlices
  <2>. QED
    BY <1>1, <2>1 DEF ApplyInv, Probed
<1>8. NoPartitionsWithoutCounters'
  BY <1>1, <1>2, <1>7 DEF ApplyInv, NoPartitionsWithoutCounters, Managed
<1>9. NodesDone' /\ TreesDone' /\ Pruned' /\ Probed'
  BY <1>1
  DEF ApplyInv, NodesDone, NodeThere, TreesDone, Pruned, Probed, AfterNodes, AfterSlices, AfterHyper
<1>. QED
  BY <1>5, <1>6, <1>8, <1>9 DEF ApplyInv

LEMMA ClassAndKAIKeepInv ==
    ASSUME ApplyInv, ApplyMIGDeviceClass \/ ApplyKAITopology
    PROVE  ApplyInv'
<1>1. CASE ApplyMIGDeviceClass
  <2>1. class' \in BOOLEAN /\ (topo.mig # {} => class')
    BY <1>1 DEF ApplyMIGDeviceClass
  <2>2. TypeOK'
    BY <1>1, <2>1 DEF ApplyMIGDeviceClass, ApplyInv, TypeOK, Idle
  <2>. QED
    BY <1>1, <2>1, <2>2
    DEF ApplyMIGDeviceClass, ApplyInv, NodesDone, NodeThere, SlicesDone, SliceThere, TreesDone,
        Pruned, Probed, NoPartitionsWithoutCounters, Managed, AfterNodes, AfterSlices, AfterHyper
<1>2. CASE ApplyKAITopology
  <2>1. topo.name \in Specs
    BY DEF ApplyInv, TypeOK, Specs
  <2>2. TypeOK'
    BY <1>2, <2>1 DEF ApplyKAITopology, ApplyInv, TypeOK, Idle
  <2>3. /\ pc = "kai" /\ pc' \in {"hyper", "failed"}
        /\ UNCHANGED <<env, nodes, slices, class, hyper, topo, at, base, applies>>
        /\ pc' = "hyper" => topo.name \in kai' /\ todo' = HyperNodes(topo)
    BY <1>2 DEF ApplyKAITopology
  <2>4. NodesDone' /\ SlicesDone'
    BY <2>3
    DEF ApplyInv, NodesDone, NodeThere, SlicesDone, SliceThere, AfterNodes, AfterSlices, AfterHyper
  <2>5. TreesDone' /\ Pruned' /\ Probed' /\ NoPartitionsWithoutCounters'
    BY <2>3
    DEF ApplyInv, TreesDone, Pruned, Probed, NoPartitionsWithoutCounters, Managed, AfterHyper
  <2>. QED
    BY <2>2, <2>4, <2>5 DEF ApplyInv
<1>. QED
  BY <1>1, <1>2

LEMMA HyperWriteKeepsInv ==
    ASSUME ApplyInv, NEW h \in todo, ApplyHyperNode(h)
    PROVE  ApplyInv'
<1>1. CASE env.volcano
  <2>1. /\ pc = "hyper" /\ todo' = todo \ {h} /\ hyper' = With(hyper, h, topo.name)
        /\ UNCHANGED <<env, nodes, slices, class, kai, topo, pc, at, base, applies>>
        /\ h \in HyperNodes(topo) /\ topo.name \in Specs
    BY <1>1 DEF ApplyHyperNode, ApplyInv, TypeOK, Specs
  <2>2. /\ DOMAIN hyper' = DOMAIN hyper \cup {h}
        /\ hyper'[h] = topo.name
        /\ \A x \in DOMAIN hyper : x # h => hyper'[x] = hyper[x]
    BY <2>1 DEF With
  <2>3. h \in HyperNames
    BY <2>1 DEF ApplyInv, TypeOK, HyperNames
  <2>4. TypeOK'
    BY <2>1, <2>2, <2>3 DEF ApplyInv, TypeOK
  <2>5. TreesDone'
    BY <2>1, <2>2 DEF ApplyInv, TreesDone, HyperThere, AfterHyper
  <2>. QED
    BY <2>1, <2>4, <2>5
    DEF ApplyInv, NodesDone, NodeThere, SlicesDone, SliceThere, Pruned, Probed,
        NoPartitionsWithoutCounters, Managed, AfterNodes, AfterSlices, AfterHyper
<1>2. CASE ~env.volcano
  <2>1. TypeOK'
    BY <1>2 DEF ApplyHyperNode, ApplyInv, TypeOK, Idle
  <2>. QED
    BY <1>2, <2>1
    DEF ApplyHyperNode, ApplyInv, NodesDone, SlicesDone, TreesDone, Pruned, Probed,
        NoPartitionsWithoutCounters, Managed, AfterNodes, AfterSlices, AfterHyper
<1>. QED
  BY <1>1, <1>2

\* A deletion takes what is still to be deleted, which is not of the topology.
LEMMA DeletionsKeepInv ==
    ASSUME ApplyInv, NEW x \in todo, DeleteHyperNode(x) \/ PruneSlice(x) \/ PruneNode(x)
    PROVE  ApplyInv'
<1>1. CASE DeleteHyperNode(x)
  <2>1. /\ pc = "staleHyper" /\ todo' = todo \ {x}
        /\ UNCHANGED <<env, nodes, slices, class, kai, topo, pc, at, base, applies>>
        /\ DOMAIN hyper' = DOMAIN hyper \ {x}
        /\ \A y \in DOMAIN hyper' : hyper'[y] = hyper[y]
    BY <1>1 DEF DeleteHyperNode, Without, Restrict
  <2>2. TypeOK'
    BY <2>1 DEF ApplyInv, TypeOK
  <2>3. TreesDone' /\ Pruned'
    BY <2>1 DEF ApplyInv, TreesDone, HyperThere, Pruned, AfterHyper
  <2>. QED
    BY <2>1, <2>2, <2>3
    DEF ApplyInv, NodesDone, NodeThere, SlicesDone, SliceThere, Probed,
        NoPartitionsWithoutCounters, Managed, AfterNodes, AfterSlices, AfterHyper
<1>2. CASE PruneSlice(x)
  <2>1. /\ pc = "staleSlices" /\ todo' = todo \ {x}
        /\ UNCHANGED <<env, nodes, class, kai, hyper, topo, pc, at, base, applies>>
        /\ DOMAIN slices' = DOMAIN slices \ {x}
        /\ \A y \in DOMAIN slices' : slices'[y] = slices[y]
    BY <1>2 DEF PruneSlice, Without, Restrict
  <2>2. TypeOK'
    BY <2>1 DEF ApplyInv, TypeOK
  <2>3. SlicesDone'
    BY <2>1 DEF ApplyInv, SlicesDone, SliceThere, Pruned, AfterSlices, AfterHyper
  <2>4. Pruned' /\ NoPartitionsWithoutCounters'
    BY <2>1 DEF ApplyInv, Pruned, NoPartitionsWithoutCounters, Managed
  <2>. QED
    BY <2>1, <2>2, <2>3, <2>4
    DEF ApplyInv, NodesDone, NodeThere, TreesDone, HyperThere, Probed, AfterNodes, AfterSlices,
        AfterHyper
<1>3. CASE PruneNode(x)
  <2>1. /\ pc = "staleNodes" /\ todo' = todo \ {x}
        /\ UNCHANGED <<env, slices, class, kai, hyper, topo, pc, at, base, applies>>
        /\ DOMAIN nodes' = DOMAIN nodes \ {x}
        /\ \A y \in DOMAIN nodes' : nodes'[y] = nodes[y]
    BY <1>3 DEF PruneNode, Without, Restrict
  <2>2. TypeOK'
    BY <2>1 DEF ApplyInv, TypeOK
  <2>3. NodesDone' /\ Pruned'
    BY <2>1
    DEF ApplyInv, NodesDone, NodeThere, Pruned, Managed, AfterNodes, AfterSlices, AfterHyper
  <2>. QED
    BY <2>1, <2>2, <2>3
    DEF ApplyInv, SlicesDone, SliceThere, TreesDone, HyperThere, Probed,
        NoPartitionsWithoutCounters, Managed, AfterSlices, AfterHyper
<1>. QED
  BY <1>1, <1>2, <1>3

\* A fault comes when the apply has returned, where only the types and the partitions
\* are spoken of.
LEMMA FaultsKeepInv ==
    ASSUME ApplyInv,
           (\E n \in DOMAIN nodes : FaultKillsNode(n)) \/ (\E s \in DOMAIN slices : FaultTaintsSlice(s))
    PROVE  ApplyInv'
<1>1. ASSUME NEW n \in DOMAIN nodes, FaultKillsNode(n)
      PROVE  ApplyInv'
  <2>1. /\ pc = "done"
        /\ UNCHANGED <<env, slices, class, kai, hyper, topo, pc, at, todo, base, applies>>
        /\ DOMAIN nodes' = DOMAIN nodes \ {n}
        /\ \A y \in DOMAIN nodes' : nodes'[y] = nodes[y]
    BY <1>1 DEF FaultKillsNode, Without, Restrict
  <2>2. TypeOK'
    BY <2>1 DEF ApplyInv, TypeOK
  <2>. QED
    BY <2>1, <2>2
    DEF ApplyInv, NodesDone, SlicesDone, TreesDone, Pruned, Probed, NoPartitionsWithoutCounters,
        Managed, AfterNodes, AfterSlices, AfterHyper
<1>2. ASSUME NEW s \in DOMAIN slices, FaultTaintsSlice(s)
      PROVE  ApplyInv'
  <2>1. /\ pc = "done"
        /\ UNCHANGED <<env, nodes, class, kai, hyper, topo, pc, at, todo, base, applies>>
        /\ slices' = [slices EXCEPT ![s].tainted = TRUE]
        /\ slices[s] \in SliceType
    BY <1>2 DEF FaultTaintsSlice, ApplyInv, TypeOK, SliceType
  <2>2. /\ DOMAIN slices' = DOMAIN slices
        /\ \A y \in DOMAIN slices : y # s => slices'[y] = slices[y]
        /\ slices'[s] \in SliceType
        /\ slices'[s].managed = slices[s].managed
    BY <2>1 DEF SliceType
  <2>3. TypeOK'
    BY <2>1, <2>2 DEF ApplyInv, TypeOK, SliceType
  <2>4. NoPartitionsWithoutCounters'
    BY <2>1, <2>2 DEF ApplyInv, NoPartitionsWithoutCounters, Managed
  <2>. QED
    BY <2>1, <2>3, <2>4
    DEF ApplyInv, NodesDone, SlicesDone, TreesDone, Pruned, Probed, AfterNodes, AfterSlices,
        AfterHyper
<1>. QED
  BY <1>1, <1>2

LEMMA StutterKeepsInv == ApplyInv /\ UNCHANGED vars => ApplyInv'
<1>. SUFFICES ASSUME ApplyInv, UNCHANGED vars
              PROVE  ApplyInv'
  OBVIOUS
<1>1. TypeOK'
  BY DEF vars, ApplyInv, TypeOK
<1>2. NodesDone' /\ SlicesDone' /\ TreesDone'
  BY DEF vars, ApplyInv, NodesDone, NodeThere, SlicesDone, SliceThere, TreesDone, HyperThere,
         AfterNodes, AfterSlices, AfterHyper
<1>3. Pruned' /\ Probed' /\ NoPartitionsWithoutCounters'
  BY DEF vars, ApplyInv, Pruned, Probed, NoPartitionsWithoutCounters, Managed
<1>. QED
  BY <1>1, <1>2, <1>3 DEF ApplyInv

LEMMA NextKeepsInv == ApplyInv /\ [Next]_vars => ApplyInv'
<1>. SUFFICES ASSUME ApplyInv, Next
              PROVE  ApplyInv'
  BY StutterKeepsInv
<1>1. CASE \E n \in todo : ApplyNodeSpec(n) \/ PruneNode(n)
  BY <1>1, NodeSpecKeepsInv, DeletionsKeepInv
<1>2. CASE \E s \in todo : ApplyResourceSlice(s) \/ PruneSlice(s)
  BY <1>2, SliceWriteKeepsInv, DeletionsKeepInv
<1>3. CASE \E h \in todo : ApplyHyperNode(h) \/ DeleteHyperNode(h)
  BY <1>3, HyperWriteKeepsInv, DeletionsKeepInv
<1>4. CASE ApplyNodeStatus \/ ApplyMIGDeviceClass \/ ApplyKAITopology
  BY <1>4, NodeStatusKeepsInv, ClassAndKAIKeepInv
<1>5. CASE \/ EnterSlices \/ ListHyperNodes \/ ListSlices \/ ListNodes \/ Return \/ CallFails
           \/ \E t \in Topologies : Begin(t)
  BY <1>5, MovingOnKeepsInv
<1>6. CASE (\E n \in DOMAIN nodes : FaultKillsNode(n)) \/ (\E s \in DOMAIN slices : FaultTaintsSlice(s))
  BY <1>6, FaultsKeepInv
<1>. QED
  BY <1>1, <1>2, <1>3, <1>4, <1>5, <1>6 DEF Next, Apply

-----------------------------------------------------------------------------

\* The inductive invariant holds of every behaviour.
THEOREM InvariantHolds == Spec => []ApplyInv
<1>1. ApplyInv /\ [Next]_vars => ApplyInv'
  BY NextKeepsInv
<1>. QED
  BY InitInv, <1>1, PTL DEF Spec

\* Every loop of ApplyTopology runs over objects of its own kind.
THEOREM ApplyTypeCorrect == Spec => []TypeOK
<1>1. ApplyInv => TypeOK
  BY DEF ApplyInv
<1>. QED
  BY <1>1, InvariantHolds, PTL

\* Partitions are never published on a cluster that would drop their counters.
THEOREM CountersOrNothing == Spec => []NoPartitionsWithoutCounters
<1>1. ApplyInv => NoPartitionsWithoutCounters
  BY DEF ApplyInv
<1>. QED
  BY <1>1, InvariantHolds, PTL

\* In the phases of Prune everything the topology asks for is in place.
LEMMA InPlaceWhenPruning ==
    ASSUME ApplyInv, pc \in {"staleSlices", "staleNodes"}
    PROVE  InPlace
BY DEF ApplyInv, InPlace, NodesDone, NodeThere, SlicesDone, SliceThere, TreesDone, HyperThere,
       AfterNodes, AfterSlices, AfterHyper

\* What ApplyTopology promises when it returns without an error: the objects gpu-sim
\* manages are those of the topology, whatever was there when it began.
THEOREM AppliesConverge == Spec => Converges
<1>1. ASSUME ApplyInv, Next, pc # "done", pc' = "done"
      PROVE  /\ InPlace
             /\ Managed(nodes) = topo.nodes
             /\ Managed(slices) = ResourceSlices(topo)
             /\ DOMAIN hyper = HyperNodes(topo)
  <2>1. pc = "staleNodes" /\ todo = {}
    BY <1>1
    DEF Next, Apply, Begin, ApplyNodeSpec, ApplyNodeStatus, EnterSlices, ApplyResourceSlice,
        ApplyMIGDeviceClass, ApplyKAITopology, ApplyHyperNode, ListHyperNodes, DeleteHyperNode,
        ListSlices, PruneSlice, ListNodes, PruneNode, Return, CallFails, FaultKillsNode,
        FaultTaintsSlice
  <2>2. InPlace
    BY <1>1, <2>1, InPlaceWhenPruning
  <2>3. /\ Managed(slices) \subseteq ResourceSlices(topo)
        /\ Managed(nodes) \subseteq topo.nodes
        /\ DOMAIN hyper \subseteq HyperNodes(topo)
    BY <1>1, <2>1 DEF ApplyInv, Pruned
  <2>4. topo.nodes \subseteq Managed(nodes)
    <3>1. \A n \in topo.nodes : n \in DOMAIN nodes /\ nodes[n].managed = TRUE
      BY <2>2 DEF InPlace
    <3>. QED
      BY <3>1 DEF Managed
  <2>5. ResourceSlices(topo) \subseteq Managed(slices)
    <3>1. \A s \in ResourceSlices(topo) : s \in DOMAIN slices /\ slices[s].managed = TRUE
      BY <2>2 DEF InPlace
    <3>. QED
      BY <3>1 DEF Managed
  <2>6. HyperNodes(topo) \subseteq DOMAIN hyper
    BY <2>2 DEF InPlace
  <2>. QED
    BY <2>2, <2>3, <2>4, <2>5, <2>6
<1>2. ApplyInv /\ [Next]_vars =>
        [pc # "done" /\ pc' = "done" =>
            /\ InPlace
            /\ Managed(nodes) = topo.nodes
            /\ Managed(slices) = ResourceSlices(topo)
            /\ DOMAIN hyper = HyperNodes(topo)]_vars
  BY <1>1
<1>. QED
  BY <1>2, InvariantHolds, PTL DEF Spec, Converges

\* "Pruning last": an apply deletes no node and no slice before everything the new
\* topology needs is in place.
THEOREM PruningLast == Spec => DeletesOnlyWhenInPlace
<1>1. ASSUME ApplyInv, Next, pc # "done"
      PROVE  \/ DOMAIN nodes \subseteq DOMAIN nodes' /\ DOMAIN slices \subseteq DOMAIN slices'
             \/ InPlace
  <2>1. CASE pc \in {"staleSlices", "staleNodes"}
    BY <1>1, <2>1, InPlaceWhenPruning
  <2>2. CASE pc \notin {"staleSlices", "staleNodes"}
    <3>1. \/ nodes' = nodes
          \/ \E n, r : nodes' = With(nodes, n, r)
          \/ \E status : nodes' = [nodes EXCEPT ![at].status = status]
      BY <1>1, <2>2
      DEF Next, Apply, cluster, Begin, ApplyNodeSpec, ApplyNodeStatus, EnterSlices,
          ApplyResourceSlice, ApplyMIGDeviceClass, ApplyKAITopology, ApplyHyperNode,
          ListHyperNodes, DeleteHyperNode, ListSlices, PruneSlice, ListNodes, PruneNode, Return,
          CallFails, FaultKillsNode, FaultTaintsSlice
    <3>2. \/ slices' = slices
          \/ \E s, r : slices' = With(slices, s, r)
      BY <1>1, <2>2
      DEF Next, Apply, cluster, Begin, ApplyNodeSpec, ApplyNodeStatus, EnterSlices,
          ApplyResourceSlice, ApplyMIGDeviceClass, ApplyKAITopology, ApplyHyperNode,
          ListHyperNodes, DeleteHyperNode, ListSlices, PruneSlice, ListNodes, PruneNode, Return,
          CallFails, FaultKillsNode, FaultTaintsSlice
    <3>. QED
      BY <3>1, <3>2 DEF With
  <2>. QED
    BY <2>1, <2>2
<1>2. ApplyInv /\ [Next]_vars =>
        [\/ pc = "done"
         \/ DOMAIN nodes \subseteq DOMAIN nodes' /\ DOMAIN slices \subseteq DOMAIN slices'
         \/ InPlace]_vars
  BY <1>1
<1>. QED
  BY <1>2, InvariantHolds, PTL DEF Spec, DeletesOnlyWhenInPlace
-----------------------------------------------------------------------------
(* A cluster shared with nodes of somebody else's.                         *)

\* No topology names a node that is not gpu-sim's, and the slices that are not gpu-sim's
\* are of those nodes.
ForeignApart ==
    /\ \A t \in Topologies : ForeignNodes \cap t.nodes = {}
    /\ \A s \in ForeignSlices : s.node \in ForeignNodes

\* A slice without the label was there before gpu-sim came.
UnmanagedIsForeign == \A s \in DOMAIN slices : slices[s].managed \/ s \in ForeignSlices

LEMMA SlicesNameNodes ==
    ASSUME NEW t, t.mig \subseteq t.nodes
    PROVE  \A s \in ResourceSlices(t) : s.node \in t.nodes
BY DEF ResourceSlices

LEMMA ForeignKept ==
    ASSUME ForeignApart, ApplyInv, ForeignUntouched, UnmanagedIsForeign, [Next]_vars
    PROVE  ForeignUntouched' /\ UnmanagedIsForeign'
<1>1. /\ topo.nodes \cap ForeignNodes = {}
      /\ ResourceSlices(topo) \cap ForeignSlices = {}
  BY SlicesNameNodes, TopologiesAssumption DEF ForeignApart, ApplyInv, TypeOK
<1>2. /\ Managed(nodes) \cap ForeignNodes = {}
      /\ Managed(slices) \cap ForeignSlices = {}
  BY DEF ForeignUntouched, Managed
<1>3. CASE UNCHANGED <<nodes, slices>>
  BY <1>3 DEF ForeignUntouched, UnmanagedIsForeign
<1>4. ASSUME NEW n, n \notin ForeignNodes, slices' = slices,
             \/ \E r : nodes' = With(nodes, n, r)
             \/ nodes' = Without(nodes, {n})
             \/ \E r : nodes' = [nodes EXCEPT ![n] = r]
      PROVE  ForeignUntouched' /\ UnmanagedIsForeign'
  <2>1. \A m \in ForeignNodes : m \in DOMAIN nodes' /\ nodes'[m] = nodes[m]
    BY <1>4 DEF With, Without, Restrict, ForeignUntouched
  <2>. QED
    BY <1>4, <2>1 DEF ForeignUntouched, UnmanagedIsForeign
<1>5. ASSUME NEW s, s \notin ForeignSlices, nodes' = nodes,
             \/ slices' = With(slices, s, [managed |-> TRUE, spec |-> topo.name, tainted |-> FALSE])
             \/ slices' = Without(slices, {s})
             \/ /\ s \in DOMAIN slices
                /\ slices' = [slices EXCEPT ![s].tainted = TRUE]
      PROVE  ForeignUntouched' /\ UnmanagedIsForeign'
  <2>1. \A x \in ForeignSlices : x \in DOMAIN slices' /\ slices'[x] = slices[x]
    BY <1>5 DEF With, Without, Restrict, ForeignUntouched
  <2>2. \A x \in DOMAIN slices' : slices'[x].managed \/ x \in ForeignSlices
    <3>1. CASE slices' = With(slices, s, [managed |-> TRUE, spec |-> topo.name, tainted |-> FALSE])
      BY <3>1 DEF With, UnmanagedIsForeign
    <3>2. CASE slices' = Without(slices, {s})
      BY <3>2 DEF Without, Restrict, UnmanagedIsForeign
    <3>3. CASE s \in DOMAIN slices /\ slices' = [slices EXCEPT ![s].tainted = TRUE]
      <4>1. slices[s] \in SliceType
        BY <3>3 DEF ApplyInv, TypeOK, SliceType
      <4>2. /\ DOMAIN slices' = DOMAIN slices
            /\ slices'[s].managed = slices[s].managed
            /\ \A x \in DOMAIN slices : x # s => slices'[x] = slices[x]
        BY <3>3, <4>1 DEF SliceType
      <4>. QED
        BY <4>2 DEF UnmanagedIsForeign
    <3>. QED
      BY <1>5, <3>1, <3>2, <3>3
  <2>3. ForeignUntouched'
    BY <1>5, <2>1 DEF ForeignUntouched
  <2>. QED
    BY <2>2, <2>3 DEF UnmanagedIsForeign
<1>6. ASSUME NEW n \in todo, ApplyNodeSpec(n) \/ PruneNode(n)
      PROVE  ForeignUntouched' /\ UnmanagedIsForeign'
  <2>1. n \notin ForeignNodes
    BY <1>1, <1>2, <1>6 DEF ApplyNodeSpec, PruneNode, ApplyInv, TypeOK, Pruned
  <2>. QED
    BY <1>4, <1>6, <2>1 DEF ApplyNodeSpec, PruneNode
<1>7. ASSUME NEW s \in todo, ApplyResourceSlice(s) \/ PruneSlice(s)
      PROVE  ForeignUntouched' /\ UnmanagedIsForeign'
  <2>1. s \notin ForeignSlices
    BY <1>1, <1>2, <1>7 DEF ApplyResourceSlice, PruneSlice, ApplyInv, TypeOK, Pruned
  <2>. QED
    BY <1>5, <1>7, <2>1 DEF ApplyResourceSlice, PruneSlice
<1>8. ASSUME ApplyNodeStatus
      PROVE  ForeignUntouched' /\ UnmanagedIsForeign'
  <2>1. at \notin ForeignNodes
    BY <1>1, <1>8 DEF ApplyNodeStatus, ApplyInv, TypeOK
  <2>2. slices' = slices /\ nodes' = [nodes EXCEPT ![at] = [nodes[at] EXCEPT !.status = topo.name]]
    BY <1>8 DEF ApplyNodeStatus
  <2>. QED
    BY <1>4, <2>1, <2>2
<1>9. ASSUME NEW n \in DOMAIN nodes, FaultKillsNode(n)
      PROVE  ForeignUntouched' /\ UnmanagedIsForeign'
  BY <1>1, <1>4, <1>9 DEF FaultKillsNode
<1>10. ASSUME NEW s \in DOMAIN slices, FaultTaintsSlice(s)
       PROVE  ForeignUntouched' /\ UnmanagedIsForeign'
  BY <1>2, <1>5, <1>10 DEF FaultTaintsSlice
<1>. QED
  BY <1>3, <1>6, <1>7, <1>8, <1>9, <1>10
  DEF Next, Apply, vars, cluster, Begin, EnterSlices, ApplyMIGDeviceClass, ApplyKAITopology,
      ApplyHyperNode, ListHyperNodes, DeleteHyperNode, ListSlices, ListNodes, Return, CallFails

\* LabelManagedBy: "nothing without it is ever touched, so a real node in a mixed cluster
\* cannot be caught by it"; for topologies that do not name a node of somebody else's.
THEOREM NothingForeignIsTouched ==
    ASSUME ForeignApart
    PROVE  Spec => []ForeignUntouched
<1>1. Init => ForeignUntouched /\ UnmanagedIsForeign
  BY DEF Init, ForeignUntouched, UnmanagedIsForeign
<1>2. ApplyInv /\ ForeignUntouched /\ UnmanagedIsForeign /\ [Next]_vars
        => ForeignUntouched' /\ UnmanagedIsForeign'
  BY ForeignKept
<1>. QED
  BY <1>1, <1>2, InvariantHolds, PTL DEF Spec

\* No step of an apply leaves a slice without its node that was not so already: the
\* scheduler never sees GPUs nowhere.
THEOREM NoGPUsNowhere ==
    ASSUME ForeignApart
    PROVE  Spec => MakesNoOrphans
<1>. DEFINE Inv == ApplyInv /\ ForeignUntouched /\ UnmanagedIsForeign
<1>1. ASSUME Inv, Next, pc # "done"
      PROVE  Orphans' \subseteq Orphans
  <2>1. CASE DOMAIN nodes \subseteq DOMAIN nodes' /\ DOMAIN slices' \subseteq DOMAIN slices
    BY <2>1 DEF Orphans
  <2>2. ASSUME NEW s \in todo, ApplyResourceSlice(s)
        PROVE  Orphans' \subseteq Orphans
    <3>1. /\ DOMAIN slices' = DOMAIN slices \cup {s}
          /\ nodes' = nodes
          /\ pc = "slices" /\ s \in ResourceSlices(topo)
      BY <1>1, <2>2 DEF ApplyResourceSlice, With, ApplyInv, TypeOK
    <3>2. s.node \in DOMAIN nodes
      BY <1>1, <3>1, SlicesNameNodes, TopologiesAssumption
      DEF ApplyInv, TypeOK, NodesDone, NodeThere, AfterNodes
    <3>. QED
      BY <3>1, <3>2 DEF Orphans
  <2>3. ASSUME NEW n \in todo, PruneNode(n)
        PROVE  Orphans' \subseteq Orphans
    <3>1. /\ pc = "staleNodes"
          /\ DOMAIN nodes' = DOMAIN nodes \ {n}
          /\ slices' = slices
      BY <2>3 DEF PruneNode, Without, Restrict
    <3>2. n \notin topo.nodes /\ n \notin ForeignNodes
      BY <1>1, <3>1 DEF ApplyInv, Pruned, ForeignUntouched, Managed
    <3>3. \A s \in DOMAIN slices : s.node # n
      <4>1. ASSUME NEW s \in DOMAIN slices, slices[s].managed
            PROVE  s.node \in topo.nodes
        BY <1>1, <3>1, <4>1, SlicesNameNodes, TopologiesAssumption DEF ApplyInv, TypeOK, Pruned, Managed
      <4>2. ASSUME NEW s \in DOMAIN slices, s \in ForeignSlices
            PROVE  s.node \in ForeignNodes
        BY <4>2 DEF ForeignApart
      <4>. QED
        BY <1>1, <3>2, <4>1, <4>2 DEF UnmanagedIsForeign
    <3>. QED
      BY <3>1, <3>3 DEF Orphans
  <2>4. ASSUME \A n \in todo : ~PruneNode(n), \A s \in todo : ~ApplyResourceSlice(s)
        PROVE  DOMAIN nodes \subseteq DOMAIN nodes' /\ DOMAIN slices' \subseteq DOMAIN slices
    <3>1. \/ nodes' = nodes
          \/ \E n, r : nodes' = With(nodes, n, r)
          \/ \E status : nodes' = [nodes EXCEPT ![at].status = status]
      BY <1>1, <2>4
      DEF Next, Apply, cluster, Begin, ApplyNodeSpec, ApplyNodeStatus, EnterSlices,
          ApplyMIGDeviceClass, ApplyKAITopology, ApplyHyperNode,
          ListHyperNodes, DeleteHyperNode, ListSlices, PruneSlice, ListNodes, Return,
          CallFails, FaultKillsNode, FaultTaintsSlice
    <3>2. \/ slices' = slices
          \/ \E s : slices' = Without(slices, {s})
      BY <1>1, <2>4
      DEF Next, Apply, cluster, Begin, ApplyNodeSpec, ApplyNodeStatus, EnterSlices,
          ApplyMIGDeviceClass, ApplyKAITopology, ApplyHyperNode,
          ListHyperNodes, DeleteHyperNode, ListSlices, PruneSlice, ListNodes, Return,
          CallFails, FaultKillsNode, FaultTaintsSlice
    <3>. QED
      BY <3>1, <3>2 DEF With, Without, Restrict
  <2>. QED
    BY <2>1, <2>2, <2>3, <2>4
<1>2. Inv /\ [Next]_vars => [pc = "done" \/ Orphans' \subseteq Orphans]_vars
  BY <1>1
<1>3. Init => ForeignUntouched /\ UnmanagedIsForeign
  BY DEF Init, ForeignUntouched, UnmanagedIsForeign
<1>4. ApplyInv /\ ForeignUntouched /\ UnmanagedIsForeign /\ [Next]_vars
        => ForeignUntouched' /\ UnmanagedIsForeign'
  BY ForeignKept
<1>. QED
  BY <1>2, <1>3, <1>4, InvariantHolds, PTL DEF Spec, MakesNoOrphans
=============================================================================
