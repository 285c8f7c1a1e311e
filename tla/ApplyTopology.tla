--------------------------- MODULE ApplyTopology ---------------------------
(***************************************************************************)
(* Making the cluster match a topology file (cluster/topology.go).         *)
(*                                                                         *)
(* ApplyTopology writes the nodes, checks the feature gate MIG needs,      *)
(* writes the ResourceSlices, the DeviceClass and the two schedulers'      *)
(* topology objects, and prunes what an earlier topology left.  Every      *)
(* write and every list is an API call of its own that may fail, and a run *)
(* may be cut off between any two of them; there is no transaction and no  *)
(* rollback, only the next apply.  Between applies a scenario's faults     *)
(* delete nodes and taint slices.                                          *)
(*                                                                         *)
(* A read-modify-write under a resource version is one step here: it       *)
(* succeeds on what it read, or it is retried, or it fails (CallFails).    *)
(***************************************************************************)
EXTENDS Naturals, FiniteSets, Functions

CONSTANTS
    Topologies,     \* [name, nodes, mig, chunks, groups]: the nodes, those that
                    \* are MIG-enabled, the device slices each of these needs,
                    \* and the HyperNodes above the hosts
    ForeignNodes,   \* nodes gpu-sim did not create
    ForeignSlices,  \* slices gpu-sim did not create: [node, part]
    Environments,   \* [gate, kai, volcano]: what the cluster offers
    MaxApplies      \* bound on the applies of one behaviour

ASSUME TopologiesAssumption ==
    /\ \A t \in Topologies : /\ t.nodes # {}
                             /\ t.mig \subseteq t.nodes
                             /\ t.chunks \in Nat \ {0}
    /\ \A e \in Environments : {e.gate, e.kai, e.volcano} \subseteq BOOLEAN
    /\ MaxApplies \in Nat

\* generate.ResourceSlices: a whole-GPU node has one slice, a MIG node one for
\* the counters and as many as its partitions fill.
ResourceSlices(t) ==
    {[node |-> n, part |-> <<"gpu">>] : n \in t.nodes \ t.mig} \cup
    {[node |-> n, part |-> <<"counters">>] : n \in t.mig} \cup
    {[node |-> n, part |-> <<"mig", i>>] : n \in t.mig, i \in 0..(t.chunks - 1)}

\* generate.VolcanoHyperNodes: one HyperNode per host, and the groups above.
HyperNodes(t) == {<<"host", n>> : n \in t.nodes} \cup t.groups

VARIABLES
    env,        \* what this cluster offers, fixed
    nodes,      \* name -> [managed, spec, status] for the nodes that exist
    slices,     \* [node, part] -> [managed, spec, tainted] for the slices that exist
    class,      \* does the MIG DeviceClass exist?
    kai,        \* KAI Topology objects, by name
    hyper,      \* HyperNodes that exist, with the topology that wrote each
    topo,       \* the topology of the apply in progress, or of the last one
    pc,         \* the phase of ApplyTopology
    at,         \* the node ApplyNode is working on
    todo,       \* what is left of the loop of that phase
    base,       \* history: the HyperNodes that existed when this apply began
    applies     \* applies begun

cluster == <<nodes, slices, class, kai, hyper>>
vars    == <<env, nodes, slices, class, kai, hyper, topo, pc, at, todo, base, applies>>

Foreign == "foreign"
Unset   == "unset"
Idle    == {"idle", "done", "failed"}

Without(f, S) == Restrict(f, DOMAIN f \ S)
With(f, x, v) == [y \in DOMAIN f \cup {x} |-> IF y = x THEN v ELSE f[y]]

Init ==
    /\ env \in Environments
    /\ nodes = [n \in ForeignNodes |-> [managed |-> FALSE, spec |-> Foreign, status |-> Foreign]]
    /\ slices = [s \in ForeignSlices |-> [managed |-> FALSE, spec |-> Foreign, tainted |-> FALSE]]
    /\ class = FALSE
    /\ kai = {}
    /\ hyper = <<>>
    /\ topo \in Topologies
    /\ pc = "idle"
    /\ at = Unset
    /\ todo = {}
    /\ base = {}
    /\ applies = 0

-----------------------------------------------------------------------------

\* topology.Load and Resolve succeed; nothing has been written yet.
Begin(t) ==
    /\ pc \in Idle
    /\ applies < MaxApplies
    /\ applies' = applies + 1
    /\ topo' = t
    /\ todo' = t.nodes
    /\ pc' = "nodes"
    /\ base' = DOMAIN hyper
    /\ UNCHANGED <<env, cluster, at>>

\* Slips: the second write is left out; it goes to the node before.
ApplyNodeSpecOnly(n) ==
    /\ pc = "nodes"
    /\ n \in todo
    /\ nodes' = With(nodes, n, [managed |-> TRUE, spec |-> topo.name, status |-> Unset])
    /\ todo' = todo \ {n}
    /\ at' = n
    /\ UNCHANGED <<env, slices, class, kai, hyper, topo, pc, base, applies>>

ApplyNodeSpecBehind(n) ==
    /\ pc = "nodes"
    /\ n \in todo
    /\ nodes' = With(nodes, n, [managed |-> TRUE, spec |-> topo.name, status |-> Unset])
    /\ todo' = todo \ {n}
    /\ pc' = "status"
    /\ UNCHANGED <<env, slices, class, kai, hyper, topo, at, base, applies>>

\* ApplyNode, first write: create, or replace labels and taints wholesale.  The
\* API takes no status on either.
ApplyNodeSpec(n) ==
    /\ pc = "nodes"
    /\ n \in todo
    /\ nodes' = With(nodes, n, [managed |-> TRUE, spec |-> topo.name,
                                status |-> IF n \in DOMAIN nodes THEN nodes[n].status
                                                                 ELSE Unset])
    /\ todo' = todo \ {n}
    /\ at' = n
    /\ pc' = "status"
    /\ UNCHANGED <<env, slices, class, kai, hyper, topo, base, applies>>

\* ApplyNode, second write: the capacity, which only the status endpoint takes.
ApplyNodeStatus ==
    /\ pc = "status"
    /\ nodes' = [nodes EXCEPT ![at].status = topo.name]
    /\ pc' = "nodes"
    /\ UNCHANGED <<env, slices, class, kai, hyper, topo, at, todo, base, applies>>

\* Slip: the gate is not checked.
EnterSlicesUnchecked ==
    /\ pc = "nodes"
    /\ todo = {}
    /\ pc' = "slices"
    /\ todo' = ResourceSlices(topo)
    /\ UNCHANGED <<env, cluster, topo, at, base, applies>>

\* CheckPartitionableDevices, for a topology with MIG, then on to the slices: a
\* cluster that drops the counters of the probe is refused.
EnterSlices ==
    /\ pc = "nodes"
    /\ todo = {}
    /\ IF topo.mig # {} /\ ~env.gate
       THEN pc' = "failed" /\ UNCHANGED todo
       ELSE pc' = "slices" /\ todo' = ResourceSlices(topo)
    /\ UNCHANGED <<env, cluster, topo, at, base, applies>>

\* ApplyResourceSlice: create, or adopt by name; the new spec has no taints.
ApplyResourceSlice(s) ==
    /\ pc = "slices"
    /\ s \in todo
    /\ slices' = With(slices, s, [managed |-> TRUE, spec |-> topo.name, tainted |-> FALSE])
    /\ todo' = todo \ {s}
    /\ UNCHANGED <<env, nodes, class, kai, hyper, topo, pc, at, base, applies>>

\* ApplyMIGDeviceClass, when there is MIG.
ApplyMIGDeviceClass ==
    /\ pc = "slices"
    /\ todo = {}
    /\ class' = (class \/ topo.mig # {})
    /\ pc' = "kai"
    /\ UNCHANGED <<env, nodes, slices, kai, hyper, topo, at, todo, base, applies>>

\* ApplyKAITopology.  Without KAI's CRD the read is answered 404, which looks
\* like a missing object, and the create that follows is refused.
ApplyKAITopology ==
    /\ pc = "kai"
    /\ IF env.kai
       THEN /\ kai' = kai \cup {topo.name}
            /\ pc' = "hyper"
            /\ todo' = HyperNodes(topo)
       ELSE pc' = "failed" /\ UNCHANGED <<kai, todo>>
    /\ UNCHANGED <<env, nodes, slices, class, hyper, topo, at, base, applies>>

\* applyHyperNodes, one get and create or update; without Volcano's CRD the same
\* 404 takes the IsNotFound branch, and the create is refused.
ApplyHyperNode(h) ==
    /\ pc = "hyper"
    /\ h \in todo
    /\ IF env.volcano
       THEN /\ hyper' = With(hyper, h, topo.name)
            /\ todo' = todo \ {h}
            /\ UNCHANGED pc
       ELSE pc' = "failed" /\ UNCHANGED <<hyper, todo>>
    /\ UNCHANGED <<env, nodes, slices, class, kai, topo, at, base, applies>>

\* applyHyperNodes lists the managed HyperNodes and drops those of an earlier
\* topology.
ListHyperNodes ==
    /\ pc = "hyper"
    /\ todo = {}
    /\ todo' = DOMAIN hyper \ HyperNodes(topo)
    /\ pc' = "staleHyper"
    /\ UNCHANGED <<env, cluster, topo, at, base, applies>>

DeleteHyperNode(h) ==
    /\ pc = "staleHyper"
    /\ h \in todo
    /\ hyper' = Without(hyper, {h})
    /\ todo' = todo \ {h}
    /\ UNCHANGED <<env, nodes, slices, class, kai, topo, pc, at, base, applies>>

\* Slip: the label is not asked for.
Everything(f) == DOMAIN f

Managed(f) == {x \in DOMAIN f : f[x].managed}

\* Slip: a slice is kept while its node is.
ListSlicesByNode ==
    /\ pc = "staleHyper"
    /\ todo = {}
    /\ todo' = {s \in Managed(slices) : s.node \notin topo.nodes}
    /\ pc' = "staleSlices"
    /\ UNCHANGED <<env, cluster, topo, at, base, applies>>

\* Prune lists the managed slices; by name, so that a node that changed shape
\* loses the slices of its old one.
ListSlices ==
    /\ pc = "staleHyper"
    /\ todo = {}
    /\ todo' = Managed(slices) \ ResourceSlices(topo)
    /\ pc' = "staleSlices"
    /\ UNCHANGED <<env, cluster, topo, at, base, applies>>

PruneSlice(s) ==
    /\ pc = "staleSlices"
    /\ s \in todo
    /\ slices' = Without(slices, {s})
    /\ todo' = todo \ {s}
    /\ UNCHANGED <<env, nodes, class, kai, hyper, topo, pc, at, base, applies>>

\* Slip: the nodes are pruned, and the slices forgotten.
ListNodesFirst ==
    /\ pc = "staleSlices"
    /\ todo' = Managed(nodes) \ topo.nodes
    /\ pc' = "staleNodes"
    /\ UNCHANGED <<env, cluster, topo, at, base, applies>>

\* Prune, second half: the managed nodes.
ListNodes ==
    /\ pc = "staleSlices"
    /\ todo = {}
    /\ todo' = Managed(nodes) \ topo.nodes
    /\ pc' = "staleNodes"
    /\ UNCHANGED <<env, cluster, topo, at, base, applies>>

PruneNode(n) ==
    /\ pc = "staleNodes"
    /\ n \in todo
    /\ nodes' = Without(nodes, {n})
    /\ todo' = todo \ {n}
    /\ UNCHANGED <<env, slices, class, kai, hyper, topo, pc, at, base, applies>>

Return ==
    /\ pc = "staleNodes"
    /\ todo = {}
    /\ pc' = "done"
    /\ UNCHANGED <<env, cluster, topo, at, todo, base, applies>>

\* A call fails for good, or the process is stopped: ApplyTopology returns the
\* error and leaves everything as it is.
CallFails ==
    /\ pc \notin Idle
    /\ pc' = "failed"
    /\ todo' = {}
    /\ UNCHANGED <<env, cluster, topo, at, base, applies>>

-----------------------------------------------------------------------------
(* What a scenario's faults leave behind for the next apply.               *)

\* cluster.DeleteNode: the node goes, its slices stay.
FaultKillsNode(n) ==
    /\ pc = "done"
    /\ n \in DOMAIN nodes \cap topo.nodes
    /\ nodes' = Without(nodes, {n})
    /\ UNCHANGED <<env, slices, class, kai, hyper, topo, pc, at, todo, base, applies>>

\* cluster.TaintDevices, on one slice; a counter slice has nothing to taint.
FaultTaintsSlice(s) ==
    /\ pc = "done"
    /\ s \in Managed(slices)
    /\ s.part # <<"counters">>
    /\ slices' = [slices EXCEPT ![s].tainted = TRUE]
    /\ UNCHANGED <<env, nodes, class, kai, hyper, topo, pc, at, todo, base, applies>>

-----------------------------------------------------------------------------

Apply ==
    \/ \E n \in todo : ApplyNodeSpec(n) \/ PruneNode(n)
    \/ \E s \in todo : ApplyResourceSlice(s) \/ PruneSlice(s)
    \/ \E h \in todo : ApplyHyperNode(h) \/ DeleteHyperNode(h)
    \/ ApplyNodeStatus \/ EnterSlices \/ ApplyMIGDeviceClass \/ ApplyKAITopology
    \/ ListHyperNodes \/ ListSlices \/ ListNodes \/ Return

Next ==
    \/ \E t \in Topologies : Begin(t)
    \/ Apply
    \/ CallFails
    \/ \E n \in DOMAIN nodes : FaultKillsNode(n)
    \/ \E s \in DOMAIN slices : FaultTaintsSlice(s)

Spec == Init /\ [][Next]_vars

-----------------------------------------------------------------------------
(* Properties *)

Names == ForeignNodes \cup UNION {t.nodes : t \in Topologies}
SliceNames == ForeignSlices \cup UNION {ResourceSlices(t) : t \in Topologies}
HyperNames == UNION {HyperNodes(t) : t \in Topologies}
Specs == {t.name : t \in Topologies} \cup {Foreign}

\* Type invariant: every loop of ApplyTopology runs over objects of its own kind.
TypeOK ==
    /\ env \in Environments
    /\ \A n \in DOMAIN nodes :
           n \in Names /\ nodes[n] \in [managed : BOOLEAN, spec : Specs, status : Specs \cup {Unset}]
    /\ \A s \in DOMAIN slices :
           s \in SliceNames /\ slices[s] \in [managed : BOOLEAN, spec : Specs, tainted : BOOLEAN]
    /\ class \in BOOLEAN
    /\ kai \subseteq Specs
    /\ \A h \in DOMAIN hyper : h \in HyperNames /\ hyper[h] \in Specs
    /\ topo \in Topologies
    /\ applies \in 0..MaxApplies
    /\ pc \in Idle \cup {"nodes", "status", "slices", "kai", "hyper",
                      "staleHyper", "staleSlices", "staleNodes"}
    /\ pc \in {"nodes", "status"} => todo \subseteq topo.nodes
    /\ pc = "status"             => at \in topo.nodes
    /\ pc = "slices"             => todo \subseteq ResourceSlices(topo)
    /\ pc = "hyper"              => todo \subseteq HyperNodes(topo)
    /\ pc = "staleHyper"         => todo \subseteq DOMAIN hyper
    /\ pc = "staleSlices"        => todo \subseteq DOMAIN slices
    /\ pc = "staleNodes"         => todo \subseteq DOMAIN nodes

\* Everything the topology asks for is there as it asks for it.
InPlace ==
    /\ \A n \in topo.nodes : /\ n \in DOMAIN nodes
                             /\ nodes[n] = [managed |-> TRUE, spec |-> topo.name,
                                            status |-> topo.name]
    /\ \A s \in ResourceSlices(topo) :
           /\ s \in DOMAIN slices
           /\ slices[s] = [managed |-> TRUE, spec |-> topo.name, tainted |-> FALSE]
    /\ topo.mig # {} => class
    /\ topo.name \in kai
    /\ \A h \in HyperNodes(topo) : h \in DOMAIN hyper /\ hyper[h] = topo.name

\* "makes the cluster match it" (ApplyTopology): when it returns success, the
\* objects gpu-sim manages are those of the topology, all of them and no others,
\* whatever earlier applies were cut off halfway and whatever faults deleted or
\* tainted since.  Stated of the step that returns: later faults are faults.
Converges ==
    [][pc # "done" /\ pc' = "done" =>
          /\ InPlace
          /\ Managed(nodes) = topo.nodes
          /\ Managed(slices) = ResourceSlices(topo)
          /\ DOMAIN hyper = HyperNodes(topo)]_vars

\* Partitions are never published on a cluster that would drop their counters
\* (CheckPartitionableDevices): "a simulator that lies is worse than one that
\* refuses".
NoPartitionsWithoutCounters ==
    \A s \in Managed(slices) : s.part # <<"gpu">> => env.gate

\* "Pruning last" (ApplyTopology): no node and no slice is deleted by an apply
\* before everything the new topology needs is in place.
DeletesOnlyWhenInPlace ==
    [][\/ pc = "done"
       \/ DOMAIN nodes \subseteq DOMAIN nodes' /\ DOMAIN slices \subseteq DOMAIN slices'
       \/ InPlace]_vars

Orphans == {s \in DOMAIN slices : s.node \notin DOMAIN nodes}

\* The scheduler never sees "GPUs nowhere": no step of an apply leaves a slice
\* without its node that was not so already (a fault may have killed the node).
MakesNoOrphans == [][pc = "done" \/ Orphans' \subseteq Orphans]_vars

\* LabelManagedBy: "nothing without it is ever touched, so a real node in a mixed
\* cluster cannot be caught by it".
ForeignUntouched ==
    /\ \A n \in ForeignNodes : /\ n \in DOMAIN nodes
                               /\ nodes[n] = [managed |-> FALSE, spec |-> Foreign, status |-> Foreign]
    /\ \A s \in ForeignSlices : /\ s \in DOMAIN slices
                                /\ slices[s] = [managed |-> FALSE, spec |-> Foreign, tainted |-> FALSE]

\* ApplyTopology's comment on Prune: "a failure above leaves the previous cluster
\* intact rather than a half-deleted one".  A failure before Prune has not taken
\* away any HyperNode of the tree that was there.
FailureKeepsTree ==
    [][pc' = "failed" /\ pc \notin {"staleSlices", "staleNodes"} \cup Idle
          => base \subseteq DOMAIN hyper]_vars

\* applyHyperNodes: "a cluster running only KAI should not fail to build because a
\* scheduler it does not have is not installed".  Without Volcano the step that
\* applies a HyperNode does not end the apply.
VolcanoIsOptional == [][(\E h \in todo : ApplyHyperNode(h)) => pc' # "failed"]_vars

\* ApplyKAITopology: without KAI's CRD, "report the reason rather than failing the
\* whole run".
KAIIsOptional == [][ApplyKAITopology => pc' # "failed"]_vars

\* ApplyResourceSlice: adopting fake-gpu-operator's slice by name "avoids leaving
\* two slices describing the same node".  A node is advertised as whole GPUs or as
\* partitions once an apply has returned, not both.
OneDescriptionPerNode ==
    pc = "done" =>
        \A s, r \in DOMAIN slices :
            s.node = r.node /\ s.part = <<"gpu">> => r.part = <<"gpu">>
=============================================================================
