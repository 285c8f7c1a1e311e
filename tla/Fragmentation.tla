--------------------------- MODULE Fragmentation ---------------------------
(***************************************************************************)
(* The cluster-wide fragmentation report (cluster/fragmentation.go), read  *)
(* back from what generate/migslice.go and resourceslice.go published and  *)
(* from the claims.                                                        *)
(*                                                                         *)
(* A MIG node publishes its partitions in slices of bounded size, plus one *)
(* slice for the counters; another node publishes its GPUs in one slice.   *)
(* The report knows nothing of the topology file: it recovers geometry and *)
(* profiles from the slices, and takes a device as allocated when some     *)
(* claim in the cluster names it.  The name of a partition says GPU,       *)
(* profile and offset, and not the node (mig.deviceName); that of a whole  *)
(* GPU is made from the node's (gpuid.DeviceName).                         *)
(*                                                                         *)
(* Nodes are numbered in the order of their names, which is the order in   *)
(* which their slices are listed.  A claim is [node, device, pod]: where   *)
(* and what was allocated, and the pod that owns it.                       *)
(***************************************************************************)
EXTENDS MigGeometry, SequencesExt

CONSTANTS
    Nodes,              \* the nodes of the topology, by number
    GPUs,               \* GPU indexes of a node
    Configs,            \* the topologies considered: node -> its pool's mig
                        \* settings [enabled, profiles], the profiles by name
    MaxDevicesPerSlice, \* the API's limit, 64
    Foreign             \* owner of the claims that are not the scenario's

ASSUME ConfigsAssumption ==
    /\ MaxDevicesPerSlice \in Nat \ {0}
    /\ IsFiniteSet(Nodes) /\ Nodes \subseteq Nat
    /\ IsFiniteSet(GPUs) /\ GPUs # {} /\ GPUs = 0..(Cardinality(GPUs) - 1)
    /\ \A c \in Configs : \A n \in Nodes : c[n].enabled => ValidSelection(c[n].profiles)

\* The tables of the GPUs (datacenterShape, geometries): no two profiles have a name in
\* common, and no two have both their sizes in common.
ASSUME TableAssumption ==
    /\ Profiles \in Seq(ProfileSet)
    /\ \A i, j \in DOMAIN Profiles :
          \/ Profiles[i].name = Profiles[j].name
          \/ Profiles[i].mem = Profiles[j].mem /\ Profiles[i].sm = Profiles[j].sm
          => i = j

VARIABLES
    mig,        \* the configuration of each node
    claims      \* allocations: [node, device, pod]

vars == <<mig, claims>>

-----------------------------------------------------------------------------
(* Publication                                                             *)

IsPartition(d) == "profile" \in DOMAIN d
DeviceName(d) ==
    IF IsPartition(d) THEN <<d.gpu, d.profile.name, d.start>> ELSE <<d.node, d.gpu>>

MigNodes == {n \in Nodes : mig[n].enabled}

\* The profiles of a MIG node.
Selected(n) == SelectProfiles(mig[n].profiles)

\* Resolve and PartitionsFor: what GPU g publishes, profile by profile as they are
\* listed in the pool.
GPUPartitions(ps, g) ==
    FlattenSeq([i \in DOMAIN ps |->
        [j \in 1..(MemorySlices \div ps[i].mem) |->
            [gpu |-> g, profile |-> ps[i], start |-> (j - 1) * ps[i].mem]]])

\* The devices of a node: GPU by GPU its partitions, or the GPU as a whole.
GPUList == [i \in 1..Cardinality(GPUs) |-> i - 1]
NodeDevices(n) ==
    IF mig[n].enabled
    THEN FlattenSeq([i \in DOMAIN GPUList |-> GPUPartitions(Selected(n), GPUList[i])])
    ELSE [i \in DOMAIN GPUList |-> [gpu |-> GPUList[i], node |-> n]]

\* Slip: a last chunk that is not full is dropped.
ChunkDevicesFloor(ds, size) ==
    [i \in 1..(Len(ds) \div size) |-> SubSeq(ds, (i - 1) * size + 1, i * size)]

ChunkDevices(ds, size) ==
    [i \in 1..((Len(ds) + size - 1) \div size) |->
        SubSeq(ds, (i - 1) * size + 1, Least(i * size, Len(ds)))]

\* migSlices: the counter slice first, then the chunks; each of them declares the
\* same total.
MigSlices(n) ==
    LET chunks == ChunkDevices(NodeDevices(n), MaxDevicesPerSlice)
        total  == 1 + Len(chunks)
    IN  << [node |-> n, count |-> total, counters |-> GPUs, devices |-> <<>>] >> \o
        [i \in DOMAIN chunks |->
            [node |-> n, count |-> total, counters |-> {}, devices |-> chunks[i]]]

\* ResourceSlices, those of one node: as above, or one slice without counters.
Slices(n) ==
    IF mig[n].enabled THEN ToSet(MigSlices(n))
    ELSE {[node |-> n, count |-> 1, counters |-> {}, devices |-> NodeDevices(n)]}

-----------------------------------------------------------------------------
(* The report                                                              *)

\* allocatedDeviceNames: the names in every claim of the cluster.
AllocatedDeviceNames == {DeviceName(c.device) : c \in claims}

\* absorb: what the slices of one node add up to.
CounterSets(n) == UNION {s.counters : s \in Slices(n)}
Absorbed(n, g) == {d \in UNION {ToSet(s.devices) : s \in Slices(n)} : d.gpu = g}

\* sort.Slice: by memory, then by SM slices.
Smaller(p, q) == p.mem < q.mem \/ (p.mem = q.mem /\ p.sm < q.sm)

\* Slip: largest first.
DistinctProfilesReversed(ds) ==
    LET ps == {d.profile : d \in ds}
    IN  [i \in 1..Cardinality(ps) |->
            CHOOSE p \in ps : Cardinality({q \in ps : Smaller(p, q)}) = i - 1]

\* distinctProfiles: smallest first, each after all that are smaller.
DistinctProfiles(ds) ==
    LET ps == {d.profile : d \in ds}
    IN  [i \in 1..Cardinality(ps) |->
            CHOOSE p \in ps : Cardinality({q \in ps : Smaller(q, p)}) = i - 1]

\* analyse, for one GPU of one node.
AnalyseGPU(n, g) ==
    LET ds == Absorbed(n, g)
    IN  Analyse(DistinctProfiles(ds),
                StateFromAllocated({d \in ds : DeviceName(d) \in AllocatedDeviceNames}))

\* Fragmentation: every node that published counters, each of its GPUs.
ReportedNodes == {n \in Nodes : CounterSets(n) # {}}
Report == [n \in ReportedNodes |-> [g \in CounterSets(n) |-> AnalyseGPU(n, g)]]

-----------------------------------------------------------------------------
(* Claims come and go (external: the DRA allocator, see MigAllocation).    *)

On(n, g) == {c.device : c \in {e \in claims : e.node = n /\ e.device.gpu = g}}

\* A whole GPU that is free, or a partition that the counters have room for.
Free(n, d) ==
    IF IsPartition(d)
    THEN LET st == StateFromAllocated(On(n, d.gpu))
         IN  SlicesOf(d) \cap st.used = {} /\ d.profile.sm <= FreeSM(st)
    ELSE On(n, d.gpu) = {}

Allocate(n, d, pod) ==
    /\ Free(n, d)
    /\ claims' = claims \cup {[node |-> n, device |-> d, pod |-> pod]}
    /\ UNCHANGED mig

Release(c) ==
    /\ claims' = claims \ {c}
    /\ UNCHANGED mig

Init ==
    /\ mig \in Configs
    /\ claims = {}

Next ==
    \/ \E n \in Nodes : \E d \in ToSet(NodeDevices(n)) : Allocate(n, d, Foreign)
    \/ \E c \in claims : Release(c)

Spec == Init /\ [][Next]_vars

-----------------------------------------------------------------------------
(* Properties *)

\* The scheduler takes the slices of a node as one inventory: every slice is
\* within the API's limit and declares how many there are, and every instance of
\* every profile the pool names (every profile there is, when it names none) is in
\* exactly one of them, under a name of its own on that node.
PoolsAreComplete ==
    \A n \in MigNodes :
        LET ss    == Slices(n)
            names == ToSet(mig[n].profiles)
            all   == SumFunction([s \in ss |-> Len(s.devices)])
            due   == {d \in UNION {PartitionsFor(g) : g \in GPUs} :
                          names = {} \/ d.profile.name \in names}
        IN  /\ \A s \in ss : /\ s.count = Cardinality(ss)
                             /\ Len(s.devices) <= MaxDevicesPerSlice
                             /\ s.counters = {} \/ s.devices = <<>>
            /\ UNION {ToSet(s.devices) : s \in ss} = due
            /\ all = Cardinality({DeviceName(d) : d \in due})

\* "the report describes the cluster as it is" (Fragmentation): the nodes are the
\* MIG nodes, and for each GPU the free capacity and every profile's figures are
\* those of the partitions allocated on that very GPU; the largest allocatable
\* profile is the largest of those that still fit.
ReportDescribesCluster ==
    /\ ReportedNodes = MigNodes
    /\ \A n \in MigNodes : \A g \in GPUs :
           LET st   == StateFromAllocated(On(n, g))
               rep  == AnalyseGPU(n, g)
               ps   == ToSet(Selected(n))
               open == {p \in ps : Actual(p, st) > 0}
           IN  /\ rep.freeMemory = FreeMemory(st)
               /\ rep.freeSM = FreeSM(st)
               /\ \A p \in ps : \E i \in DOMAIN rep.fits :
                      rep.fits[i] = [ideal |-> Ideal(p, st), actual |-> Actual(p, st),
                                     lost |-> Lost(p, st)]
               /\ TotalLost(rep) = SumFunction([p \in ps |-> Lost(p, st)])
               /\ IF open = {}
                  THEN rep.largest = Nothing
                  ELSE \E p \in open : /\ rep.largest = p.name
                                       /\ \A q \in open : q.mem <= p.mem
=============================================================================
