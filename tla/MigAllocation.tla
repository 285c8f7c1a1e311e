--------------------------- MODULE MigAllocation ---------------------------
(***************************************************************************)
(* Allocation of MIG partitions through the counters gpu-sim publishes.    *)
(*                                                                         *)
(* generate/migslice.go publishes, for each GPU, one counter set (one unit *)
(* per memory position and a plain pool of SM slices) and every partition  *)
(* as a device that consumes counters.  The allocator is Kubernetes' (DRA  *)
(* partitionable devices), external: it hands out any device whose         *)
(* counters are still there, and puts them back when the claim goes.       *)
(* gpu-sim never says that two partitions exclude each other: the counters *)
(* have to make it so.  Package mig then reports on the result.            *)
(***************************************************************************)
EXTENDS MigGeometry

CONSTANTS
    GPUs,       \* the GPUs of the node
    NoPartition \* the owner of a free memory slice, in the abstraction

VARIABLES
    allocated,  \* the partitions some claim holds
    remaining   \* GPU -> [mem: position -> 0..1, sm: Nat], the counters left

vars == <<allocated, remaining>>

Devices == UNION {PartitionsFor(g) : g \in GPUs}

ASSUME NoPartitionAssumption == NoPartition \notin Devices

\* The counter set of one idle GPU.
CounterSetFor == [mem |-> [i \in Positions |-> 1], sm |-> SMSlices]

\* Slip: the last memory slice of the partition is forgotten.
ConsumesCountersShort(d) ==
    [mem |-> [i \in Positions |-> IF i \in SlicesOf(d) /\ i + 1 \in SlicesOf(d)
                                  THEN 1 ELSE 0],
     sm  |-> d.profile.sm]

\* The counters a published device consumes from the set of its GPU.
ConsumesCounters(d) ==
    [mem |-> [i \in Positions |-> IF i \in SlicesOf(d) THEN 1 ELSE 0],
     sm  |-> d.profile.sm]

\* Slip: the partition does not ask for SM slices.
FitsInMemory(d) ==
    \A i \in Positions : ConsumesCounters(d).mem[i] <= remaining[d.gpu].mem[i]

Fits(d) ==
    LET left == remaining[d.gpu]
        need == ConsumesCounters(d)
    IN  /\ \A i \in Positions : need.mem[i] <= left.mem[i]
        /\ need.sm <= left.sm

-----------------------------------------------------------------------------

Init ==
    /\ allocated = {}
    /\ remaining = [g \in GPUs |-> CounterSetFor]

\* The scheduler allocates d to a claim.
Allocate(d) ==
    /\ d \notin allocated
    /\ Fits(d)
    /\ allocated' = allocated \cup {d}
    /\ remaining' = [remaining EXCEPT ![d.gpu] =
           [mem |-> [i \in Positions |-> @.mem[i] - ConsumesCounters(d).mem[i]],
            sm  |-> @.sm - ConsumesCounters(d).sm]]

\* Slip: the SM slices of a claim are not put back.
ReleaseMemoryOnly(d) ==
    /\ d \in allocated
    /\ allocated' = allocated \ {d}
    /\ remaining' = [remaining EXCEPT ![d.gpu].mem =
           [i \in Positions |-> @[i] + ConsumesCounters(d).mem[i]]]

\* The claim that holds d is deleted.
Release(d) ==
    /\ d \in allocated
    /\ allocated' = allocated \ {d}
    /\ remaining' = [remaining EXCEPT ![d.gpu] =
           [mem |-> [i \in Positions |-> @.mem[i] + ConsumesCounters(d).mem[i]],
            sm  |-> @.sm + ConsumesCounters(d).sm]]

Next == \E d \in Devices : Allocate(d) \/ Release(d)

Spec == Init /\ [][Next]_vars

-----------------------------------------------------------------------------
(* Properties *)

\* Type invariant: the counters of a GPU stay within what it published
\* (counterSetFor), and only published partitions are held.
TypeOK ==
    /\ allocated \subseteq Devices
    /\ remaining \in [GPUs -> [mem : [Positions -> 0..1], sm : 0..SMSlices]]

On(g) == {d \in allocated : d.gpu = g}

\* Two allocated partitions never compete for memory: the per-position
\* counters are what rules out every pair that Overlaps describes with
\* interval arithmetic, across profiles of different sizes.
NoOverlap == \A d, e \in allocated : d # e => ~Overlaps(d, e)

\* A GPU never runs more instances than it has SM slices, however many memory
\* slices it has: this is how seven 1g instances cap eight memory slices
\* (the comment on Placements).
InstanceCap == \A g \in GPUs : Cardinality(On(g)) <= SMSlices

\* Reference for Actual: the most instances of p that the allocator could still
\* hand out on g one after another.
FurtherInstances(g, p) ==
    LET open == {s \in Placements(p) : Fits([gpu |-> g, profile |-> p, start |-> s])}
    IN  Max({Cardinality(S) : S \in {T \in SUBSET open :
                                        Cardinality(T) * p.sm <= remaining[g].sm}})

\* After any sequence of claims the report (fragmentation.go's Analyse, which
\* counts positions and instances) and the counters (which the allocator goes
\* by) describe the same GPU: what is left is the counter set minus what the
\* allocated partitions cover, the Actual column is exactly what the allocator
\* could still hand out, and on an idle GPU that is MaxInstances, the table of
\* profiles.go.
CountersMatchReport ==
    \A g \in GPUs :
        LET st == StateFromAllocated(On(g))
        IN  /\ {i \in Positions : remaining[g].mem[i] = 0} = st.used
            /\ remaining[g].sm = FreeSM(st)
            /\ \A p \in ProfileSet :
                  /\ Actual(p, st) = FurtherInstances(g, p)
                  /\ On(g) = {} => MaxInstances(p) = FurtherInstances(g, p)

\* The allocated partitions of g packed from offset 0, largest first.
Before(d, e) == \/ d.profile.mem > e.profile.mem
                \/ d.profile.mem = e.profile.mem /\ d.start < e.start
Repacked(g) ==
    {[gpu     |-> g,
      profile |-> d.profile,
      start   |-> SumFunction([e \in {x \in On(g) : Before(x, d)} |-> e.profile.mem])]
        : d \in On(g)}

\* Lost is what "a perfect defragmentation would recover" (ProfileFit.Lost):
\* repacking gives another legal layout of the same instances in which the
\* Ideal of every profile fits at once, so nothing is lost any more.
DefragmentationRecoversLost ==
    \A g \in GPUs :
        LET packed == Repacked(g)
            before == StateFromAllocated(On(g))
            after  == StateFromAllocated(packed)
        IN  /\ packed \subseteq PartitionsFor(g)
            /\ \A d, e \in packed : d # e => ~Overlaps(d, e)
            /\ FreeMemory(after) = FreeMemory(before) /\ FreeSM(after) = FreeSM(before)
            /\ \A p \in ProfileSet : /\ Actual(p, after) = Ideal(p, before)
                                     /\ Lost(p, before) >= 0

-----------------------------------------------------------------------------
(* The inductive invariant of the proofs.                                  *)

\* A position's counter is spent exactly when an allocated partition covers it.
Covered ==
    \A g \in GPUs : \A i \in Positions :
        remaining[g].mem[i] = 0 <=> \E d \in On(g) : i \in SlicesOf(d)

\* One unit for every SM slice that a partition of S takes.
SMUnits(S) == UNION {{<<d, k>> : k \in 1..d.profile.sm} : d \in S}

\* The pool holds what the allocated partitions have not taken.
PoolExact ==
    \A g \in GPUs :
        /\ IsFiniteSet(SMUnits(On(g)))
        /\ remaining[g].sm = SMSlices - Cardinality(SMUnits(On(g)))

\* NoOverlap and InstanceCap are not inductive: giving counters back is only
\* safe because they were taken, which is what Covered and PoolExact remember.
IndInv == TypeOK /\ Covered /\ PoolExact /\ NoOverlap

-----------------------------------------------------------------------------
(* The abstraction: who owns each memory slice.                            *)

OwnerOf(g, i) ==
    IF \E d \in allocated : d.gpu = g /\ i \in SlicesOf(d)
    THEN CHOOSE d \in allocated : d.gpu = g /\ i \in SlicesOf(d)
    ELSE NoPartition

ShareOf(d) == d.profile.sm

Ownership == INSTANCE SliceOwnership WITH
    Home    <- [g \in GPUs |-> Positions],
    Pool    <- SMSlices,
    Holders <- Devices,
    Region  <- SlicesOf,
    Share   <- ShareOf,
    Free    <- NoPartition,
    owner   <- [g \in GPUs |-> [i \in Positions |-> OwnerOf(g, i)]],
    pool    <- [g \in GPUs |-> remaining[g].sm]

\* The counters implement exclusive ownership of memory slices and a shared
\* pool of SMs: every allocation takes a wholly free region, every release
\* gives back a region that one claim owned completely.
OwnershipSpec == Ownership!Spec
=============================================================================
