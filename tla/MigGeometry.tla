---------------------------- MODULE MigGeometry ----------------------------
(***************************************************************************)
(* The pure part of package mig: how a GPU is cut into MIG instances       *)
(* (profiles.go, partitions.go) and how much of the free memory a set of   *)
(* instances strands (fragmentation.go).                                   *)
(*                                                                         *)
(* A profile is [name, mem, sm]: the memory slices and the SM slices it    *)
(* takes.  A partition is [gpu, profile, start]: a profile at a memory     *)
(* offset of one GPU.  Profile names are model values or short strings.    *)
(***************************************************************************)
EXTENDS Integers, FiniteSets, Sequences, FiniteSetsExt, Functions

CONSTANTS
    MemorySlices,   \* memory slices of a GPU: 8 on every datacenter part
    SMSlices,       \* SM slices of a GPU: 7 on every datacenter part
    Profiles        \* the profiles on offer, in the order of the geometry

ProfileSet == {Profiles[i] : i \in DOMAIN Profiles}

ASSUME GeometryAssumption ==
    /\ MemorySlices \in Nat \ {0}
    /\ SMSlices \in Nat \ {0}
    /\ \A p \in ProfileSet : /\ p.mem \in 1..MemorySlices
                             /\ p.sm \in 1..SMSlices

Positions == 0..(MemorySlices - 1)

\* Go's integer division, which truncates towards zero.
GoDiv(a, b) == IF a >= 0 THEN a \div b ELSE -((-a) \div b)

Least(a, b) == IF a < b THEN a ELSE b

(***************************************************************************)
(* profiles.go and partitions.go                                           *)
(***************************************************************************)

\* The aligned offsets at which an instance of p may start.
Placements(p) == {s \in 0..(MemorySlices - p.mem) : s % p.mem = 0}

\* How many instances of p fit on an idle GPU.
MaxInstances(p) == Least(MemorySlices \div p.mem, SMSlices \div p.sm)

\* Lookup and SelectProfiles: the profiles named, in the order they are named in; all
\* of them when none is.  A name of no profile is an error.
ValidSelection(names) == names \in Seq({p.name : p \in ProfileSet})
SelectProfiles(names) ==
    IF names = <<>> THEN Profiles
    ELSE [i \in DOMAIN names |-> CHOOSE p \in ProfileSet : p.name = names[i]]

\* Every partition GPU g can be cut into.
PartitionsFor(g) ==
    UNION {{[gpu |-> g, profile |-> p, start |-> s] : s \in Placements(p)} : p \in ProfileSet}

\* The memory slices a partition occupies.
SlicesOf(d) == d.start .. (d.start + d.profile.mem - 1)

\* Do two partitions compete for memory?
Overlaps(d, e) ==
    /\ d.gpu = e.gpu
    /\ d.start < e.start + e.profile.mem
    /\ e.start < d.start + d.profile.mem

(***************************************************************************)
(* fragmentation.go: a state is [used, sm], the occupied positions and the *)
(* number of SM slices taken.                                              *)
(***************************************************************************)

StateFromAllocated(ds) ==
    [used |-> UNION {SlicesOf(d) : d \in ds},
     sm   |-> SumFunction([d \in ds |-> d.profile.sm])]

FreeMemory(st) == MemorySlices - Cardinality(st.used)
FreeSM(st)     == SMSlices - st.sm

PlacementIsFree(st, start, size) == (start .. (start + size - 1)) \cap st.used = {}

FreePlacements(p, st) == {s \in Placements(p) : PlacementIsFree(st, s, p.mem)}

\* Slip: the SM slices are left out of the ideal.
IdealByMemory(p, st) == GoDiv(FreeMemory(st), p.mem)

\* Instances of p the free capacity would hold if it could be rearranged.
Ideal(p, st) == Least(GoDiv(FreeMemory(st), p.mem), GoDiv(FreeSM(st), p.sm))

\* Slip: the SM slices are left out of what still fits.
ActualByMemory(p, st) == Cardinality(FreePlacements(p, st))

\* Instances of p that fit where the free slices actually are.
Actual(p, st) == Least(Cardinality(FreePlacements(p, st)), GoDiv(FreeSM(st), p.sm))

Lost(p, st) == Ideal(p, st) - Actual(p, st)

\* The last profile of the list that still fits; Nothing when none does.
Nothing == "nothing"
LargestAllocatable(ps, st) ==
    LET fitting == {i \in DOMAIN ps : Actual(ps[i], st) > 0}
    IN  IF fitting = {} THEN Nothing ELSE ps[Max(fitting)].name

\* Analyse: one GPU's report.
Analyse(ps, st) ==
    [freeMemory |-> FreeMemory(st),
     freeSM     |-> FreeSM(st),
     largest    |-> LargestAllocatable(ps, st),
     fits       |-> [i \in DOMAIN ps |-> [ideal  |-> Ideal(ps[i], st),
                                          actual |-> Actual(ps[i], st),
                                          lost   |-> Lost(ps[i], st)]]]

\* TotalLost of a report.
TotalLost(report) == SumFunction([i \in DOMAIN report.fits |-> report.fits[i].lost])
=============================================================================
