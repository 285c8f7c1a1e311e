------------------------ MODULE MigAllocation_proofs ------------------------
(***************************************************************************)
(* Proofs about MigAllocation for every geometry and every set of GPUs.    *)
(***************************************************************************)
EXTENDS MigAllocation, FiniteSetTheorems, DataTheorems, TLAPS

\* The parts of a published partition have the types the geometry gives them,
\* and it occupies existing positions only (Placements, MemorySlices()).
LEMMA DeviceParts ==
    ASSUME NEW d \in Devices
    PROVE  /\ d.gpu \in GPUs
           /\ d.profile \in ProfileSet
           /\ d.profile.mem \in 1..MemorySlices
           /\ d.profile.sm \in 1..SMSlices
           /\ d.start \in Nat
           /\ SlicesOf(d) \subseteq Positions
           /\ SlicesOf(d) # {}
<1>1. PICK g \in GPUs, p \in ProfileSet : \E s \in Placements(p) :
          d = [gpu |-> g, profile |-> p, start |-> s]
    BY DEF Devices, PartitionsFor
<1>2. PICK s \in Placements(p) : d = [gpu |-> g, profile |-> p, start |-> s]
    BY <1>1
<1>3. d.gpu = g /\ d.profile = p /\ d.start = s
    BY <1>2
<1>4. p.mem \in 1..MemorySlices /\ p.sm \in 1..SMSlices /\ MemorySlices \in Nat
    BY GeometryAssumption
<1>5. s \in 0..(MemorySlices - p.mem)
    BY DEF Placements
<1>6. SlicesOf(d) = s .. (s + p.mem - 1)
    BY <1>3 DEF SlicesOf
<1>7. SlicesOf(d) \subseteq Positions /\ s \in SlicesOf(d)
    BY <1>4, <1>5, <1>6 DEF Positions
<1>. QED BY <1>3, <1>4, <1>5, <1>7

\* Overlaps, which compares offsets, says exactly that two partitions of a GPU
\* have a memory position in common, which is what the counters exclude.
LEMMA OverlapIsSharing ==
    ASSUME NEW d \in Devices, NEW e \in Devices
    PROVE  Overlaps(d, e) <=> d.gpu = e.gpu /\ SlicesOf(d) \cap SlicesOf(e) # {}
<1>1. /\ d.start \in Nat /\ d.profile.mem \in Nat /\ d.profile.mem >= 1
      /\ e.start \in Nat /\ e.profile.mem \in Nat /\ e.profile.mem >= 1
    BY DeviceParts, GeometryAssumption
<1>2. ASSUME Overlaps(d, e)
      PROVE  d.gpu = e.gpu /\ SlicesOf(d) \cap SlicesOf(e) # {}
  <2>1. CASE d.start <= e.start
      BY <1>1, <1>2, <2>1, e.start \in SlicesOf(d) \cap SlicesOf(e) DEF Overlaps, SlicesOf
  <2>2. CASE e.start <= d.start
      BY <1>1, <1>2, <2>2, d.start \in SlicesOf(d) \cap SlicesOf(e) DEF Overlaps, SlicesOf
  <2>. QED BY <1>1, <2>1, <2>2
<1>3. ASSUME d.gpu = e.gpu, SlicesOf(d) \cap SlicesOf(e) # {}
      PROVE  Overlaps(d, e)
  <2>1. PICK i : i \in SlicesOf(d) /\ i \in SlicesOf(e)
      BY <1>3
  <2>2. /\ i \in Int
        /\ d.start <= i /\ i < d.start + d.profile.mem
        /\ e.start <= i /\ i < e.start + e.profile.mem
      BY <2>1, <1>1 DEF SlicesOf
  <2>. QED BY <1>1, <1>3, <2>2 DEF Overlaps
<1>. QED BY <1>2, <1>3

\* The SM units of one partition are as many as its profile says.
LEMMA UnitsOfOne ==
    ASSUME NEW d \in Devices
    PROVE  /\ IsFiniteSet(SMUnits({d}))
           /\ Cardinality(SMUnits({d})) = d.profile.sm
<1>. DEFINE n == d.profile.sm
            U == {<<d, k>> : k \in 1..n}
            f == [k \in 1..n |-> <<d, k>>]
<1>1. n \in Nat
    BY DeviceParts, GeometryAssumption
<1>2. f \in Bijection(1..n, U)
    BY DEF Bijection, Injection, Surjection, IsInjective
<1>3. ExistsBijection(1..n, U)
    BY <1>2 DEF ExistsBijection
<1>4. IsFiniteSet(1..n) /\ Cardinality(1..n) = n
    BY ONLY <1>1, FirstNumbers
<1>5. IsFiniteSet(U) /\ Cardinality(U) = n
    BY <1>3, <1>4, FS_Bijection
<1>6. SMUnits({d}) = U
    BY DEF SMUnits
<1>. QED BY <1>5, <1>6

\* Taking a partition into a set adds its SM units, and no unit is in both.
LEMMA UnitsOfUnion ==
    ASSUME NEW S, NEW d \in Devices, d \notin S, IsFiniteSet(SMUnits(S))
    PROVE  /\ IsFiniteSet(SMUnits(S \cup {d}))
           /\ Cardinality(SMUnits(S \cup {d})) = Cardinality(SMUnits(S)) + d.profile.sm
<1>1. SMUnits(S \cup {d}) = SMUnits(S) \cup SMUnits({d})
    BY DEF SMUnits
<1>2. SMUnits(S) \cap SMUnits({d}) = {}
    BY DEF SMUnits
<1>3. Cardinality({}) = 0 /\ Cardinality(SMUnits(S)) \in Nat
    BY FS_EmptySet, FS_CardinalityType
<1>4. d.profile.sm \in Nat
    BY DeviceParts, GeometryAssumption
<1>5. IsFiniteSet(SMUnits({d})) /\ Cardinality(SMUnits({d})) = d.profile.sm
    BY UnitsOfOne
<1>6. /\ IsFiniteSet(SMUnits(S) \cup SMUnits({d}))
      /\ Cardinality(SMUnits(S) \cup SMUnits({d})) =
             Cardinality(SMUnits(S)) + Cardinality(SMUnits({d})) - Cardinality({})
    BY <1>2, <1>5, FS_Union
<1>7. Cardinality(SMUnits(S)) + d.profile.sm - 0 = Cardinality(SMUnits(S)) + d.profile.sm
    BY <1>3, <1>4
<1>8. Cardinality(SMUnits(S) \cup SMUnits({d})) = Cardinality(SMUnits(S)) + d.profile.sm
    BY <1>3, <1>5, <1>6, <1>7, Zenon
<1>. QED BY <1>1, <1>6, <1>8, Zenon

\* Dropping a partition from a set removes exactly its SM units.
LEMMA UnitsOfDifference ==
    ASSUME NEW S, NEW d \in Devices, d \in S, IsFiniteSet(SMUnits(S))
    PROVE  /\ IsFiniteSet(SMUnits(S \ {d}))
           /\ Cardinality(SMUnits(S)) = Cardinality(SMUnits(S \ {d})) + d.profile.sm
<1>1. SMUnits(S \ {d}) \subseteq SMUnits(S)
    BY DEF SMUnits
<1>2. IsFiniteSet(SMUnits(S \ {d}))
    BY <1>1, FS_Subset
<1>3. (S \ {d}) \cup {d} = S /\ d \notin S \ {d}
    OBVIOUS
<1>. QED BY <1>2, <1>3, UnitsOfUnion
-----------------------------------------------------------------------------
(* The inductive invariant.                                                *)

\* Initially nothing is held and every counter is full.
LEMMA InitInv == Init => IndInv
<1>. SUFFICES ASSUME Init PROVE IndInv
    OBVIOUS
<1>1. allocated = {} /\ remaining = [g \in GPUs |-> CounterSetFor]
    BY DEF Init
<1>2. SMSlices \in Nat
    BY GeometryAssumption
<1>3. TypeOK
    BY <1>1, <1>2 DEF TypeOK, CounterSetFor
<1>4. Covered
    BY <1>1 DEF Covered, On, CounterSetFor
<1>5. PoolExact
  <2>1. \A g \in GPUs : SMUnits(On(g)) = {}
      BY <1>1 DEF On, SMUnits
  <2>. QED BY <1>1, <1>2, <2>1, FS_EmptySet DEF PoolExact, CounterSetFor
<1>6. NoOverlap
    BY <1>1 DEF NoOverlap
<1>. QED BY <1>3, <1>4, <1>5, <1>6 DEF IndInv

\* Allocate preserves the invariant: the positions it takes had their counter
\* left, so by Covered nobody held them.
LEMMA AllocateInv ==
    ASSUME IndInv, NEW d \in Devices, Allocate(d)
    PROVE  IndInv'
<1>. DEFINE g == d.gpu
<1>1. /\ d \notin allocated
      /\ allocated' = allocated \cup {d}
      /\ \A i \in SlicesOf(d) : 1 <= remaining[g].mem[i]
      /\ d.profile.sm <= remaining[g].sm
      /\ remaining' = [remaining EXCEPT ![g] =
            [mem |-> [i \in Positions |-> remaining[g].mem[i] -
                                          (IF i \in SlicesOf(d) THEN 1 ELSE 0)],
             sm  |-> remaining[g].sm - d.profile.sm]]
    BY DeviceParts DEF Allocate, Fits, ConsumesCounters
<1>2. /\ g \in GPUs
      /\ SlicesOf(d) \subseteq Positions
      /\ d.profile.sm \in Nat
      /\ SMSlices \in Nat
    BY DeviceParts, GeometryAssumption
<1>3. /\ allocated \subseteq Devices
      /\ remaining \in [GPUs -> [mem : [Positions -> 0..1], sm : 0..SMSlices]]
    BY DEF IndInv, TypeOK
<1>4. \A h \in GPUs : h # g => remaining'[h] = remaining[h]
    BY <1>1, <1>3
<1>5. /\ \A i \in Positions :
            remaining'[g].mem[i] = remaining[g].mem[i] -
                                       (IF i \in SlicesOf(d) THEN 1 ELSE 0)
      /\ remaining'[g].sm = remaining[g].sm - d.profile.sm
    BY <1>1, <1>2, <1>3
<1>6. /\ On(g)' = On(g) \cup {d}
      /\ \A h \in GPUs : h # g => On(h)' = On(h)
      /\ d \notin On(g)
    BY <1>1 DEF On
<1>7. TypeOK'
    BY <1>1, <1>2, <1>3 DEF TypeOK
<1>8. Covered'
  <2>. SUFFICES ASSUME NEW h \in GPUs, NEW i \in Positions
                PROVE  remaining'[h].mem[i] = 0 <=> \E e \in On(h)' : i \in SlicesOf(e)
      BY DEF Covered
  <2>1. remaining[h].mem[i] = 0 <=> \E e \in On(h) : i \in SlicesOf(e)
      BY DEF IndInv, Covered
  <2>2. CASE h # g
      BY <1>4, <1>6, <2>1, <2>2
  <2>3. CASE h = g
    <3>1. remaining[g].mem[i] \in 0..1
        BY <1>2, <1>3
    <3>. QED BY <1>1, <1>5, <1>6, <2>1, <2>3, <3>1
  <2>. QED BY <2>2, <2>3
<1>9. PoolExact'
  <2>. SUFFICES ASSUME NEW h \in GPUs
                PROVE  /\ IsFiniteSet(SMUnits(On(h)'))
                       /\ remaining'[h].sm = SMSlices - Cardinality(SMUnits(On(h)'))
      BY DEF PoolExact, SMUnits
  <2>1. /\ IsFiniteSet(SMUnits(On(h)))
        /\ remaining[h].sm = SMSlices - Cardinality(SMUnits(On(h)))
      BY DEF IndInv, PoolExact
  <2>2. CASE h # g
      BY <1>4, <1>6, <2>1, <2>2
  <2>3. CASE h = g
    <3>1. /\ IsFiniteSet(SMUnits(On(g) \cup {d}))
          /\ Cardinality(SMUnits(On(g) \cup {d})) =
                 Cardinality(SMUnits(On(g))) + d.profile.sm
        BY <1>6, <2>1, <2>3, UnitsOfUnion
    <3>2. Cardinality(SMUnits(On(g))) \in Nat
        BY <2>1, <2>3, FS_CardinalityType
    <3>3. IsFiniteSet(SMUnits(On(h)'))
        BY <1>6, <2>3, <3>1, Zenon
    <3>4. Cardinality(SMUnits(On(h)')) = Cardinality(SMUnits(On(g))) + d.profile.sm
        BY <1>6, <2>3, <3>1, Zenon
    <3>5. remaining'[h].sm = (SMSlices - Cardinality(SMUnits(On(g)))) - d.profile.sm
        BY <1>5, <2>1, <2>3, Zenon
    <3>. QED BY <1>2, <3>2, <3>3, <3>4, <3>5
  <2>. QED BY <2>2, <2>3
<1>10. NoOverlap'
  <2>1. \A e \in allocated : ~Overlaps(d, e) /\ ~Overlaps(e, d)
    <3>. SUFFICES ASSUME NEW e \in allocated, Overlaps(d, e) \/ Overlaps(e, d)
                  PROVE  FALSE
        OBVIOUS
    <3>1. PICK i : i \in SlicesOf(d) /\ i \in SlicesOf(e) /\ e.gpu = g
        BY <1>3, OverlapIsSharing
    <3>2. remaining[g].mem[i] = 0
        BY <1>2, <3>1 DEF IndInv, Covered, On
    <3>. QED BY <1>1, <3>1, <3>2
  <2>. QED BY <1>1, <2>1 DEF NoOverlap, IndInv
<1>. QED BY <1>7, <1>8, <1>9, <1>10 DEF IndInv

\* Release preserves it: a position gets its unit back only from the partition
\* that covered it, and NoOverlap says that no other one does.
LEMMA ReleaseInv ==
    ASSUME IndInv, NEW d \in Devices, Release(d)
    PROVE  IndInv'
<1>. DEFINE g == d.gpu
<1>1. /\ d \in allocated
      /\ allocated' = allocated \ {d}
      /\ remaining' = [remaining EXCEPT ![g] =
            [mem |-> [i \in Positions |-> remaining[g].mem[i] +
                                          (IF i \in SlicesOf(d) THEN 1 ELSE 0)],
             sm  |-> remaining[g].sm + d.profile.sm]]
    BY DeviceParts DEF Release, ConsumesCounters
<1>2. /\ g \in GPUs
      /\ SlicesOf(d) \subseteq Positions
      /\ d.profile.sm \in Nat
      /\ SMSlices \in Nat
    BY DeviceParts, GeometryAssumption
<1>3. /\ allocated \subseteq Devices
      /\ remaining \in [GPUs -> [mem : [Positions -> 0..1], sm : 0..SMSlices]]
    BY DEF IndInv, TypeOK
<1>4. \A h \in GPUs : h # g => remaining'[h] = remaining[h]
    BY <1>1, <1>3
<1>5. /\ \A i \in Positions :
            remaining'[g].mem[i] = remaining[g].mem[i] +
                                       (IF i \in SlicesOf(d) THEN 1 ELSE 0)
      /\ remaining'[g].sm = remaining[g].sm + d.profile.sm
    BY <1>1, <1>2, <1>3
<1>6. /\ On(g)' = On(g) \ {d}
      /\ \A h \in GPUs : h # g => On(h)' = On(h)
      /\ d \in On(g)
    BY <1>1 DEF On
<1>7. \A i \in SlicesOf(d) : remaining[g].mem[i] = 0
    BY <1>2, <1>6 DEF IndInv, Covered
<1>8. \A e \in On(g) : e # d => SlicesOf(d) \cap SlicesOf(e) = {}
    BY <1>1, <1>3, OverlapIsSharing DEF IndInv, NoOverlap, On
<1>9. /\ IsFiniteSet(SMUnits(On(g)'))
      /\ Cardinality(SMUnits(On(g)')) \in Nat
      /\ remaining'[g].sm = SMSlices - Cardinality(SMUnits(On(g)'))
  <2>1. /\ IsFiniteSet(SMUnits(On(g)))
        /\ remaining[g].sm = SMSlices - Cardinality(SMUnits(On(g)))
      BY <1>2 DEF IndInv, PoolExact
  <2>2. /\ IsFiniteSet(SMUnits(On(g) \ {d}))
        /\ Cardinality(SMUnits(On(g))) = Cardinality(SMUnits(On(g) \ {d})) + d.profile.sm
      BY <1>6, <2>1, UnitsOfDifference
  <2>3. Cardinality(SMUnits(On(g) \ {d})) \in Nat
      BY <2>2, FS_CardinalityType
  <2>4. remaining'[g].sm = SMSlices - Cardinality(SMUnits(On(g) \ {d}))
      BY <1>2, <1>5, <2>1, <2>2, <2>3
  <2>. QED BY <1>6, <2>2, <2>3, <2>4, Zenon
<1>10. TypeOK'
  <2>1. remaining'[g].sm \in 0..SMSlices
      BY <1>2, <1>3, <1>5, <1>9
  <2>2. \A i \in Positions : remaining'[g].mem[i] \in 0..1
      BY <1>2, <1>3, <1>5, <1>7
  <2>. QED BY <1>1, <1>2, <1>3, <2>1, <2>2 DEF TypeOK
<1>11. Covered'
  <2>. SUFFICES ASSUME NEW h \in GPUs, NEW i \in Positions
                PROVE  remaining'[h].mem[i] = 0 <=> \E e \in On(h)' : i \in SlicesOf(e)
      BY DEF Covered
  <2>1. remaining[h].mem[i] = 0 <=> \E e \in On(h) : i \in SlicesOf(e)
      BY DEF IndInv, Covered
  <2>2. CASE h # g
      BY <1>4, <1>6, <2>1, <2>2
  <2>3. CASE h = g
    <3>1. remaining[g].mem[i] \in 0..1
        BY <1>2, <1>3
    <3>. QED BY <1>5, <1>6, <1>7, <1>8, <2>1, <2>3, <3>1
  <2>. QED BY <2>2, <2>3
<1>12. PoolExact'
  <2>. SUFFICES ASSUME NEW h \in GPUs
                PROVE  /\ IsFiniteSet(SMUnits(On(h)'))
                       /\ remaining'[h].sm = SMSlices - Cardinality(SMUnits(On(h)'))
      BY DEF PoolExact, SMUnits
  <2>1. /\ IsFiniteSet(SMUnits(On(h)))
        /\ remaining[h].sm = SMSlices - Cardinality(SMUnits(On(h)))
      BY DEF IndInv, PoolExact
  <2>2. CASE h # g
      BY <1>4, <1>6, <2>1, <2>2
  <2>3. CASE h = g
      BY <1>9, <2>3, Zenon
  <2>. QED BY <2>2, <2>3
<1>13. NoOverlap'
    BY <1>1 DEF NoOverlap, IndInv
<1>. QED BY <1>10, <1>11, <1>12, <1>13 DEF IndInv

\* A step that changes nothing preserves it.
LEMMA StutterInv == IndInv /\ UNCHANGED vars => IndInv'
BY DEF IndInv, TypeOK, Covered, PoolExact, NoOverlap, On, SMUnits, vars

\* The inductive invariant holds in every state the allocator can reach.
THEOREM Inductive == Spec => []IndInv
<1>1. IndInv /\ [Next]_vars => IndInv'
    BY AllocateInv, ReleaseInv, StutterInv DEF Next
<1>. QED BY <1>1, InitInv, PTL DEF Spec

\* The counters of every GPU stay within what counterSetFor published.
THEOREM TypeCorrect == Spec => []TypeOK
BY Inductive, PTL DEF IndInv

\* For every geometry and every number of GPUs, two allocated partitions never
\* overlap: the per-position counters of migDevice and counterSetFor suffice.
THEOREM Exclusion == Spec => []NoOverlap
BY Inductive, PTL DEF IndInv

\* A GPU never runs more instances than it has SM slices: every instance takes
\* an SM unit of its own out of a pool of SMSlices.
THEOREM Capped == Spec => []InstanceCap
<1>1. IndInv => InstanceCap
  <2>. SUFFICES ASSUME IndInv, NEW g \in GPUs
                PROVE  Cardinality(On(g)) <= SMSlices
      BY DEF InstanceCap
  <2>. DEFINE f == [d \in On(g) |-> <<d, 1>>]
              U == SMUnits(On(g))
  <2>1. /\ IsFiniteSet(U)
        /\ remaining[g].sm = SMSlices - Cardinality(U)
        /\ remaining[g].sm \in 0..SMSlices
      BY DEF IndInv, PoolExact, TypeOK
  <2>2. Cardinality(U) \in Nat /\ SMSlices \in Nat
      BY <2>1, FS_CardinalityType, GeometryAssumption
  <2>3. \A d \in On(g) : 1 \in 1..d.profile.sm
      BY DeviceParts DEF IndInv, TypeOK, On
  <2>4. \A d \in On(g) : <<d, 1>> \in U
      BY <2>3 DEF SMUnits
  <2>5. f \in Injection(On(g), U)
      BY <2>4 DEF Injection, IsInjective
  <2>6. /\ IsFiniteSet(On(g))
        /\ Cardinality(On(g)) <= Cardinality(U)
      BY <2>1, <2>5, FS_Injection
  <2>7. Cardinality(On(g)) \in Nat
      BY <2>6, FS_CardinalityType
  <2>. QED BY <2>1, <2>2, <2>6, <2>7
<1>. QED BY <1>1, Inductive, PTL

-----------------------------------------------------------------------------
(* The refinement of SliceOwnership.                                       *)

\* The owner of a position is the allocated partition that covers it, if any.
OwnerLaw ==
    \A g \in GPUs : \A i \in Positions :
        /\ \A d \in On(g) : i \in SlicesOf(d) => OwnerOf(g, i) = d
        /\ (\A d \in On(g) : i \notin SlicesOf(d)) => OwnerOf(g, i) = NoPartition

\* The law holds wherever the invariant does: exclusion makes the covering
\* partition unique.
LEMMA Owner == IndInv => OwnerLaw
<1>. SUFFICES ASSUME IndInv, NEW g \in GPUs, NEW i \in Positions
              PROVE  /\ \A d \in On(g) : i \in SlicesOf(d) => OwnerOf(g, i) = d
                     /\ (\A d \in On(g) : i \notin SlicesOf(d)) => OwnerOf(g, i) = NoPartition
    BY DEF OwnerLaw
<1>1. allocated \subseteq Devices
    BY DEF IndInv, TypeOK
<1>2. \A d, e \in On(g) : i \in SlicesOf(d) /\ i \in SlicesOf(e) => d = e
    BY <1>1, OverlapIsSharing DEF IndInv, NoOverlap, On
<1>3. CASE \E d \in On(g) : i \in SlicesOf(d)
  <2>1. OwnerOf(g, i) \in On(g) /\ i \in SlicesOf(OwnerOf(g, i))
      BY <1>3 DEF OwnerOf, On
  <2>. QED BY <1>1, <1>2, <2>1 DEF On
<1>4. CASE \A d \in On(g) : i \notin SlicesOf(d)
  <2>1. OwnerOf(g, i) = NoPartition
      BY <1>4 DEF OwnerOf, On
  <2>. QED BY <1>4, <2>1
<1>. QED BY <1>3, <1>4

\* Allocating a partition is one owner taking a region that was wholly free.
LEMMA AllocateRefines ==
    ASSUME IndInv, IndInv', NEW d \in Devices, Allocate(d)
    PROVE  Ownership!Acquire(d)
<1>. DEFINE g == d.gpu
            own == [h \in GPUs |-> [i \in Positions |-> OwnerOf(h, i)]]
            left == [h \in GPUs |-> remaining[h].sm]
<1>1. /\ g \in GPUs
      /\ SlicesOf(d) \subseteq Positions
    BY DeviceParts
<1>2. /\ remaining \in [GPUs -> [mem : [Positions -> 0..1], sm : 0..SMSlices]]
    BY DEF IndInv, TypeOK
<1>3. /\ \A i \in SlicesOf(d) : 1 <= remaining[g].mem[i]
      /\ d.profile.sm <= remaining[g].sm
      /\ allocated' = allocated \cup {d}
      /\ remaining'[g].sm = remaining[g].sm - d.profile.sm
      /\ \A h \in GPUs : h # g => remaining'[h] = remaining[h]
    BY <1>1, <1>2 DEF Allocate, Fits, ConsumesCounters
<1>4. /\ On(g)' = On(g) \cup {d}
      /\ \A h \in GPUs : h # g => On(h)' = On(h)
    BY <1>3 DEF On
<1>5. OwnerLaw /\ OwnerLaw'
    BY Owner, PTL
<1>6. \A i \in SlicesOf(d) : OwnerOf(g, i) = NoPartition
  <2>. SUFFICES ASSUME NEW i \in SlicesOf(d) PROVE OwnerOf(g, i) = NoPartition
      OBVIOUS
  <2>1. remaining[g].mem[i] # 0
      BY <1>3
  <2>2. \A e \in On(g) : i \notin SlicesOf(e)
      BY <1>1, <2>1 DEF IndInv, Covered
  <2>. QED BY <1>1, <1>5, <2>2 DEF OwnerLaw
<1>7. \A h \in GPUs : \A i \in Positions :
          OwnerOf(h, i)' = IF h = g /\ i \in SlicesOf(d) THEN d ELSE OwnerOf(h, i)
  <2>. SUFFICES ASSUME NEW h \in GPUs, NEW i \in Positions
                PROVE  OwnerOf(h, i)' = IF h = g /\ i \in SlicesOf(d) THEN d ELSE OwnerOf(h, i)
      OBVIOUS
  <2>1. /\ \A e \in On(h)' : i \in SlicesOf(e) => OwnerOf(h, i)' = e
        /\ (\A e \in On(h)' : i \notin SlicesOf(e)) => OwnerOf(h, i)' = NoPartition
      BY <1>5 DEF OwnerLaw
  <2>2. CASE h = g /\ i \in SlicesOf(d)
      BY <1>4, <2>1, <2>2
  <2>3. CASE ~(h = g /\ i \in SlicesOf(d))
    <3>1. \A e \in Devices \cup On(h)' : i \in SlicesOf(e) => (e \in On(h)' <=> e \in On(h))
        BY <1>4, <2>3
    <3>2. CASE \E e \in On(h) : i \in SlicesOf(e)
        BY <1>4, <2>1, <3>2, <1>5, <2>3 DEF OwnerLaw
    <3>3. CASE \A e \in On(h) : i \notin SlicesOf(e)
        BY <1>4, <2>1, <3>3, <1>5, <2>3 DEF OwnerLaw
    <3>. QED BY <3>2, <3>3
  <2>. QED BY <2>2, <2>3
<1>8. own' = [own EXCEPT ![g] = [i \in Positions |-> IF i \in SlicesOf(d) THEN d ELSE @[i]]]
    BY <1>1, <1>7
<1>9. left' = [left EXCEPT ![g] = @ - d.profile.sm]
    BY <1>1, <1>3
<1>10. left[g] >= d.profile.sm
    BY <1>1, <1>2, <1>3, DeviceParts, GeometryAssumption
<1>. QED BY <1>1, <1>6, <1>8, <1>9, <1>10 DEF Ownership!Acquire, ShareOf

\* Releasing a partition gives back a region that it alone owned.
LEMMA ReleaseRefines ==
    ASSUME IndInv, IndInv', NEW d \in Devices, Release(d)
    PROVE  Ownership!Relinquish(d)
<1>. DEFINE g == d.gpu
            own == [h \in GPUs |-> [i \in Positions |-> OwnerOf(h, i)]]
            left == [h \in GPUs |-> remaining[h].sm]
<1>1. /\ g \in GPUs
      /\ SlicesOf(d) \subseteq Positions
    BY DeviceParts
<1>2. /\ allocated \subseteq Devices
      /\ remaining \in [GPUs -> [mem : [Positions -> 0..1], sm : 0..SMSlices]]
    BY DEF IndInv, TypeOK
<1>3. /\ d \in allocated
      /\ allocated' = allocated \ {d}
      /\ remaining'[g].sm = remaining[g].sm + d.profile.sm
      /\ \A h \in GPUs : h # g => remaining'[h] = remaining[h]
    BY <1>1, <1>2 DEF Release, ConsumesCounters
<1>4. /\ On(g)' = On(g) \ {d}
      /\ d \in On(g)
      /\ \A h \in GPUs : h # g => On(h)' = On(h)
    BY <1>3 DEF On
<1>5. OwnerLaw /\ OwnerLaw'
    BY Owner, PTL
<1>6. \A i \in SlicesOf(d) : OwnerOf(g, i) = d
    BY <1>1, <1>4, <1>5 DEF OwnerLaw
<1>7. \A h \in GPUs : \A i \in Positions :
          OwnerOf(h, i)' = IF h = g /\ i \in SlicesOf(d) THEN NoPartition ELSE OwnerOf(h, i)
  <2>. SUFFICES ASSUME NEW h \in GPUs, NEW i \in Positions
                PROVE  OwnerOf(h, i)' = IF h = g /\ i \in SlicesOf(d)
                                        THEN NoPartition ELSE OwnerOf(h, i)
      OBVIOUS
  <2>1. /\ \A e \in On(h)' : i \in SlicesOf(e) => OwnerOf(h, i)' = e
        /\ (\A e \in On(h)' : i \notin SlicesOf(e)) => OwnerOf(h, i)' = NoPartition
      BY <1>5 DEF OwnerLaw
  <2>2. CASE h = g /\ i \in SlicesOf(d)
    <3>1. \A e \in On(g) : e # d => i \notin SlicesOf(e)
        BY <1>2, <1>4, <2>2, OverlapIsSharing DEF IndInv, NoOverlap, On
    <3>. QED BY <1>4, <2>1, <2>2, <3>1
  <2>3. CASE ~(h = g /\ i \in SlicesOf(d))
    <3>2. CASE \E e \in On(h) : i \in SlicesOf(e)
        BY <1>4, <2>1, <3>2, <1>5, <2>3 DEF OwnerLaw
    <3>3. CASE \A e \in On(h) : i \notin SlicesOf(e)
        BY <1>4, <2>1, <3>3, <1>5, <2>3 DEF OwnerLaw
    <3>. QED BY <3>2, <3>3
  <2>. QED BY <2>2, <2>3
<1>8. own' = [own EXCEPT ![g] =
                 [i \in Positions |-> IF i \in SlicesOf(d) THEN NoPartition ELSE @[i]]]
    BY <1>1, <1>7
<1>9. left' = [left EXCEPT ![g] = @ + d.profile.sm]
    BY <1>1, <1>3
<1>. QED BY <1>1, <1>6, <1>8, <1>9 DEF Ownership!Relinquish, ShareOf

\* The counters gpu-sim publishes implement exclusive ownership: every
\* behaviour of the allocator is one of SliceOwnership under the mapping.
THEOREM Refinement == Spec => OwnershipSpec
<1>1. Init => Ownership!Init
    BY DEF Init, Ownership!Init, Ownership!Homes, OwnerOf, CounterSetFor
<1>2. IndInv /\ IndInv' /\ [Next]_vars => [Ownership!Next]_(Ownership!vars)
  <2>. SUFFICES ASSUME IndInv, IndInv', [Next]_vars
                PROVE  [Ownership!Next]_(Ownership!vars)
      OBVIOUS
  <2>1. ASSUME NEW d \in Devices, Allocate(d)
        PROVE  Ownership!Next
      BY <2>1, AllocateRefines DEF Ownership!Next
  <2>2. ASSUME NEW d \in Devices, Release(d)
        PROVE  Ownership!Next
      BY <2>2, ReleaseRefines DEF Ownership!Next
  <2>3. CASE UNCHANGED vars
      BY <2>3 DEF vars, Ownership!vars, OwnerOf
  <2>. QED BY <2>1, <2>2, <2>3 DEF Next
<1>. QED BY <1>1, <1>2, Inductive, PTL DEF Spec, OwnershipSpec, Ownership!Spec

-----------------------------------------------------------------------------
\* Go's division of numbers that are not negative.
LEMMA GoDivision ==
    ASSUME NEW a \in Nat, NEW b
    PROVE  GoDiv(a, b) = a \div b
BY DEF GoDiv

\* An idle GPU has room at every multiple of the profile's size.
LEMMA PlacementsCount ==
    ASSUME NEW p \in ProfileSet
    PROVE  /\ IsFiniteSet(Placements(p))
           /\ Cardinality(Placements(p)) = MemorySlices \div p.mem
<1>. DEFINE m == p.mem
            q == MemorySlices \div m
            f == [k \in 0..(q - 1) |-> k * m]
<1>1. m \in Nat \ {0} /\ MemorySlices \in Nat /\ m <= MemorySlices
  BY GeometryAssumption
<1>2. /\ q \in Nat /\ q >= 1
      /\ \A k \in 0..(q - 1) :
            k * m \in 0..(MemorySlices - m) /\ (k * m) % m = 0 /\ (k * m) \div m = k
      /\ \A s \in 0..(MemorySlices - m) :
            s % m = 0 => s \div m \in 0..(q - 1) /\ (s \div m) * m = s
  BY <1>1, MultiplesBelow
<1>. HIDE DEF m, q
<1>3. f \in Bijection(0..(q - 1), Placements(p))
  <2>1. \A k \in 0..(q - 1) : f[k] \in Placements(p)
    BY <1>2 DEF Placements, m
  <2>2. \A j, k \in 0..(q - 1) : f[j] = f[k] => j = k
    BY <1>2
  <2>3. \A s \in Placements(p) : \E k \in 0..(q - 1) : f[k] = s
    BY <1>2 DEF Placements, m
  <2>. QED
    BY <2>1, <2>2, <2>3 DEF Bijection, Injection, Surjection, IsInjective
<1>4. IsFiniteSet(0..(q - 1)) /\ Cardinality(0..(q - 1)) = q
  BY <1>2, FS_Interval
<1>5. ExistsBijection(0..(q - 1), Placements(p))
  BY <1>3 DEF ExistsBijection
<1>. QED
  BY <1>4, <1>5, FS_Bijection DEF q, m

\* As many of a set as a bound allows: all of them, or as many as fit the bound.
LEMMA AsManyAsFit ==
    ASSUME NEW S, IsFiniteSet(S), NEW a \in Nat, NEW b \in Nat \ {0}
    PROVE  Max({Cardinality(T) : T \in {U \in SUBSET S : Cardinality(U) * b <= a}})
               = Least(Cardinality(S), GoDiv(a, b))
<1>. DEFINE V == {Cardinality(T) : T \in {U \in SUBSET S : Cardinality(U) * b <= a}}
            c == Cardinality(S)
            q == a \div b
            m == Least(c, q)
<1>1. c \in Nat /\ q \in Nat /\ GoDiv(a, b) = q
  BY FS_CardinalityType, Division, GoDivision
<1>. HIDE DEF c, q
<1>2. m \in Nat /\ m <= c /\ m <= q /\ (m = c \/ m = q)
  BY <1>1 DEF Least
<1>. HIDE DEF m
<1>3. \A T \in SUBSET S : Cardinality(T) \in Nat /\ Cardinality(T) <= c
  BY FS_Subset, FS_CardinalityType DEF c
<1>4. m \in V
  <2>1. PICK T \in SUBSET S : Cardinality(T) = m
    BY <1>2, SubsetOfSize DEF c
  <2>2. m * b <= a
    BY <1>2, Division DEF q
  <2>. QED
    BY <2>1, <2>2
<1>5. \A x \in V : x \in Nat /\ x <= m
  <2>. SUFFICES ASSUME NEW T \in SUBSET S, Cardinality(T) * b <= a
                PROVE  Cardinality(T) \in Nat /\ Cardinality(T) <= m
    OBVIOUS
  <2>1. Cardinality(T) <= q
    BY <1>3, Division DEF q
  <2>. QED
    BY <1>1, <1>2, <1>3, <2>1
<1>. HIDE DEF V
<1>6. Max(V) = m
  <2>1. V \in SUBSET Int
    BY <1>5
  <2>. QED
    BY <1>4, <1>5, <2>1, MaxIs
<1>. QED
  BY <1>1, <1>6 DEF m, V, c

-----------------------------------------------------------------------------
(* The report (mig/fragmentation.go) and the counters.                     *)

\* The units taken are the sum of what the profiles say.
LEMMA UnitsAreSummed ==
    ASSUME NEW S \in SUBSET Devices, IsFiniteSet(S), IsFiniteSet(SMUnits(S))
    PROVE  SumFunction([d \in S |-> d.profile.sm]) = Cardinality(SMUnits(S))
<1>. DEFINE f == [d \in S |-> d.profile.sm]
            Bad == {s \in SUBSET S : SumFunctionOnSet(f, s) # Cardinality(SMUnits(s))}
<1>0. SumFunction(f) = SumFunctionOnSet(f, S)
  BY Zenon DEF SumFunction
<1>. SUFFICES ASSUME Bad # {}
              PROVE  FALSE
  BY <1>0, Zenon
<1>1. PICK s \in Bad : \A u \in SUBSET s : u # s => u \notin Bad
  <2>. Bad \in SUBSET (SUBSET S)
    OBVIOUS
  <2>. HIDE DEF Bad
  <2>. QED
    BY SmallestSubset
<1>2. s \in SUBSET S /\ SumFunctionOnSet(f, s) # Cardinality(SMUnits(s))
  BY <1>1
<1>3. IsFiniteSet(s) /\ IsFiniteSet(SMUnits(s))
  <2>1. SMUnits(s) \subseteq SMUnits(S)
    BY <1>2 DEF SMUnits
  <2>. QED
    BY <1>2, <2>1, FS_Subset
<1>4. CASE s = {}
  <2>1. SMUnits(s) = {}
    BY <1>4 DEF SMUnits
  <2>. QED
    BY <1>2, <1>4, <2>1, SumOfNone, FS_EmptySet
<1>5. CASE s # {}
  <2>1. PICK d \in s : TRUE
    BY <1>5
  <2>. DEFINE r == s \ {d}
  <2>2. r \in SUBSET s /\ r # s /\ r \in SUBSET S
    BY <1>2, <2>1
  <2>3. SumFunctionOnSet(f, r) = Cardinality(SMUnits(r))
    BY <1>1, <2>2
  <2>4. d \in Devices /\ d \in s
    BY <1>2, <2>1
  <2>5. Cardinality(SMUnits(s)) = Cardinality(SMUnits(r)) + d.profile.sm /\ IsFiniteSet(SMUnits(r))
    BY <1>3, <2>4, UnitsOfDifference
  <2>6. \A x \in s : f[x] \in Int /\ f[x] = x.profile.sm
    BY <1>2, DeviceParts, GeometryAssumption
  <2>. HIDE DEF f
  <2>7. SumFunctionOnSet(f, s) = f[d] + SumFunctionOnSet(f, r)
    BY <1>3, <2>1, <2>6, SumWithout
  <2>8. Cardinality(SMUnits(r)) \in Int /\ f[d] \in Int /\ f[d] = d.profile.sm
    BY <2>1, <2>5, <2>6, FS_CardinalityType
  <2>9. f[d] + Cardinality(SMUnits(r)) = Cardinality(SMUnits(r)) + f[d]
    BY <2>8
  <2>. QED
    BY <1>2, <2>3, <2>5, <2>7, <2>8, <2>9, Zenon
<1>. QED
  BY <1>4, <1>5

LEMMA FinitelyMany ==
    ASSUME IndInv, NEW g \in GPUs
    PROVE  /\ On(g) \in SUBSET Devices /\ IsFiniteSet(On(g)) /\ IsFiniteSet(SMUnits(On(g)))
           /\ remaining[g].sm = SMSlices - Cardinality(SMUnits(On(g)))
<1>. DEFINE f == [d \in On(g) |-> <<d, 1>>]
            U == SMUnits(On(g))
<1>1. IsFiniteSet(U) /\ remaining[g].sm = SMSlices - Cardinality(U)
  BY DEF IndInv, PoolExact
<1>2. On(g) \in SUBSET Devices
  BY DEF IndInv, TypeOK, On
<1>3. \A d \in On(g) : 1 \in 1..d.profile.sm
  BY <1>2, DeviceParts, GeometryAssumption
<1>4. \A d \in On(g) : <<d, 1>> \in U
  BY <1>3 DEF SMUnits
<1>5. f \in Injection(On(g), U)
  BY <1>4 DEF Injection, IsInjective
<1>6. IsFiniteSet(On(g))
  BY <1>1, <1>5, FS_Injection
<1>. QED
  BY <1>1, <1>2, <1>6

\* The state the report is made of is what the counters leave.
LEMMA StateIsLeft ==
    ASSUME IndInv, NEW g \in GPUs
    PROVE  LET st == StateFromAllocated(On(g))
           IN  /\ \A i \in Positions : remaining[g].mem[i] \in 0..1
                                       /\ (remaining[g].mem[i] = 0 <=> i \in st.used)
               /\ st.used \subseteq Positions
               /\ remaining[g].sm = FreeSM(st) /\ FreeSM(st) \in Nat
<1>. DEFINE st == StateFromAllocated(On(g))
<1>1. st.used = UNION {SlicesOf(d) : d \in On(g)} /\ st.sm = SumFunction([d \in On(g) |-> d.profile.sm])
  BY Zenon, \A x, y : [used |-> x, sm |-> y].used = x /\ [used |-> x, sm |-> y].sm = y DEF StateFromAllocated
<1>2. /\ On(g) \in SUBSET Devices /\ IsFiniteSet(On(g)) /\ IsFiniteSet(SMUnits(On(g)))
      /\ remaining[g].sm = SMSlices - Cardinality(SMUnits(On(g)))
  BY FinitelyMany
<1>. HIDE DEF st
<1>3. st.sm = Cardinality(SMUnits(On(g)))
  BY <1>1, <1>2, UnitsAreSummed
<1>4. remaining[g] \in [mem : [Positions -> 0..1], sm : 0..SMSlices]
  BY DEF IndInv, TypeOK
<1>5. remaining[g].sm = FreeSM(st) /\ FreeSM(st) \in Nat
  <2>1. FreeSM(st) = remaining[g].sm
    BY <1>2, <1>3 DEF FreeSM
  <2>2. remaining[g].sm \in 0..SMSlices /\ SMSlices \in Nat
    BY <1>4, GeometryAssumption
  <2>. QED
    BY <2>1, <2>2
<1>6. st.used \subseteq Positions
  BY <1>1, <1>2, DeviceParts
<1>7. \A i \in Positions : remaining[g].mem[i] \in 0..1 /\ (remaining[g].mem[i] = 0 <=> i \in st.used)
  <2>1. \A i \in Positions : i \in st.used <=> \E d \in On(g) : i \in SlicesOf(d)
    BY <1>1
  <2>. QED
    BY <1>4, <2>1 DEF IndInv, Covered
<1>. QED
  BY <1>5, <1>6, <1>7 DEF st

\* What the allocator could still hand out, one by one, is what the report counts.
LEMMA ActualIsOffered ==
    ASSUME IndInv, NEW g \in GPUs, NEW p \in ProfileSet
    PROVE  Actual(p, StateFromAllocated(On(g))) = FurtherInstances(g, p)
<1>. DEFINE st == StateFromAllocated(On(g))
            free == FreePlacements(p, st)
            at(s) == [gpu |-> g, profile |-> p, start |-> s]
            open == {s \in Placements(p) : Fits(at(s))}
            left == remaining[g].sm
<1>1. /\ \A i \in Positions : remaining[g].mem[i] \in 0..1 /\ (remaining[g].mem[i] = 0 <=> i \in st.used)
      /\ st.used \subseteq Positions
      /\ left = FreeSM(st) /\ left \in Nat
  BY StateIsLeft
<1>2. p.sm \in Nat \ {0}
  BY GeometryAssumption
<1>3. IsFiniteSet(free) /\ IsFiniteSet(open)
  BY PlacementsCount, FS_Subset DEF FreePlacements
<1>4. ASSUME NEW s \in Placements(p)
      PROVE  Fits(at(s)) <=> s \in free /\ p.sm <= left
  <2>1. at(s) \in Devices
    BY DEF Devices, PartitionsFor
  <2>2. SlicesOf(at(s)) \subseteq Positions /\ SlicesOf(at(s)) = s .. (s + p.mem - 1)
    BY <2>1, DeviceParts DEF SlicesOf
  <2>3. Fits(at(s)) <=> /\ \A i \in Positions : (IF i \in SlicesOf(at(s)) THEN 1 ELSE 0) <= remaining[g].mem[i]
                        /\ p.sm <= left
    BY DEF Fits, ConsumesCounters
  <2>4. \A i \in Positions : (IF i \in SlicesOf(at(s)) THEN 1 ELSE 0) <= remaining[g].mem[i]
                             <=> (i \in SlicesOf(at(s)) => i \notin st.used)
    BY <1>1
  <2>5. s \in free <=> SlicesOf(at(s)) \cap st.used = {}
    BY <2>2 DEF FreePlacements, PlacementIsFree
  <2>. QED
    BY <2>2, <2>3, <2>4, <2>5
<1>5. FurtherInstances(g, p) = Least(Cardinality(open), GoDiv(left, p.sm))
  <2>1. FurtherInstances(g, p) = Max({Cardinality(S) : S \in {T \in SUBSET open : Cardinality(T) * p.sm <= left}})
    BY Zenon DEF FurtherInstances
  <2>. HIDE DEF open, left
  <2>. QED
    BY <1>1, <1>2, <1>3, <2>1, AsManyAsFit
<1>6. Actual(p, st) = Least(Cardinality(free), GoDiv(left, p.sm))
  BY <1>1 DEF Actual
<1>7. CASE p.sm <= left
  <2>1. open = free
    BY <1>4, <1>7 DEF FreePlacements
  <2>. QED
    BY <1>5, <1>6, <2>1
<1>8. CASE ~(p.sm <= left)
  <2>1. open = {}
    BY <1>4, <1>8
  <2>2. Cardinality(open) = 0
    BY <2>1, FS_EmptySet
  <2>3. GoDiv(left, p.sm) = 0
    <3>1. ~(1 * p.sm <= left) /\ 1 \in Nat
      BY <1>1, <1>2, <1>8
    <3>2. GoDiv(left, p.sm) \in Nat /\ ~(1 <= GoDiv(left, p.sm))
      BY <1>1, <1>2, <3>1, Division, GoDivision
    <3>. QED
      BY <3>2
  <2>4. Cardinality(free) \in Nat
    BY <1>3, FS_CardinalityType
  <2>5. Least(Cardinality(open), GoDiv(left, p.sm)) = 0 /\ Least(Cardinality(free), GoDiv(left, p.sm)) = 0
    BY <2>2, <2>3, <2>4 DEF Least
  <2>. QED
    BY <1>5, <1>6, <2>5
<1>. QED
  BY <1>7, <1>8

\* On an idle GPU that is the table of the profiles.
LEMMA IdleIsTable ==
    ASSUME IndInv, NEW g \in GPUs, NEW p \in ProfileSet, On(g) = {}
    PROVE  Actual(p, StateFromAllocated(On(g))) = MaxInstances(p)
<1>. DEFINE st == StateFromAllocated(On(g))
<1>1. st.used = {}
  BY Zenon, \A x, y : [used |-> x, sm |-> y].used = x, UNION {} = {} DEF StateFromAllocated
<1>2. FreePlacements(p, st) = Placements(p)
  BY <1>1 DEF FreePlacements, PlacementIsFree
<1>3. FreeSM(st) = SMSlices
  <2>1. SMUnits(On(g)) = {}
    BY DEF SMUnits
  <2>2. remaining[g].sm = SMSlices - 0
    BY <2>1, FinitelyMany, FS_EmptySet
  <2>. QED
    BY <2>2, StateIsLeft, GeometryAssumption
<1>4. GoDiv(SMSlices, p.sm) = SMSlices \div p.sm
  BY GeometryAssumption, GoDivision
<1>. QED
  BY <1>2, <1>3, <1>4, PlacementsCount DEF Actual, MaxInstances

\* After any sequence of claims the report and the counters describe the same GPU, and
\* what fits according to the report is what the allocator could still hand out.
THEOREM ReportMatchesCounters == Spec => []CountersMatchReport
<1>1. IndInv => CountersMatchReport
  <2>. SUFFICES ASSUME IndInv, NEW g \in GPUs
                PROVE  LET st == StateFromAllocated(On(g))
                       IN  /\ {i \in Positions : remaining[g].mem[i] = 0} = st.used
                           /\ remaining[g].sm = FreeSM(st)
                           /\ \A p \in ProfileSet :
                                 /\ Actual(p, st) = FurtherInstances(g, p)
                                 /\ On(g) = {} => MaxInstances(p) = FurtherInstances(g, p)
    BY DEF CountersMatchReport
  <2>. DEFINE st == StateFromAllocated(On(g))
  <2>1. {i \in Positions : remaining[g].mem[i] = 0} = st.used /\ remaining[g].sm = FreeSM(st)
    BY StateIsLeft
  <2>2. \A p \in ProfileSet : Actual(p, st) = FurtherInstances(g, p)
    BY ActualIsOffered
  <2>3. \A p \in ProfileSet : On(g) = {} => Actual(p, st) = MaxInstances(p)
    BY IdleIsTable
  <2>. QED
    BY <2>1, <2>2, <2>3
<1>. QED
  BY <1>1, Inductive, PTL

-----------------------------------------------------------------------------
(* Where the instances are at the beginning of the memory.                 *)

\* Behind T occupied slices there is room at every multiple of the profile's size.
LEMMA RoomBehind ==
    ASSUME NEW p \in ProfileSet, NEW st, NEW T \in 0..MemorySlices,
           MemorySlices % p.mem = 0, st.used = 0..(T - 1)
    PROVE  Cardinality(FreePlacements(p, st)) = (MemorySlices - T) \div p.mem
<1>. DEFINE m == p.mem
            M == MemorySlices
            q == M \div m
            F == M - T
            n == F \div m
            f == [k \in 1..n |-> M - k * m]
<1>1. m \in Nat \ {0} /\ M \in Nat /\ m <= M /\ M % m = 0 /\ T \in Nat /\ T <= M /\ F \in Nat /\ F + T = M
  BY GeometryAssumption
<1>2. q \in Nat /\ q * m = M
  BY <1>1, MultipleOf
<1>3. n \in Nat /\ \A k \in Nat : k * m <= F <=> k <= n
  BY <1>1, Division, Zenon
<1>4. \A s : s \in FreePlacements(p, st) <=> s \in 0..(M - m) /\ s % m = 0 /\ T <= s
  <2>1. \A s \in 0..(M - m) : (s .. (s + m - 1)) \cap (0..(T - 1)) = {} <=> T <= s
    <3>. SUFFICES ASSUME NEW s \in 0..(M - m)
                  PROVE  (s .. (s + m - 1)) \cap (0..(T - 1)) = {} <=> T <= s
      OBVIOUS
    <3>. HIDE DEF m, M
    <3>1. ASSUME ~(T <= s)
          PROVE  s \in (s .. (s + m - 1)) \cap (0..(T - 1))
      BY <1>1, <3>1
    <3>2. ASSUME T <= s, NEW x \in (s .. (s + m - 1)) \cap (0..(T - 1))
          PROVE  FALSE
      BY <1>1, <3>2
    <3>. QED
      BY <3>1, <3>2
  <2>. QED
    BY <2>1 DEF FreePlacements, PlacementIsFree, Placements
<1>. HIDE DEF m, M, q, n, F
<1>5. \A k \in 1..n : k * m \in Nat /\ k * m <= F /\ m <= k * m
  <2>. SUFFICES ASSUME NEW k \in 1..n
                PROVE  k * m \in Nat /\ k * m <= F /\ m <= k * m
    OBVIOUS
  <2>1. k \in Nat /\ 1 \in Nat /\ 1 <= k /\ k <= n
    BY <1>3
  <2>2. 1 * m <= k * m /\ k * m \in Nat
    BY <1>1, <2>1, MultiplesGrow
  <2>. QED
    BY <1>1, <1>3, <2>1, <2>2
<1>6. \A k \in 1..n : f[k] \in FreePlacements(p, st)
  <2>. SUFFICES ASSUME NEW k \in 1..n
                PROVE  M - k * m \in 0..(M - m) /\ (M - k * m) % m = 0 /\ T <= M - k * m
    BY <1>4
  <2>. DEFINE a == k * m
  <2>1. a \in Nat /\ a <= F /\ m <= a
    BY <1>5
  <2>2. k <= q
    <3>1. k \in Nat /\ a <= M
      BY <1>1, <1>3, <2>1
    <3>. HIDE DEF a
    <3>2. k * m <= M <=> k <= M \div m
      BY <1>1, <3>1, Division, Zenon
    <3>. QED
      BY <3>1, <3>2 DEF a, q
  <2>3. (M - a) % m = 0
    <3>1. q - k \in Nat /\ (q - k) * m = q * m - k * m
      BY <1>1, <1>2, <1>3, <2>2
    <3>. DEFINE j == q - k
    <3>. HIDE DEF j
    <3>2. (j * m) % m = 0
      BY <1>1, <3>1, Multiples DEF j
    <3>. QED
      BY <1>2, <3>1, <3>2 DEF j
  <2>. HIDE DEF a
  <2>4. M - a \in 0..(M - m) /\ T <= M - a
    BY <1>1, <2>1
  <2>. QED
    BY <2>3, <2>4 DEF a
<1>7. \A j, k \in 1..n : f[j] = f[k] => j = k
  <2>. SUFFICES ASSUME NEW j \in 1..n, NEW k \in 1..n, M - j * m = M - k * m
                PROVE  j = k
    OBVIOUS
  <2>1. j * m = k * m
    <3>1. j * m \in Nat /\ k * m \in Nat
      BY <1>5
    <3>. DEFINE a == j * m
                b == k * m
    <3>2. M - a = M - b /\ a \in Nat /\ b \in Nat
      BY <3>1
    <3>. HIDE DEF a, b
    <3>3. a = b
      BY <1>1, <3>2
    <3>. QED
      BY <3>3 DEF a, b
  <2>2. j \in Nat /\ k \in Nat
    BY <1>3
  <2>3. (j * m) \div m = j /\ (k * m) \div m = k
    BY <1>1, <2>2, Multiples
  <2>. QED
    BY <2>1, <2>3
<1>8. \A s \in FreePlacements(p, st) : \E k \in 1..n : f[k] = s
  <2>. SUFFICES ASSUME NEW s \in FreePlacements(p, st)
                PROVE  \E k \in 1..n : M - k * m = s
    OBVIOUS
  <2>1. s \in 0..(M - m) /\ s % m = 0 /\ T <= s
    BY <1>4
  <2>. DEFINE j == s \div m
  <2>2. s \in Nat /\ s <= M - m
    BY <1>1, <2>1
  <2>3. j \in Nat /\ j * m = s
    BY <1>1, <2>1, <2>2, MultipleOf
  <2>. HIDE DEF j
  <2>4. j < q
    <3>1. ~(q <= j)
      <4>. SUFFICES ASSUME q <= j
                    PROVE  FALSE
        OBVIOUS
      <4>1. q * m <= j * m
        BY <1>1, <1>2, <2>3, MultiplesGrow
      <4>. QED
        BY <1>1, <1>2, <2>2, <2>3, <4>1
    <3>. QED
      BY <1>2, <2>3, <3>1
  <2>5. q - j \in Nat /\ q - j >= 1 /\ (q - j) * m = M - s
    <3>1. (q - j) * m = q * m - j * m
      BY <1>1, <1>2, <2>3
    <3>. QED
      BY <1>2, <2>3, <2>4, <3>1
  <2>6. (q - j) * m <= F
    BY <1>1, <2>1, <2>2, <2>5
  <2>7. q - j \in 1..n
    BY <1>3, <2>5, <2>6
  <2>8. M - (q - j) * m = s
    BY <1>1, <2>2, <2>5
  <2>. QED
    BY <2>7, <2>8
<1>. HIDE DEF f
<1>9. f \in Bijection(1..n, FreePlacements(p, st))
  <2>1. f \in [1..n -> FreePlacements(p, st)]
    BY <1>6 DEF f
  <2>. QED
    BY <1>7, <1>8, <2>1 DEF Bijection, Injection, Surjection, IsInjective
<1>10. IsFiniteSet(1..n) /\ Cardinality(1..n) = n
  BY ONLY <1>3, FirstNumbers
<1>11. ExistsBijection(1..n, FreePlacements(p, st))
  BY <1>9 DEF ExistsBijection
<1>. QED
  BY <1>10, <1>11, FS_Bijection DEF n, F, M, m

\* What is placed where it is free does not take more than there is.
LEMMA PlacedIsFree ==
    ASSUME NEW p \in ProfileSet, NEW st, st.used \subseteq Positions
    PROVE  /\ FreeMemory(st) \in Nat
           /\ IsFiniteSet(FreePlacements(p, st))
           /\ Cardinality(FreePlacements(p, st)) <= GoDiv(FreeMemory(st), p.mem)
<1>. DEFINE m == p.mem
            M == MemorySlices
            free == FreePlacements(p, st)
            part == [s \in free |-> s .. (s + m - 1)]
            many == [s \in free |-> m]
            rest == Positions \ st.used
<1>1. m \in Nat \ {0} /\ M \in Nat /\ m <= M
  BY GeometryAssumption
<1>2. IsFiniteSet(Positions) /\ Cardinality(Positions) = M
  <2>1. 0 \in Int /\ M - 1 \in Int /\ ~(0 > M - 1) /\ (M - 1) - 0 + 1 = M
    BY <1>1
  <2>2. Positions = 0..(M - 1)
    BY DEF Positions
  <2>. HIDE DEF M
  <2>. QED
    BY <2>1, <2>2, FS_Interval
<1>3. /\ IsFiniteSet(rest) /\ Cardinality(rest) = FreeMemory(st)
      /\ FreeMemory(st) \in Nat
  <2>1. /\ IsFiniteSet(Positions \ st.used)
        /\ Cardinality(Positions \ st.used) = Cardinality(Positions) - Cardinality(Positions \cap st.used)
    BY <1>2, FS_Difference
  <2>2. Positions \cap st.used = st.used
    OBVIOUS
  <2>3. Cardinality(rest) = FreeMemory(st)
    BY <1>2, <2>1, <2>2 DEF FreeMemory
  <2>. QED
    BY <2>1, <2>3, FS_CardinalityType
<1>4. IsFiniteSet(free)
  BY PlacementsCount, FS_Subset DEF FreePlacements
<1>5. \A s \in free : s \in 0..(M - m) /\ s % m = 0 /\ (s .. (s + m - 1)) \cap st.used = {}
  BY DEF FreePlacements, PlacementIsFree, Placements
<1>. HIDE DEF m, M, free
<1>6. \A s \in free : IsFiniteSet(part[s]) /\ many[s] = Cardinality(part[s])
  <2>. SUFFICES ASSUME NEW s \in free
                PROVE  IsFiniteSet(s .. (s + m - 1)) /\ m = Cardinality(s .. (s + m - 1))
    OBVIOUS
  <2>1. s \in Int /\ s + m - 1 \in Int /\ ~(s > s + m - 1) /\ (s + m - 1) - s + 1 = m
    BY <1>1, <1>5
  <2>. QED
    BY <2>1, FS_Interval
<1>7. \A s, t \in free : s # t => part[s] \cap part[t] = {}
  <2>. SUFFICES ASSUME NEW s \in free, NEW t \in free, s < t
                PROVE  part[s] \cap part[t] = {}
    <3>1. \A s \in free : s \in Int
      BY <1>5
    <3>. QED
      BY <3>1
  <2>1. s \in Nat /\ t \in Nat /\ s % m = 0 /\ t % m = 0
    BY <1>1, <1>5
  <2>. DEFINE j == s \div m
              k == t \div m
  <2>2. j \in Nat /\ j * m = s /\ k \in Nat /\ k * m = t
    BY <1>1, <2>1, MultipleOf
  <2>. HIDE DEF j, k
  <2>3. j < k
    <3>1. ~(k <= j)
      <4>. SUFFICES ASSUME k <= j
                    PROVE  FALSE
        OBVIOUS
      <4>1. k * m <= j * m
        BY <1>1, <2>2, MultiplesGrow
      <4>. QED
        BY <2>1, <2>2, <4>1
    <3>. QED
      BY <2>2, <3>1
  <2>4. s + m <= t
    <3>1. j + 1 \in Nat /\ j + 1 <= k
      BY <2>2, <2>3
    <3>2. (j + 1) * m <= k * m
      BY <1>1, <2>2, <3>1, MultiplesGrow
    <3>3. (j + 1) * m = j * m + m
      BY <1>1, <2>2
    <3>. QED
      BY <2>2, <3>2, <3>3
  <2>5. ASSUME NEW x \in (s .. (s + m - 1)) \cap (t .. (t + m - 1))
        PROVE  FALSE
    BY <1>1, <2>1, <2>4
  <2>. QED
    BY <2>5
<1>. DEFINE covered == UNION {part[s] : s \in free}
<1>8. covered \subseteq rest
  <2>. SUFFICES ASSUME NEW s \in free, NEW x \in s .. (s + m - 1)
                PROVE  x \in rest
    OBVIOUS
  <2>1. x \in Positions
    BY <1>1, <1>5 DEF Positions, M
  <2>. QED
    BY <1>5, <2>1
<1>. HIDE DEF part, many, covered, rest
<1>9. IsFiniteSet(covered) /\ SumFunctionOnSet(many, free) = Cardinality(covered)
  <2>1. CountsApart(free, part, many)
    BY <1>4, <1>6, <1>7, Zenon DEF CountsApart
  <2>. QED
    BY ONLY <2>1, CountsOfAll, SMT DEF covered
<1>10. SumFunctionOnSet(many, free) = Cardinality(free) * m
  <2>1. \A s \in free : many[s] = m
    BY DEF many
  <2>. QED
    BY <1>1, <1>4, <2>1, SumOfTheSame
<1>11. Cardinality(covered) <= Cardinality(rest)
  BY <1>3, <1>8, FS_Subset
<1>12. Cardinality(free) * m <= FreeMemory(st) /\ Cardinality(free) \in Nat
  BY <1>3, <1>4, <1>9, <1>10, <1>11, FS_CardinalityType
<1>13. Cardinality(free) <= FreeMemory(st) \div m
  BY <1>1, <1>3, <1>12, Division
<1>. QED
  BY <1>3, <1>4, <1>13, GoDivision DEF m, free

-----------------------------------------------------------------------------
(* Defragmentation.                                                        *)

\* Sizes that fit into one another, and into the memory: 1, 2, 4 and 8 out of 8 on
\* every datacenter part (datacenterShape).
SizesNest ==
    \A p \in ProfileSet :
        /\ MemorySlices % p.mem = 0
        /\ \A q \in ProfileSet : p.mem <= q.mem => q.mem % p.mem = 0

Size(g) == [e \in On(g) |-> e.profile.mem]
Ahead(g, d) == {x \in On(g) : Before(x, d)}
PackedAt(g, d) == SumFunctionOnSet(Size(g), Ahead(g, d))
Packed(g, d) == [gpu |-> g, profile |-> d.profile, start |-> PackedAt(g, d)]

\* Partitions that keep apart take as much memory as their profiles say.
LEMMA MemoryTaken ==
    ASSUME NEW S \in SUBSET Devices, IsFiniteSet(S), NEW size,
           \A d \in S : size[d] = d.profile.mem,
           \A d, e \in S : d # e => SlicesOf(d) \cap SlicesOf(e) = {}
    PROVE  LET used == UNION {SlicesOf(d) : d \in S}
           IN  /\ used \subseteq Positions /\ IsFiniteSet(used)
               /\ Cardinality(used) = SumFunctionOnSet(size, S)
<1>. DEFINE part == [d \in S |-> SlicesOf(d)]
            used == UNION {part[d] : d \in S}
<1>1. \A d \in S : IsFiniteSet(part[d]) /\ size[d] = Cardinality(part[d])
  <2>. SUFFICES ASSUME NEW d \in S
                PROVE  IsFiniteSet(SlicesOf(d)) /\ d.profile.mem = Cardinality(SlicesOf(d))
    OBVIOUS
  <2>. DEFINE a == d.start
              m == d.profile.mem
  <2>1. a \in Int /\ m \in Int /\ m >= 1
    BY DeviceParts, GeometryAssumption
  <2>2. SlicesOf(d) = a .. (a + m - 1)
    BY DEF SlicesOf
  <2>. HIDE DEF a, m
  <2>3. a + m - 1 \in Int /\ ~(a > a + m - 1) /\ (a + m - 1) - a + 1 = m
    BY <2>1
  <2>4. IsFiniteSet(SlicesOf(d)) /\ Cardinality(SlicesOf(d)) = m
    BY <2>1, <2>2, <2>3, FS_Interval
  <2>. QED
    BY <2>4 DEF m
<1>2. used = UNION {SlicesOf(d) : d \in S}
  OBVIOUS
<1>3. used \subseteq Positions
  BY <1>2, DeviceParts
<1>4. \A d, e \in S : d # e => part[d] \cap part[e] = {}
  OBVIOUS
<1>. HIDE DEF part, used
<1>5. CountsApart(S, part, size)
  BY <1>1, <1>4, Zenon DEF CountsApart
<1>6. IsFiniteSet(used) /\ SumFunctionOnSet(size, S) = Cardinality(used)
  <2>1. /\ IsFiniteSet(UNION {part[x] : x \in S})
        /\ SumFunctionOnSet(size, S) = Cardinality(UNION {part[x] : x \in S})
    <3>1. \A c, f : CountsApart(S, c, f) =>
              /\ IsFiniteSet(UNION {c[x] : x \in S})
              /\ SumFunctionOnSet(f, S) = Cardinality(UNION {c[x] : x \in S})
      BY CountsOfAll, Zenon
    <3>2. \A f : CountsApart(S, part, f) =>
              /\ IsFiniteSet(UNION {part[x] : x \in S})
              /\ SumFunctionOnSet(f, S) = Cardinality(UNION {part[x] : x \in S})
      BY <3>1, Zenon
    <3>. QED
      BY <1>5, <3>2, Zenon
  <2>. QED
    BY <2>1 DEF used
<1>. QED
  BY <1>2, <1>3, <1>6

\* The order of packing is one: no two partitions of a GPU have size and offset in common.
LEMMA PackingOrder ==
    ASSUME IndInv, NEW g \in GPUs
    PROVE  /\ \A d \in On(g) : ~Before(d, d)
           /\ \A d, e \in On(g) : d # e => Before(d, e) \/ Before(e, d)
           /\ \A d, e, x \in On(g) : Before(x, d) /\ Before(d, e) => Before(x, e)
<1>1. \A d \in On(g) : d \in Devices /\ d \in allocated /\ d.gpu = g
  BY FinitelyMany DEF On
<1>2. \A d \in On(g) : d.profile.mem \in Nat /\ d.profile.mem >= 1 /\ d.start \in Nat
  BY <1>1, DeviceParts, GeometryAssumption
<1>3. ASSUME NEW d \in On(g), NEW e \in On(g), d # e, d.profile.mem = e.profile.mem, d.start = e.start
      PROVE  FALSE
  <2>1. Overlaps(d, e)
    BY <1>1, <1>2, <1>3 DEF Overlaps
  <2>. QED
    BY <1>1, <1>3, <2>1 DEF IndInv, NoOverlap
<1>4. \A d \in On(g) : ~Before(d, d)
  BY <1>2 DEF Before
<1>5. \A d, e \in On(g) : d # e => Before(d, e) \/ Before(e, d)
  BY <1>2, <1>3 DEF Before
<1>6. \A d, e, x \in On(g) : Before(x, d) /\ Before(d, e) => Before(x, e)
  BY <1>2 DEF Before
<1>. QED
  BY <1>4, <1>5, <1>6

\* Packed, each partition is at a multiple of its size, behind those packed before it,
\* within what they all take.
LEMMA PackedInOrder ==
    ASSUME IndInv, SizesNest, NEW g \in GPUs
    PROVE  LET taken == SumFunctionOnSet(Size(g), On(g))
           IN  /\ taken \in 0..MemorySlices
               /\ Cardinality(StateFromAllocated(On(g)).used) = taken
               /\ \A d \in On(g) : /\ PackedAt(g, d) \in Nat
                                   /\ PackedAt(g, d) % d.profile.mem = 0
                                   /\ PackedAt(g, d) + d.profile.mem <= taken
               /\ \A d, e \in On(g) : Before(d, e) => PackedAt(g, d) + d.profile.mem <= PackedAt(g, e)
<1>. DEFINE S == On(g)
            size == Size(g)
            taken == SumFunctionOnSet(size, S)
            used == UNION {SlicesOf(d) : d \in S}
<1>1. S \in SUBSET Devices /\ IsFiniteSet(S)
  BY FinitelyMany
<1>2. \A d \in S : size[d] = d.profile.mem /\ d.profile \in ProfileSet
  BY <1>1, DeviceParts DEF Size
<1>3. \A d \in S : size[d] \in Nat \ {0}
  BY <1>2, GeometryAssumption
<1>4. \A d, e \in S : d # e => SlicesOf(d) \cap SlicesOf(e) = {}
  <2>1. \A d \in S : d \in allocated /\ d.gpu = g
    BY DEF On
  <2>. QED
    BY <1>1, <2>1, OverlapIsSharing DEF IndInv, NoOverlap
<1>5. StateFromAllocated(On(g)).used = used
  BY Zenon, \A x, y : [used |-> x, sm |-> y].used = x DEF StateFromAllocated
<1>. HIDE DEF S, size
<1>6. used \subseteq Positions /\ IsFiniteSet(used) /\ Cardinality(used) = taken
  BY <1>1, <1>2, <1>4, MemoryTaken
<1>7. taken \in 0..MemorySlices
  <2>1. 0 \in Int /\ MemorySlices - 1 \in Int /\ ~(0 > MemorySlices - 1) /\ (MemorySlices - 1) - 0 + 1 = MemorySlices
    BY GeometryAssumption
  <2>2. IsFiniteSet(Positions) /\ Cardinality(Positions) = MemorySlices
    BY <2>1, FS_Interval DEF Positions
  <2>3. Cardinality(used) <= Cardinality(Positions) /\ Cardinality(used) \in Nat
    BY <1>6, <2>2, FS_Subset, FS_CardinalityType
  <2>. QED
    BY <1>6, <2>2, <2>3, GeometryAssumption
<1>8. \A d \in S : PackedAt(g, d) = SumFunctionOnSet(size, Ahead(g, d)) /\ Ahead(g, d) \in SUBSET S
  BY DEF PackedAt, Ahead, S, size
<1>9. \A d \in S : Ahead(g, d) \cup {d} \in SUBSET S /\ IsFiniteSet(Ahead(g, d))
                   /\ d \notin Ahead(g, d)
  <2>1. \A d \in S : ~Before(d, d)
    BY PackingOrder DEF S
  <2>. QED
    BY <1>1, <1>8, <2>1, FS_Subset DEF Ahead
<1>10. ASSUME NEW d \in S
       PROVE  /\ PackedAt(g, d) \in Nat /\ PackedAt(g, d) % d.profile.mem = 0
              /\ SumFunctionOnSet(size, Ahead(g, d) \cup {d}) = PackedAt(g, d) + d.profile.mem
  <2>. DEFINE m == d.profile.mem
              A == Ahead(g, d)
  <2>1. m \in Nat \ {0} /\ d.profile \in ProfileSet /\ size[d] = m
    BY <1>2, <1>3
  <2>2. \A x \in A : size[x] \in Nat /\ size[x] % m = 0
    <3>. SUFFICES ASSUME NEW x \in A
                  PROVE  size[x] \in Nat /\ size[x] % m = 0
      OBVIOUS
    <3>1. x \in S /\ x.profile \in ProfileSet /\ size[x] = x.profile.mem /\ size[x] \in Nat
      BY <1>2, <1>3, <1>8
    <3>2. m <= x.profile.mem
      BY <2>1, <3>1 DEF Ahead, Before
    <3>. QED
      BY <2>1, <3>1, <3>2 DEF SizesNest
  <2>3. IsFiniteSet(A) /\ A \cup {d} \in SUBSET S /\ d \notin A
    BY <1>9
  <2>. HIDE DEF A, m
  <2>4. SumFunctionOnSet(size, A) \in Nat /\ SumFunctionOnSet(size, A) % m = 0
    BY <2>1, <2>2, <2>3, SumOfMultiples
  <2>5. SumFunctionOnSet(size, A \cup {d}) = size[d] + SumFunctionOnSet(size, A)
    <3>. DEFINE B == A \cup {d}
    <3>1. IsFiniteSet(B) /\ d \in B /\ B \ {d} = A
      BY <2>3, FS_AddElement
    <3>2. \A x \in B : size[x] \in Int
      BY <1>3, <2>3
    <3>. HIDE DEF B
    <3>3. SumFunctionOnSet(size, B) = size[d] + SumFunctionOnSet(size, B \ {d})
      BY <3>1, <3>2, SumWithout
    <3>. QED
      BY <3>1, <3>3 DEF B
  <2>6. PackedAt(g, d) = SumFunctionOnSet(size, A)
    BY <1>8 DEF A
  <2>. QED
    BY <2>1, <2>4, <2>5, <2>6 DEF A, m
<1>11. \A R \in SUBSET S : \A Q \in SUBSET R : SumFunctionOnSet(size, Q) <= SumFunctionOnSet(size, R)
  <2>. SUFFICES ASSUME NEW R \in SUBSET S, NEW Q \in SUBSET R
                PROVE  SumFunctionOnSet(size, Q) <= SumFunctionOnSet(size, R)
    OBVIOUS
  <2>1. IsFiniteSet(R) /\ \A x \in R : size[x] \in Nat
    BY <1>1, <1>3, FS_Subset
  <2>. QED
    BY <2>1, SumOfPart
<1>12. ASSUME NEW d \in S
       PROVE  PackedAt(g, d) + d.profile.mem <= taken
  <2>1. SumFunctionOnSet(size, Ahead(g, d) \cup {d}) <= SumFunctionOnSet(size, S)
    BY <1>9, <1>11
  <2>. QED
    BY <1>10, <2>1
<1>13. ASSUME NEW d \in S, NEW e \in S, Before(d, e)
       PROVE  PackedAt(g, d) + d.profile.mem <= PackedAt(g, e)
  <2>1. Ahead(g, d) \cup {d} \in SUBSET Ahead(g, e)
    <3>1. \A x \in S : Before(x, d) => Before(x, e)
      BY <1>13, PackingOrder DEF S
    <3>. QED
      BY <1>13, <3>1 DEF Ahead, S
  <2>2. SumFunctionOnSet(size, Ahead(g, d) \cup {d}) <= SumFunctionOnSet(size, Ahead(g, e))
    BY <1>8, <1>11, <2>1
  <2>. QED
    BY <1>8, <1>10, <2>2
<1>. HIDE DEF taken, used
<1>. QED
  BY <1>5, <1>6, <1>7, <1>10, <1>12, <1>13 DEF S, size, taken

\* Repacking moves each partition to a place of its own on the same GPU.
LEMMA PackedOneForOne ==
    ASSUME IndInv, SizesNest, NEW g \in GPUs
    PROVE  /\ [d \in On(g) |-> Packed(g, d)] \in Bijection(On(g), Repacked(g))
           /\ Repacked(g) \subseteq PartitionsFor(g)
           /\ \A x \in Repacked(g) : SlicesOf(x) \subseteq 0..(SumFunctionOnSet(Size(g), On(g)) - 1)
           /\ \A x, y \in Repacked(g) : x # y => SlicesOf(x) \cap SlicesOf(y) = {}
<1>. DEFINE S == On(g)
            taken == SumFunctionOnSet(Size(g), On(g))
            b == [d \in S |-> Packed(g, d)]
<1>1. S \in SUBSET Devices /\ IsFiniteSet(S)
  BY FinitelyMany
<1>2. \A d \in S : d.profile \in ProfileSet /\ d.profile.mem \in Nat \ {0}
  BY <1>1, DeviceParts, GeometryAssumption
<1>3. /\ taken \in 0..MemorySlices
      /\ \A d \in S : /\ PackedAt(g, d) \in Nat
                      /\ PackedAt(g, d) % d.profile.mem = 0
                      /\ PackedAt(g, d) + d.profile.mem <= taken
      /\ \A d, e \in S : Before(d, e) => PackedAt(g, d) + d.profile.mem <= PackedAt(g, e)
  BY PackedInOrder
<1>4. Repacked(g) = {Packed(g, d) : d \in S}
  <2>1. \A d \in S : SumFunction([e \in {x \in On(g) : Before(x, d)} |-> e.profile.mem]) = PackedAt(g, d)
    <3>. SUFFICES ASSUME NEW d \in S
                  PROVE  SumFunction([e \in Ahead(g, d) |-> e.profile.mem]) = PackedAt(g, d)
      BY Zenon DEF Ahead
    <3>. DEFINE f == [e \in Ahead(g, d) |-> e.profile.mem]
                z == Size(g)
    <3>1. SumFunction(f) = SumFunctionOnSet(f, Ahead(g, d))
      BY Zenon DEF SumFunction
    <3>2. IsFiniteSet(Ahead(g, d)) /\ \A e \in Ahead(g, d) : f[e] = z[e]
      BY <1>1, FS_Subset DEF Ahead, Size
    <3>. HIDE DEF f, z
    <3>3. SumFunctionOnSet(f, Ahead(g, d)) = SumFunctionOnSet(z, Ahead(g, d))
      BY <3>2, SumSame
    <3>. QED
      BY <3>1, <3>3, Zenon DEF PackedAt, f, z
  <2>. QED
    BY <2>1, Zenon DEF Repacked, Packed
<1>5. \A d \in S : /\ Packed(g, d).start = PackedAt(g, d) /\ Packed(g, d).profile = d.profile
                   /\ Packed(g, d).gpu = g
                   /\ SlicesOf(Packed(g, d)) = PackedAt(g, d) .. (PackedAt(g, d) + d.profile.mem - 1)
                   /\ PackedAt(g, d) \in SlicesOf(Packed(g, d))
  BY <1>2, <1>3 DEF Packed, SlicesOf
<1>. HIDE DEF S, taken
<1>6. ASSUME NEW d \in S
      PROVE  /\ Packed(g, d) \in PartitionsFor(g)
             /\ SlicesOf(Packed(g, d)) \subseteq 0..(taken - 1)
  <2>. DEFINE a == PackedAt(g, d)
              m == d.profile.mem
  <2>1. a \in Nat /\ m \in Nat \ {0} /\ a % m = 0 /\ a + m <= taken /\ taken \in 0..MemorySlices /\ MemorySlices \in Nat
    BY <1>2, <1>3, GeometryAssumption
  <2>. HIDE DEF a, m
  <2>2. a \in 0..(MemorySlices - m) /\ a .. (a + m - 1) \subseteq 0..(taken - 1)
    BY <2>1
  <2>3. a \in Placements(d.profile)
    BY <2>1, <2>2 DEF Placements, m
  <2>4. Packed(g, d) = [gpu |-> g, profile |-> d.profile, start |-> a]
    BY DEF Packed, a
  <2>5. Packed(g, d) \in PartitionsFor(g)
    BY <1>2, <2>3, <2>4 DEF PartitionsFor
  <2>6. SlicesOf(Packed(g, d)) = a .. (a + m - 1)
    BY <1>5 DEF a, m
  <2>. QED
    BY <2>2, <2>5, <2>6
<1>7. ASSUME NEW d \in S, NEW e \in S, Before(d, e)
      PROVE  SlicesOf(Packed(g, d)) \cap SlicesOf(Packed(g, e)) = {}
  <2>1. /\ PackedAt(g, d) + d.profile.mem <= PackedAt(g, e)
        /\ PackedAt(g, d) \in Nat /\ PackedAt(g, e) \in Nat
        /\ d.profile.mem \in Nat /\ e.profile.mem \in Nat
    BY <1>2, <1>3, <1>7
  <2>. DEFINE a == PackedAt(g, d)
              c == PackedAt(g, e)
              m == d.profile.mem
              n == e.profile.mem
  <2>2. /\ SlicesOf(Packed(g, d)) = a .. (a + m - 1)
        /\ SlicesOf(Packed(g, e)) = c .. (c + n - 1)
    BY <1>5
  <2>3. a + m <= c /\ a \in Nat /\ c \in Nat /\ m \in Nat /\ n \in Nat
    BY <2>1
  <2>. HIDE DEF a, c, m, n
  <2>4. (a .. (a + m - 1)) \cap (c .. (c + n - 1)) = {}
    BY <2>3
  <2>. QED
    BY <2>2, <2>4
<1>8. \A d, e \in S : d # e => SlicesOf(Packed(g, d)) \cap SlicesOf(Packed(g, e)) = {}
  <2>1. \A d, e \in S : d # e => Before(d, e) \/ Before(e, d)
    BY PackingOrder DEF S
  <2>. QED
    BY <1>7, <2>1
<1>9. \A d, e \in S : Packed(g, d) = Packed(g, e) => d = e
  BY <1>5, <1>8
<1>10. b \in Bijection(S, Repacked(g))
  <2>. DEFINE T == Repacked(g)
  <2>1. b \in [S -> T] /\ \A d \in S : b[d] = Packed(g, d)
    BY <1>4
  <2>2. \A y \in T : \E d \in S : b[d] = y
    BY <1>4
  <2>. HIDE DEF b, T
  <2>. QED
    BY <1>9, <2>1, <2>2 DEF Bijection, Injection, Surjection, IsInjective, T
<1>. QED
  BY <1>4, <1>6, <1>8, <1>10 DEF S, taken

\* What one partition takes is what it takes after it was moved: the sums stay.
LEMMA PackedTakesAsMuch ==
    ASSUME IndInv, SizesNest, NEW g \in GPUs
    PROVE  LET before == StateFromAllocated(On(g))
               after  == StateFromAllocated(Repacked(g))
               taken  == SumFunctionOnSet(Size(g), On(g))
           IN  /\ after.used = 0..(taken - 1)
               /\ Cardinality(before.used) = taken /\ Cardinality(after.used) = taken
               /\ taken \in 0..MemorySlices
               /\ after.sm = before.sm
<1>. DEFINE S == On(g)
            T == Repacked(g)
            b == [d \in S |-> Packed(g, d)]
            size == Size(g)
            sizeT == [x \in T |-> x.profile.mem]
            smS == [d \in S |-> d.profile.sm]
            smT == [x \in T |-> x.profile.sm]
            taken == SumFunctionOnSet(size, S)
            used == UNION {SlicesOf(x) : x \in T}
<1>1. S \in SUBSET Devices /\ IsFiniteSet(S)
  BY FinitelyMany
<1>2. /\ b \in Bijection(S, T) /\ T \subseteq PartitionsFor(g)
      /\ \A x \in T : SlicesOf(x) \subseteq 0..(taken - 1)
      /\ \A x, y \in T : x # y => SlicesOf(x) \cap SlicesOf(y) = {}
  BY PackedOneForOne
<1>3. T \in SUBSET Devices
  BY <1>2 DEF Devices
<1>4. \A d \in S : b[d].profile = d.profile /\ b[d] \in T
  <2>1. \A d \in S : b[d].profile = d.profile
    BY DEF Packed
  <2>2. \A d \in S : b[d] \in T
    <3>. HIDE DEF b, S, T
    <3>. QED
      BY <1>2 DEF Bijection, Injection
  <2>. QED
    BY <2>1, <2>2
<1>5. IsFiniteSet(T)
  <2>1. ExistsBijection(S, T)
    BY <1>2 DEF ExistsBijection
  <2>. HIDE DEF S, T
  <2>. QED
    BY <1>1, <2>1, FS_Bijection
<1>6. /\ \A x \in T : sizeT[x] = x.profile.mem /\ smT[x] = x.profile.sm /\ sizeT[x] \in Int /\ smT[x] \in Int
      /\ \A d \in S : size[d] = sizeT[b[d]] /\ smS[d] = smT[b[d]]
  <2>1. \A x \in T : x.profile.mem \in Int /\ x.profile.sm \in Int
    BY <1>3, DeviceParts, GeometryAssumption
  <2>2. \A d \in S : size[d] = d.profile.mem /\ smS[d] = d.profile.sm
    BY DEF Size
  <2>3. \A x \in T : sizeT[x] = x.profile.mem /\ smT[x] = x.profile.sm
    OBVIOUS
  <2>. HIDE DEF b, sizeT, smS, smT, size, S, T
  <2>. QED
    BY <1>4, <2>1, <2>2, <2>3
<1>7. /\ StateFromAllocated(T).used = used
      /\ StateFromAllocated(T).sm = SumFunctionOnSet(smT, T)
      /\ StateFromAllocated(S).sm = SumFunctionOnSet(smS, S)
  <2>1. SumFunction(smT) = SumFunctionOnSet(smT, T) /\ SumFunction(smS) = SumFunctionOnSet(smS, S)
    BY Zenon DEF SumFunction
  <2>2. \A ds : LET st == StateFromAllocated(ds)
                IN  st.used = UNION {SlicesOf(d) : d \in ds} /\ st.sm = SumFunction([d \in ds |-> d.profile.sm])
    BY Zenon, \A x, y : [used |-> x, sm |-> y].used = x /\ [used |-> x, sm |-> y].sm = y DEF StateFromAllocated
  <2>. QED
    BY <2>1, <2>2, Zenon
<1>8. taken \in 0..MemorySlices /\ Cardinality(StateFromAllocated(S).used) = taken
  BY PackedInOrder
<1>. HIDE DEF b, size, sizeT, smS, smT, S, T
<1>9. SumFunctionOnSet(size, S) = SumFunctionOnSet(sizeT, T)
  <2>1. OneForOne(S, T, size, sizeT)
    BY <1>1, <1>2, <1>6 DEF OneForOne
  <2>. QED
    BY ONLY <2>1, SumOneForOne, SMT
<1>10. SumFunctionOnSet(smS, S) = SumFunctionOnSet(smT, T)
  <2>1. OneForOne(S, T, smS, smT)
    BY <1>1, <1>2, <1>6 DEF OneForOne
  <2>. QED
    BY ONLY <2>1, SumOneForOne, SMT
<1>11. IsFiniteSet(used) /\ Cardinality(used) = taken
  <2>1. \A x \in T : sizeT[x] = x.profile.mem
    BY <1>6
  <2>. QED
    BY <1>2, <1>3, <1>5, <1>9, <2>1, MemoryTaken
<1>12. used = 0..(taken - 1)
  <2>1. used \subseteq 0..(taken - 1)
    BY <1>2
  <2>. HIDE DEF used, taken
  <2>2. IsFiniteSet(0..(taken - 1)) /\ Cardinality(0..(taken - 1)) = taken
    <3>1. taken \in Nat
      BY <1>8, GeometryAssumption
    <3>2. taken - 1 \in Int /\ (IF 0 > taken - 1 THEN 0 ELSE (taken - 1) - 0 + 1) = taken
      BY <3>1
    <3>. QED
      BY <3>2, FS_Interval
  <2>. QED
    BY <1>11, <2>1, <2>2, FS_Subset
<1>. HIDE DEF used, taken
<1>. QED
  BY <1>7, <1>8, <1>10, <1>11, <1>12 DEF S, T, size, taken

\* Where the sizes nest what the report calls lost is what repacking would bring back,
\* after any sequence of claims.
THEOREM LostIsRecovered ==
    ASSUME SizesNest
    PROVE  Spec => []DefragmentationRecoversLost
<1>1. IndInv => DefragmentationRecoversLost
  <2>. SUFFICES ASSUME IndInv, NEW g \in GPUs
                PROVE  LET packed == Repacked(g)
                           before == StateFromAllocated(On(g))
                           after  == StateFromAllocated(packed)
                       IN  /\ packed \subseteq PartitionsFor(g)
                           /\ \A d, e \in packed : d # e => ~Overlaps(d, e)
                           /\ FreeMemory(after) = FreeMemory(before) /\ FreeSM(after) = FreeSM(before)
                           /\ \A p \in ProfileSet : /\ Actual(p, after) = Ideal(p, before)
                                                    /\ Lost(p, before) >= 0
    BY DEF DefragmentationRecoversLost
  <2>. DEFINE packed == Repacked(g)
              before == StateFromAllocated(On(g))
              after == StateFromAllocated(packed)
              taken == SumFunctionOnSet(Size(g), On(g))
  <2>1. packed \subseteq PartitionsFor(g) /\ \A x, y \in packed : x # y => SlicesOf(x) \cap SlicesOf(y) = {}
    BY PackedOneForOne
  <2>2. packed \subseteq Devices
    BY <2>1 DEF Devices
  <2>3. \A d, e \in packed : d # e => ~Overlaps(d, e)
    BY <2>1, <2>2, OverlapIsSharing
  <2>4. /\ after.used = 0..(taken - 1)
        /\ Cardinality(before.used) = taken /\ Cardinality(after.used) = taken
        /\ taken \in 0..MemorySlices
        /\ after.sm = before.sm
    BY PackedTakesAsMuch
  <2>5. before.used \subseteq Positions /\ FreeSM(before) \in Nat
    BY StateIsLeft
  <2>. HIDE DEF packed, before, after, taken
  <2>6. FreeMemory(after) = FreeMemory(before) /\ FreeMemory(before) = MemorySlices - taken
        /\ FreeSM(after) = FreeSM(before)
    BY <2>4 DEF FreeMemory, FreeSM
  <2>7. ASSUME NEW p \in ProfileSet
        PROVE  Actual(p, after) = Ideal(p, before) /\ Lost(p, before) >= 0
    <3>. DEFINE f == GoDiv(FreeMemory(before), p.mem)
                s == GoDiv(FreeSM(before), p.sm)
                c == Cardinality(FreePlacements(p, before))
    <3>1. /\ FreeMemory(before) \in Nat /\ IsFiniteSet(FreePlacements(p, before))
          /\ c <= f
      BY <2>5, PlacedIsFree
    <3>2. f \in Nat /\ f = FreeMemory(before) \div p.mem
      <4>. DEFINE n == FreeMemory(before)
                  m == p.mem
      <4>1. n \in Nat /\ m \in Nat \ {0}
        BY <3>1, GeometryAssumption
      <4>. HIDE DEF n, m
      <4>2. n \div m \in Nat /\ GoDiv(n, m) = n \div m
        BY <4>1, Division, GoDivision
      <4>. QED
        BY <4>2 DEF n, m
    <3>3. s \in Nat
      BY <2>5, GeometryAssumption, Division, GoDivision
    <3>4. c \in Nat
      BY <3>1, FS_CardinalityType
    <3>5. Cardinality(FreePlacements(p, after)) = f
      <4>1. MemorySlices % p.mem = 0
        BY DEF SizesNest
      <4>2. Cardinality(FreePlacements(p, after)) = (MemorySlices - taken) \div p.mem
        BY <2>4, <4>1, RoomBehind
      <4>. QED
        BY <2>6, <3>2, <4>2, Zenon
    <3>6. Actual(p, after) = Ideal(p, before)
      BY <2>6, <3>5 DEF Actual, Ideal
    <3>7. Lost(p, before) = Least(f, s) - Least(c, s)
      BY Zenon DEF Lost, Ideal, Actual
    <3>. HIDE DEF f, s, c
    <3>8. Lost(p, before) >= 0
      BY <3>1, <3>2, <3>3, <3>4, <3>7 DEF Least
    <3>. QED
      BY <3>6, <3>8
  <2>. QED
    BY <2>1, <2>3, <2>6, <2>7 DEF packed, before, after
<1>. QED
  BY <1>1, Inductive, PTL
=============================================================================
