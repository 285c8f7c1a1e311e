------------------------- MODULE Conditions_proofs -------------------------
(***************************************************************************)
(* Proofs about Conditions and Fragmentation for every table of profiles   *)
(* and every set of nodes.  The name of a partition does not say the node  *)
(* (mig.deviceName), and nodes that are cut alike publish the same names:  *)
(* what the code concludes from names is stated for all of them, and for   *)
(* the states in which it is true of each.  What is published once takes   *)
(* pools that name a profile once.                                         *)
(***************************************************************************)
EXTENDS Conditions, DataTheorems

-----------------------------------------------------------------------------
(* What is published.                                                      *)

\* The partitions of profile p on GPU g, and those of a node.
Cut(g, p) == {[gpu |-> g, profile |-> p, start |-> s] : s \in Placements(p)}
CutNode(n) == UNION {UNION {Cut(g, p) : p \in ToSet(Selected(n))} : g \in GPUs}

\* A name tells the profile, and so do its sizes.
LEMMA TableTells ==
    \A p, q \in ProfileSet : p.name = q.name \/ (p.mem = q.mem /\ p.sm = q.sm) => p = q
BY TableAssumption DEF ProfileSet

LEMMA SelectedProfiles ==
    ASSUME mig \in Configs, NEW n \in Nodes, mig[n].enabled
    PROVE  Selected(n) \in Seq(ProfileSet)
<1>. DEFINE names == mig[n].profiles
            ofName(i) == CHOOSE p \in ProfileSet : p.name = names[i]
<1>1. names \in Seq({p.name : p \in ProfileSet})
  BY ConfigsAssumption DEF ValidSelection
<1>2. CASE names = <<>>
  BY <1>2, TableAssumption DEF Selected, SelectProfiles
<1>3. CASE names # <<>>
  <2>1. Selected(n) = [i \in DOMAIN names |-> ofName(i)]
    BY <1>3 DEF Selected, SelectProfiles
  <2>2. ASSUME NEW i \in DOMAIN names
        PROVE  ofName(i) \in ProfileSet
    <3>1. \E p \in ProfileSet : p.name = names[i]
      BY <1>1
    <3>. QED
      BY <3>1
  <2>3. DOMAIN names = 1..Len(names) /\ Len(names) \in Nat
    BY <1>1, LenProperties
  <2>. HIDE DEF names, ofName
  <2>. QED
    BY <2>1, <2>2, <2>3
<1>. QED
  BY <1>2, <1>3

\* The offsets that PartitionsFor counts up to are the aligned ones.
LEMMA CutCounted ==
    ASSUME NEW g, NEW p \in ProfileSet
    PROVE  LET row == [j \in 1..(MemorySlices \div p.mem) |->
                          [gpu |-> g, profile |-> p, start |-> (j - 1) * p.mem]]
           IN  /\ row \in Seq(Cut(g, p))
               /\ ToSet(row) = Cut(g, p)
<1>. DEFINE m == p.mem
            q == MemorySlices \div m
            at(s) == [gpu |-> g, profile |-> p, start |-> s]
            row == [j \in 1..q |-> at((j - 1) * m)]
<1>1. m \in Nat \ {0} /\ MemorySlices \in Nat /\ m <= MemorySlices
  BY GeometryAssumption
<1>2. /\ q \in Nat
      /\ \A k \in 0..(q - 1) : k * m \in 0..(MemorySlices - m) /\ (k * m) % m = 0
      /\ \A s \in 0..(MemorySlices - m) : s % m = 0 => s \div m \in 0..(q - 1) /\ (s \div m) * m = s
  BY <1>1, MultiplesBelow
<1>3. Cut(g, p) = {at(s) : s \in Placements(p)}
  BY DEF Cut
<1>4. \A s : s \in Placements(p) <=> s \in 0..(MemorySlices - m) /\ s % m = 0
  BY DEF Placements
<1>. HIDE DEF m, q, at
<1>5. ASSUME NEW j \in 1..q
      PROVE  row[j] \in Cut(g, p)
  <2>1. j - 1 \in 0..(q - 1)
    BY <1>2
  <2>2. (j - 1) * m \in Placements(p)
    BY <1>2, <1>4, <2>1
  <2>. QED
    BY <1>3, <2>2
<1>6. ASSUME NEW s \in Placements(p)
      PROVE  \E j \in 1..q : row[j] = at(s)
  <2>1. s \div m \in 0..(q - 1) /\ (s \div m) * m = s
    BY <1>2, <1>4
  <2>. DEFINE k == s \div m
  <2>2. k + 1 \in 1..q /\ (k + 1) - 1 = k
    BY <1>2, <2>1
  <2>3. row[k + 1] = at(s)
    BY <2>1, <2>2
  <2>. QED
    BY <2>2, <2>3
<1>7. row \in Seq(Cut(g, p)) /\ DOMAIN row = 1..q
  BY <1>2, <1>5
<1>8. ToSet(row) = Cut(g, p)
  <2>1. \A x \in ToSet(row) : x \in Cut(g, p)
    BY <1>5, <1>7 DEF ToSet
  <2>2. \A x \in Cut(g, p) : x \in ToSet(row)
    BY <1>3, <1>6, <1>7 DEF ToSet
  <2>. QED
    BY <2>1, <2>2
<1>. QED
  BY <1>7, <1>8 DEF row, at, q, m

\* PartitionsFor: every aligned offset of every profile, on one GPU.
LEMMA GPUIsCut ==
    ASSUME NEW g, NEW ps \in Seq(ProfileSet)
    PROVE  LET every == UNION {Cut(g, p) : p \in ToSet(ps)}
           IN  /\ GPUPartitions(ps, g) \in Seq(every)
               /\ ToSet(GPUPartitions(ps, g)) = every
<1>. DEFINE every == UNION {Cut(g, p) : p \in ToSet(ps)}
            row(p) == [j \in 1..(MemorySlices \div p.mem) |->
                          [gpu |-> g, profile |-> p, start |-> (j - 1) * p.mem]]
            rows == [i \in DOMAIN ps |-> row(ps[i])]
<1>1. DOMAIN ps = 1..Len(ps) /\ Len(ps) \in Nat /\ \A i \in DOMAIN ps : ps[i] \in ProfileSet
  BY LenProperties, ElementOfSeq
<1>2. \A p \in ProfileSet : row(p) \in Seq(Cut(g, p)) /\ ToSet(row(p)) = Cut(g, p)
  BY CutCounted
<1>3. GPUPartitions(ps, g) = FlattenSeq(rows)
  BY DEF GPUPartitions
<1>. HIDE DEF row
<1>4. \A i \in DOMAIN ps : rows[i] \in Seq(every) /\ ToSet(rows[i]) = Cut(g, ps[i])
  <2>. SUFFICES ASSUME NEW i \in DOMAIN ps
                PROVE  row(ps[i]) \in Seq(every) /\ ToSet(row(ps[i])) = Cut(g, ps[i])
    OBVIOUS
  <2>1. Cut(g, ps[i]) \subseteq every
    BY DEF ToSet
  <2>2. Seq(Cut(g, ps[i])) \subseteq Seq(every)
    <3>. HIDE DEF every
    <3>. QED
      BY <2>1
  <2>. QED
    BY <1>1, <1>2, <2>2
<1>5. rows \in Seq(Seq(every)) /\ DOMAIN rows = DOMAIN ps
  <2>. HIDE DEF every
  <2>. QED
    BY <1>1, <1>4
<1>6. FlattenSeq(rows) \in Seq(every) /\ ToSet(FlattenSeq(rows)) = UNION {ToSet(rows[i]) : i \in DOMAIN rows}
  <2>. HIDE DEF every, rows
  <2>. QED
    BY <1>5, Flattened
<1>7. UNION {ToSet(rows[i]) : i \in DOMAIN rows} = every
  <2>1. \A x : x \in UNION {ToSet(rows[i]) : i \in DOMAIN rows} <=> \E i \in DOMAIN ps : x \in Cut(g, ps[i])
    <3>. HIDE DEF rows
    <3>. QED
      BY <1>4, <1>5
  <2>2. \A x : x \in every <=> \E i \in DOMAIN ps : x \in Cut(g, ps[i])
    BY DEF ToSet
  <2>. QED
    BY <2>1, <2>2
<1>. QED
  BY <1>3, <1>6, <1>7

LEMMA GPUsInOrder ==
    /\ GPUList \in Seq(GPUs) /\ ToSet(GPUList) = GPUs
    /\ DOMAIN GPUList = 1..Cardinality(GPUs) /\ Cardinality(GPUs) \in Nat
    /\ \A i \in DOMAIN GPUList : GPUList[i] = i - 1
<1>. DEFINE k == Cardinality(GPUs)
<1>1. k \in Nat /\ GPUs = 0..(k - 1)
  BY ConfigsAssumption, FS_CardinalityType
<1>2. GPUList = [i \in 1..k |-> i - 1]
  BY DEF GPUList
<1>. HIDE DEF k
<1>3. GPUList \in Seq(GPUs) /\ DOMAIN GPUList = 1..k /\ \A i \in 1..k : GPUList[i] = i - 1
  BY <1>1, <1>2
<1>4. ToSet(GPUList) = GPUs
  <2>1. \A g \in GPUs : g + 1 \in 1..k /\ (g + 1) - 1 = g
    BY <1>1
  <2>2. \A i \in 1..k : i - 1 \in GPUs
    BY <1>1
  <2>. QED
    BY <1>3, <2>1, <2>2 DEF ToSet
<1>. QED
  BY <1>1, <1>3, <1>4 DEF k

\* What a node publishes: all its partitions, or its GPUs as they are.
LEMMA Published ==
    ASSUME mig \in Configs, NEW n \in Nodes
    PROVE  /\ mig[n].enabled => /\ NodeDevices(n) \in Seq(CutNode(n))
                                /\ ToSet(NodeDevices(n)) = CutNode(n)
           /\ ~mig[n].enabled => ToSet(NodeDevices(n)) = {[gpu |-> g, node |-> n] : g \in GPUs}
<1>1. ASSUME mig[n].enabled
      PROVE  NodeDevices(n) \in Seq(CutNode(n)) /\ ToSet(NodeDevices(n)) = CutNode(n)
  <2>. DEFINE ps == Selected(n)
              whole(g) == UNION {Cut(g, p) : p \in ToSet(ps)}
              parts == [i \in DOMAIN GPUList |-> GPUPartitions(ps, GPUList[i])]
  <2>1. ps \in Seq(ProfileSet)
    BY <1>1, SelectedProfiles
  <2>2. NodeDevices(n) = FlattenSeq(parts)
    BY <1>1 DEF NodeDevices
  <2>3. \A g : GPUPartitions(ps, g) \in Seq(whole(g)) /\ ToSet(GPUPartitions(ps, g)) = whole(g)
    BY <2>1, GPUIsCut
  <2>4. CutNode(n) = UNION {whole(g) : g \in GPUs}
    BY DEF CutNode
  <2>. HIDE DEF ps, whole
  <2>5. \A i \in DOMAIN GPUList : GPUList[i] \in GPUs
    BY GPUsInOrder DEF ToSet
  <2>6. \A i \in DOMAIN parts : parts[i] \in Seq(CutNode(n)) /\ ToSet(parts[i]) = whole(GPUList[i])
    <3>. SUFFICES ASSUME NEW i \in DOMAIN GPUList
                  PROVE  GPUPartitions(ps, GPUList[i]) \in Seq(CutNode(n))
                         /\ ToSet(GPUPartitions(ps, GPUList[i])) = whole(GPUList[i])
      OBVIOUS
    <3>1. whole(GPUList[i]) \subseteq CutNode(n)
      BY <2>4, <2>5
    <3>2. Seq(whole(GPUList[i])) \subseteq Seq(CutNode(n))
      BY <3>1
    <3>. QED
      BY <2>3, <3>2
  <2>7. parts \in Seq(Seq(CutNode(n))) /\ DOMAIN parts = DOMAIN GPUList
    BY <2>6, GPUsInOrder
  <2>8. FlattenSeq(parts) \in Seq(CutNode(n))
        /\ ToSet(FlattenSeq(parts)) = UNION {ToSet(parts[i]) : i \in DOMAIN parts}
    <3>. HIDE DEF parts
    <3>. QED
      BY <2>7, Flattened
  <2>9. UNION {ToSet(parts[i]) : i \in DOMAIN parts} = CutNode(n)
    <3>1. \A x : x \in UNION {ToSet(parts[i]) : i \in DOMAIN parts}
                 <=> \E i \in DOMAIN GPUList : x \in whole(GPUList[i])
      <4>. HIDE DEF parts
      <4>. QED
        BY <2>6, <2>7
    <3>2. \A x : x \in CutNode(n) <=> \E i \in DOMAIN GPUList : x \in whole(GPUList[i])
      BY <2>4, GPUsInOrder DEF ToSet
    <3>. QED
      BY <3>1, <3>2
  <2>. QED
    BY <2>2, <2>8, <2>9
<1>2. ASSUME ~mig[n].enabled
      PROVE  ToSet(NodeDevices(n)) = {[gpu |-> g, node |-> n] : g \in GPUs}
  <2>1. NodeDevices(n) = [i \in DOMAIN GPUList |-> [gpu |-> GPUList[i], node |-> n]]
    BY <1>2 DEF NodeDevices
  <2>2. ToSet(NodeDevices(n)) = {[gpu |-> GPUList[i], node |-> n] : i \in DOMAIN GPUList}
    BY <2>1 DEF ToSet
  <2>3. \A g : g \in GPUs <=> \E i \in DOMAIN GPUList : GPUList[i] = g
    BY GPUsInOrder DEF ToSet
  <2>. QED
    BY <2>2, <2>3
<1>. QED
  BY <1>1, <1>2

\* What can be said of a device by the kind of its node.
LEMMA DeviceOfNode ==
    ASSUME mig \in Configs, NEW n \in Nodes, NEW d \in ToSet(NodeDevices(n))
    PROVE  /\ mig[n].enabled =>
                \E g \in GPUs : \E p \in ProfileSet : \E s \in Placements(p) :
                    d = [gpu |-> g, profile |-> p, start |-> s] /\ p \in ToSet(Selected(n))
           /\ ~mig[n].enabled => \E g \in GPUs : d = [gpu |-> g, node |-> n]
<1>1. ASSUME mig[n].enabled
      PROVE  \E g \in GPUs : \E p \in ProfileSet : \E s \in Placements(p) :
                    d = [gpu |-> g, profile |-> p, start |-> s] /\ p \in ToSet(Selected(n))
  <2>1. d \in CutNode(n)
    BY <1>1, Published
  <2>2. PICK g \in GPUs, p \in ToSet(Selected(n)) : d \in Cut(g, p)
    BY <2>1 DEF CutNode
  <2>3. PICK s \in Placements(p) : d = [gpu |-> g, profile |-> p, start |-> s]
    BY <2>2 DEF Cut
  <2>4. p \in ProfileSet
    BY <1>1, <2>2, SelectedProfiles DEF ToSet
  <2>. QED
    BY <2>2, <2>3, <2>4
<1>2. ASSUME ~mig[n].enabled
      PROVE  \E g \in GPUs : d = [gpu |-> g, node |-> n]
  BY <1>2, Published
<1>. QED
  BY <1>1, <1>2

\* A name tells the device, but of a partition not the node.
LEMMA NamesTell ==
    ASSUME mig \in Configs,
           NEW m \in Nodes, NEW n \in Nodes,
           NEW d \in ToSet(NodeDevices(m)), NEW e \in ToSet(NodeDevices(n)),
           DeviceName(d) = DeviceName(e)
    PROVE  d = e /\ (m = n \/ {m, n} \subseteq MigNodes)
<1>1. \A g, p, s : LET x == [gpu |-> g, profile |-> p, start |-> s]
                   IN  DeviceName(x) = <<g, p.name, s>>
  BY DEF DeviceName, IsPartition
<1>2. \A g, k : DeviceName([gpu |-> g, node |-> k]) = <<k, g>>
  BY DEF DeviceName, IsPartition
<1>3. \A a, b, c, x, y : <<a, b, c>> # <<x, y>>
  OBVIOUS
<1>4. CASE mig[m].enabled /\ mig[n].enabled
  <2>1. {m, n} \subseteq MigNodes
    BY <1>4 DEF MigNodes
  <2>2. PICK g \in GPUs, p \in ProfileSet : \E s \in Placements(p) : d = [gpu |-> g, profile |-> p, start |-> s]
    BY <1>4, DeviceOfNode
  <2>3. PICK s \in Placements(p) : d = [gpu |-> g, profile |-> p, start |-> s]
    BY <2>2
  <2>4. PICK h \in GPUs, q \in ProfileSet : \E t \in Placements(q) : e = [gpu |-> h, profile |-> q, start |-> t]
    BY <1>4, DeviceOfNode
  <2>5. PICK t \in Placements(q) : e = [gpu |-> h, profile |-> q, start |-> t]
    BY <2>4
  <2>6. <<g, p.name, s>> = <<h, q.name, t>>
    BY <1>1, <2>3, <2>5
  <2>7. p = q
    BY <2>6, TableTells
  <2>. QED
    BY <2>1, <2>3, <2>5, <2>6, <2>7
<1>5. CASE ~mig[m].enabled /\ ~mig[n].enabled
  <2>1. PICK g \in GPUs : d = [gpu |-> g, node |-> m]
    BY <1>5, DeviceOfNode
  <2>2. PICK h \in GPUs : e = [gpu |-> h, node |-> n]
    BY <1>5, DeviceOfNode
  <2>3. <<m, g>> = <<n, h>>
    BY <1>2, <2>1, <2>2
  <2>. QED
    BY <2>1, <2>2, <2>3
<1>6. CASE mig[m].enabled /\ ~mig[n].enabled
  <2>1. PICK g \in GPUs, p \in ProfileSet : \E s \in Placements(p) : d = [gpu |-> g, profile |-> p, start |-> s]
    BY <1>6, DeviceOfNode
  <2>2. PICK h \in GPUs : e = [gpu |-> h, node |-> n]
    BY <1>6, DeviceOfNode
  <2>. QED
    BY <1>1, <1>2, <1>3, <2>1, <2>2
<1>7. CASE ~mig[m].enabled /\ mig[n].enabled
  <2>1. PICK g \in GPUs, p \in ProfileSet : \E s \in Placements(p) : e = [gpu |-> g, profile |-> p, start |-> s]
    BY <1>7, DeviceOfNode
  <2>2. PICK h \in GPUs : d = [gpu |-> h, node |-> m]
    BY <1>7, DeviceOfNode
  <2>. QED
    BY <1>1, <1>2, <1>3, <2>1, <2>2
<1>. QED
  BY <1>4, <1>5, <1>6, <1>7

-----------------------------------------------------------------------------
(* The inductive invariant of the checks.                                  *)

\* Claims are of devices that their node publishes.
ClaimsArePublished ==
    \A c \in claims \cup seen.claims : c.node \in Nodes /\ c.device \in ToSet(NodeDevices(c.node))

\* The pods there are, were seen, or still have a claim: no uid was given twice.
Everyone ==
    pods \cup seen.pods \cup ({c.pod : c \in claims \cup seen.claims} \ {Foreign})

PodsAreApart ==
    /\ created \in 0..MaxPods
    /\ \A p \in Everyone : \E u \in 1..created : \E w \in {Workload} \cup Others :
          p = [uid |-> u, workload |-> w]
    /\ \A p, q \in Everyone : p.uid = q.uid => p = q

\* What the check has noted is what there was when it looked.
Owned == {p.uid : p \in {q \in seen.pods : q.workload = Workload}}
Noted == {[pod |-> c.pod.uid, name |-> DeviceName(c.device)] :
             c \in {d \in seen.claims : d.pod # Foreign /\ d.pod.uid \in check.owned}}

NotesAreTrue ==
    /\ check = [pc |-> check.pc, assertion |-> check.assertion, owned |-> check.owned,
                byPod |-> check.byPod, verdict |-> check.verdict]
    /\ seen = [pods |-> seen.pods, claims |-> seen.claims]
    /\ check.assertion \in Assertions
    /\ check.pc \in {"idle", "claims", "slices", "done"}
    /\ check.pc \in {"claims", "slices"} => check.assertion.kind = "allocated"
    /\ check.assertion.kind = "allocated" /\ check.pc # "idle" => check.owned = Owned
    /\ check.assertion.kind = "allocated" /\ check.pc \in {"slices", "done"} =>
          check.byPod = Noted

\* The verdict of a check of devices, of what it noted.
JudgedOfNotes ==
    check.pc = "done" /\ check.assertion.kind = "allocated" =>
        (check.verdict <=>
            /\ check.byPod # {}
            /\ \A b \in check.byPod :
                  /\ Publishers(b.name) # {}
                  /\ Matches(check.assertion.want, DeviceAttributes(b.name)))

CheckInv ==
    /\ mig \in Configs
    /\ ClaimsArePublished
    /\ PodsAreApart
    /\ NotesAreTrue
    /\ JudgedOfNotes

LEMMA InitCheckInv == CheckInit => CheckInv
<1>. SUFFICES ASSUME CheckInit
              PROVE  CheckInv
  OBVIOUS
<1>1. PICK a \in Assertions : check = Unchecked(a)
  BY DEF CheckInit
<1>2. /\ mig \in Configs /\ claims = {} /\ pods = {} /\ created = 0
      /\ seen = [pods |-> {}, claims |-> {}]
      /\ check = [pc |-> "idle", assertion |-> a, owned |-> {}, byPod |-> {}, verdict |-> FALSE]
  BY <1>1 DEF CheckInit, Init, Unchecked
<1>3. ClaimsArePublished
  BY <1>2 DEF ClaimsArePublished
<1>4. PodsAreApart
  BY <1>2, PodsAssumption DEF PodsAreApart, Everyone
<1>5. NotesAreTrue /\ JudgedOfNotes
  BY <1>2 DEF NotesAreTrue, JudgedOfNotes
<1>. QED
  BY <1>2, <1>3, <1>4, <1>5 DEF CheckInv

\* What is published stays as it is.
LEMMA SlicesStay ==
    ASSUME mig' = mig
    PROVE  /\ \A n : NodeDevices(n)' = NodeDevices(n)
           /\ \A x : Publishers(x)' = Publishers(x)
           /\ \A x : DeviceAttributes(x)' = DeviceAttributes(x)
BY DEF NodeDevices, Selected, Publishers, DeviceAttributes

LEMMA NobodyNew ==
    ASSUME PodsAreApart, created' = created, Everyone' \subseteq Everyone
    PROVE  PodsAreApart'
BY DEF PodsAreApart

\* Pods and claims come and go: the check has noted what it has.
LEMMA NotesStay ==
    ASSUME CheckInv, mig' = mig, check' = check, seen' = seen
    PROVE  mig' \in Configs /\ NotesAreTrue' /\ JudgedOfNotes'
<1>1. NotesAreTrue'
  BY DEF CheckInv, NotesAreTrue, Owned, Noted
<1>2. JudgedOfNotes'
  BY SlicesStay DEF CheckInv, JudgedOfNotes
<1>. QED
  BY <1>1, <1>2 DEF CheckInv

LEMMA ClusterKeepsInv ==
    ASSUME CheckInv, Cluster
    PROVE  CheckInv'
<1>1. ASSUME NEW w \in {Workload} \cup Others, CreatePod(w)
      PROVE  CheckInv'
  <2>. DEFINE p == [uid |-> created + 1, workload |-> w]
  <2>1. /\ created < MaxPods /\ created' = created + 1
        /\ pods' = pods \cup {p} /\ mig' = mig /\ claims' = claims /\ check' = check /\ seen' = seen
    BY <1>1 DEF CreatePod
  <2>2. ClaimsArePublished'
    BY <2>1, SlicesStay DEF CheckInv, ClaimsArePublished
  <2>3. Everyone' \subseteq Everyone \cup {p}
    BY <2>1 DEF Everyone
  <2>4. PodsAreApart'
    <3>1. /\ created \in 0..MaxPods /\ MaxPods \in Nat
          /\ \A q \in Everyone : \E u \in 1..created : \E v \in {Workload} \cup Others :
                q = [uid |-> u, workload |-> v]
          /\ \A q, r \in Everyone : q.uid = r.uid => q = r
      BY PodsAssumption DEF CheckInv, PodsAreApart
    <3>2. \A q \in Everyone : q.uid \in 1..created
      BY <3>1
    <3>3. p.uid = created + 1 /\ created + 1 \notin 1..created /\ created + 1 \in 1..created'
      BY <2>1, <3>1
    <3>4. 1..created \subseteq 1..created' /\ created' \in 0..MaxPods
      BY <2>1, <3>1
    <3>5. \A q \in Everyone' : \E u \in 1..created' : \E v \in {Workload} \cup Others :
              q = [uid |-> u, workload |-> v]
      <4>. SUFFICES ASSUME NEW q \in Everyone'
                    PROVE  \E u \in 1..created' : \E v \in {Workload} \cup Others :
                               q = [uid |-> u, workload |-> v]
        OBVIOUS
      <4>1. CASE q = p
        BY <3>3, <4>1
      <4>2. CASE q \in Everyone
        BY <3>1, <3>4, <4>2
      <4>. QED
        BY <2>3, <4>1, <4>2
    <3>6. \A q, r \in Everyone' : q.uid = r.uid => q = r
      <4>. HIDE DEF p
      <4>. QED
        BY <2>3, <3>1, <3>2, <3>3
    <3>. QED
      BY <3>4, <3>5, <3>6 DEF PodsAreApart
  <2>. QED
    BY <2>1, <2>2, <2>4, NotesStay DEF CheckInv
<1>2. ASSUME NEW p \in pods, NEW n \in Nodes, NEW d \in ToSet(NodeDevices(n)), Bind(p, n, d)
      PROVE  CheckInv'
  <2>1. /\ claims' = claims \cup {[node |-> n, device |-> d, pod |-> p]}
        /\ mig' = mig /\ pods' = pods /\ created' = created /\ check' = check /\ seen' = seen
    BY <1>2 DEF Bind, Allocate
  <2>2. ClaimsArePublished'
    BY <2>1, SlicesStay DEF CheckInv, ClaimsArePublished
  <2>3. Everyone' \subseteq Everyone
    BY <2>1 DEF Everyone
  <2>. QED
    BY <2>1, <2>2, <2>3, NobodyNew, NotesStay DEF CheckInv
<1>3. ASSUME NEW p \in pods, DeletePod(p)
      PROVE  CheckInv'
  <2>1. /\ pods' = pods \ {p}
        /\ mig' = mig /\ claims' = claims /\ created' = created /\ check' = check /\ seen' = seen
    BY <1>3 DEF DeletePod
  <2>2. ClaimsArePublished'
    BY <2>1, SlicesStay DEF CheckInv, ClaimsArePublished
  <2>3. Everyone' \subseteq Everyone
    BY <2>1 DEF Everyone
  <2>. QED
    BY <2>1, <2>2, <2>3, NobodyNew, NotesStay DEF CheckInv
<1>4. ASSUME NEW c \in claims, CollectClaim(c)
      PROVE  CheckInv'
  <2>1. /\ claims' = claims \ {c}
        /\ mig' = mig /\ pods' = pods /\ created' = created /\ check' = check /\ seen' = seen
    BY <1>4 DEF CollectClaim, Release
  <2>2. ClaimsArePublished'
    BY <2>1, SlicesStay DEF CheckInv, ClaimsArePublished
  <2>3. Everyone' \subseteq Everyone
    BY <2>1 DEF Everyone
  <2>. QED
    BY <2>1, <2>2, <2>3, NobodyNew, NotesStay DEF CheckInv
<1>5. ASSUME NEW n \in Nodes, NEW d \in ToSet(NodeDevices(n)), ForeignClaim(n, d)
      PROVE  CheckInv'
  <2>1. /\ claims' = claims \cup {[node |-> n, device |-> d, pod |-> Foreign]}
        /\ mig' = mig /\ pods' = pods /\ created' = created /\ check' = check /\ seen' = seen
    BY <1>5 DEF ForeignClaim, Allocate
  <2>2. ClaimsArePublished'
    BY <2>1, SlicesStay DEF CheckInv, ClaimsArePublished
  <2>3. Everyone' \subseteq Everyone
    BY <2>1 DEF Everyone
  <2>. QED
    BY <2>1, <2>2, <2>3, NobodyNew, NotesStay DEF CheckInv
<1>. QED
  BY <1>1, <1>2, <1>3, <1>4, <1>5 DEF Cluster

\* A step of the check leaves pods and claims alone.
LEMMA ClaimsStay ==
    ASSUME CheckInv, mig' = mig, claims' = claims, pods' = pods, created' = created,
           seen'.pods \subseteq seen.pods \cup pods,
           seen'.claims \subseteq seen.claims \cup claims
    PROVE  mig' \in Configs /\ ClaimsArePublished' /\ PodsAreApart'
<1>1. ClaimsArePublished'
  BY SlicesStay DEF CheckInv, ClaimsArePublished
<1>2. Everyone' \subseteq Everyone
  BY DEF Everyone
<1>. QED
  BY <1>1, <1>2, NobodyNew DEF CheckInv

LEMMA ForgottenKeepsInv ==
    ASSUME CheckInv, check' = Unchecked(check.assertion), seen' = [pods |-> {}, claims |-> {}],
           UNCHANGED <<mig, claims, pods, created>>
    PROVE  CheckInv'
<1>1. check' = [pc |-> "idle", assertion |-> check.assertion, owned |-> {}, byPod |-> {}, verdict |-> FALSE]
  BY DEF Unchecked
<1>2. mig' \in Configs /\ ClaimsArePublished' /\ PodsAreApart'
  BY ClaimsStay
<1>3. NotesAreTrue' /\ JudgedOfNotes'
  BY <1>1 DEF CheckInv, NotesAreTrue, JudgedOfNotes
<1>. QED
  BY <1>2, <1>3 DEF CheckInv

LEMMA CheckStepKeepsInv ==
    ASSUME CheckInv, [CheckNext]_all
    PROVE  CheckInv'
<1>0. /\ check = [pc |-> check.pc, assertion |-> check.assertion, owned |-> check.owned,
                  byPod |-> check.byPod, verdict |-> check.verdict]
      /\ seen = [pods |-> seen.pods, claims |-> seen.claims]
  BY DEF CheckInv, NotesAreTrue
<1>1. CASE Cluster
  BY <1>1, ClusterKeepsInv
<1>2. CASE ListPods
  <2>1. /\ check.assertion.kind = "allocated"
        /\ check' = [check EXCEPT !.pc = "claims",
                              !.owned = {p.uid : p \in {q \in pods : q.workload = Workload}}]
        /\ seen' = [seen EXCEPT !.pods = pods]
        /\ mig' = mig /\ claims' = claims /\ pods' = pods /\ created' = created
    BY <1>2 DEF ListPods
  <2>2. /\ check'.pc = "claims" /\ check'.assertion = check.assertion
        /\ check'.owned = {p.uid : p \in {q \in pods : q.workload = Workload}}
        /\ check' = [pc |-> check'.pc, assertion |-> check'.assertion, owned |-> check'.owned,
                     byPod |-> check'.byPod, verdict |-> check'.verdict]
    BY <1>0, <2>1
  <2>3. seen' = [pods |-> seen'.pods, claims |-> seen'.claims] /\ seen'.pods = pods
        /\ seen'.claims = seen.claims
    BY <1>0, <2>1
  <2>4. mig' \in Configs /\ ClaimsArePublished' /\ PodsAreApart'
    BY <2>1, <2>3, ClaimsStay
  <2>5. NotesAreTrue' /\ JudgedOfNotes'
    BY <2>1, <2>2, <2>3 DEF CheckInv, NotesAreTrue, JudgedOfNotes, Owned
  <2>. QED
    BY <2>4, <2>5 DEF CheckInv
<1>3. CASE ListClaims
  <2>1. /\ check.pc = "claims"
        /\ check' = [check EXCEPT
              !.pc = "slices",
              !.byPod = {[pod |-> c.pod.uid, name |-> DeviceName(c.device)] :
                            c \in {d \in claims : d.pod # Foreign /\ d.pod.uid \in check.owned}}]
        /\ seen' = [seen EXCEPT !.claims = claims]
        /\ mig' = mig /\ claims' = claims /\ pods' = pods /\ created' = created
    BY <1>3 DEF ListClaims
  <2>2. /\ check'.pc = "slices" /\ check'.assertion = check.assertion
        /\ check'.owned = check.owned
        /\ check'.byPod = {[pod |-> c.pod.uid, name |-> DeviceName(c.device)] :
                             c \in {d \in claims : d.pod # Foreign /\ d.pod.uid \in check.owned}}
        /\ check' = [pc |-> check'.pc, assertion |-> check'.assertion, owned |-> check'.owned,
                     byPod |-> check'.byPod, verdict |-> check'.verdict]
    BY <1>0, <2>1
  <2>3. seen' = [pods |-> seen'.pods, claims |-> seen'.claims] /\ seen'.pods = seen.pods
        /\ seen'.claims = claims
    BY <1>0, <2>1
  <2>4. mig' \in Configs /\ ClaimsArePublished' /\ PodsAreApart'
    BY <2>1, <2>3, ClaimsStay
  <2>5. check.assertion.kind = "allocated" /\ check.owned = Owned
    BY <2>1 DEF CheckInv, NotesAreTrue
  <2>6. Owned' = Owned /\ check'.byPod = Noted'
    BY <2>2, <2>3 DEF Owned, Noted
  <2>7. NotesAreTrue' /\ JudgedOfNotes'
    BY <2>2, <2>3, <2>5, <2>6 DEF CheckInv, NotesAreTrue, JudgedOfNotes
  <2>. QED
    BY <2>4, <2>7 DEF CheckInv
<1>4. CASE JudgeDevices
  <2>. DEFINE good == /\ check.byPod # {}
                      /\ \A b \in check.byPod :
                            /\ Publishers(b.name) # {}
                            /\ Matches(check.assertion.want, DeviceAttributes(b.name))
  <2>1. /\ check.pc = "slices"
        /\ check' = [check EXCEPT !.pc = "done", !.verdict = good]
        /\ mig' = mig /\ claims' = claims /\ pods' = pods /\ created' = created /\ seen' = seen
    BY <1>4 DEF JudgeDevices
  <2>. HIDE DEF good
  <2>2. /\ check'.pc = "done" /\ check'.assertion = check.assertion
        /\ check'.owned = check.owned /\ check'.byPod = check.byPod /\ check'.verdict = good
        /\ check' = [pc |-> check'.pc, assertion |-> check'.assertion, owned |-> check'.owned,
                     byPod |-> check'.byPod, verdict |-> check'.verdict]
    BY <1>0, <2>1
  <2>3. mig' \in Configs /\ ClaimsArePublished' /\ PodsAreApart'
    BY <2>1, ClaimsStay
  <2>4. Owned' = Owned /\ Noted' = Noted
    BY <2>1, <2>2 DEF Owned, Noted
  <2>5. NotesAreTrue'
    BY <2>1, <2>2, <2>4 DEF CheckInv, NotesAreTrue
  <2>6. JudgedOfNotes'
    BY <2>1, <2>2, SlicesStay DEF JudgedOfNotes, good
  <2>. QED
    BY <2>3, <2>5, <2>6 DEF CheckInv
<1>5. CASE JudgeFragmentation
  <2>. DEFINE good == WithinBounds(Report)
  <2>1. /\ check.assertion.kind = "fragmentation"
        /\ check' = [check EXCEPT !.pc = "done", !.verdict = good]
        /\ seen' = [seen EXCEPT !.claims = claims]
        /\ mig' = mig /\ claims' = claims /\ pods' = pods /\ created' = created
    BY <1>5 DEF JudgeFragmentation
  <2>. HIDE DEF good
  <2>2. /\ check'.pc = "done" /\ check'.assertion = check.assertion
        /\ check' = [pc |-> check'.pc, assertion |-> check'.assertion, owned |-> check'.owned,
                     byPod |-> check'.byPod, verdict |-> check'.verdict]
    BY <1>0, <2>1
  <2>3. seen' = [pods |-> seen'.pods, claims |-> seen'.claims] /\ seen'.pods = seen.pods
        /\ seen'.claims = claims
    BY <1>0, <2>1
  <2>4. mig' \in Configs /\ ClaimsArePublished' /\ PodsAreApart'
    BY <2>1, <2>3, ClaimsStay
  <2>5. NotesAreTrue' /\ JudgedOfNotes'
    BY <2>1, <2>2, <2>3 DEF CheckInv, NotesAreTrue, JudgedOfNotes
  <2>. QED
    BY <2>4, <2>5 DEF CheckInv
<1>6. CASE ReadFails
  BY <1>6, ForgottenKeepsInv DEF ReadFails
<1>7. CASE Again
  BY <1>7, ForgottenKeepsInv DEF Again
<1>8. CASE UNCHANGED all
  <2>1. /\ mig' = mig /\ claims' = claims /\ pods' = pods /\ created' = created
        /\ check' = check /\ seen' = seen
    BY <1>8 DEF all
  <2>. QED
    BY <2>1, ClaimsStay, NotesStay DEF CheckInv
<1>. QED
  BY <1>1, <1>2, <1>3, <1>4, <1>5, <1>6, <1>7, <1>8 DEF CheckNext

\* Claims are of published devices, uids are given once, and what a check has noted is
\* what there was when it looked, whatever comes and goes between its reads.
THEOREM InvariantHolds == CheckSpec => []CheckInv
BY InitCheckInv, CheckStepKeepsInv, PTL DEF CheckSpec

-----------------------------------------------------------------------------
(* Devices.                                                                *)

\* A name is looked up on a node that publishes the device.
LEMMA FoundByName ==
    ASSUME mig \in Configs, NEW n \in Nodes, NEW d \in ToSet(NodeDevices(n))
    PROVE  /\ n \in Publishers(DeviceName(d))
           /\ \E k \in Nodes : /\ k = n \/ {k, n} \subseteq MigNodes
                               /\ DeviceAttributes(DeviceName(d)) = Attributes(k, d)
<1>. DEFINE name == DeviceName(d)
            pick(k) == CHOOSE x \in ToSet(NodeDevices(k)) : DeviceName(x) = name
            k == Max(Publishers(name))
<1>1. \A m \in Nodes : \A e \in ToSet(NodeDevices(m)) :
          DeviceName(e) = name => e = d /\ (m = n \/ {m, n} \subseteq MigNodes)
  BY NamesTell
<1>2. n \in Publishers(name) /\ Publishers(name) \in SUBSET Nodes
  BY DEF Publishers
<1>3. k \in Publishers(name)
  <2>. DEFINE S == Publishers(name)
  <2>1. S \in SUBSET Nodes /\ n \in S
    BY <1>2
  <2>2. IsFiniteSet(Nodes) /\ Nodes \subseteq Nat
    BY ConfigsAssumption
  <2>. HIDE DEF S
  <2>3. IsFiniteSet(S)
    BY <2>1, <2>2, FS_Subset
  <2>4. S \in SUBSET Int /\ S # {}
    BY <2>1, <2>2
  <2>. QED
    BY <2>3, <2>4, FiniteHasMax DEF S
<1>4. PICK e \in ToSet(NodeDevices(k)) : DeviceName(e) = name
  BY <1>3 DEF Publishers
<1>. HIDE DEF k
<1>5. k \in Nodes /\ (k = n \/ {k, n} \subseteq MigNodes)
  BY <1>1, <1>2, <1>3, <1>4
<1>. HIDE DEF name
<1>6. pick(k) = d
  <2>1. pick(k) \in ToSet(NodeDevices(k)) /\ DeviceName(pick(k)) = name
    BY <1>4
  <2>. HIDE DEF pick
  <2>. QED
    BY <1>1, <1>5, <2>1
<1>7. DeviceAttributes(name) = Attributes(k, pick(k))
  BY DEF DeviceAttributes, k
<1>. QED
  BY <1>2, <1>5, <1>6, <1>7 DEF name

\* The MIG nodes are in one NVLink domain, or the assertion does not ask for it.
AskedAlike ==
    check.assertion.kind = "allocated" /\ "nvlinkDomain" \in DOMAIN check.assertion.want =>
        \A m, n \in MigNodes : Domain[m] = Domain[n]

\* Apart from the domain every node publishes a device alike.
LEMMA DomainIsApart ==
    ASSUME NEW n, NEW d, NEW a, a # "nvlinkDomain"
    PROVE  Read(Attributes(n, d), a) =
               IF a = "type" THEN IF IsPartition(d) THEN "mig" ELSE "gpu"
               ELSE IF a = "profile" /\ IsPartition(d) THEN d.profile.name
               ELSE NoDomain
<1>1. CASE IsPartition(d)
  <2>1. \/ Attributes(n, d) = [type |-> "mig", profile |-> d.profile.name]
        \/ Attributes(n, d) = [type |-> "mig", profile |-> d.profile.name,
                               nvlinkDomain |-> Domain[n]]
    BY <1>1, Zenon DEF Attributes, PartitionAttributes
  <2>. QED
    BY <1>1, <2>1 DEF Read
<1>2. CASE ~IsPartition(d)
  <2>1. \/ Attributes(n, d) = [type |-> "gpu"]
        \/ Attributes(n, d) = [type |-> "gpu", nvlinkDomain |-> Domain[n]]
    BY <1>2, Zenon DEF Attributes, GPUAttributes
  <2>. QED
    BY <1>2, <2>1 DEF Read
<1>. QED
  BY <1>1, <1>2

\* Then every node that publishes a partition answers alike.
LEMMA AnswersAgree ==
    ASSUME AskedAlike, check.assertion.kind = "allocated", NEW d, NEW k, NEW n,
           k = n \/ {k, n} \subseteq MigNodes
    PROVE  Matches(check.assertion.want, Attributes(k, d))
               <=> Matches(check.assertion.want, Attributes(n, d))
<1>. DEFINE want == check.assertion.want
<1>1. CASE k = n
  BY <1>1
<1>2. CASE {k, n} \subseteq MigNodes /\ "nvlinkDomain" \in DOMAIN want
  <2>1. Domain[k] = Domain[n]
    BY <1>2 DEF AskedAlike
  <2>2. Attributes(k, d) = Attributes(n, d)
    BY <2>1, Zenon DEF Attributes, GPUAttributes, PartitionAttributes
  <2>. QED
    BY <2>2
<1>3. CASE "nvlinkDomain" \notin DOMAIN want
  <2>1. ASSUME NEW a \in DOMAIN want
        PROVE  Read(Attributes(k, d), a) = Read(Attributes(n, d), a)
    <3>1. a # "nvlinkDomain"
      BY <1>3
    <3>. QED
      BY <3>1, DomainIsApart
  <2>. QED
    BY <2>1 DEF Matches
<1>. QED
  BY <1>1, <1>2, <1>3

\* The pods that a claim's owner is taken for.
LEMMA OwnersAreTold ==
    ASSUME CheckInv, NEW c \in seen.claims
    PROVE  (c.pod # Foreign /\ c.pod.uid \in Owned) <=> (c.pod \in seen.pods /\ c.pod.workload = Workload)
<1>1. \A p \in Everyone : \E u \in 1..created : \E w \in {Workload} \cup Others :
          p = [uid |-> u, workload |-> w]
  BY DEF CheckInv, PodsAreApart
<1>2. created \in 0..MaxPods /\ MaxPods \in Nat
  BY PodsAssumption DEF CheckInv, PodsAreApart
<1>3. \A p \in Everyone : p # Foreign
  <2>1. 1..created \subseteq 1..MaxPods
    BY <1>2
  <2>. QED
    BY <1>1, <2>1, PodsAssumption
<1>4. \A p, q \in Everyone : p.uid = q.uid => p = q
  BY DEF CheckInv, PodsAreApart
<1>5. seen.pods \subseteq Everyone /\ (c.pod # Foreign => c.pod \in Everyone)
  BY DEF Everyone
<1>6. ASSUME c.pod # Foreign, c.pod.uid \in Owned
      PROVE  c.pod \in seen.pods /\ c.pod.workload = Workload
  <2>1. PICK q \in seen.pods : q.workload = Workload /\ c.pod.uid = q.uid
    BY <1>6 DEF Owned
  <2>2. c.pod = q
    BY <1>4, <1>5, <1>6, <2>1
  <2>. QED
    BY <2>1, <2>2
<1>7. ASSUME c.pod \in seen.pods, c.pod.workload = Workload
      PROVE  c.pod # Foreign /\ c.pod.uid \in Owned
  BY <1>3, <1>5, <1>7 DEF Owned
<1>. QED
  BY <1>6, <1>7

\* allocatedDevices reports what the workload's pods held when they and their claims were
\* listed, although it goes by names and owners, for any number of MIG nodes: only of the
\* NVLink domain does a name not tell, where it differs from one MIG node to another.
THEOREM DevicesAreReported == CheckSpec => [](AskedAlike => DevicesAreWhatWasHeld)
<1>1. CheckInv => (AskedAlike => DevicesAreWhatWasHeld)
  <2>. DEFINE held == {c \in seen.claims : c.pod \in seen.pods /\ c.pod.workload = Workload}
              want == check.assertion.want
  <2>. SUFFICES ASSUME CheckInv, AskedAlike, check.pc = "done",
                       check.assertion.kind = "allocated"
                PROVE  check.verdict <=>
                          held # {} /\ \A c \in held : Matches(want, Attributes(c.node, c.device))
    BY DEF DevicesAreWhatWasHeld
  <2>1. check.owned = Owned /\ check.byPod = Noted
    BY DEF CheckInv, NotesAreTrue
  <2>2. check.verdict <=>
            /\ check.byPod # {}
            /\ \A b \in check.byPod : Publishers(b.name) # {} /\ Matches(want, DeviceAttributes(b.name))
    BY DEF CheckInv, JudgedOfNotes
  <2>3. held = {d \in seen.claims : d.pod # Foreign /\ d.pod.uid \in check.owned}
    BY <2>1, OwnersAreTold
  <2>4. check.byPod = {[pod |-> c.pod.uid, name |-> DeviceName(c.device)] : c \in held}
    BY <2>1, <2>3 DEF Noted
  <2>5. ASSUME NEW c \in held
        PROVE  /\ Publishers(DeviceName(c.device)) # {}
               /\ Matches(want, DeviceAttributes(DeviceName(c.device)))
                      <=> Matches(want, Attributes(c.node, c.device))
    <3>1. c.node \in Nodes /\ c.device \in ToSet(NodeDevices(c.node)) /\ mig \in Configs
      BY DEF CheckInv, ClaimsArePublished
    <3>2. c.node \in Publishers(DeviceName(c.device))
      BY <3>1, FoundByName
    <3>3. PICK k \in Nodes :
              /\ k = c.node \/ {k, c.node} \subseteq MigNodes
              /\ DeviceAttributes(DeviceName(c.device)) = Attributes(k, c.device)
      BY <3>1, FoundByName
    <3>. QED
      BY <3>2, <3>3, AnswersAgree
  <2>. HIDE DEF held, want
  <2>6. (\A b \in check.byPod : Publishers(b.name) # {} /\ Matches(want, DeviceAttributes(b.name)))
        <=> \A c \in held : Matches(want, Attributes(c.node, c.device))
    <3>1. ASSUME NEW c \in held
          PROVE  LET b == [pod |-> c.pod.uid, name |-> DeviceName(c.device)]
                 IN  (Publishers(b.name) # {} /\ Matches(want, DeviceAttributes(b.name)))
                     <=> Matches(want, Attributes(c.node, c.device))
      BY <2>5
    <3>. QED
      BY <2>4, <3>1
  <2>7. check.byPod # {} <=> held # {}
    BY <2>4
  <2>. QED
    BY <2>2, <2>6, <2>7
<1>. QED
  BY <1>1, InvariantHolds, PTL

-----------------------------------------------------------------------------
(* What the slices of a node add up to.                                     *)

\* chunkDevices: sequences of at most size devices, one after the other all of them.
LEMMA Chunked ==
    ASSUME NEW S, NEW ds \in Seq(S), NEW size \in Nat \ {0}
    PROVE  LET cs == ChunkDevices(ds, size)
           IN  /\ cs \in Seq(Seq(S))
               /\ UNION {ToSet(cs[i]) : i \in DOMAIN cs} = ToSet(ds)
<1>. DEFINE len == Len(ds)
            n == (len + size - 1) \div size
            lo(i) == (i - 1) * size + 1
            hi(i) == Least(i * size, len)
            cs == [i \in 1..n |-> SubSeq(ds, lo(i), hi(i))]
<1>1. len \in Nat /\ DOMAIN ds = 1..len /\ \A k \in 1..len : ds[k] \in S
  BY LenProperties, ElementOfSeq
<1>2. n \in Nat
  <2>1. len + size - 1 \in Nat
    BY <1>1
  <2>. QED
    BY <2>1, Division, Zenon
<1>3. ChunkDevices(ds, size) = cs
  BY DEF ChunkDevices
<1>. HIDE DEF n
<1>4. \A i \in 1..n : i * size \in Nat /\ (i - 1) * size \in Nat
  BY <1>2
<1>5. ASSUME NEW i \in 1..n
      PROVE  /\ lo(i) \in Nat /\ lo(i) >= 1 /\ hi(i) \in Nat /\ hi(i) <= len /\ hi(i) <= i * size
             /\ hi(i) = i * size \/ hi(i) = len
  <2>1. i * size \in Nat /\ (i - 1) * size \in Nat
    BY <1>4
  <2>2. /\ hi(i) \in Nat /\ hi(i) <= len /\ hi(i) <= i * size
        /\ hi(i) = i * size \/ hi(i) = len
    <3>1. \A a, b \in Nat : /\ Least(a, b) \in Nat /\ Least(a, b) <= b /\ Least(a, b) <= a
                            /\ Least(a, b) = a \/ Least(a, b) = b
      BY DEF Least
    <3>. HIDE DEF len
    <3>. QED
      BY <1>1, <2>1, <3>1
  <2>3. lo(i) \in Nat /\ lo(i) >= 1
    BY <2>1
  <2>. QED
    BY <2>2, <2>3
<1>6. ASSUME NEW i \in 1..n
      PROVE  /\ cs[i] \in Seq(S)
             /\ \A x : x \in ToSet(cs[i]) <=> \E k \in lo(i)..hi(i) : ds[k] = x
  <2>. DEFINE l == lo(i)
              h == hi(i)
              c == SubSeq(ds, l, h)
  <2>1. l \in Nat /\ l >= 1 /\ h \in Nat /\ h <= len
    BY <1>5
  <2>. HIDE DEF l, h
  <2>2. \A k \in l..h : ds[k] \in S
    BY <1>1, <2>1
  <2>3. /\ c \in Seq(S) /\ Len(c) = IF l <= h THEN h - l + 1 ELSE 0
        /\ \A j \in 1..(h - l + 1) : c[j] = ds[l + j - 1]
    BY <2>1, <2>2, SubSeqProperties
  <2>. HIDE DEF c
  <2>4. DOMAIN c = 1..(h - l + 1)
    <3>1. DOMAIN c = 1..Len(c)
      BY <2>3, LenProperties
    <3>2. l <= h \/ 1..0 = 1..(h - l + 1)
      BY <2>1
    <3>. QED
      BY <2>3, <3>1, <3>2
  <2>5. ASSUME NEW x \in ToSet(c)
        PROVE  \E k \in l..h : ds[k] = x
    <3>1. PICK j \in 1..(h - l + 1) : c[j] = x
      BY <2>4 DEF ToSet
    <3>2. l + j - 1 \in l..h
      BY <2>1
    <3>. QED
      BY <2>3, <3>1, <3>2
  <2>6. ASSUME NEW k \in l..h
        PROVE  ds[k] \in ToSet(c)
    <3>1. k - l + 1 \in 1..(h - l + 1) /\ l + (k - l + 1) - 1 = k
      BY <2>1
    <3>2. c[k - l + 1] = ds[k]
      BY <2>3, <3>1
    <3>. QED
      BY <2>4, <3>1, <3>2 DEF ToSet
  <2>7. cs[i] = c
    BY DEF c, l, h
  <2>. QED
    BY <2>3, <2>5, <2>6, <2>7 DEF l, h
<1>. HIDE DEF cs
<1>7. DOMAIN cs = 1..n /\ cs \in Seq(Seq(S))
  <2>1. DOMAIN cs = 1..n /\ cs = [i \in 1..n |-> cs[i]]
    BY DEF cs
  <2>. QED
    BY <1>2, <1>6, <2>1
<1>8. ASSUME NEW i \in 1..n, NEW x \in ToSet(cs[i])
      PROVE  x \in ToSet(ds)
  <2>1. PICK k \in lo(i)..hi(i) : ds[k] = x
    BY <1>6
  <2>2. k \in 1..len
    BY <1>1, <1>5
  <2>. QED
    BY <1>1, <2>1, <2>2 DEF ToSet
<1>9. ASSUME NEW x \in ToSet(ds)
      PROVE  \E i \in 1..n : x \in ToSet(cs[i])
  <2>1. PICK k \in 1..len : ds[k] = x
    BY <1>1 DEF ToSet
  <2>. DEFINE i == ((k - 1) \div size) + 1
  <2>2. i \in 1..n /\ lo(i) <= k /\ k <= i * size
    BY <1>1, ChunkOf DEF n
  <2>. HIDE DEF i
  <2>3. k \in lo(i)..hi(i)
    BY <1>1, <1>5, <2>2
  <2>. QED
    BY <1>6, <2>1, <2>2, <2>3
<1>10. UNION {ToSet(cs[i]) : i \in DOMAIN cs} = ToSet(ds)
  BY <1>7, <1>8, <1>9
<1>. QED
  BY <1>3, <1>7, <1>10

\* The slices of a node, whatever their number: its counter sets, and its devices.
LEMMA WhatSlicesSay ==
    ASSUME mig \in Configs, NEW n \in Nodes
    PROVE  /\ CounterSets(n) = IF mig[n].enabled THEN GPUs ELSE {}
           /\ UNION {ToSet(s.devices) : s \in Slices(n)} = ToSet(NodeDevices(n))
<1>1. CASE mig[n].enabled
  <2>. DEFINE chunks == ChunkDevices(NodeDevices(n), MaxDevicesPerSlice)
              total == 1 + Len(chunks)
              first == [node |-> n, count |-> total, counters |-> GPUs, devices |-> <<>>]
              with(ds) == [node |-> n, count |-> total, counters |-> {}, devices |-> ds]
              rest == [i \in DOMAIN chunks |-> with(chunks[i])]
  <2>1. /\ chunks \in Seq(Seq(CutNode(n)))
        /\ UNION {ToSet(chunks[i]) : i \in DOMAIN chunks} = ToSet(NodeDevices(n))
    BY <1>1, Published, Chunked, ConfigsAssumption
  <2>2. Slices(n) = ToSet(<<first>> \o rest)
    BY <1>1 DEF Slices, MigSlices
  <2>3. first.counters = GPUs /\ first.devices = <<>>
    OBVIOUS
  <2>4. \A ds : with(ds).counters = {} /\ with(ds).devices = ds
    OBVIOUS
  <2>. HIDE DEF chunks, total, first, with
  <2>. DEFINE R == {first} \cup {with(chunks[i]) : i \in DOMAIN chunks}
  <2>5. DOMAIN chunks = 1..Len(chunks) /\ Len(chunks) \in Nat
    BY <2>1, LenProperties
  <2>6. rest \in Seq(R) /\ ToSet(rest) = {with(chunks[i]) : i \in DOMAIN chunks}
    <3>1. rest \in Seq(R)
      BY <2>5
    <3>2. DOMAIN rest = DOMAIN chunks /\ \A i \in DOMAIN chunks : rest[i] = with(chunks[i])
      OBVIOUS
    <3>. HIDE DEF rest
    <3>3. ToSet(rest) = {with(chunks[i]) : i \in DOMAIN chunks}
      BY <3>2 DEF ToSet
    <3>. QED
      BY <3>1, <3>3
  <2>7. ToSet(<<first>> \o rest) = R
    <3>1. <<first>> \in Seq(R) /\ ToSet(<<first>>) = {first}
      BY SetOfOne
    <3>. HIDE DEF rest
    <3>2. ToSet(<<first>> \o rest) = ToSet(<<first>>) \cup ToSet(rest)
      <4>. DEFINE one == <<first>>
      <4>1. one \in Seq(R) /\ rest \in Seq(R)
        BY <2>6, <3>1
      <4>. HIDE DEF R, one
      <4>2. ToSet(one \o rest) = ToSet(one) \cup ToSet(rest)
        BY <4>1, JoinedSet
      <4>. QED
        BY <4>2 DEF one
    <3>. QED
      BY <2>6, <3>1, <3>2
  <2>8. Slices(n) = R
    BY <2>2, <2>7
  <2>9. CounterSets(n) = GPUs
    BY <2>3, <2>4, <2>8 DEF CounterSets
  <2>10. UNION {ToSet(s.devices) : s \in Slices(n)} = ToSet(NodeDevices(n))
    <3>1. ToSet(first.devices) = {}
      BY <2>3 DEF ToSet
    <3>2. \A x : x \in UNION {ToSet(s.devices) : s \in R} <=> \E i \in DOMAIN chunks : x \in ToSet(chunks[i])
      BY <2>4, <3>1
    <3>. QED
      BY <2>1, <2>8, <3>2
  <2>. QED
    BY <1>1, <2>9, <2>10
<1>2. CASE ~mig[n].enabled
  <2>1. Slices(n) = {[node |-> n, count |-> 1, counters |-> {}, devices |-> NodeDevices(n)]}
    BY <1>2 DEF Slices
  <2>. QED
    BY <1>2, <2>1 DEF CounterSets
<1>. QED
  BY <1>1, <1>2

LEMMA MigNodesAreReported ==
    ASSUME mig \in Configs
    PROVE  ReportedNodes = MigNodes /\ \A n \in MigNodes : CounterSets(n) = GPUs
BY WhatSlicesSay, ConfigsAssumption DEF ReportedNodes, MigNodes

\* Every profile has room at the start of a GPU.
LEMMA EveryProfileIsCut ==
    ASSUME NEW g, NEW p \in ProfileSet
    PROVE  Cut(g, p) # {} /\ \A d \in Cut(g, p) : d.gpu = g /\ d.profile = p
<1>1. p.mem \in Nat \ {0} /\ MemorySlices \in Nat /\ p.mem <= MemorySlices
  BY GeometryAssumption
<1>2. 0 % p.mem = 0
  BY <1>1
<1>3. 0 \in Placements(p)
  BY <1>1, <1>2 DEF Placements
<1>4. [gpu |-> g, profile |-> p, start |-> 0] \in Cut(g, p)
  BY <1>3 DEF Cut
<1>5. \A d \in Cut(g, p) : d.gpu = g /\ d.profile = p
  BY DEF Cut
<1>. QED
  BY <1>4, <1>5

\* The partitions of a GPU of a node that are held by their names: on whatever node.
HeldByName(n, g, C) ==
    {c.device : c \in {e \in C : e.device \in ToSet(NodeDevices(n)) /\ e.device.gpu = g}}

\* What the report reads of a GPU is what is cut out of it, and what is held by name.
LEMMA WhatIsAbsorbed ==
    ASSUME mig \in Configs, ClaimsArePublished, NEW n \in MigNodes, NEW g \in GPUs
    PROVE  /\ Absorbed(n, g) = UNION {Cut(g, p) : p \in ToSet(Selected(n))}
           /\ {d.profile : d \in Absorbed(n, g)} = ToSet(Selected(n))
           /\ {d \in Absorbed(n, g) : DeviceName(d) \in AllocatedDeviceNames}
                  = HeldByName(n, g, claims)
<1>1. n \in Nodes /\ mig[n].enabled
  BY DEF MigNodes
<1>2. \A p \in ToSet(Selected(n)) : p \in ProfileSet
  BY <1>1, SelectedProfiles DEF ToSet
<1>3. ToSet(NodeDevices(n)) = CutNode(n)
  BY <1>1, Published
<1>4. Absorbed(n, g) = {d \in CutNode(n) : d.gpu = g}
  BY <1>1, <1>3, WhatSlicesSay DEF Absorbed
<1>5. Absorbed(n, g) = UNION {Cut(g, p) : p \in ToSet(Selected(n))}
  <2>1. \A h \in GPUs : \A p \in ToSet(Selected(n)) : \A d \in Cut(h, p) : d.gpu = h
    BY <1>2, EveryProfileIsCut
  <2>2. \A d : d \in CutNode(n) <=> \E h \in GPUs : \E p \in ToSet(Selected(n)) : d \in Cut(h, p)
    BY DEF CutNode
  <2>. QED
    BY <1>4, <2>1, <2>2
<1>6. {d.profile : d \in Absorbed(n, g)} = ToSet(Selected(n))
  <2>1. \A p \in ToSet(Selected(n)) : Cut(g, p) # {} /\ \A d \in Cut(g, p) : d.profile = p
    BY <1>2, EveryProfileIsCut
  <2>. QED
    BY <1>5, <2>1
<1>7. ASSUME NEW d \in Absorbed(n, g), DeviceName(d) \in AllocatedDeviceNames
      PROVE  d \in HeldByName(n, g, claims)
  <2>1. PICK c \in claims : DeviceName(d) = DeviceName(c.device)
    BY <1>7 DEF AllocatedDeviceNames
  <2>2. c.node \in Nodes /\ c.device \in ToSet(NodeDevices(c.node))
    BY DEF ClaimsArePublished
  <2>3. d \in ToSet(NodeDevices(n)) /\ d.gpu = g
    BY <1>3, <1>4
  <2>4. d = c.device
    BY <1>1, <2>1, <2>2, <2>3, NamesTell
  <2>. QED
    BY <2>3, <2>4 DEF HeldByName
<1>8. ASSUME NEW d \in HeldByName(n, g, claims)
      PROVE  d \in Absorbed(n, g) /\ DeviceName(d) \in AllocatedDeviceNames
  <2>1. PICK c \in claims : c.device = d /\ d \in ToSet(NodeDevices(n)) /\ d.gpu = g
    BY DEF HeldByName
  <2>2. d \in CutNode(n)
    BY <1>3, <2>1
  <2>. QED
    BY <1>4, <2>1, <2>2 DEF AllocatedDeviceNames
<1>. QED
  BY <1>5, <1>6, <1>7, <1>8

-----------------------------------------------------------------------------
(* The report.                                                              *)

LEMMA SmallerOrders ==
    /\ \A p \in ProfileSet : ~Smaller(p, p)
    /\ \A p, q \in ProfileSet : p # q => Smaller(p, q) \/ Smaller(q, p)
    /\ \A p, q, r \in ProfileSet : Smaller(p, q) /\ Smaller(q, r) => Smaller(p, r)
    /\ \A p, q \in ProfileSet : ~Smaller(q, p) => p.mem <= q.mem
<1>1. \A p \in ProfileSet : p.mem \in Int /\ p.sm \in Int
  BY GeometryAssumption
<1>2. \A p, q \in ProfileSet : p.mem = q.mem /\ p.sm = q.sm => p = q
  BY TableTells
<1>3. \A p \in ProfileSet : ~Smaller(p, p)
  BY <1>1 DEF Smaller
<1>4. \A p, q \in ProfileSet : p # q => Smaller(p, q) \/ Smaller(q, p)
  BY <1>1, <1>2 DEF Smaller
<1>5. \A p, q, r \in ProfileSet : Smaller(p, q) /\ Smaller(q, r) => Smaller(p, r)
  BY <1>1 DEF Smaller
<1>6. \A p, q \in ProfileSet : ~Smaller(q, p) => p.mem <= q.mem
  BY <1>1 DEF Smaller
<1>. QED
  BY <1>3, <1>4, <1>5, <1>6

\* distinctProfiles: every profile once, none after a larger one.
LEMMA ProfilesInOrder ==
    ASSUME NEW ds, {d.profile : d \in ds} \subseteq ProfileSet
    PROVE  LET ps == {d.profile : d \in ds}
               dp == DistinctProfiles(ds)
           IN  /\ Cardinality(ps) \in Nat /\ DOMAIN dp = 1..Cardinality(ps)
               /\ dp \in Bijection(1..Cardinality(ps), ps)
               /\ \A i, j \in 1..Cardinality(ps) : i <= j => dp[i].mem <= dp[j].mem
<1>. DEFINE ps == {d.profile : d \in ds}
            N == Cardinality(ps)
            below == [p \in ps |-> {q \in ps : Smaller(q, p)}]
            rank == [p \in ps |-> Cardinality(below[p]) + 1]
            at(i) == CHOOSE p \in ps : Cardinality({q \in ps : Smaller(q, p)}) = i - 1
            dp == [i \in 1..N |-> at(i)]
<1>1. DistinctProfiles(ds) = dp
  BY DEF DistinctProfiles
<1>2. IsFiniteSet(ps)
  <2>1. ProfileSet = ToSet(Profiles)
    BY DEF ProfileSet, ToSet
  <2>2. IsFiniteSet(ProfileSet)
    BY <2>1, ElementsAreFinite, TableAssumption
  <2>. QED
    BY <2>2, FS_Subset
<1>. HIDE DEF ps
<1>3. below \in [ps -> SUBSET ps] /\ \A p \in ps : below[p] = {q \in ps : Smaller(q, p)}
  OBVIOUS
<1>4. rank = [p \in ps |-> Cardinality(below[p]) + 1]
  OBVIOUS
<1>5. \A p \in ps : p \in ProfileSet
  BY DEF ps
<1>. HIDE DEF below, rank
<1>6. /\ \A x \in ps : x \notin below[x]
      /\ \A x, y \in ps : x \in below[y] => below[x] \subseteq below[y]
      /\ \A x, y \in ps : x # y => x \in below[y] \/ y \in below[x]
  <2>1. \A x \in ps : x \notin below[x]
    BY <1>3, <1>5, SmallerOrders
  <2>2. \A x, y \in ps : x \in below[y] => below[x] \subseteq below[y]
    BY <1>3, <1>5, SmallerOrders
  <2>3. \A x, y \in ps : x # y => x \in below[y] \/ y \in below[x]
    BY <1>3, <1>5, SmallerOrders
  <2>. QED
    BY <2>1, <2>2, <2>3
<1>7. /\ N \in Nat
      /\ rank \in Bijection(ps, 1..N)
      /\ \A x, y \in ps : x \in below[y] <=> rank[x] < rank[y]
  BY <1>2, <1>3, <1>4, <1>6, RankTheorem
<1>8. /\ rank \in [ps -> 1..N]
      /\ \A x, y \in ps : rank[x] = rank[y] => x = y
      /\ \A i \in 1..N : \E x \in ps : rank[x] = i
  BY <1>7 DEF Bijection, Injection, Surjection, IsInjective
<1>. HIDE DEF N
<1>9. ASSUME NEW i \in 1..N
      PROVE  dp[i] \in ps /\ rank[dp[i]] = i
  <2>1. \A p \in ps : Cardinality({q \in ps : Smaller(q, p)}) = i - 1 <=> rank[p] = i
    <3>. SUFFICES ASSUME NEW p \in ps
                  PROVE  Cardinality({q \in ps : Smaller(q, p)}) = i - 1 <=> rank[p] = i
      OBVIOUS
    <3>1. below[p] = {q \in ps : Smaller(q, p)} /\ rank[p] = Cardinality(below[p]) + 1
      BY <1>3, <1>4
    <3>2. Cardinality(below[p]) \in Nat
      BY <1>2, <1>3, FS_Subset, FS_CardinalityType
    <3>. QED
      BY <1>7, <3>1, <3>2
  <2>2. at(i) \in ps /\ Cardinality({q \in ps : Smaller(q, at(i))}) = i - 1
    BY <1>8, <2>1
  <2>. HIDE DEF at
  <2>. QED
    BY <2>1, <2>2
<1>. HIDE DEF dp
<1>10. dp = [i \in 1..N |-> dp[i]]
  BY DEF dp
<1>11. dp \in Bijection(1..N, ps)
  <2>1. dp \in [1..N -> ps]
    BY <1>9, <1>10
  <2>2. \A i, j \in 1..N : dp[i] = dp[j] => i = j
    BY <1>9
  <2>3. \A p \in ps : \E i \in 1..N : dp[i] = p
    BY <1>8, <1>9
  <2>. QED
    BY <2>1, <2>2, <2>3 DEF Bijection, Injection, Surjection, IsInjective
<1>12. \A i, j \in 1..N : i <= j => dp[i].mem <= dp[j].mem
  <2>. SUFFICES ASSUME NEW i \in 1..N, NEW j \in 1..N, i <= j
                PROVE  dp[i].mem <= dp[j].mem
    OBVIOUS
  <2>1. ~(rank[dp[j]] < rank[dp[i]])
    BY <1>7, <1>9
  <2>2. dp[j] \notin below[dp[i]]
    BY <1>7, <1>9, <2>1
  <2>3. ~Smaller(dp[j], dp[i])
    BY <1>3, <1>9, <2>2
  <2>. QED
    BY <1>5, <1>9, <2>3, SmallerOrders
<1>13. DOMAIN dp = 1..N
  BY <1>10
<1>. QED
  BY <1>1, <1>7, <1>11, <1>12, <1>13 DEF N, ps

\* The figures of a state are numbers.
LEMMA FiguresAreNumbers ==
    ASSUME NEW st, IsFiniteSet(st.used), st.sm \in Int, NEW p \in ProfileSet
    PROVE  Ideal(p, st) \in Int /\ Actual(p, st) \in Int /\ Lost(p, st) \in Int
<1>1. p.mem \in Nat \ {0} /\ p.sm \in Nat \ {0} /\ MemorySlices \in Nat /\ SMSlices \in Nat
  BY GeometryAssumption
<1>2. \A a \in Int, b \in Nat \ {0} : GoDiv(a, b) \in Int
  BY DEF GoDiv
<1>3. \A a, b \in Int : Least(a, b) \in Int
  BY DEF Least
<1>4. FreeMemory(st) \in Int /\ FreeSM(st) \in Int
  BY <1>1, FS_CardinalityType DEF FreeMemory, FreeSM
<1>5. Cardinality(FreePlacements(p, st)) \in Int
  <2>1. IsFiniteSet(0..(MemorySlices - p.mem))
    BY <1>1, FS_Interval
  <2>2. FreePlacements(p, st) \subseteq 0..(MemorySlices - p.mem)
    BY DEF FreePlacements, Placements
  <2>3. IsFiniteSet(FreePlacements(p, st))
    BY <2>1, <2>2, FS_Subset
  <2>. QED
    BY <2>3, FS_CardinalityType
<1>6. Ideal(p, st) \in Int
  BY <1>1, <1>2, <1>3, <1>4 DEF Ideal
<1>7. Actual(p, st) \in Int
  BY <1>1, <1>2, <1>3, <1>4, <1>5 DEF Actual
<1>. QED
  BY <1>6, <1>7 DEF Lost

\* What the report says of a GPU is what is left of it besides the partitions given.
Described(n, g, held) ==
    LET st   == StateFromAllocated(held)
        rep  == AnalyseGPU(n, g)
        ps   == ToSet(Selected(n))
        open == {p \in ps : Actual(p, st) > 0}
    IN  /\ rep.freeMemory = FreeMemory(st)
        /\ rep.freeSM = FreeSM(st)
        /\ \A p \in ps : \E i \in DOMAIN rep.fits :
               rep.fits[i] = [ideal |-> Ideal(p, st), actual |-> Actual(p, st),
                              lost |-> Lost(p, st)]
        /\ TotalLost(rep) = SumFunction([p \in ps |-> Lost(p, st)])
        /\ IF open = {}
           THEN rep.largest = Nothing
           ELSE \E p \in open : /\ rep.largest = p.name
                                /\ \A q \in open : q.mem <= p.mem

LEMMA StateOfGPU ==
    ASSUME mig \in Configs, ClaimsArePublished, NEW n \in MigNodes, NEW g \in GPUs
    PROVE  LET st == StateFromAllocated(HeldByName(n, g, claims))
           IN  IsFiniteSet(st.used) /\ st.sm \in Int
<1>. DEFINE A == HeldByName(n, g, claims)
            st == StateFromAllocated(A)
            f == [d \in A |-> d.profile.sm]
<1>1. n \in Nodes /\ mig[n].enabled
  BY DEF MigNodes
<1>2. Selected(n) \in Seq(ProfileSet)
  BY <1>1, SelectedProfiles
<1>3. A \subseteq UNION {Cut(g, p) : p \in ToSet(Selected(n))}
  BY WhatIsAbsorbed
<1>4. IsFiniteSet(A)
  <2>1. /\ GPUPartitions(Selected(n), g) \in Seq(UNION {Cut(g, p) : p \in ToSet(Selected(n))})
        /\ ToSet(GPUPartitions(Selected(n), g)) = UNION {Cut(g, p) : p \in ToSet(Selected(n))}
    BY <1>2, GPUIsCut
  <2>2. IsFiniteSet(ToSet(GPUPartitions(Selected(n), g)))
    BY <2>1, ElementsAreFinite
  <2>. QED
    BY <1>3, <2>1, <2>2, FS_Subset
<1>5. st.used = UNION {SlicesOf(d) : d \in A} /\ st.sm = SumFunction(f)
  BY Zenon, \A x, y : [used |-> x, sm |-> y].used = x /\ [used |-> x, sm |-> y].sm = y DEF StateFromAllocated
<1>6. \A d \in A : \E p \in ProfileSet : \E s \in Placements(p) : d = [gpu |-> g, profile |-> p, start |-> s]
  <2>1. \A p \in ToSet(Selected(n)) : p \in ProfileSet
    BY <1>2 DEF ToSet
  <2>. QED
    BY <1>3, <2>1 DEF Cut
<1>. HIDE DEF A, st
<1>7. ASSUME NEW d \in A
      PROVE  SlicesOf(d) \subseteq 0..MemorySlices /\ d.profile.sm \in Int
  <2>1. PICK p \in ProfileSet : \E s \in Placements(p) : d = [gpu |-> g, profile |-> p, start |-> s]
    BY <1>6
  <2>2. PICK s \in Placements(p) : d = [gpu |-> g, profile |-> p, start |-> s]
    BY <2>1
  <2>3. d.profile = p /\ d.start = s
    BY <2>2
  <2>4. p.mem \in Nat /\ MemorySlices \in Nat /\ p.sm \in Int /\ s \in 0..(MemorySlices - p.mem)
    BY GeometryAssumption DEF Placements
  <2>5. SlicesOf(d) = s..(s + p.mem - 1)
    BY <2>3 DEF SlicesOf
  <2>. QED
    BY <2>3, <2>4, <2>5
<1>8. IsFiniteSet(st.used)
  <2>1. IsFiniteSet(0..MemorySlices)
    BY GeometryAssumption, FS_Interval
  <2>2. st.used \subseteq 0..MemorySlices
    BY <1>5, <1>7
  <2>. QED
    BY <2>1, <2>2, FS_Subset
<1>9. SumFunction(f) = SumFunctionOnSet(f, A)
  BY Zenon DEF SumFunction
<1>10. \A d \in A : f[d] \in Int
  BY <1>7
<1>. HIDE DEF f
<1>11. SumFunctionOnSet(f, A) \in Int
  BY <1>4, <1>10, SumType
<1>. QED
  BY <1>5, <1>8, <1>9, <1>11 DEF st, A

LEMMA GPUIsDescribed ==
    ASSUME mig \in Configs, ClaimsArePublished, NEW n \in MigNodes, NEW g \in GPUs
    PROVE  /\ Described(n, g, HeldByName(n, g, claims))
           /\ TotalLost(AnalyseGPU(n, g)) \in Int
<1>. DEFINE st   == StateFromAllocated(HeldByName(n, g, claims))
            rep  == AnalyseGPU(n, g)
            ps   == ToSet(Selected(n))
            open == {p \in ps : Actual(p, st) > 0}
            ds   == Absorbed(n, g)
            dp   == DistinctProfiles(ds)
            N    == Cardinality(ps)
            fits == [i \in DOMAIN dp |-> [ideal |-> Ideal(dp[i], st), actual |-> Actual(dp[i], st),
                                          lost |-> Lost(dp[i], st)]]
            lost == [p \in ps |-> Lost(p, st)]
            fitting == {i \in DOMAIN dp : Actual(dp[i], st) > 0}
<1>1. IsFiniteSet(st.used) /\ st.sm \in Int
  BY StateOfGPU
<1>2. /\ {d.profile : d \in ds} = ps
      /\ {d \in ds : DeviceName(d) \in AllocatedDeviceNames} = HeldByName(n, g, claims)
  BY WhatIsAbsorbed
<1>3. ps \subseteq ProfileSet
  <2>1. n \in Nodes /\ mig[n].enabled
    BY DEF MigNodes
  <2>. QED
    BY <2>1, SelectedProfiles DEF ToSet
<1>4. /\ N \in Nat /\ DOMAIN dp = 1..N /\ dp \in Bijection(1..N, ps)
      /\ \A i, j \in 1..N : i <= j => dp[i].mem <= dp[j].mem
  BY <1>2, <1>3, ProfilesInOrder
<1>5. /\ \A i \in 1..N : dp[i] \in ps
      /\ \A p \in ps : \E i \in 1..N : dp[i] = p
  BY <1>4 DEF Bijection, Injection, Surjection
<1>6. rep = Analyse(dp, st)
  BY <1>2 DEF AnalyseGPU
<1>7. /\ rep.freeMemory = FreeMemory(st) /\ rep.freeSM = FreeSM(st)
      /\ rep.largest = LargestAllocatable(dp, st)
      /\ rep.fits = fits
  <2>1. \A a, b, c, d : LET r == [freeMemory |-> a, freeSM |-> b, largest |-> c, fits |-> d]
                        IN  r.freeMemory = a /\ r.freeSM = b /\ r.largest = c /\ r.fits = d
    OBVIOUS
  <2>2. Analyse(dp, st) = [freeMemory |-> FreeMemory(st), freeSM |-> FreeSM(st),
                           largest |-> LargestAllocatable(dp, st), fits |-> fits]
    BY Zenon DEF Analyse
  <2>. HIDE DEF rep, dp, st, fits
  <2>. QED
    BY <1>6, <2>1, <2>2
<1>. HIDE DEF st, rep, ps, ds, dp, N
<1>8. \A p \in ps : Actual(p, st) \in Int /\ Lost(p, st) \in Int
  BY <1>1, <1>3, FiguresAreNumbers
<1>9. DOMAIN fits = 1..N
      /\ \A i \in 1..N : /\ fits[i].lost = Lost(dp[i], st)
                         /\ fits[i] = [ideal |-> Ideal(dp[i], st), actual |-> Actual(dp[i], st),
                                       lost |-> Lost(dp[i], st)]
  BY <1>4
<1>. HIDE DEF fits
<1>10. \A p \in ps : \E i \in DOMAIN rep.fits :
          rep.fits[i] = [ideal |-> Ideal(p, st), actual |-> Actual(p, st), lost |-> Lost(p, st)]
  BY <1>5, <1>7, <1>9
<1>11. TotalLost(rep) = SumFunction(lost) /\ TotalLost(rep) \in Int
  <2>. DEFINE f == [i \in 1..N |-> fits[i].lost]
  <2>1. TotalLost(rep) = SumFunction(f)
    BY <1>7, <1>9 DEF TotalLost
  <2>2. SumFunction(f) = SumFunctionOnSet(f, 1..N) /\ SumFunction(lost) = SumFunctionOnSet(lost, ps)
    BY Zenon DEF SumFunction
  <2>3. \A p \in ps : lost[p] \in Int
    BY <1>8
  <2>4. \A i \in 1..N : f[i] = lost[dp[i]] /\ f[i] \in Int
    BY <1>5, <1>8, <1>9
  <2>5. IsFiniteSet(1..N)
    BY <1>4, FS_Interval
  <2>. HIDE DEF f, lost
  <2>6. SumFunctionOnSet(f, 1..N) = SumFunctionOnSet(lost, ps)
    <3>1. \A i \in 1..N : f[i] = lost[dp[i]]
      BY <2>4
    <3>2. dp \in Bijection(1..N, ps)
      BY <1>4
    <3>3. OneForOne(1..N, ps, f, lost)
      BY <2>3, <2>5, <3>1, <3>2 DEF OneForOne
    <3>. QED
      BY ONLY <3>3, SumOneForOne, SMT
  <2>7. SumFunctionOnSet(f, 1..N) \in Int
    BY <2>4, <2>5, SumType
  <2>. QED
    BY <2>1, <2>2, <2>6, <2>7
<1>12. \A i \in 1..N : i \in fitting <=> dp[i] \in open
  BY <1>4, <1>5
<1>13. rep.largest = IF fitting = {} THEN Nothing ELSE dp[Max(fitting)].name
  BY <1>7, Zenon DEF LargestAllocatable
<1>14. fitting \in SUBSET (1..N) /\ open \subseteq ps
  BY <1>4
<1>. HIDE DEF fitting, open
<1>15. CASE open = {}
  <2>1. fitting = {}
    BY <1>12, <1>14, <1>15
  <2>. QED
    BY <1>7, <1>10, <1>11, <1>13, <1>15, <2>1 DEF Described, rep, st, ps, open
<1>16. CASE open # {}
  <2>1. fitting # {}
    BY <1>5, <1>12, <1>14, <1>16
  <2>. DEFINE m == Max(fitting)
  <2>2. m \in fitting /\ \A i \in fitting : i <= m
    BY <1>4, <1>14, <2>1, MaxIsThere
  <2>. HIDE DEF m
  <2>3. dp[m] \in open /\ m \in 1..N
    BY <1>12, <1>14, <2>2
  <2>4. rep.largest = dp[m].name
    BY <1>13, <2>1 DEF m
  <2>5. ASSUME NEW q \in open
        PROVE  q.mem <= dp[m].mem
    <3>1. PICK j \in 1..N : dp[j] = q
      BY <1>5, <1>14
    <3>2. j \in fitting
      BY <1>12, <3>1
    <3>. QED
      BY <1>4, <2>2, <2>3, <3>1, <3>2
  <2>6. \E p \in open : rep.largest = p.name /\ \A q \in open : q.mem <= p.mem
    BY <2>3, <2>4, <2>5
  <2>. QED
    BY <1>7, <1>10, <1>11, <1>16, <2>6 DEF Described, rep, st, ps, open
<1>. QED
  BY <1>11, <1>15, <1>16 DEF rep

\* The report is one of names: it describes every GPU as if all partitions were held on it
\* that are held under their names on any node.
ReportIsByName ==
    /\ ReportedNodes = MigNodes
    /\ \A n \in MigNodes : \A g \in GPUs : Described(n, g, HeldByName(n, g, claims))

\* So it does in every cluster, although it is read back from slices of any size.
THEOREM ReportIsOfNames == CheckSpec => []ReportIsByName
<1>1. CheckInv => ReportIsByName
  BY MigNodesAreReported, GPUIsDescribed DEF CheckInv, ReportIsByName
<1>. QED
  BY <1>1, InvariantHolds, PTL

\* No partition that is held on a MIG node is free on another one under the same name.
HeldAlike(C) ==
    \A c \in C : \A n \in MigNodes :
        c.device \in ToSet(NodeDevices(n)) => \E e \in C : e.node = n /\ e.device = c.device

\* Then those held by name are those held on the GPU.
LEMMA HeldWhereNamed ==
    ASSUME NEW C, HeldAlike(C), NEW n \in MigNodes, NEW g \in GPUs,
           \A c \in C : c.device \in ToSet(NodeDevices(c.node))
    PROVE  HeldByName(n, g, C) = {c.device : c \in {e \in C : e.node = n /\ e.device.gpu = g}}
BY DEF HeldAlike, HeldByName

\* In such a state the report describes every GPU as it is: a wrong report needs two MIG
\* nodes that publish one name, of which one has it free (code_bug of frag_two_nodes).
THEOREM ReportIsTrue == CheckSpec => [](HeldAlike(claims) => ReportDescribesCluster)
<1>1. CheckInv /\ ReportIsByName => (HeldAlike(claims) => ReportDescribesCluster)
  <2>. SUFFICES ASSUME CheckInv, ReportIsByName, HeldAlike(claims)
                PROVE  ReportDescribesCluster
    OBVIOUS
  <2>1. \A c \in claims : c.device \in ToSet(NodeDevices(c.node))
    BY DEF CheckInv, ClaimsArePublished
  <2>2. \A n \in MigNodes : \A g \in GPUs : HeldByName(n, g, claims) = On(n, g)
    BY <2>1, HeldWhereNamed DEF On
  <2>3. \A n \in MigNodes : \A g \in GPUs : Described(n, g, On(n, g))
    BY <2>2 DEF ReportIsByName
  <2>. QED
    BY <2>3, Zenon DEF ReportIsByName, ReportDescribesCluster, Described
<1>. QED
  BY <1>1, InvariantHolds, ReportIsOfNames, PTL

\* What the GPUs have lost together by what is held by name.
LostOf(n, g, held) == LET st == StateFromAllocated(held)
                      IN  SumFunction([p \in ToSet(Selected(n)) |-> Lost(p, st)])
LostByName(C) ==
    SumFunction([n \in MigNodes |->
        SumFunction([g \in GPUs |-> LostOf(n, g, HeldByName(n, g, C))])])

LEMMA LostIsReported ==
    ASSUME mig \in Configs, ClaimsArePublished
    PROVE  /\ DOMAIN Report = MigNodes
           /\ SumFunction([n \in DOMAIN Report |->
                 SumFunction([g \in DOMAIN Report[n] |-> TotalLost(Report[n][g])])])
                  = LostByName(claims)
           /\ LostByName(claims) \in Int
<1>. DEFINE lost(n, g) == LostOf(n, g, HeldByName(n, g, claims))
            row(n) == [g \in GPUs |-> lost(n, g)]
            table == [n \in MigNodes |-> SumFunction(row(n))]
            rows(n) == [g \in DOMAIN Report[n] |-> TotalLost(Report[n][g])]
            tables == [n \in DOMAIN Report |-> SumFunction(rows(n))]
<1>1. ReportedNodes = MigNodes /\ \A n \in MigNodes : CounterSets(n) = GPUs
  BY MigNodesAreReported
<1>2. DOMAIN Report = MigNodes /\ \A n \in MigNodes : Report[n] = [g \in GPUs |-> AnalyseGPU(n, g)]
  BY <1>1 DEF Report
<1>3. \A n \in MigNodes : \A g \in GPUs : /\ TotalLost(AnalyseGPU(n, g)) = lost(n, g)
                                          /\ lost(n, g) \in Int
  <2>1. \A n \in MigNodes : \A g \in GPUs : /\ Described(n, g, HeldByName(n, g, claims))
                                            /\ TotalLost(AnalyseGPU(n, g)) \in Int
    BY GPUIsDescribed
  <2>2. \A n, g, h : Described(n, g, h) => TotalLost(AnalyseGPU(n, g)) = LostOf(n, g, h)
    BY Zenon DEF Described, LostOf
  <2>. QED
    BY <2>1, <2>2
<1>4. \A n \in MigNodes : rows(n) = row(n)
  <2>. SUFFICES ASSUME NEW n \in MigNodes
                PROVE  rows(n) = row(n)
    OBVIOUS
  <2>1. DOMAIN Report[n] = GPUs /\ \A g \in GPUs : Report[n][g] = AnalyseGPU(n, g)
    BY <1>2
  <2>. QED
    BY <1>3, <2>1
<1>5. tables = table
  <2>. HIDE DEF rows, row
  <2>. QED
    BY <1>2, <1>4
<1>6. \A n \in MigNodes : SumFunction(row(n)) \in Int
  <2>. SUFFICES ASSUME NEW n \in MigNodes
                PROVE  SumFunction(row(n)) \in Int
    OBVIOUS
  <2>. DEFINE f == row(n)
  <2>1. \A g \in GPUs : f[g] \in Int
    BY <1>3
  <2>2. SumFunction(f) = SumFunctionOnSet(f, GPUs)
    BY Zenon DEF SumFunction
  <2>. HIDE DEF f
  <2>3. SumFunctionOnSet(f, GPUs) \in Int
    BY <2>1, ConfigsAssumption, SumType
  <2>. QED
    BY <2>2, <2>3 DEF f
<1>7. SumFunction(table) \in Int
  <2>1. SumFunction(table) = SumFunctionOnSet(table, MigNodes)
    BY Zenon DEF SumFunction
  <2>2. \A n \in MigNodes : table[n] \in Int
    BY <1>6
  <2>3. IsFiniteSet(MigNodes)
    BY ConfigsAssumption, FS_Subset DEF MigNodes
  <2>. HIDE DEF table
  <2>4. SumFunctionOnSet(table, MigNodes) \in Int
    BY <2>2, <2>3, SumType
  <2>. QED
    BY <2>1, <2>4
<1>8. LostByName(claims) = SumFunction(table)
  BY DEF LostByName
<1>. HIDE DEF table
<1>. QED
  BY <1>2, <1>5, <1>7, <1>8

\* What the GPUs lose by the claims that the check saw.
LostSeen ==
    LET State(n, g) == StateFromAllocated(
            {c.device : c \in {e \in seen.claims : e.node = n /\ e.device.gpu = g}})
    IN  SumFunction([n \in MigNodes |-> SumFunction([g \in GPUs |->
                SumFunction([p \in ToSet(Selected(n)) |-> Lost(p, State(n, g))])])])

LossAsSeen ==
    check.pc = "done" /\ check.assertion.kind = "fragmentation" =>
        (check.verdict <=>
            /\ MigNodes # {}
            /\ check.assertion.atLeast <= LostSeen
            /\ LostSeen <= check.assertion.atMost)

LEMMA LossOfSeen == LossIsWithinBounds <=> LossAsSeen
BY Zenon DEF LossIsWithinBounds, LossAsSeen, LostSeen

\* The verdict on the names that were seen.
LossIsByName ==
    check.pc = "done" /\ check.assertion.kind = "fragmentation" =>
        (check.verdict <=>
            /\ MigNodes # {}
            /\ check.assertion.atLeast <= LostByName(seen.claims)
            /\ LostByName(seen.claims) <= check.assertion.atMost)

LEMMA LossStays ==
    ASSUME LossIsByName, mig' = mig, check' = check, seen' = seen
    PROVE  LossIsByName'
<1>1. LostByName(seen.claims)' = LostByName(seen.claims) /\ MigNodes' = MigNodes
  BY DEF LostByName, LostOf, HeldByName, NodeDevices, MigNodes, Selected
<1>. QED
  BY <1>1 DEF LossIsByName

\* In every cluster the verdict on what it has lost is a verdict on the figures that the
\* names of the claims give, those that were there when it was made.
THEOREM LossIsJudgedByName == CheckSpec => []LossIsByName
<1>1. CheckInit => LossIsByName
  <2>. SUFFICES ASSUME CheckInit
                PROVE  LossIsByName
    OBVIOUS
  <2>1. check.pc = "idle"
    BY DEF CheckInit, Unchecked
  <2>. QED
    BY <2>1 DEF LossIsByName
<1>2. CheckInv /\ LossIsByName /\ [CheckNext]_all => LossIsByName'
  <2>. SUFFICES ASSUME CheckInv, LossIsByName, [CheckNext]_all
                PROVE  LossIsByName'
    OBVIOUS
  <2>1. CASE Cluster
    <3>1. mig' = mig /\ check' = check /\ seen' = seen
      BY <2>1 DEF Cluster, CreatePod, Bind, DeletePod, CollectClaim, ForeignClaim, Allocate, Release
    <3>. QED
      BY <3>1, LossStays
  <2>2. CASE JudgeFragmentation
    <3>. DEFINE good == WithinBounds(Report)
    <3>1. /\ check.assertion.kind = "fragmentation"
          /\ check' = [check EXCEPT !.pc = "done", !.verdict = good]
          /\ seen' = [seen EXCEPT !.claims = claims] /\ mig' = mig
      BY <2>2 DEF JudgeFragmentation
    <3>2. /\ check = [pc |-> check.pc, assertion |-> check.assertion, owned |-> check.owned,
                      byPod |-> check.byPod, verdict |-> check.verdict]
          /\ seen = [pods |-> seen.pods, claims |-> seen.claims]
          /\ check.assertion \in Assertions
      BY DEF CheckInv, NotesAreTrue
    <3>. HIDE DEF good
    <3>3. check'.verdict = good /\ check'.assertion = check.assertion /\ seen'.claims = claims
      BY <3>1, <3>2
    <3>4. DOMAIN Report = MigNodes /\ LostByName(claims) \in Int
          /\ SumFunction([n \in DOMAIN Report |->
                 SumFunction([g \in DOMAIN Report[n] |-> TotalLost(Report[n][g])])])
                 = LostByName(claims)
      BY LostIsReported DEF CheckInv
    <3>5. check.assertion.atLeast \in Int /\ check.assertion.atMost \in Int
      BY <3>1, <3>2, AssertionsAssumption
    <3>6. good <=> /\ MigNodes # {}
                   /\ LostByName(claims) \in check.assertion.atLeast .. check.assertion.atMost
      BY <3>4, Zenon DEF good, WithinBounds
    <3>7. LostByName(seen.claims)' = LostByName(claims) /\ MigNodes' = MigNodes
      BY <3>1, <3>3 DEF LostByName, LostOf, HeldByName, NodeDevices, MigNodes, Selected
    <3>. QED
      BY <3>3, <3>4, <3>5, <3>6, <3>7 DEF LossIsByName
  <2>3. CASE ListPods
    <3>1. check.assertion.kind = "allocated" /\ check'.assertion = check.assertion
      BY <2>3 DEF CheckInv, NotesAreTrue, ListPods
    <3>. QED
      BY <3>1 DEF LossIsByName
  <2>4. CASE ListClaims
    <3>1. check.assertion.kind = "allocated" /\ check'.assertion = check.assertion
      BY <2>4 DEF CheckInv, NotesAreTrue, ListClaims
    <3>. QED
      BY <3>1 DEF LossIsByName
  <2>5. CASE JudgeDevices
    <3>1. check.assertion.kind = "allocated" /\ check'.assertion = check.assertion
      BY <2>5 DEF CheckInv, NotesAreTrue, JudgeDevices
    <3>. QED
      BY <3>1 DEF LossIsByName
  <2>6. CASE ReadFails \/ Again
    <3>1. check'.pc = "idle"
      BY <2>6 DEF ReadFails, Again, Unchecked
    <3>. QED
      BY <3>1 DEF LossIsByName
  <2>7. CASE UNCHANGED all
    BY <2>7, LossStays DEF all
  <2>. QED
    BY <2>1, <2>2, <2>3, <2>4, <2>5, <2>6, <2>7 DEF CheckNext
<1>. QED
  BY <1>1, <1>2, InvariantHolds, PTL DEF CheckSpec

\* It is the verdict on what the very GPUs have lost unless the claims it saw held a
\* partition on one MIG node that was free under its name on another.
THEOREM LossIsJudged == CheckSpec => [](HeldAlike(seen.claims) => LossIsWithinBounds)
<1>1. CheckInv /\ LossIsByName => (HeldAlike(seen.claims) => LossIsWithinBounds)
  <2>. SUFFICES ASSUME CheckInv, LossIsByName, HeldAlike(seen.claims)
                PROVE  LossIsWithinBounds
    OBVIOUS
  <2>. DEFINE here(n, g) == {c.device : c \in {e \in seen.claims : e.node = n /\ e.device.gpu = g}}
  <2>1. \A c \in seen.claims : c.device \in ToSet(NodeDevices(c.node))
    BY DEF CheckInv, ClaimsArePublished
  <2>2. \A n \in MigNodes : \A g \in GPUs : HeldByName(n, g, seen.claims) = here(n, g)
    BY <2>1, HeldWhereNamed
  <2>3. LostSeen = SumFunction([n \in MigNodes |->
                       SumFunction([g \in GPUs |-> LostOf(n, g, here(n, g))])])
    BY Zenon DEF LostSeen, LostOf
  <2>. HIDE DEF here
  <2>4. LostSeen = LostByName(seen.claims)
    BY <2>2, <2>3 DEF LostByName
  <2>. QED
    BY <2>4, LossOfSeen DEF LossIsByName, LossAsSeen
<1>. QED
  BY <1>1, InvariantHolds, LossIsJudgedByName, PTL

-----------------------------------------------------------------------------
(* What a MIG node publishes, each device once.                             *)

\* Chunks are not empty, within the size, and a device that is there once is in one
\* chunk, once.
LEMMA ChunkedOnce ==
    ASSUME NEW S, NEW ds \in Seq(S), IsInjective(ds), NEW size \in Nat \ {0}
    PROVE  LET cs == ChunkDevices(ds, size)
           IN  /\ Apart(cs)
               /\ \A i \in DOMAIN cs : Len(cs[i]) \in 1..size
<1>. DEFINE len == Len(ds)
            n == (len + size - 1) \div size
            lo(i) == (i - 1) * size + 1
            hi(i) == Least(i * size, len)
            cs == [i \in 1..n |-> SubSeq(ds, lo(i), hi(i))]
<1>1. len \in Nat /\ DOMAIN ds = 1..len /\ \A k \in 1..len : ds[k] \in S
  BY LenProperties, ElementOfSeq
<1>2. n \in Nat /\ n * size <= len + size - 1
  <2>1. len + size - 1 \in Nat
    BY <1>1
  <2>. DEFINE a == len + size - 1
  <2>2. a \div size \in Nat /\ (a \div size \in Nat => (a \div size) * size <= a)
    <3>. HIDE DEF a
    <3>1. a \div size \in Nat
      BY <2>1, Division, Zenon DEF a
    <3>. DEFINE q == a \div size
    <3>. HIDE DEF q
    <3>2. q \in Nat /\ q <= q
      BY <3>1 DEF q
    <3>3. q * size <= a <=> q <= q
      BY <2>1, <3>2, Division DEF q, a
    <3>. QED
      BY <3>1, <3>2, <3>3 DEF q
  <2>. QED
    BY <2>2
<1>3. ChunkDevices(ds, size) = cs
  BY DEF ChunkDevices
<1>. HIDE DEF n
<1>4. ASSUME NEW i \in 1..n
      PROVE  /\ i * size \in Nat /\ (i - 1) * size \in Nat
             /\ (i - 1) * size + size = i * size
             /\ i * size <= len + size - 1
  <2>1. i \in Nat \ {0} /\ i <= n /\ i - 1 \in Nat
    BY <1>2
  <2>2. i * size <= n * size /\ i * size \in Nat /\ n * size \in Nat
    BY <1>2, <2>1, MultiplesGrow
  <2>3. (i - 1) * size \in Nat
    BY <2>1, MultiplesGrow
  <2>4. (i - 1) * size + size = i * size
    BY <2>1, OneMore
  <2>. HIDE DEF len
  <2>. QED
    BY <1>1, <1>2, <2>2, <2>3, <2>4
<1>5. ASSUME NEW i \in 1..n
      PROVE  /\ lo(i) \in Nat /\ lo(i) >= 1 /\ hi(i) \in Nat /\ hi(i) <= len /\ hi(i) <= i * size
             /\ lo(i) <= hi(i) /\ hi(i) - lo(i) + 1 <= size
  <2>. DEFINE m == i * size
              k == (i - 1) * size
  <2>1. m \in Nat /\ k \in Nat /\ k + size = m /\ m <= len + size - 1
    BY <1>4
  <2>. HIDE DEF m, k, len
  <2>2. LET h == Least(m, len)
            l == k + 1
        IN  /\ l \in Nat /\ l >= 1 /\ h \in Nat /\ h <= len /\ h <= m
            /\ l <= h /\ h - l + 1 <= size
    BY <1>1, <2>1 DEF Least
  <2>. QED
    BY <2>2 DEF m, k
<1>6. ASSUME NEW i \in 1..n
      PROVE  /\ Len(cs[i]) \in 1..size
             /\ IsInjective(cs[i])
             /\ \A x \in ToSet(cs[i]) : \E k \in lo(i)..hi(i) : ds[k] = x
  <2>. DEFINE l == lo(i)
              h == hi(i)
              c == SubSeq(ds, l, h)
  <2>1. l \in Nat /\ l >= 1 /\ h \in Nat /\ h <= len /\ l <= h /\ h - l + 1 <= size
    BY <1>5
  <2>. HIDE DEF l, h
  <2>2. \A k \in l..h : ds[k] \in S
    BY <1>1, <2>1
  <2>3. /\ c \in Seq(S) /\ Len(c) = h - l + 1
        /\ \A j \in 1..(h - l + 1) : c[j] = ds[l + j - 1]
    BY <2>1, <2>2, SubSeqProperties
  <2>. HIDE DEF c
  <2>4. DOMAIN c = 1..(h - l + 1)
    BY <2>3, LenProperties
  <2>5. Len(c) \in 1..size
    BY <2>1, <2>3
  <2>6. \A j \in 1..(h - l + 1) : l + j - 1 \in l..h /\ l + j - 1 \in 1..len
    BY <1>1, <2>1
  <2>7. IsInjective(c)
    <3>. SUFFICES ASSUME NEW j \in 1..(h - l + 1), NEW k \in 1..(h - l + 1), c[j] = c[k]
                  PROVE  j = k
      BY <2>4 DEF IsInjective
    <3>1. ds[l + j - 1] = ds[l + k - 1]
      BY <2>3
    <3>2. l + j - 1 = l + k - 1
      BY <1>1, <2>6, <3>1 DEF IsInjective
    <3>. QED
      BY <2>1, <3>2
  <2>8. \A x \in ToSet(c) : \E k \in l..h : ds[k] = x
    BY <2>3, <2>4, <2>6 DEF ToSet
  <2>9. cs[i] = c
    BY DEF c, l, h
  <2>. QED
    BY <2>5, <2>7, <2>8, <2>9 DEF l, h
<1>7. ASSUME NEW i \in 1..n, NEW j \in 1..n, i < j, NEW x \in ToSet(cs[i]), x \in ToSet(cs[j])
      PROVE  FALSE
  <2>1. PICK a \in lo(i)..hi(i) : ds[a] = x
    BY <1>6
  <2>2. PICK b \in lo(j)..hi(j) : ds[b] = x
    BY <1>6, <1>7
  <2>3. a \in 1..len /\ b \in 1..len
    <3>1. /\ lo(i) \in Nat /\ hi(i) \in Nat /\ lo(i) >= 1 /\ hi(i) <= len
          /\ lo(j) \in Nat /\ hi(j) \in Nat /\ lo(j) >= 1 /\ hi(j) <= len
      BY <1>5
    <3>. HIDE DEF lo, hi
    <3>. QED
      BY <1>1, <3>1
  <2>4. a = b
    <3>1. a \in DOMAIN ds /\ b \in DOMAIN ds /\ ds[a] = ds[b] /\ IsInjective(ds)
      BY <1>1, <2>1, <2>2, <2>3
    <3>. QED
      BY ONLY <3>1 DEF IsInjective
  <2>5. i * size <= (j - 1) * size
    <3>1. i \in Nat /\ j - 1 \in Nat /\ i <= j - 1
      BY <1>2, <1>7
    <3>. QED
      BY <3>1, MultiplesGrow
  <2>6. a <= i * size /\ (j - 1) * size + 1 <= b
    BY <1>4, <1>5
  <2>. DEFINE u == i * size
              v == (j - 1) * size
  <2>7. u \in Nat /\ v \in Nat /\ u <= v /\ a <= u /\ v + 1 <= b /\ a \in Nat
    BY <1>1, <1>4, <2>3, <2>5, <2>6
  <2>. HIDE DEF u, v
  <2>. QED
    BY <2>4, <2>7
<1>8. DOMAIN cs = 1..n
  OBVIOUS
<1>. HIDE DEF cs, lo, hi
<1>9. ASSUME NEW i \in 1..n, NEW j \in 1..n, i # j
      PROVE  ToSet(cs[i]) \cap ToSet(cs[j]) = {}
  <2>1. CASE i < j
    BY <1>7, <2>1
  <2>2. CASE j < i
    BY <1>7, <2>2
  <2>. QED
    BY <1>2, <1>9, <2>1, <2>2
<1>. QED
  BY <1>3, <1>6, <1>8, <1>9, Zenon DEF Apart

-----------------------------------------------------------------------------
(* Every device once.                                                      *)

\* A pool names a profile once (the run FragTwice shows what happens otherwise).
NamedOnce == \A c \in Configs, n \in Nodes : c[n].enabled => IsInjective(c[n].profiles)

LEMMA SelectedOnce ==
    ASSUME NamedOnce, mig \in Configs, NEW n \in Nodes, mig[n].enabled
    PROVE  IsInjective(Selected(n))
<1>. DEFINE names == mig[n].profiles
            ofName(i) == CHOOSE p \in ProfileSet : p.name = names[i]
<1>1. names \in Seq({p.name : p \in ProfileSet}) /\ IsInjective(names)
  BY ConfigsAssumption DEF ValidSelection, NamedOnce
<1>2. CASE names = <<>>
  <2>1. Selected(n) = Profiles
    BY <1>2 DEF Selected, SelectProfiles
  <2>. QED
    BY <2>1, TableAssumption DEF IsInjective
<1>3. CASE names # <<>>
  <2>1. Selected(n) = [i \in DOMAIN names |-> ofName(i)]
    BY <1>3 DEF Selected, SelectProfiles
  <2>2. ASSUME NEW i \in DOMAIN names
        PROVE  ofName(i).name = names[i]
    <3>1. \E p \in ProfileSet : p.name = names[i]
      BY <1>1
    <3>. QED
      BY <3>1
  <2>. HIDE DEF ofName, names
  <2>3. \A i, j \in DOMAIN names : ofName(i) = ofName(j) => i = j
    BY <1>1, <2>2 DEF IsInjective
  <2>. QED
    BY <2>1, <2>3 DEF IsInjective
<1>. QED
  BY <1>2, <1>3

LEMMA CutOnce ==
    ASSUME NEW g, NEW p \in ProfileSet
    PROVE  IsInjective([j \in 1..(MemorySlices \div p.mem) |->
                           [gpu |-> g, profile |-> p, start |-> (j - 1) * p.mem]])
<1>. DEFINE m == p.mem
            q == MemorySlices \div m
            row == [j \in 1..q |-> [gpu |-> g, profile |-> p, start |-> (j - 1) * m]]
<1>1. m \in Nat \ {0} /\ MemorySlices \in Nat
  BY GeometryAssumption
<1>2. q \in Nat
  BY <1>1, Division, Zenon
<1>3. \A i \in 1..q : i - 1 \in Nat /\ ((i - 1) * m) \div m = i - 1
  <2>. HIDE DEF q, m
  <2>1. \A i \in 1..q : i - 1 \in Nat
    BY <1>2
  <2>. QED
    BY <1>1, <2>1, Multiples
<1>4. ASSUME NEW i \in 1..q, NEW j \in 1..q, row[i] = row[j]
      PROVE  i = j
  <2>1. (i - 1) * m = (j - 1) * m
    BY <1>4
  <2>2. i - 1 = j - 1
    BY <1>3, <2>1
  <2>. HIDE DEF q
  <2>. QED
    BY <1>2, <2>2
<1>. QED
  BY <1>4 DEF IsInjective

LEMMA GPUIsCutOnce ==
    ASSUME NEW g, NEW ps \in Seq(ProfileSet), IsInjective(ps)
    PROVE  IsInjective(GPUPartitions(ps, g))
<1>. DEFINE every == UNION {Cut(g, p) : p \in ToSet(ps)}
            row(p) == [j \in 1..(MemorySlices \div p.mem) |->
                          [gpu |-> g, profile |-> p, start |-> (j - 1) * p.mem]]
            rows == [i \in DOMAIN ps |-> row(ps[i])]
<1>1. DOMAIN ps = 1..Len(ps) /\ Len(ps) \in Nat /\ \A i \in DOMAIN ps : ps[i] \in ProfileSet
  BY LenProperties, ElementOfSeq
<1>2. \A p \in ProfileSet : row(p) \in Seq(Cut(g, p)) /\ ToSet(row(p)) = Cut(g, p) /\ IsInjective(row(p))
  BY CutCounted, CutOnce
<1>3. GPUPartitions(ps, g) = FlattenSeq(rows)
  BY DEF GPUPartitions
<1>. HIDE DEF row
<1>4. \A i \in DOMAIN ps : /\ rows[i] \in Seq(every) /\ ToSet(rows[i]) = Cut(g, ps[i])
                           /\ IsInjective(rows[i])
  <2>. SUFFICES ASSUME NEW i \in DOMAIN ps
                PROVE  row(ps[i]) \in Seq(every) /\ ToSet(row(ps[i])) = Cut(g, ps[i]) /\ IsInjective(row(ps[i]))
    OBVIOUS
  <2>1. Cut(g, ps[i]) \subseteq every
    BY DEF ToSet
  <2>2. Seq(Cut(g, ps[i])) \subseteq Seq(every)
    <3>. HIDE DEF every
    <3>. QED
      BY <2>1
  <2>. QED
    BY <1>1, <1>2, <2>2
<1>5. rows \in Seq(Seq(every)) /\ DOMAIN rows = DOMAIN ps
  <2>. HIDE DEF every
  <2>. QED
    BY <1>1, <1>4
<1>. HIDE DEF every, rows
<1>6. \A p, q : p # q => Cut(g, p) \cap Cut(g, q) = {}
  BY DEF Cut
<1>7. \A i, j \in DOMAIN ps : i # j => ps[i] # ps[j]
  BY DEF IsInjective
<1>8. Apart(rows)
  BY <1>4, <1>5, <1>6, <1>7 DEF Apart
<1>. QED
  BY <1>3, <1>5, <1>8, FlattenedOnce

LEMMA PublishedOnce ==
    ASSUME NamedOnce, mig \in Configs, NEW n \in Nodes, mig[n].enabled
    PROVE  IsInjective(NodeDevices(n))
<1>. DEFINE ps == Selected(n)
            whole(g) == UNION {Cut(g, p) : p \in ToSet(ps)}
            parts == [i \in DOMAIN GPUList |-> GPUPartitions(ps, GPUList[i])]
<1>1. ps \in Seq(ProfileSet) /\ IsInjective(ps)
  BY SelectedProfiles, SelectedOnce
<1>2. NodeDevices(n) = FlattenSeq(parts)
  BY DEF NodeDevices
<1>3. \A g : /\ GPUPartitions(ps, g) \in Seq(whole(g)) /\ ToSet(GPUPartitions(ps, g)) = whole(g)
             /\ IsInjective(GPUPartitions(ps, g))
  BY <1>1, GPUIsCut, GPUIsCutOnce
<1>4. CutNode(n) = UNION {whole(g) : g \in GPUs}
  BY DEF CutNode
<1>5. \A g, h : g # h => whole(g) \cap whole(h) = {}
  BY DEF Cut
<1>. HIDE DEF ps, whole
<1>6. \A i \in DOMAIN GPUList : GPUList[i] \in GPUs
  BY GPUsInOrder DEF ToSet
<1>7. \A i \in DOMAIN parts : /\ parts[i] \in Seq(CutNode(n)) /\ ToSet(parts[i]) = whole(GPUList[i])
                              /\ IsInjective(parts[i])
  <2>. SUFFICES ASSUME NEW i \in DOMAIN GPUList
                PROVE  /\ GPUPartitions(ps, GPUList[i]) \in Seq(CutNode(n))
                       /\ ToSet(GPUPartitions(ps, GPUList[i])) = whole(GPUList[i])
                       /\ IsInjective(GPUPartitions(ps, GPUList[i]))
    OBVIOUS
  <2>1. whole(GPUList[i]) \subseteq CutNode(n)
    BY <1>4, <1>6
  <2>2. Seq(whole(GPUList[i])) \subseteq Seq(CutNode(n))
    BY <2>1
  <2>. QED
    BY <1>3, <2>2
<1>8. parts \in Seq(Seq(CutNode(n))) /\ DOMAIN parts = DOMAIN GPUList
  BY <1>7, GPUsInOrder
<1>. HIDE DEF parts
<1>9. \A i, j \in DOMAIN GPUList : i # j => GPUList[i] # GPUList[j]
  BY GPUsInOrder
<1>10. Apart(parts)
  BY <1>5, <1>7, <1>8, <1>9 DEF Apart
<1>. QED
  BY <1>2, <1>8, <1>10, FlattenedOnce

LEMMA SlicesAreCounted ==
    ASSUME NamedOnce, mig \in Configs, NEW n \in Nodes, mig[n].enabled
    PROVE  /\ IsFiniteSet(Slices(n))
           /\ \A s \in Slices(n) :
                 /\ s.count = Cardinality(Slices(n))
                 /\ Len(s.devices) <= MaxDevicesPerSlice
                 /\ s.counters = {} \/ s.devices = <<>>
                 /\ s.devices \in Seq(CutNode(n)) /\ IsInjective(s.devices)
           /\ \A s, t \in Slices(n) : s # t => ToSet(s.devices) \cap ToSet(t.devices) = {}
<1>. DEFINE chunks == ChunkDevices(NodeDevices(n), MaxDevicesPerSlice)
            total == 1 + Len(chunks)
            first == [node |-> n, count |-> total, counters |-> GPUs, devices |-> <<>>]
            with(ds) == [node |-> n, count |-> total, counters |-> {}, devices |-> ds]
            rest == [i \in DOMAIN chunks |-> with(chunks[i])]
            R == {first} \cup {with(chunks[i]) : i \in DOMAIN chunks}
<1>1. /\ chunks \in Seq(Seq(CutNode(n))) /\ Apart(chunks)
      /\ \A i \in DOMAIN chunks : Len(chunks[i]) \in 1..MaxDevicesPerSlice
  <2>. DEFINE ds == NodeDevices(n)
  <2>1. ds \in Seq(CutNode(n)) /\ IsInjective(ds)
    BY Published, PublishedOnce
  <2>2. MaxDevicesPerSlice \in Nat \ {0}
    BY ConfigsAssumption
  <2>. HIDE DEF ds
  <2>3. ChunkDevices(ds, MaxDevicesPerSlice) \in Seq(Seq(CutNode(n)))
    BY <2>1, <2>2, Chunked
  <2>4. LET cs == ChunkDevices(ds, MaxDevicesPerSlice)
        IN  Apart(cs) /\ \A i \in DOMAIN cs : Len(cs[i]) \in 1..MaxDevicesPerSlice
    BY <2>1, <2>2, ChunkedOnce
  <2>. QED
    BY <2>3, <2>4 DEF ds
<1>2. Slices(n) = ToSet(<<first>> \o rest)
  BY DEF Slices, MigSlices
<1>3. first.count = total /\ first.counters = GPUs /\ first.devices = <<>>
  OBVIOUS
<1>4. \A ds : with(ds).count = total /\ with(ds).counters = {} /\ with(ds).devices = ds
  OBVIOUS
<1>. HIDE DEF chunks, first, with
<1>5. DOMAIN chunks = 1..Len(chunks) /\ Len(chunks) \in Nat
  BY <1>1, LenProperties
<1>6. \A i \in DOMAIN chunks : /\ chunks[i] \in Seq(CutNode(n)) /\ IsInjective(chunks[i])
                               /\ Len(chunks[i]) <= MaxDevicesPerSlice
                               /\ \E x : x \in ToSet(chunks[i])
  <2>. SUFFICES ASSUME NEW i \in DOMAIN chunks
                PROVE  /\ chunks[i] \in Seq(CutNode(n)) /\ IsInjective(chunks[i])
                       /\ Len(chunks[i]) <= MaxDevicesPerSlice
                       /\ \E x : x \in ToSet(chunks[i])
    OBVIOUS
  <2>1. chunks[i] \in Seq(CutNode(n))
    BY <1>1, ElementOfSeq, <1>5
  <2>2. Len(chunks[i]) \in 1..MaxDevicesPerSlice
    BY <1>1
  <2>3. 1 \in DOMAIN chunks[i]
    <3>1. DOMAIN chunks[i] = 1..Len(chunks[i])
      BY <2>1, LenProperties
    <3>. QED
      BY <2>2, <3>1, ConfigsAssumption
  <2>4. chunks[i][1] \in ToSet(chunks[i])
    BY <2>3 DEF ToSet
  <2>. QED
    BY <1>1, <2>1, <2>2, <2>4, ConfigsAssumption DEF Apart
<1>7. \A i, j \in DOMAIN chunks : i # j => ToSet(chunks[i]) \cap ToSet(chunks[j]) = {}
  BY <1>1 DEF Apart
<1>8. rest \in Seq(R) /\ DOMAIN rest = DOMAIN chunks /\ Len(rest) = Len(chunks)
      /\ \A i \in DOMAIN chunks : rest[i] = with(chunks[i])
  BY <1>5
<1>9. ToSet(rest) = {with(chunks[i]) : i \in DOMAIN chunks}
  <2>. HIDE DEF rest
  <2>. QED
    BY <1>8 DEF ToSet
<1>10. IsInjective(rest)
  <2>. HIDE DEF rest
  <2>. SUFFICES ASSUME NEW i \in DOMAIN chunks, NEW j \in DOMAIN chunks, rest[i] = rest[j]
                PROVE  i = j
    BY <1>8 DEF IsInjective
  <2>1. chunks[i] = chunks[j]
    BY <1>4, <1>8
  <2>. QED
    BY <1>6, <1>7, <2>1
<1>11. first \notin ToSet(rest)
  <2>1. \A i \in DOMAIN chunks : with(chunks[i]).counters # first.counters
    BY <1>3, <1>4, ConfigsAssumption
  <2>. HIDE DEF rest
  <2>. QED
    BY <1>9, <2>1
<1>12. /\ ToSet(<<first>> \o rest) = R
       /\ IsFiniteSet(R) /\ Cardinality(R) = total
  <2>. DEFINE one == <<first>>
  <2>1. one \in Seq(R) /\ ToSet(one) = {first} /\ Len(one) = 1 /\ IsInjective(one)
    <3>1. <<first>> \in Seq(R) /\ ToSet(<<first>>) = {first}
      BY SetOfOne
    <3>. QED
      BY <3>1 DEF IsInjective
  <2>. HIDE DEF one, rest, R
  <2>2. IsInjective(one \o rest)
    BY <1>8, <1>10, <1>11, <2>1, JoinedOnce
  <2>3. ToSet(one \o rest) = ToSet(one) \cup ToSet(rest)
    BY <1>8, <2>1, JoinedSet
  <2>4. one \o rest \in Seq(R) /\ Len(one \o rest) = 1 + Len(rest)
    <3>1. rest \in Seq(R) /\ one \in Seq(R) /\ Len(one) = 1
      BY <1>8, <2>1
    <3>2. one \o rest \in Seq(R)
      BY <3>1, JoinTwo
    <3>3. Len(one \o rest) = Len(one) + Len(rest)
      <4>1. \A a, b \in Seq(R) : Len(a \o b) = Len(a) + Len(b)
        BY LenOfJoin
      <4>. QED
        BY <3>1, <4>1
    <3>. QED
      BY <3>1, <3>2, <3>3
  <2>5. ToSet(one \o rest) = R
    BY <1>9, <2>1, <2>3 DEF R
  <2>. DEFINE joined == one \o rest
  <2>. HIDE DEF joined
  <2>6. IsFiniteSet(ToSet(joined)) /\ Cardinality(ToSet(joined)) = Len(joined)
    BY <2>2, <2>4, OnceIsCounted DEF joined
  <2>. QED
    BY <1>8, <2>4, <2>5, <2>6 DEF joined, one
<1>13. Slices(n) = R
  BY <1>2, <1>12
<1>. HIDE DEF rest, total
<1>14. \A s \in R : \/ s = first
                    \/ \E i \in DOMAIN chunks : s = with(chunks[i])
  OBVIOUS
<1>15. <<>> \in Seq(CutNode(n)) /\ IsInjective(<<>>) /\ Len(<<>>) = 0 /\ ToSet(<<>>) = {}
  BY DEF IsInjective, ToSet
<1>16. \A s \in R :
          /\ s.count = total
          /\ Len(s.devices) <= MaxDevicesPerSlice
          /\ s.counters = {} \/ s.devices = <<>>
          /\ s.devices \in Seq(CutNode(n)) /\ IsInjective(s.devices)
  <2>. HIDE DEF R
  <2>. SUFFICES ASSUME NEW s \in R
                PROVE  /\ s.count = total
                       /\ Len(s.devices) <= MaxDevicesPerSlice
                       /\ s.counters = {} \/ s.devices = <<>>
                       /\ s.devices \in Seq(CutNode(n)) /\ IsInjective(s.devices)
    OBVIOUS
  <2>1. CASE s = first
    <3>1. 0 <= MaxDevicesPerSlice
      BY ConfigsAssumption
    <3>. QED
      BY <1>3, <1>15, <2>1, <3>1
  <2>2. ASSUME NEW i \in DOMAIN chunks, s = with(chunks[i])
        PROVE  /\ s.count = total
               /\ Len(s.devices) <= MaxDevicesPerSlice
               /\ s.counters = {} \/ s.devices = <<>>
               /\ s.devices \in Seq(CutNode(n)) /\ IsInjective(s.devices)
    BY <1>4, <1>6, <2>2
  <2>. QED
    BY <1>14, <2>1, <2>2
<1>17. \A s, t \in R : s # t => ToSet(s.devices) \cap ToSet(t.devices) = {}
  <2>. HIDE DEF R
  <2>. SUFFICES ASSUME NEW s \in R, NEW t \in R, s # t
                PROVE  ToSet(s.devices) \cap ToSet(t.devices) = {}
    OBVIOUS
  <2>1. CASE s = first \/ t = first
    BY <1>3, <1>15, <2>1
  <2>2. ASSUME NEW i \in DOMAIN chunks, NEW j \in DOMAIN chunks,
               s = with(chunks[i]), t = with(chunks[j])
        PROVE  ToSet(s.devices) \cap ToSet(t.devices) = {}
    BY <1>4, <1>7, <2>2
  <2>. QED
    BY <1>14, <2>1, <2>2
<1>. QED
  BY <1>12, <1>13, <1>16, <1>17

\* What a node is due: the partitions of the profiles its pool names, or of them all.
Due(n) ==
    LET names == ToSet(mig[n].profiles)
    IN  {d \in UNION {PartitionsFor(g) : g \in GPUs} : names = {} \/ d.profile.name \in names}

LEMMA DueIsCut ==
    ASSUME mig \in Configs, NEW n \in Nodes, mig[n].enabled
    PROVE  Due(n) = CutNode(n)
<1>. DEFINE names == mig[n].profiles
            ofName(i) == CHOOSE p \in ProfileSet : p.name = names[i]
            wanted(p) == ToSet(names) = {} \/ p.name \in ToSet(names)
<1>1. names \in Seq({p.name : p \in ProfileSet})
  BY ConfigsAssumption DEF ValidSelection
<1>2. \A p : p \in ToSet(Selected(n)) <=> p \in ProfileSet /\ wanted(p)
  <2>1. CASE names = <<>>
    <3>1. Selected(n) = Profiles /\ ToSet(names) = {}
      BY <2>1 DEF Selected, SelectProfiles, ToSet
    <3>. QED
      BY <3>1 DEF ToSet, ProfileSet
  <2>2. CASE names # <<>>
    <3>1. Selected(n) = [i \in DOMAIN names |-> ofName(i)]
      BY <2>2 DEF Selected, SelectProfiles
    <3>2. ASSUME NEW i \in DOMAIN names
          PROVE  ofName(i) \in ProfileSet /\ ofName(i).name = names[i]
      <4>1. \E p \in ProfileSet : p.name = names[i]
        BY <1>1
      <4>2. ofName(i) = CHOOSE p \in ProfileSet : p.name = names[i]
        OBVIOUS
      <4>. HIDE DEF ofName, names
      <4>. QED
        BY ONLY <4>1, <4>2
    <3>. HIDE DEF ofName, names
    <3>3. \E i \in DOMAIN names : TRUE
      <4>1. Len(names) \in Nat /\ DOMAIN names = 1..Len(names) /\ Len(names) # 0
        BY <1>1, <2>2, LenProperties, EmptySeq
      <4>. QED
        BY <4>1
    <3>4. ToSet(Selected(n)) = {ofName(i) : i \in DOMAIN names}
      BY <3>1 DEF ToSet
    <3>5. \A y : y \in ToSet(names) <=> \E i \in DOMAIN names : names[i] = y
      BY DEF ToSet
    <3>6. ASSUME NEW p \in ProfileSet, NEW i \in DOMAIN names, p.name = names[i]
          PROVE  p = ofName(i)
      BY <3>2, <3>6, TableTells
    <3>7. ToSet(names) # {}
      BY <3>3, <3>5
    <3>. QED
      BY <3>2, <3>4, <3>5, <3>6, <3>7
  <2>. QED
    BY <2>1, <2>2
<1>3. \A d : d \in CutNode(n) <=>
          \E g \in GPUs : \E p \in ToSet(Selected(n)) : d \in Cut(g, p)
  BY DEF CutNode
<1>4. \A d : d \in UNION {PartitionsFor(g) : g \in GPUs} <=>
          \E g \in GPUs : \E p \in ProfileSet : d \in Cut(g, p)
  BY DEF PartitionsFor, Cut
<1>5. \A g, p, d : d \in Cut(g, p) => d.profile = p
  BY DEF Cut
<1>6. \A d : d \in Due(n) <=> d \in UNION {PartitionsFor(g) : g \in GPUs} /\ wanted(d.profile)
  BY DEF Due
<1>. HIDE DEF wanted
<1>7. ASSUME NEW d \in Due(n)
      PROVE  d \in CutNode(n)
  <2>1. PICK g \in GPUs, p \in ProfileSet : d \in Cut(g, p)
    BY <1>4, <1>6
  <2>. QED
    BY <1>2, <1>3, <1>5, <1>6, <2>1
<1>8. ASSUME NEW d \in CutNode(n)
      PROVE  d \in Due(n)
  <2>1. PICK g \in GPUs, p \in ToSet(Selected(n)) : d \in Cut(g, p)
    BY <1>3
  <2>2. p \in ProfileSet /\ wanted(p) /\ d.profile = p
    BY <1>2, <1>5, <2>1
  <2>. QED
    BY <1>4, <1>6, <2>1, <2>2
<1>. QED
  BY <1>7, <1>8

\* On one node a name tells the device.
LEMMA NamesOnNode ==
    ASSUME mig \in Configs, NEW n \in Nodes, mig[n].enabled, IsFiniteSet(CutNode(n))
    PROVE  Cardinality({DeviceName(d) : d \in CutNode(n)}) = Cardinality(CutNode(n))
<1>. DEFINE D == CutNode(n)
            b == [d \in D |-> DeviceName(d)]
<1>1. \A d \in D : \E g \in GPUs : \E p \in ProfileSet : \E s \in Placements(p) :
          d = [gpu |-> g, profile |-> p, start |-> s]
  <2>1. \A p \in ToSet(Selected(n)) : p \in ProfileSet
    BY SelectedProfiles DEF ToSet
  <2>. QED
    BY <2>1 DEF CutNode, Cut
<1>2. \A g, p, s : DeviceName([gpu |-> g, profile |-> p, start |-> s]) = <<g, p.name, s>>
  BY DEF DeviceName, IsPartition
<1>3. ASSUME NEW d \in D, NEW e \in D, DeviceName(d) = DeviceName(e)
      PROVE  d = e
  <2>1. PICK g \in GPUs, p \in ProfileSet : \E s \in Placements(p) : d = [gpu |-> g, profile |-> p, start |-> s]
    BY <1>1
  <2>2. PICK s \in Placements(p) : d = [gpu |-> g, profile |-> p, start |-> s]
    BY <2>1
  <2>3. PICK h \in GPUs, q \in ProfileSet : \E t \in Placements(q) : e = [gpu |-> h, profile |-> q, start |-> t]
    BY <1>1
  <2>4. PICK t \in Placements(q) : e = [gpu |-> h, profile |-> q, start |-> t]
    BY <2>3
  <2>5. <<g, p.name, s>> = <<h, q.name, t>>
    BY <1>2, <1>3, <2>2, <2>4
  <2>6. p = q
    BY <2>5, TableTells
  <2>. QED
    BY <2>2, <2>4, <2>5, <2>6
<1>. HIDE DEF D
<1>4. b \in Bijection(D, {DeviceName(d) : d \in D})
  BY <1>3 DEF Bijection, Injection, Surjection, IsInjective
<1>5. ExistsBijection(D, {DeviceName(d) : d \in D})
  BY <1>4 DEF ExistsBijection
<1>. QED
  BY <1>5, FS_Bijection DEF D

\* Where no pool names a profile twice every MIG node publishes what it is due, each
\* device in one slice, and every slice says how many there are.
THEOREM InventoryIsComplete ==
    ASSUME NamedOnce
    PROVE  CheckSpec => []PoolsAreComplete
<1>1. CheckInv => PoolsAreComplete
  <2>. SUFFICES ASSUME CheckInv, NEW n \in MigNodes
                PROVE  LET ss  == Slices(n)
                           sum == SumFunction([s \in ss |-> Len(s.devices)])
                       IN  /\ \A s \in ss : /\ s.count = Cardinality(ss)
                                            /\ Len(s.devices) <= MaxDevicesPerSlice
                                            /\ s.counters = {} \/ s.devices = <<>>
                           /\ UNION {ToSet(s.devices) : s \in ss} = Due(n)
                           /\ sum = Cardinality({DeviceName(d) : d \in Due(n)})
    BY Zenon DEF PoolsAreComplete, Due
  <2>1. mig \in Configs /\ n \in Nodes /\ mig[n].enabled
    BY DEF CheckInv, MigNodes
  <2>. DEFINE ss == Slices(n)
              held == [s \in ss |-> ToSet(s.devices)]
              long == [s \in ss |-> Len(s.devices)]
  <2>2. /\ IsFiniteSet(ss)
        /\ \A s \in ss : /\ s.count = Cardinality(ss)
                         /\ Len(s.devices) <= MaxDevicesPerSlice
                         /\ s.counters = {} \/ s.devices = <<>>
                         /\ s.devices \in Seq(CutNode(n)) /\ IsInjective(s.devices)
        /\ \A s, t \in ss : s # t => ToSet(s.devices) \cap ToSet(t.devices) = {}
    BY <2>1, SlicesAreCounted
  <2>3. UNION {ToSet(s.devices) : s \in ss} = CutNode(n)
    BY <2>1, WhatSlicesSay, Published
  <2>. HIDE DEF ss
  <2>4. \A s \in ss : /\ IsFiniteSet(held[s]) /\ long[s] = Cardinality(held[s])
                      /\ held[s] = ToSet(s.devices)
    <3>. SUFFICES ASSUME NEW s \in ss
                  PROVE  IsFiniteSet(ToSet(s.devices)) /\ Len(s.devices) = Cardinality(ToSet(s.devices))
      OBVIOUS
    <3>. DEFINE ds == s.devices
    <3>1. ds \in Seq(CutNode(n)) /\ IsInjective(ds)
      BY <2>2
    <3>. HIDE DEF ds
    <3>2. IsFiniteSet(ToSet(ds)) /\ Cardinality(ToSet(ds)) = Len(ds)
      BY <3>1, OnceIsCounted
    <3>. QED
      BY <3>2 DEF ds
  <2>5. SumFunction(long) = SumFunctionOnSet(long, ss)
    BY Zenon DEF SumFunction
  <2>6. UNION {held[s] : s \in ss} = CutNode(n)
    BY <2>3
  <2>. HIDE DEF held, long
  <2>7. /\ IsFiniteSet(UNION {held[s] : s \in ss})
        /\ SumFunctionOnSet(long, ss) = Cardinality(UNION {held[s] : s \in ss})
    <3>1. \A s, t \in ss : s # t => held[s] \cap held[t] = {}
      BY <2>2, <2>4
    <3>2. \A s \in ss : IsFiniteSet(held[s]) /\ long[s] = Cardinality(held[s])
      BY <2>4
    <3>3. IsFiniteSet(ss)
      BY <2>2
    <3>4. CountsApart(ss, held, long)
      BY <3>1, <3>2, <3>3, Zenon DEF CountsApart
    <3>. QED
      BY ONLY <3>4, CountsOfAll, SMT
  <2>8. Cardinality({DeviceName(d) : d \in CutNode(n)}) = Cardinality(CutNode(n))
    BY <2>1, <2>6, <2>7, NamesOnNode
  <2>9. Due(n) = CutNode(n)
    BY <2>1, DueIsCut
  <2>. QED
    BY <2>2, <2>3, <2>5, <2>6, <2>7, <2>8, <2>9 DEF long, ss
<1>. QED
  BY <1>1, InvariantHolds, PTL
=============================================================================
