----------------------- MODULE SchedulerIntent_proofs -----------------------
(***************************************************************************)
(* Proofs about TopologyProjection and SchedulerIntent for every document, *)
(* workload and scheduler: what a scheduler that keeps to the objects can  *)
(* do with a gang, with workloads that ask for partitions or for whole     *)
(* GPUs, and with a level that is required; that the projections of a      *)
(* document say the same of its nodes; and what confinedTo concludes.      *)
(***************************************************************************)
EXTENDS SchedulerIntent, SequenceTheorems, DataTheorems, TLAPS

\* A workload of a scenario, and its pods.
IntentTyped ==
    /\ w.replicas \in Nat \ {0} /\ w.gpus \in Nat
    /\ sched \in {"kai", "volcano", "default"}
    /\ DOMAIN placed = 1..w.replicas

\* Only documents without a problem get as far as nodes, so that "" names none.
NodesNamed ==
    /\ phase = "valid" => Validate(doc)
    /\ \A n \in nodes : n.name # ""

\* What is submitted is the translation of a supported workload, and nothing is placed
\* before.
SubmittedAsTranslated ==
    /\ pc = "submitted" => /\ phase = "generated" /\ Supported(w, sched)
                           /\ objects = Translate(w, sched, TopologyName)
    /\ pc # "submitted" => \A p \in 1..w.replicas : placed[p] = ""

\* Only what was placed completes.
CompletedWerePlaced == completed \subseteq PlacedPods(placed)

\* The inductive invariant.
IntentInv ==
    /\ IntentTyped
    /\ NodesNamed
    /\ SubmittedAsTranslated
    /\ CompletedWerePlaced
    /\ GangIsWhole
    /\ DevicesAreOfTheKind

-----------------------------------------------------------------------------

\* Before anything is placed, nothing is placed in part or on the wrong kind of node.
LEMMA NothingPlaced ==
    ASSUME w.replicas \in Nat, \A p \in 1..w.replicas : placed[p] = "",
           DOMAIN placed = 1..w.replicas, \A n \in nodes : n.name # ""
    PROVE  PlacedPods(placed) = {} /\ GangIsWhole /\ DevicesAreOfTheKind
<1>1. PlacedPods(placed) = {}
  BY DEF PlacedPods
<1>2. Cardinality(PlacedPods(placed)) = 0
  BY <1>1, FS_EmptySet
<1>. QED
  BY <1>1, <1>2 DEF GangIsWhole, DevicesAreOfTheKind, PlacedPods

LEMMA InitInv == IntentInit => IntentInv
<1>. SUFFICES ASSUME IntentInit
              PROVE  IntentInv
  OBVIOUS
<1>1. PICK s \in Scenarios : doc = s.doc /\ w = s.w /\ sched = s.sched
  BY DEF IntentInit
<1>2. IntentTyped
  BY <1>1, IntentAssumption DEF IntentInit, IntentTyped
<1>3. /\ pc = "translate" /\ phase = "loaded" /\ nodes = {} /\ completed = {}
      /\ \A p \in 1..w.replicas : placed[p] = ""
  BY DEF IntentInit, Init
<1>4. PlacedPods(placed) = {} /\ GangIsWhole /\ DevicesAreOfTheKind
  BY <1>2, <1>3, NothingPlaced DEF IntentTyped
<1>. QED
  BY <1>2, <1>3, <1>4 DEF IntentInv, NodesNamed, SubmittedAsTranslated, CompletedWerePlaced

\* The names of resolved nodes are those of a document that was found in order.
LEMMA ResolvedNamed ==
    ASSUME Validate(doc)
    PROVE  \A n \in Resolve(doc) : n.name # ""
<1>1. \A s \in Slots(doc) : ResolveNode(doc, s).name = NodeAt(doc, s).name
  BY DEF ResolveNode
<1>2. \A s \in Slots(doc) : NodeAt(doc, s).name # ""
  BY DEF Validate, ValidNodes
<1>. QED
  BY <1>1, <1>2 DEF Resolve

\* Translating, applying, submitting: nothing is placed yet.
LEMMA RunnerKeepsInv ==
    ASSUME IntentInv, TranslateFirst \/ Apply \/ Submit
    PROVE  IntentInv'
<1>1. /\ pc \in {"translate", "apply"} /\ UNCHANGED <<w, sched, placed, completed>>
      /\ \A p \in 1..w.replicas : placed[p] = ""
  BY DEF TranslateFirst, Apply, Submit, scenario, IntentInv, SubmittedAsTranslated
<1>2. IntentTyped'
  BY <1>1 DEF IntentInv, IntentTyped
<1>3. NodesNamed'
  <2>1. CASE Apply
    <3>1. CASE ValidateDoc
      BY <3>1 DEF ValidateDoc, IntentInv, NodesNamed
    <3>2. CASE ResolveDoc
      BY <3>2, ResolvedNamed DEF ResolveDoc, IntentInv, NodesNamed
    <3>3. CASE Generate
      BY <3>3 DEF Generate, IntentInv, NodesNamed
    <3>. QED
      BY <2>1, <3>1, <3>2, <3>3 DEF Apply
  <2>2. CASE TranslateFirst \/ Submit
    BY <2>2 DEF TranslateFirst, Submit, vars, IntentInv, NodesNamed
  <2>. QED
    BY <2>1, <2>2
<1>4. /\ PlacedPods(placed') = {} /\ PlacedPods(placed) = {}
      /\ GangIsWhole' /\ DevicesAreOfTheKind'
  <2>1. PlacedPods(placed) = {} /\ GangIsWhole
    BY <1>1, NothingPlaced DEF IntentInv, IntentTyped, NodesNamed
  <2>2. DevicesAreOfTheKind'
    BY <1>1, <1>2, <1>3 DEF IntentTyped, NodesNamed, DevicesAreOfTheKind, PlacedPods
  <2>. QED
    BY <1>1, <2>1, <2>2 DEF GangIsWhole
<1>5. SubmittedAsTranslated'
  <2>1. CASE Submit
    BY <1>1, <2>1 DEF Submit, SubmittedAsTranslated, vars
  <2>2. CASE TranslateFirst \/ Apply
    BY <1>1, <2>2 DEF TranslateFirst, Apply, SubmittedAsTranslated
  <2>. QED
    BY <2>1, <2>2
<1>6. CompletedWerePlaced'
  BY <1>1 DEF IntentInv, CompletedWerePlaced
<1>. QED
  BY <1>2, <1>3, <1>4, <1>5, <1>6 DEF IntentInv

\* Figures.
LEMMA PositiveTimes ==
    ASSUME NEW a \in Nat, NEW b \in Nat, a > 0, b # 0
    PROVE  ~(a * b <= 0)
OBVIOUS

LEMMA UpToAll ==
    ASSUME NEW r \in Nat \ {0}, NEW S \in SUBSET (1..r)
    PROVE  /\ IsFiniteSet(S)
           /\ Cardinality(S) >= r => Cardinality(S) = r
<1>1. IsFiniteSet(1..r) /\ Cardinality(1..r) = r
  BY FS_Interval
<1>2. IsFiniteSet(S) /\ Cardinality(S) <= r
  BY <1>1, FS_Subset
<1>3. Cardinality(S) \in Nat
  BY <1>2, FS_CardinalityType
<1>. QED
  BY <1>2, <1>3

\* A scheduler places as many as the objects name, where the devices are.
LEMMA ScheduleKeepsInv ==
    ASSUME IntentInv, NEW f \in [1..w.replicas -> DOMAIN labels \cup {""}], Schedule(f)
    PROVE  IntentInv'
<1>1. /\ pc = "submitted" /\ placed' = f
      /\ \A p \in PlacedPods(placed) : f[p] = placed[p]
      /\ Fits(f) /\ (AllOrNothing => Cardinality(PlacedPods(f)) >= objects.minMember)
      /\ UNCHANGED <<doc, phase, nodes, labels, w, sched, pc, objects, completed>>
  BY DEF Schedule, vars, scenario
<1>2. /\ DOMAIN placed = 1..w.replicas /\ DOMAIN f = 1..w.replicas
      /\ Supported(w, sched) /\ objects = Translate(w, sched, TopologyName)
      /\ completed \subseteq PlacedPods(placed)
  BY <1>1 DEF IntentInv, IntentTyped, SubmittedAsTranslated, CompletedWerePlaced
<1>3. w.replicas \in Nat \ {0} /\ w.gpus \in Nat
  BY DEF IntentInv, IntentTyped
<1>4. /\ IsFiniteSet(PlacedPods(f))
      /\ Cardinality(PlacedPods(f)) >= w.replicas => Cardinality(PlacedPods(f)) = w.replicas
  <2>1. PlacedPods(f) \in SUBSET (1..w.replicas)
    BY <1>2 DEF PlacedPods
  <2>. QED
    BY <1>3, <2>1, UpToAll
<1>5. GangIsWhole'
  <2>1. w.gang => objects.minMember = w.replicas
    BY <1>2 DEF Supported, Translate, MinMember
  <2>2. w.gang /\ sched # "volcano" => Cardinality(PlacedPods(f)) = w.replicas
    BY <1>1, <1>4, <2>1 DEF AllOrNothing
  <2>. QED
    BY <1>1, <2>2 DEF GangIsWhole
<1>6. DevicesAreOfTheKind'
  <2>1. ASSUME w.gpus > 0, NEW p \in PlacedPods(f), NEW n \in nodes, f[p] = n.name
        PROVE  n.mig <=> w.mig
    <3>. DEFINE here == {q \in PlacedPods(f) \ completed : f[q] = n.name}
    <3>1. CASE p \in PlacedPods(placed)
      BY <1>1, <2>1, <3>1 DEF IntentInv, DevicesAreOfTheKind
    <3>2. CASE p \notin PlacedPods(placed)
      <4>1. p \in here
        BY <1>2, <2>1, <3>2
      <4>2. Cardinality(here) \in Nat /\ Cardinality(here) # 0
        <5>1. IsFiniteSet(here)
          BY <1>4, FS_Subset
        <5>. QED
          BY <4>1, <5>1, FS_EmptySet, FS_CardinalityType
      <4>3. ~(w.gpus * Cardinality(here) <= 0)
        BY <1>3, <2>1, <4>2, PositiveTimes
      <4>4. objects.claim.count = w.gpus /\ objects.claim.class = IF w.mig THEN "mig" ELSE "gpu"
        BY <1>2 DEF Translate, ClaimTemplate
      <4>5. w.gpus * Cardinality(here) <= Devices(n)
        BY <1>1, <4>4 DEF Fits
      <4>6. objects.claim.class = DeviceType(n)
        BY <4>3, <4>5 DEF Devices
      <4>. QED
        BY <4>4, <4>6 DEF DeviceType, GPUType, PartitionType
    <3>. QED
      BY <3>1, <3>2
  <2>. QED
    BY <1>1, <2>1 DEF DevicesAreOfTheKind
<1>7. CompletedWerePlaced'
  BY <1>1, <1>2 DEF CompletedWerePlaced, PlacedPods
<1>8. IntentTyped' /\ NodesNamed' /\ SubmittedAsTranslated'
  BY <1>1, <1>2 DEF IntentInv, IntentTyped, NodesNamed, SubmittedAsTranslated
<1>. QED
  BY <1>5, <1>6, <1>7, <1>8 DEF IntentInv

\* The steps of confinedTo, which only look.
Looks ==
    \/ \E level \in Levels : ListReplicas(level)
    \/ \E p \in 1..w.replicas : ReadLabel(p)
    \/ ReadFails

LEMMA LookingMovesNothing ==
    ASSUME Looks
    PROVE  UNCHANGED <<vars, scenario, pc, objects, placed, completed>>
BY DEF Looks, ListReplicas, ReadLabel, ReadFails

\* Completing and judging move no pod.
LEMMA OthersKeepInv ==
    ASSUME IntentInv,
           \/ Looks
           \/ \E p \in 1..w.replicas : Complete(p)
           \/ UNCHANGED intentVars
    PROVE  IntentInv'
<1>1. /\ UNCHANGED <<doc, phase, nodes, w, sched, pc, objects, placed>>
      /\ completed' \subseteq completed \cup PlacedPods(placed)
  BY LookingMovesNothing DEF Complete, intentVars, vars, scenario, IntentInv, IntentTyped, PlacedPods
<1>. QED
  BY <1>1 DEF IntentInv, IntentTyped, NodesNamed, SubmittedAsTranslated, CompletedWerePlaced,
              GangIsWhole, DevicesAreOfTheKind

LEMMA StepKeepsInv == IntentInv /\ [IntentNext]_intentVars => IntentInv'
BY RunnerKeepsInv, ScheduleKeepsInv, OthersKeepInv DEF IntentNext, Looks

-----------------------------------------------------------------------------

\* The invariant holds in every behaviour.
THEOREM InvariantHolds == IntentSpec => []IntentInv
BY InitInv, StepKeepsInv, PTL DEF IntentSpec

\* A gang is placed whole or not at all, on every cluster, by a scheduler that keeps to the
\* size it is told: KAI is told of every gang, and the default scheduler gets none.
THEOREM GangsStayWhole == IntentSpec => []GangIsWhole
<1>1. IntentInv => GangIsWhole
  BY DEF IntentInv
<1>. QED
  BY <1>1, InvariantHolds, PTL

\* A workload asking for a GPU never stands where only partitions are, nor the other way
\* round.
THEOREM KindsStayApart == IntentSpec => []DevicesAreOfTheKind
<1>1. IntentInv => DevicesAreOfTheKind
  BY DEF IntentInv
<1>. QED
  BY <1>1, InvariantHolds, PTL
-----------------------------------------------------------------------------
(* The projections of a document *)

\* Nodes of which each has a name of its own, a rack and a fault domain.
Named(N) ==
    /\ \A n \in N : n.name # "" /\ n.rack # "" /\ n.faultDomain # ""
    /\ \A n, m \in N : n.name = m.name => n = m

\* A rack lies within one fault domain, an NVLink domain within one rack.
Nested(N) ==
    \A n, m \in N :
        /\ n.rack = m.rack => n.faultDomain = m.faultDomain
        /\ n.nvlinkDomain # "" /\ n.nvlinkDomain = m.nvlinkDomain => n.rack = m.rack

\* The names of the racks' NVLink domains are their own, and no node's of another rack.
\* Validation does not ask for it.
DomainsApart(d) ==
    \A r, q \in DOMAIN d.racks :
        r # q /\ d.racks[r].nvlinkDomain # "" =>
            /\ d.racks[r].nvlinkDomain # d.racks[q].nvlinkDomain
            /\ \A i \in DOMAIN d.racks[q].nodes : d.racks[q].nodes[i].name # d.racks[r].nvlinkDomain

\* A node's domain is its rack's, or else its own name, or it has none.
LEMMA WhatIsResolved ==
    ASSUME NEW d, NEW s \in Slots(d)
    PROVE  LET n    == ResolveNode(d, s)
               rack == d.racks[s[1]]
               pool == d.pools[NodeAt(d, s).pool]
           IN  /\ n.name = NodeAt(d, s).name /\ n.rack = rack.name
               /\ n.faultDomain = rack.faultDomain
               /\ n.gpus = pool.gpus
               /\ pool.nvlink = "none" => n.nvlinkDomain = ""
               /\ pool.nvlink # "none" /\ rack.nvlinkDomain # "" =>
                      n.nvlinkDomain = rack.nvlinkDomain /\ n.peers = GPUsInRack(d, rack) - 1
               /\ pool.nvlink # "none" /\ rack.nvlinkDomain = "" =>
                      n.nvlinkDomain = n.name /\ n.peers = pool.gpus - 1
<1>. DEFINE rack == d.racks[s[1]]
            pool == d.pools[NodeAt(d, s).pool]
            nvl == NVLinkFor(pool, rack, NodeAt(d, s).name, GPUsInRack(d, rack))
<1>1. ResolveNode(d, s) =
         [name |-> NodeAt(d, s).name, rack |-> rack.name, faultDomain |-> rack.faultDomain,
          nvlinkDomain |-> nvl.domain, peers |-> nvl.peers, gpus |-> pool.gpus, mig |-> pool.mig]
  BY DEF ResolveNode
<1>2. /\ pool.nvlink = "none" => nvl.domain = ""
      /\ pool.nvlink # "none" /\ rack.nvlinkDomain # "" =>
             nvl.domain = rack.nvlinkDomain /\ nvl.peers = GPUsInRack(d, rack) - 1
      /\ pool.nvlink # "none" /\ rack.nvlinkDomain = "" =>
             nvl.domain = NodeAt(d, s).name /\ nvl.peers = pool.gpus - 1
  <2>. HIDE DEF pool, rack
  <2>. QED
    BY DEF NVLinkFor
<1>3. LET n == ResolveNode(d, s)
      IN  /\ n.name = NodeAt(d, s).name /\ n.rack = rack.name /\ n.faultDomain = rack.faultDomain
          /\ n.gpus = pool.gpus /\ n.nvlinkDomain = nvl.domain /\ n.peers = nvl.peers
  <2>. HIDE DEF nvl, rack, pool
  <2>. QED
    BY <1>1
<1>. HIDE DEF nvl
<1>. QED
  BY <1>2, <1>3

LEMMA ResolvedAreNamed ==
    ASSUME NEW d, Validate(d)
    PROVE  Named(Resolve(d))
<1>1. \A s, t \in Slots(d) : s # t => NodeAt(d, s).name # NodeAt(d, t).name
  BY DEF Validate, ValidNodes
<1>2. \A s \in Slots(d) : NodeAt(d, s).name # "" /\ s[1] \in DOMAIN d.racks
  <2>1. \A s \in Slots(d) : s[1] \in DOMAIN d.racks
    BY DEF Slots
  <2>2. \A s \in Slots(d) : NodeAt(d, s).name # ""
    BY DEF Validate, ValidNodes
  <2>. QED
    BY <2>1, <2>2
<1>3. \A r \in DOMAIN d.racks : d.racks[r].name # "" /\ d.racks[r].faultDomain # ""
  BY DEF Validate, ValidRacks
<1>4. \A s \in Slots(d) : LET n == ResolveNode(d, s)
                          IN  n.name # "" /\ n.rack # "" /\ n.faultDomain # "" /\ n.name = NodeAt(d, s).name
  BY <1>2, <1>3, WhatIsResolved
<1>. QED
  BY <1>1, <1>4, ZenonT(40) DEF Named, Resolve

LEMMA ResolvedAreNested ==
    ASSUME NEW d, Validate(d), DomainsApart(d)
    PROVE  Nested(Resolve(d))
<1>. SUFFICES ASSUME NEW s \in Slots(d), NEW t \in Slots(d)
              PROVE  LET n == ResolveNode(d, s)
                         m == ResolveNode(d, t)
                     IN  /\ n.rack = m.rack => n.faultDomain = m.faultDomain
                         /\ n.nvlinkDomain # "" /\ n.nvlinkDomain = m.nvlinkDomain => n.rack = m.rack
  BY ZenonT(40) DEF Nested, Resolve
<1>. DEFINE n == ResolveNode(d, s)
            m == ResolveNode(d, t)
<1>1. /\ s[1] \in DOMAIN d.racks /\ t[1] \in DOMAIN d.racks
      /\ s[2] \in DOMAIN d.racks[s[1]].nodes /\ t[2] \in DOMAIN d.racks[t[1]].nodes
  BY DEF Slots
<1>2. n.rack = m.rack => s[1] = t[1]
  BY <1>1, WhatIsResolved, ZenonT(40) DEF Validate, ValidRacks
<1>. DEFINE same(i, j) == /\ d.racks[i].name = d.racks[j].name
                          /\ d.racks[i].faultDomain = d.racks[j].faultDomain
<1>3. s[1] = t[1] => n.rack = m.rack /\ n.faultDomain = m.faultDomain
  <2>1. s[1] = t[1] => same(s[1], t[1])
    OBVIOUS
  <2>2. /\ n.rack = d.racks[s[1]].name /\ m.rack = d.racks[t[1]].name
        /\ n.faultDomain = d.racks[s[1]].faultDomain /\ m.faultDomain = d.racks[t[1]].faultDomain
    BY WhatIsResolved
  <2>. QED
    BY <2>1, <2>2
<1>4. ASSUME n.nvlinkDomain # "", n.nvlinkDomain = m.nvlinkDomain, s[1] # t[1]
      PROVE  FALSE
  <2>1. s # t /\ NodeAt(d, s).name # NodeAt(d, t).name
    BY <1>4 DEF Validate, ValidNodes
  <2>2. /\ NodeAt(d, s) = d.racks[s[1]].nodes[s[2]]
        /\ NodeAt(d, t) = d.racks[t[1]].nodes[t[2]]
    BY DEF NodeAt
  <2>3. /\ n.nvlinkDomain = d.racks[s[1]].nvlinkDomain \/ n.nvlinkDomain = NodeAt(d, s).name
        /\ d.racks[s[1]].nvlinkDomain # "" => n.nvlinkDomain = d.racks[s[1]].nvlinkDomain
        /\ m.nvlinkDomain = d.racks[t[1]].nvlinkDomain \/ m.nvlinkDomain = NodeAt(d, t).name
        /\ d.racks[t[1]].nvlinkDomain # "" => m.nvlinkDomain = d.racks[t[1]].nvlinkDomain
    BY <1>4, WhatIsResolved, ZenonT(60)
  <2>. HIDE DEF n, m
  <2>. QED
    BY <1>1, <1>4, <2>1, <2>2, <2>3 DEF DomainsApart
<1>. QED
  BY <1>2, <1>3, <1>4

\* The levels of the trees: Volcano's from the finest, KAI's from the coarsest.
LEMMA LevelsAre ==
    ASSUME NEW N
    PROVE  LET lv == VolcanoLevels(N)
           IN  \/ /\ AllNodesHaveNVLink(N)
                  /\ DOMAIN lv = 1..4 /\ Len(lv) = 4
                  /\ lv[1] = "host" /\ lv[2] = "nvlink-domain" /\ lv[3] = "rack" /\ lv[4] = "fault-domain"
                  /\ KAILevels(N) = [i \in 1..4 |-> lv[5 - i]]
               \/ /\ ~AllNodesHaveNVLink(N)
                  /\ DOMAIN lv = 1..3 /\ Len(lv) = 3
                  /\ lv[1] = "host" /\ lv[2] = "rack" /\ lv[3] = "fault-domain"
                  /\ KAILevels(N) = [i \in 1..3 |-> lv[4 - i]]
<1>. DEFINE lv == VolcanoLevels(N)
            kl == KAILevels(N)
<1>1. CASE AllNodesHaveNVLink(N)
  <2>1. /\ lv = <<"host">> \o <<"nvlink-domain">> \o <<"rack", "fault-domain">>
        /\ kl = <<"fault-domain", "rack">> \o <<"nvlink-domain">> \o <<"host">>
    BY <1>1, Zenon DEF VolcanoLevels, KAILevels
  <2>. HIDE DEF lv, kl
  <2>2. /\ Len(lv) = 4 /\ lv = [i \in 1..4 |-> lv[i]]
        /\ lv[1] = "host" /\ lv[2] = "nvlink-domain" /\ lv[3] = "rack" /\ lv[4] = "fault-domain"
        /\ kl = [i \in 1..4 |-> kl[i]]
        /\ kl[1] = "fault-domain" /\ kl[2] = "rack" /\ kl[3] = "nvlink-domain" /\ kl[4] = "host"
    BY <2>1, OneOneTwo, TwoOneOne
  <2>3. DOMAIN lv = 1..4
    BY <2>2, Zenon
  <2>4. \A i \in 1..4 : kl[i] = lv[5 - i]
    <3>1. \A i \in 1..4 : i = 1 \/ i = 2 \/ i = 3 \/ i = 4
      OBVIOUS
    <3>2. 5 - 1 = 4 /\ 5 - 2 = 3 /\ 5 - 3 = 2 /\ 5 - 4 = 1
      OBVIOUS
    <3>. QED
      BY <2>2, <3>1, <3>2
  <2>5. kl = [i \in 1..4 |-> lv[5 - i]]
    BY <2>2, <2>4
  <2>. QED
    BY <1>1, <2>2, <2>3, <2>5 DEF lv, kl
<1>2. CASE ~AllNodesHaveNVLink(N)
  <2>1. /\ lv = <<"host">> \o <<>> \o <<"rack", "fault-domain">>
        /\ kl = <<"fault-domain", "rack">> \o <<>> \o <<"host">>
    BY <1>2, Zenon DEF VolcanoLevels, KAILevels
  <2>. HIDE DEF lv, kl
  <2>2. /\ Len(lv) = 3 /\ lv = [i \in 1..3 |-> lv[i]]
        /\ lv[1] = "host" /\ lv[2] = "rack" /\ lv[3] = "fault-domain"
        /\ kl = [i \in 1..3 |-> kl[i]]
        /\ kl[1] = "fault-domain" /\ kl[2] = "rack" /\ kl[3] = "host"
    BY <2>1, OneTwo, TwoOne
  <2>3. DOMAIN lv = 1..3
    BY <2>2, Zenon
  <2>4. \A i \in 1..3 : kl[i] = lv[4 - i]
    <3>1. \A i \in 1..3 : i = 1 \/ i = 2 \/ i = 3
      OBVIOUS
    <3>2. 4 - 1 = 3 /\ 4 - 2 = 2 /\ 4 - 3 = 1
      OBVIOUS
    <3>. QED
      BY <2>2, <3>1, <3>2
  <2>5. kl = [i \in 1..3 |-> lv[4 - i]]
    BY <2>2, <2>4
  <2>. QED
    BY <1>2, <2>2, <2>3, <2>5 DEF lv, kl
<1>. QED
  BY <1>1, <1>2

\* Every node has a value of every level, and nodes that agree at one level agree at the
\* next coarser one.
LEMMA LevelsNest ==
    ASSUME NEW N, Named(N)
    PROVE  LET lv == VolcanoLevels(N)
           IN  /\ Len(lv) \in 3..4 /\ DOMAIN lv = 1..Len(lv)
               /\ \A t \in DOMAIN lv : /\ lv[t] \in KnownLevels
                                       /\ \A n \in N : Value(lv[t], n) # ""
               /\ \A n \in N : Value(lv[1], n) = n.name
               /\ Nested(N) => \A t \in DOMAIN lv \ {1} : \A n, m \in N :
                      Value(lv[t - 1], n) = Value(lv[t - 1], m) => Value(lv[t], n) = Value(lv[t], m)
<1>. DEFINE lv == VolcanoLevels(N)
<1>. HIDE DEF lv
<1>1. ASSUME NEW n
      PROVE  /\ Value("host", n) = n.name /\ Value("rack", n) = n.rack
             /\ Value("fault-domain", n) = n.faultDomain
             /\ Value("nvlink-domain", n) = n.nvlinkDomain
  BY DEF Value
<1>2. CASE ~AllNodesHaveNVLink(N)
  <2>1. Len(lv) = 3 /\ DOMAIN lv = 1..3 /\ lv[1] = "host" /\ lv[2] = "rack" /\ lv[3] = "fault-domain"
    BY <1>2, LevelsAre DEF lv
  <2>2. \A t \in DOMAIN lv : t = 1 \/ t = 2 \/ t = 3
    BY <2>1
  <2>3. 3 \in 3..4 /\ 2 - 1 = 1 /\ 3 - 1 = 2
    OBVIOUS
  <2>0. \A n \in N : Value(lv[1], n) = n.name /\ Value(lv[2], n) = n.rack /\ Value(lv[3], n) = n.faultDomain
    BY <1>1, <2>1
  <2>4. \A t \in DOMAIN lv : /\ lv[t] \in KnownLevels
                             /\ \A n \in N : Value(lv[t], n) # ""
    <3>1. \A t \in DOMAIN lv : lv[t] \in KnownLevels
      BY <2>1, <2>2 DEF KnownLevels
    <3>2. \A n \in N : Value(lv[1], n) # "" /\ Value(lv[2], n) # "" /\ Value(lv[3], n) # ""
      BY <2>0 DEF Named
    <3>. QED
      BY <2>2, <3>1, <3>2, Zenon
  <2>5. ASSUME Nested(N), NEW t \in DOMAIN lv \ {1}, NEW n \in N, NEW m \in N,
               Value(lv[t - 1], n) = Value(lv[t - 1], m)
        PROVE  Value(lv[t], n) = Value(lv[t], m)
    <3>1. CASE t = 2
      <4>1. Value(lv[1], n) = Value(lv[1], m)
        BY <2>3, <2>5, <3>1, Zenon
      <4>2. Value(lv[2], n) = Value(lv[2], m)
        <5>1. /\ Value(lv[1], n) = n.name /\ Value(lv[1], m) = m.name
              /\ Value(lv[2], n) = n.rack /\ Value(lv[2], m) = m.rack
          BY <2>0
        <5>2. n.name = m.name
          BY <4>1, <5>1
        <5>3. n.rack = m.rack
          BY <5>2 DEF Named
        <5>. QED
          BY <5>1, <5>3
      <4>. QED
        BY <3>1, <4>2, Zenon
    <3>2. CASE t = 3
      <4>1. Value(lv[2], n) = Value(lv[2], m)
        BY <2>3, <2>5, <3>2, Zenon
      <4>2. Value(lv[3], n) = Value(lv[3], m)
        <5>1. /\ Value(lv[2], n) = n.rack /\ Value(lv[2], m) = m.rack
              /\ Value(lv[3], n) = n.faultDomain /\ Value(lv[3], m) = m.faultDomain
          BY <2>0
        <5>2. n.rack = m.rack
          BY <4>1, <5>1
        <5>3. n.faultDomain = m.faultDomain
          BY <2>5, <5>2 DEF Nested
        <5>. QED
          BY <5>1, <5>3
      <4>. QED
        BY <3>2, <4>2, Zenon
    <3>. QED
      BY <2>2, <3>1, <3>2
  <2>6. Len(lv) \in 3..4 /\ DOMAIN lv = 1..Len(lv)
    BY <2>1, <2>3
  <2>7. \A n \in N : Value(lv[1], n) = n.name
    BY <2>0
  <2>. QED
    BY <2>4, <2>5, <2>6, <2>7, Zenon DEF lv
<1>3. CASE AllNodesHaveNVLink(N)
  <2>1. /\ Len(lv) = 4 /\ DOMAIN lv = 1..4 /\ lv[1] = "host" /\ lv[2] = "nvlink-domain"
        /\ lv[3] = "rack" /\ lv[4] = "fault-domain"
    BY <1>3, LevelsAre DEF lv
  <2>2. \A t \in DOMAIN lv : t = 1 \/ t = 2 \/ t = 3 \/ t = 4
    BY <2>1
  <2>3. 4 \in 3..4 /\ 2 - 1 = 1 /\ 3 - 1 = 2 /\ 4 - 1 = 3
    OBVIOUS
  <2>0. \A n \in N : Value(lv[1], n) = n.name /\ Value(lv[2], n) = n.nvlinkDomain /\ Value(lv[3], n) = n.rack /\ Value(lv[4], n) = n.faultDomain
    BY <1>1, <2>1
  <2>4. \A t \in DOMAIN lv : /\ lv[t] \in KnownLevels
                             /\ \A n \in N : Value(lv[t], n) # ""
    <3>1. \A t \in DOMAIN lv : lv[t] \in KnownLevels
      BY <2>1, <2>2 DEF KnownLevels
    <3>2. \A n \in N : Value(lv[1], n) # "" /\ Value(lv[2], n) # "" /\ Value(lv[3], n) # "" /\ Value(lv[4], n) # ""
      BY <2>0, <1>3 DEF Named, AllNodesHaveNVLink
    <3>. QED
      BY <2>2, <3>1, <3>2, Zenon
  <2>5. ASSUME Nested(N), NEW t \in DOMAIN lv \ {1}, NEW n \in N, NEW m \in N,
               Value(lv[t - 1], n) = Value(lv[t - 1], m)
        PROVE  Value(lv[t], n) = Value(lv[t], m)
    <3>1. CASE t = 2
      <4>1. Value(lv[1], n) = Value(lv[1], m)
        BY <2>3, <2>5, <3>1, Zenon
      <4>2. Value(lv[2], n) = Value(lv[2], m)
        <5>1. /\ Value(lv[1], n) = n.name /\ Value(lv[1], m) = m.name
              /\ Value(lv[2], n) = n.nvlinkDomain /\ Value(lv[2], m) = m.nvlinkDomain
          BY <2>0
        <5>2. n.name = m.name
          BY <4>1, <5>1
        <5>3. n.nvlinkDomain = m.nvlinkDomain
          BY <5>2 DEF Named
        <5>. QED
          BY <5>1, <5>3
      <4>. QED
        BY <3>1, <4>2, Zenon
    <3>2. CASE t = 3
      <4>1. Value(lv[2], n) = Value(lv[2], m)
        BY <2>3, <2>5, <3>2, Zenon
      <4>2. Value(lv[3], n) = Value(lv[3], m)
        <5>1. /\ Value(lv[2], n) = n.nvlinkDomain /\ Value(lv[2], m) = m.nvlinkDomain
              /\ Value(lv[3], n) = n.rack /\ Value(lv[3], m) = m.rack
          BY <2>0
        <5>2. n.nvlinkDomain = m.nvlinkDomain
          BY <4>1, <5>1
        <5>3. n.rack = m.rack
          BY <1>3, <2>5, <5>2 DEF Nested, AllNodesHaveNVLink
        <5>. QED
          BY <5>1, <5>3
      <4>. QED
        BY <3>2, <4>2, Zenon
    <3>3. CASE t = 4
      <4>1. Value(lv[3], n) = Value(lv[3], m)
        BY <2>3, <2>5, <3>3, Zenon
      <4>2. Value(lv[4], n) = Value(lv[4], m)
        <5>1. /\ Value(lv[3], n) = n.rack /\ Value(lv[3], m) = m.rack
              /\ Value(lv[4], n) = n.faultDomain /\ Value(lv[4], m) = m.faultDomain
          BY <2>0
        <5>2. n.rack = m.rack
          BY <4>1, <5>1
        <5>3. n.faultDomain = m.faultDomain
          BY <2>5, <5>2 DEF Nested
        <5>. QED
          BY <5>1, <5>3
      <4>. QED
        BY <3>3, <4>2, Zenon
    <3>. QED
      BY <2>2, <3>1, <3>2, <3>3
  <2>6. Len(lv) \in 3..4 /\ DOMAIN lv = 1..Len(lv)
    BY <2>1, <2>3
  <2>7. \A n \in N : Value(lv[1], n) = n.name
    BY <2>0
  <2>. QED
    BY <2>4, <2>5, <2>6, <2>7, Zenon DEF lv
<1>. QED
  BY <1>2, <1>3 DEF lv

\* The nodes with a value of a level, by name.
NamesWith(N, level, v) == {n.name : n \in {m \in N : Value(level, m) = v}}

\* The HyperNode of a value at a tier, and the values there are.
HyperNodeOf(N, t, v) ==
    [name |-> <<VolcanoLevels(N)[t], v>>, tier |-> t,
     members |-> Members(VolcanoLevels(N), t, {n \in N : Value(VolcanoLevels(N)[t], n) = v})]
ValuesAt(N, t) == {Value(VolcanoLevels(N)[t], n) : n \in N} \ {""}

LEMMA HyperNodesMade ==
    ASSUME NEW N
    PROVE  HyperNodes(N) = UNION {{HyperNodeOf(N, t, v) : v \in ValuesAt(N, t)} :
                                  t \in DOMAIN VolcanoLevels(N)}
BY Zenon DEF HyperNodes, HyperNodeOf, ValuesAt

LEMMA HyperNodeIsMade ==
    ASSUME NEW N, NEW t \in DOMAIN VolcanoLevels(N), NEW v \in ValuesAt(N, t)
    PROVE  HyperNodeOf(N, t, v) \in HyperNodes(N)
BY HyperNodesMade

\* The members a HyperNode of a tree should have.
MembersOf(N, h) ==
    Members(VolcanoLevels(N), h.tier, {n \in N : Value(VolcanoLevels(N)[h.tier], n) = h.name[2]})

LEMMA HyperNodesHave ==
    ASSUME NEW N, NEW h \in HyperNodes(N)
    PROVE  /\ h.tier \in DOMAIN VolcanoLevels(N)
           /\ h.name = <<VolcanoLevels(N)[h.tier], h.name[2]>>
           /\ h.members = MembersOf(N, h)
           /\ h.name[2] # "" /\ \E n \in N : Value(VolcanoLevels(N)[h.tier], n) = h.name[2]
<1>. DEFINE lv == VolcanoLevels(N)
<1>1. PICK t \in DOMAIN lv : \E v \in ValuesAt(N, t) : h = HyperNodeOf(N, t, v)
  BY HyperNodesMade
<1>2. PICK v \in ValuesAt(N, t) : h = HyperNodeOf(N, t, v)
  BY <1>1
<1>. HIDE DEF lv
<1>. DEFINE mm == Members(lv, t, {n \in N : Value(lv[t], n) = v})
<1>. HIDE DEF mm
<1>3. h = [name |-> <<lv[t], v>>, tier |-> t, members |-> mm]
  BY <1>2, Zenon DEF mm, lv, HyperNodeOf
<1>4. h.tier = t /\ h.name = <<lv[t], v>> /\ h.name[2] = v /\ h.members = mm
  BY <1>3
<1>5. v # "" /\ \E n \in N : Value(lv[t], n) = v
  BY DEF ValuesAt, lv
<1>. QED
  BY <1>4, <1>5, Zenon DEF mm, lv, MembersOf

LEMMA HyperNodesAre ==
    \A N : \A h \in HyperNodes(N) :
        h.tier \in DOMAIN VolcanoLevels(N) /\ h.name = <<VolcanoLevels(N)[h.tier], h.name[2]>>
BY HyperNodesHave

LEMMA HyperNodesCarry ==
    \A N : \A h \in HyperNodes(N) :
        h.name[2] # "" /\ \E n \in N : Value(VolcanoLevels(N)[h.tier], n) = h.name[2]
BY HyperNodesHave

LEMMA HyperNodesGroup ==
    \A N : \A h \in HyperNodes(N) :
        h.members = MembersOf(N, h)
BY HyperNodesHave

LEMMA EveryValueHasOne ==
    ASSUME NEW N, NEW t \in DOMAIN VolcanoLevels(N), NEW n \in N, Value(VolcanoLevels(N)[t], n) # ""
    PROVE  \E h \in HyperNodes(N) :
               h.tier = t /\ h.name = <<VolcanoLevels(N)[t], Value(VolcanoLevels(N)[t], n)>>
<1>. DEFINE v == Value(VolcanoLevels(N)[t], n)
            h == HyperNodeOf(N, t, v)
<1>1. v \in ValuesAt(N, t)
  BY DEF ValuesAt
<1>2. h.tier = t /\ h.name = <<VolcanoLevels(N)[t], v>>
  BY DEF HyperNodeOf
<1>. HIDE DEF v
<1>3. h \in HyperNodes(N)
  BY <1>1, HyperNodeIsMade, Zenon
<1>. HIDE DEF h
<1>. QED
  BY <1>2, <1>3, Zenon DEF v

\* The nodes a HyperNode should reach, and the HyperNodes of a tier among its members.
With(N, h)  == NamesWith(N, VolcanoLevels(N)[h.tier], h.name[2])
Below(t, h) == {c \in {c \in tree : c.tier = t} : c.name \in h.members}

Gather(F, S) == UNION {F[c] : c \in S}

\* The recursion of Reached, of which its value is a witness.
Unders(h, u) ==
    u = [t \in 1..h.tier |->
            [g \in {g \in tree : g.tier = t} |->
                IF t = 1 THEN {m[2] : m \in g.members}
                ELSE Gather(u[t - 1], Below(t - 1, g))]]

LEMMA ReachedIsChosen ==
    ASSUME NEW h
    PROVE  Reached(h) = (CHOOSE u : Unders(h, u))[h.tier][h]
BY Zenon DEF Reached, Unders, Below, Gather

\* One tier from the one below it: the nodes under a HyperNode are those that carry its
\* value, if this is so of its members.
LEMMA TierByTier ==
    ASSUME NEW N, Named(N), Nested(N), tree = HyperNodes(N), NEW g \in tree
    PROVE  /\ g.tier = 1 => {m[2] : m \in g.members} = With(N, g)
           /\ \A F : g.tier # 1 /\ (\A c \in Below(g.tier - 1, g) : F[c] = With(N, c))
                     => Gather(F, Below(g.tier - 1, g)) = With(N, g)
<1>. DEFINE lv == VolcanoLevels(N)
            v == g.name[2]
            group == {n \in N : Value(lv[g.tier], n) = v}
<1>1. /\ g.tier \in DOMAIN lv /\ g.members = Members(lv, g.tier, group)
      /\ DOMAIN lv = 1..Len(lv) /\ Len(lv) \in 3..4
  <2>1. g \in HyperNodes(N)
    OBVIOUS
  <2>2. g.tier \in DOMAIN lv /\ g.members = Members(lv, g.tier, group)
    <3>1. g.tier \in DOMAIN lv
      BY <2>1, HyperNodesAre
    <3>2. g.members = Members(lv, g.tier, group)
      BY <2>1, HyperNodesGroup, Zenon DEF MembersOf
    <3>. QED
      BY <3>1, <3>2
  <2>3. DOMAIN lv = 1..Len(lv) /\ Len(lv) \in 3..4
    BY LevelsNest, Zenon
  <2>. QED
    BY <2>2, <2>3
<1>2. With(N, g) = {n.name : n \in group}
  BY Zenon DEF NamesWith, With
<1>. HIDE DEF lv
<1>3. CASE g.tier = 1
  <2>1. g.members = {<<"node", n.name>> : n \in group}
    BY <1>1, <1>3, Zenon DEF Members
  <2>. HIDE DEF group
  <2>2. \A x : <<"node", x>>[2] = x
    OBVIOUS
  <2>3. {m[2] : m \in g.members} = {n.name : n \in group}
    <3>1. \A m \in g.members : \E n \in group : m[2] = n.name
      BY <2>1, <2>2
    <3>2. \A n \in group : \E m \in g.members : m[2] = n.name
      BY <2>1, <2>2, Zenon
    <3>. QED
      BY <3>1, <3>2
  <2>. QED
    BY <1>2, <1>3, <2>3, Zenon
<1>4. CASE g.tier # 1
  <2>. DEFINE t == g.tier - 1
  <2>1. t \in DOMAIN lv /\ g.tier \in DOMAIN lv \ {1}
    BY <1>1, <1>4
  <2>2. \A n \in N : Value(lv[t], n) # ""
    BY <2>1, LevelsNest DEF lv
  <2>3. g.members = {<<lv[t], Value(lv[t], n)>> : n \in group}
    <3>1. g.members = {<<lv[t], Value(lv[t], n)>> : n \in {m \in group : Value(lv[t], m) # ""}}
      BY <1>1, <1>4, Zenon DEF Members
    <3>2. {m \in group : Value(lv[t], m) # ""} = group
      BY <2>2
    <3>. QED
      BY <3>1, <3>2, Zenon
  <2>4. \A n, m \in N : Value(lv[t], n) = Value(lv[t], m) => Value(lv[g.tier], n) = Value(lv[g.tier], m)
    BY <2>1, LevelsNest, Zenon DEF lv
  <2>5. \A c \in tree : c.tier = t => c.name = <<lv[t], c.name[2]>>
    BY HyperNodesAre, Zenon DEF lv
  <2>. HIDE DEF t
  <2>6. \A n \in N : \E c \in tree : c.tier = t /\ c.name = <<lv[t], Value(lv[t], n)>>
    <3>1. ASSUME NEW n \in N
          PROVE  \E c \in HyperNodes(N) : c.tier = t /\ c.name = <<lv[t], Value(lv[t], n)>>
      <4>1. t \in DOMAIN VolcanoLevels(N) /\ Value(VolcanoLevels(N)[t], n) # ""
        BY <2>1, <2>2 DEF lv
      <4>2. \E c \in HyperNodes(N) :
                c.tier = t /\ c.name = <<VolcanoLevels(N)[t], Value(VolcanoLevels(N)[t], n)>>
        BY <4>1, EveryValueHasOne
      <4>. QED
        BY <4>2, Zenon DEF lv
    <3>. QED
      BY <3>1
  <2>7. ASSUME NEW F, \A c \in Below(t, g) : F[c] = With(N, c)
        PROVE  Gather(F, Below(t, g)) = {n.name : n \in group}
    <3>. DEFINE below == Below(t, g)
    <3>1. below = {c \in tree : c.tier = t /\ c.name \in g.members}
      BY DEF Below
    <3>0. \A c : With(N, c) = NamesWith(N, lv[c.tier], c.name[2])
      BY DEF With, lv
    <3>. HIDE DEF below
    <3>2. ASSUME NEW c \in below, NEW x \in F[c]
          PROVE  x \in {n.name : n \in group}
      <4>1. c \in tree /\ c.tier = t /\ c.name \in g.members /\ c.name = <<lv[t], c.name[2]>>
        BY <2>5, <3>1
      <4>2. PICK n \in group : c.name = <<lv[t], Value(lv[t], n)>>
        BY <2>3, <4>1
      <4>3. c.name[2] = Value(lv[t], n)
        BY <4>2
      <4>4. PICK m \in N : Value(lv[t], m) = c.name[2] /\ x = m.name
        BY <2>7, <3>0, <3>2, <4>1 DEF NamesWith, below
      <4>5. Value(lv[g.tier], m) = v
        BY <2>4, <4>3, <4>4
      <4>. QED
        BY <4>4, <4>5
    <3>3. ASSUME NEW n \in group
          PROVE  \E c \in below : n.name \in F[c]
      <4>1. PICK c \in tree : c.tier = t /\ c.name = <<lv[t], Value(lv[t], n)>>
        BY <2>6
      <4>2. c \in below
        BY <2>3, <3>1, <4>1
      <4>3. c.name[2] = Value(lv[t], n)
        BY <4>1
      <4>4. n.name \in NamesWith(N, lv[c.tier], c.name[2])
        BY <4>1, <4>3 DEF NamesWith
      <4>. QED
        BY <2>7, <3>0, <4>2, <4>4 DEF below
    <3>. QED
      BY <3>2, <3>3 DEF below, Gather
  <2>. QED
    BY <1>2, <1>4, <2>7, Zenon DEF t
<1>. QED
  BY <1>3, <1>4

LEMMA HigherTier ==
    ASSUME NEW N, Named(N), Nested(N), tree = HyperNodes(N), NEW g \in tree, g.tier # 1,
           NEW F, \A c \in Below(g.tier - 1, g) : F[c] = With(N, c)
    PROVE  Gather(F, Below(g.tier - 1, g)) = With(N, g)
BY TierByTier, Zenon

LEMMA ReachedAre ==
    ASSUME NEW N, Named(N), Nested(N), tree = HyperNodes(N), NEW h \in tree
    PROVE  Reached(h) = With(N, h)
<1>. DEFINE at(t) == {g \in tree : g.tier = t}
            W == [t \in 1..h.tier |-> [g \in at(t) |-> With(N, g)]]
<1>1. h.tier \in 1..Len(VolcanoLevels(N)) /\ Len(VolcanoLevels(N)) \in 3..4
  <2>1. h \in HyperNodes(N)
    OBVIOUS
  <2>2. h.tier \in DOMAIN VolcanoLevels(N)
    BY <2>1, HyperNodesAre, Zenon
  <2>. QED
    BY <2>2, LevelsNest, Zenon
<1>2. h.tier \in Nat /\ 1 <= h.tier /\ h.tier <= 4
  <2>. DEFINE top == Len(VolcanoLevels(N))
  <2>. HIDE DEF top
  <2>1. h.tier \in 1..top /\ top \in 3..4
    BY <1>1 DEF top
  <2>. QED
    BY <2>1
<1>3. ASSUME NEW g \in at(1)
      PROVE  {m[2] : m \in g.members} = With(N, g)
  <2>1. g \in tree /\ g.tier = 1
    OBVIOUS
  <2>. QED
    BY <2>1, TierByTier, Zenon
<1>0. ASSUME NEW t \in 1..h.tier, NEW g \in at(t), t # 1,
             NEW F, \A c \in Below(t - 1, g) : F[c] = With(N, c)
      PROVE  Gather(F, Below(t - 1, g)) = With(N, g)
  <2>1. g \in tree /\ g.tier = t
    OBVIOUS
  <2>2. g.tier # 1 /\ \A c \in Below(g.tier - 1, g) : F[c] = With(N, c)
    BY <1>0, <2>1, Zenon
  <2>3. Gather(F, Below(g.tier - 1, g)) = With(N, g)
    BY <2>1, <2>2, HigherTier, Zenon
  <2>. QED
    BY <2>1, <2>3, Zenon
<1>4. \A t \in 1..h.tier : t # 1 => t - 1 \in 1..h.tier
  BY <1>2
<1>5. Unders(h, W)
  <2>1. ASSUME NEW t \in 1..h.tier, NEW g \in at(t)
        PROVE  With(N, g) = IF t = 1 THEN {m[2] : m \in g.members}
                         ELSE Gather(W[t - 1], Below(t - 1, g))
    <3>1. CASE t = 1
      BY <1>3, <3>1, Zenon
    <3>2. CASE t # 1
      <4>1. \A c \in Below(t - 1, g) : W[t - 1][c] = With(N, c)
        BY <1>4, <3>2 DEF Below
      <4>. DEFINE F == W[t - 1]
      <4>. HIDE DEF F, W
      <4>2. \A c \in Below(t - 1, g) : F[c] = With(N, c)
        BY <4>1, Zenon DEF F
      <4>3. Gather(F, Below(t - 1, g)) = With(N, g)
        BY <1>0, <3>2, <4>2, Zenon
      <4>. QED
        BY <3>2, <4>3, Zenon DEF F
    <3>. QED
      BY <3>1, <3>2
  <2>2. W = [t \in 1..h.tier |-> [g \in at(t) |->
                IF t = 1 THEN {m[2] : m \in g.members} ELSE Gather(W[t - 1], Below(t - 1, g))]]
    <3>. DEFINE X == [t \in 1..h.tier |-> [g \in at(t) |->
                IF t = 1 THEN {m[2] : m \in g.members} ELSE Gather(W[t - 1], Below(t - 1, g))]]
                one(t, g) == IF t = 1 THEN {m[2] : m \in g.members} ELSE Gather(W[t - 1], Below(t - 1, g))
    <3>1. \A t \in 1..h.tier : \A g \in at(t) : With(N, g) = one(t, g)
      BY <2>1, Zenon
    <3>2. W = [t \in 1..h.tier |-> [g \in at(t) |-> one(t, g)]]
      <4>. HIDE DEF one, at
      <4>1. \A t \in 1..h.tier : [g \in at(t) |-> With(N, g)] = [g \in at(t) |-> one(t, g)]
        BY <3>1
      <4>. QED
        BY <4>1, Zenon
    <3>. QED
      BY <3>2, Zenon
  <2>. HIDE DEF W
  <2>. QED
    BY <2>2, Zenon DEF Unders
<1>6. ASSUME NEW u, Unders(h, u)
      PROVE  u[h.tier][h] = With(N, h)
  <2>1. ASSUME NEW t \in 1..h.tier, NEW g \in at(t)
        PROVE  u[t][g] = IF t = 1 THEN {m[2] : m \in g.members} ELSE Gather(u[t - 1], Below(t - 1, g))
    <3>. DEFINE one(s, c) == IF s = 1 THEN {m[2] : m \in c.members}
                             ELSE Gather(u[s - 1], Below(s - 1, c))
    <3>1. u = [s \in 1..h.tier |-> [c \in at(s) |-> one(s, c)]]
      BY <1>6, Zenon DEF Unders
    <3>. HIDE DEF one
    <3>2. u[t] = [c \in at(t) |-> one(t, c)]
      <4>. HIDE DEF at
      <4>. QED
        BY <3>1, Zenon
    <3>3. u[t][g] = one(t, g)
      BY <3>2, Zenon
    <3>. QED
      BY <3>3, Zenon DEF one
  <2>. DEFINE Right(t) == \A g \in at(t) : u[t][g] = With(N, g)
  <2>2. ASSUME NEW t \in 1..h.tier, t = 1 \/ Right(t - 1)
        PROVE  Right(t)
    <3>. SUFFICES ASSUME NEW g \in at(t)
                  PROVE  u[t][g] = With(N, g)
      BY Zenon
    <3>1. CASE t = 1
      BY <1>3, <2>1, <3>1, Zenon
    <3>2. CASE t # 1
      <4>1. \A c \in Below(t - 1, g) : u[t - 1][c] = With(N, c)
        <5>1. \A c \in at(t - 1) : u[t - 1][c] = With(N, c)
          BY <2>2, <3>2, Zenon
        <5>. QED
          BY <5>1 DEF Below
      <4>2. u[t][g] = Gather(u[t - 1], Below(t - 1, g))
        BY <2>1, <3>2, Zenon
      <4>. DEFINE F == u[t - 1]
      <4>. HIDE DEF F
      <4>3. \A c \in Below(t - 1, g) : F[c] = With(N, c)
        BY <4>1, Zenon DEF F
      <4>4. Gather(F, Below(t - 1, g)) = With(N, g)
        BY <1>0, <3>2, <4>3, Zenon
      <4>. QED
        BY <4>2, <4>4, Zenon DEF F
    <3>. QED
      BY <3>1, <3>2
  <2>. HIDE DEF Right
  <2>3. Right(1)
    BY <1>2, <2>2
  <2>4. 2 <= h.tier => Right(2)
    BY <1>2, <2>2, <2>3
  <2>5. 3 <= h.tier => Right(3)
    BY <1>2, <2>2, <2>4
  <2>6. 4 <= h.tier => Right(4)
    BY <1>2, <2>2, <2>5
  <2>7. Right(h.tier)
    BY <1>2, <2>3, <2>4, <2>5, <2>6
  <2>. QED
    BY <2>7, Zenon DEF Right
<1>. HIDE DEF W
<1>7. Unders(h, CHOOSE u : Unders(h, u))
  BY <1>5, Zenon
<1>8. Reached(h) = With(N, h)
  BY <1>6, <1>7, ReachedIsChosen, Zenon
<1>. QED
  BY <1>8

-----------------------------------------------------------------------------
(* What was projected from the nodes. *)

\* The labels and attributes of nodes, by name.
LabelsOf(N) == [x \in {n.name : n \in N} |-> Labels(CHOOSE n \in N : n.name = x)]
FabricOf(N) == [x \in {n.name : n \in N} |-> FabricAttributes(CHOOSE n \in N : n.name = x)]

\* The resolved nodes are the document's, and the projections are theirs.
Projected ==
    /\ doc \in Docs
    /\ phase \in {"loaded", "invalid", "valid", "failed", "resolved", "generated"}
    /\ phase \in {"valid", "failed", "resolved", "generated"} => Validate(doc)
    /\ nodes = IF phase \in {"resolved", "generated"} THEN Resolve(doc) ELSE {}
    /\ phase = "generated" =>
        /\ labels = LabelsOf(nodes) /\ fabric = FabricOf(nodes)
        /\ kai = KAILevels(nodes) /\ tree = HyperNodes(nodes)

\* It is so in every behaviour of the composition.
LEMMA ProjectedInit == IntentInit => Projected
<1>. SUFFICES ASSUME IntentInit
              PROVE  Projected
  OBVIOUS
<1>1. doc \in Docs
  BY IntentAssumption DEF IntentInit
<1>. QED
  BY <1>1 DEF IntentInit, Init, Projected

LEMMA ProjectedStep == Projected /\ [IntentNext]_intentVars => Projected'
<1>. SUFFICES ASSUME Projected, [IntentNext]_intentVars
              PROVE  Projected'
  OBVIOUS
<1>1. CASE ValidateDoc
  BY <1>1 DEF ValidateDoc, Projected
<1>2. CASE ResolveDoc
  BY <1>2 DEF ResolveDoc, Projected
<1>3. CASE Generate
  <2>1. /\ phase = "resolved" /\ phase' = "generated" /\ UNCHANGED <<doc, nodes>>
        /\ labels' = LabelsOf(nodes) /\ fabric' = FabricOf(nodes)
        /\ kai' = KAILevels(nodes) /\ tree' = HyperNodes(nodes)
    BY <1>3, Zenon DEF Generate, LabelsOf, FabricOf
  <2>. QED
    BY <2>1 DEF Projected
<1>4. CASE UNCHANGED vars
  BY <1>4 DEF vars, Projected
<1>5. ValidateDoc \/ ResolveDoc \/ Generate \/ UNCHANGED vars
  <2>1. Apply => ValidateDoc \/ ResolveDoc \/ Generate
    BY DEF Apply
  <2>2. TranslateFirst \/ Submit => UNCHANGED vars
    BY DEF TranslateFirst, Submit
  <2>3. Looks => UNCHANGED vars
    BY LookingMovesNothing
  <2>4. \A f : Schedule(f) => UNCHANGED vars
    BY DEF Schedule
  <2>5. \A p : Complete(p) => UNCHANGED vars
    BY DEF Complete
  <2>6. UNCHANGED intentVars => UNCHANGED vars
    BY DEF intentVars
  <2>. QED
    BY <2>1, <2>2, <2>3, <2>4, <2>5, <2>6 DEF IntentNext, Looks
<1>. QED
  BY <1>1, <1>2, <1>3, <1>4, <1>5

\* What was resolved and generated is the document's as long as it stands.
LEMMA ProjectionsHold == IntentSpec => []Projected
BY ProjectedInit, ProjectedStep, PTL DEF IntentSpec

\* Every node has its own labels and attributes.
LEMMA LabelsAreTheirs ==
    ASSUME Projected, Done
    PROVE  /\ nodes = Resolve(doc) /\ Validate(doc) /\ doc \in Docs /\ Named(nodes)
           /\ DOMAIN labels = {n.name : n \in nodes}
           /\ \A n \in nodes : labels[n.name] = Labels(n) /\ fabric[n.name] = FabricAttributes(n)
           /\ kai = KAILevels(nodes) /\ tree = HyperNodes(nodes)
<1>1. nodes = Resolve(doc) /\ Validate(doc) /\ doc \in Docs
  BY DEF Projected, Done
<1>2. Named(nodes)
  BY <1>1, ResolvedAreNamed
<1>3. \A n \in nodes : (CHOOSE m \in nodes : m.name = n.name) = n
  <2>. SUFFICES ASSUME NEW n \in nodes
                PROVE  (CHOOSE m \in nodes : m.name = n.name) = n
    OBVIOUS
  <2>. DEFINE c == CHOOSE m \in nodes : m.name = n.name
  <2>1. c \in nodes /\ c.name = n.name
    BY Zenon
  <2>. HIDE DEF c
  <2>2. c = n
    BY <1>2, <2>1 DEF Named
  <2>. QED
    BY <2>2 DEF c
<1>4. /\ labels = [x \in {n.name : n \in nodes} |-> Labels(CHOOSE n \in nodes : n.name = x)]
      /\ fabric = [x \in {n.name : n \in nodes} |-> FabricAttributes(CHOOSE n \in nodes : n.name = x)]
      /\ kai = KAILevels(nodes) /\ tree = HyperNodes(nodes)
  BY Zenon DEF Projected, Done, LabelsOf, FabricOf
<1>5. ASSUME NEW n \in nodes
      PROVE  labels[n.name] = Labels(n) /\ fabric[n.name] = FabricAttributes(n)
  <2>1. n.name \in {m.name : m \in nodes}
    OBVIOUS
  <2>2. /\ labels[n.name] = Labels(CHOOSE m \in nodes : m.name = n.name)
        /\ fabric[n.name] = FabricAttributes(CHOOSE m \in nodes : m.name = n.name)
    BY <1>4, <2>1, Zenon
  <2>. QED
    BY <1>3, <2>2, Zenon
<1>6. DOMAIN labels = {n.name : n \in nodes}
  BY <1>4, Zenon
<1>. QED
  BY <1>1, <1>2, <1>4, <1>5, <1>6

\* A level a node has a value of is among its labels, with that value.
LEMMA LabelIsValue ==
    ASSUME NEW n, NEW level \in KnownLevels
    PROVE  /\ level \in DOMAIN Labels(n) => Labels(n)[level] = Value(level, n)
           /\ Value(level, n) # "" => level \in DOMAIN Labels(n)
           /\ level # "nvlink-domain" => level \in DOMAIN Labels(n)
<1>1. Value("nvlink-domain", n) = n.nvlinkDomain
  BY DEF Value
<1>2. DOMAIN Labels(n) = {l \in KnownLevels : l = "nvlink-domain" => n.nvlinkDomain # ""}
  BY DEF Labels
<1>3. level \in DOMAIN Labels(n) => Labels(n)[level] = Value(level, n)
  BY DEF Labels
<1>. QED
  BY <1>1, <1>2, <1>3

\* The nodes KAI groups by a label.
LEMMA LabelDomainIs ==
    ASSUME Projected, Done, NEW level \in KnownLevels, NEW v, v # ""
    PROVE  LabelDomain(level, v) = NamesWith(nodes, level, v)
<1>1. ASSUME NEW x \in LabelDomain(level, v)
      PROVE  x \in NamesWith(nodes, level, v)
  <2>1. x \in DOMAIN labels /\ level \in DOMAIN labels[x] /\ labels[x][level] = v
    BY DEF LabelDomain
  <2>2. PICK n \in nodes : x = n.name
    BY <2>1, LabelsAreTheirs
  <2>3. labels[x] = Labels(n)
    BY <2>2, LabelsAreTheirs
  <2>4. Value(level, n) = v
    BY <2>1, <2>3, LabelIsValue
  <2>. QED
    BY <2>2, <2>4 DEF NamesWith
<1>2. ASSUME NEW n \in nodes, Value(level, n) = v
      PROVE  n.name \in LabelDomain(level, v)
  <2>1. n.name \in DOMAIN labels /\ labels[n.name] = Labels(n)
    BY LabelsAreTheirs
  <2>2. level \in DOMAIN Labels(n) /\ Labels(n)[level] = v
    BY <1>2, LabelIsValue
  <2>. QED
    BY <2>1, <2>2 DEF LabelDomain
<1>. QED
  BY <1>1, <1>2 DEF NamesWith

\* The document's NVLink domains are told apart.
DocsApart == \A d \in Docs : Validate(d) => DomainsApart(d)

LEMMA TreeIsLabels ==
    ASSUME Projected, Done, DocsApart, NEW h \in tree
    PROVE  /\ Reached(h) = NamesWith(nodes, h.name[1], h.name[2])
           /\ Reached(h) = LabelDomain(h.name[1], h.name[2])
<1>1. Named(nodes) /\ Nested(nodes) /\ tree = HyperNodes(nodes)
  BY LabelsAreTheirs, ResolvedAreNested DEF DocsApart
<1>2. Reached(h) = With(nodes, h)
  BY <1>1, ReachedAre
<1>3. /\ h.tier \in DOMAIN VolcanoLevels(nodes)
      /\ h.name = <<VolcanoLevels(nodes)[h.tier], h.name[2]>>
      /\ h.name[2] # ""
  BY <1>1, HyperNodesAre, HyperNodesCarry
<1>4. h.name[1] = VolcanoLevels(nodes)[h.tier] /\ h.name[1] \in KnownLevels
  <2>1. VolcanoLevels(nodes)[h.tier] \in KnownLevels
    BY <1>1, <1>3, LevelsNest
  <2>2. h.name[1] = VolcanoLevels(nodes)[h.tier]
    <3>1. \A x, a, b : x = <<a, b>> => x[1] = a
      OBVIOUS
    <3>. QED
      BY <1>3, <3>1, Zenon
  <2>. QED
    BY <2>1, <2>2
<1>5. Reached(h) = NamesWith(nodes, h.name[1], h.name[2])
  BY <1>2, <1>4, Zenon DEF With
<1>6. LabelDomain(h.name[1], h.name[2]) = NamesWith(nodes, h.name[1], h.name[2])
  BY <1>3, <1>4, LabelDomainIs
<1>. QED
  BY <1>5, <1>6

\* Both schedulers are told of the same domains, whatever the document, unless two of
\* its NVLink domains have one name.
THEOREM SchedulersAgree ==
    ASSUME DocsApart
    PROVE  IntentSpec => []TreeMatchesLabels
<1>1. Projected => TreeMatchesLabels
  BY TreeIsLabels DEF TreeMatchesLabels
<1>. QED
  BY <1>1, ProjectionsHold, PTL

\* KAI's levels are Volcano's, turned round.
LEMMA KaiIsReverse ==
    ASSUME NEW N
    PROVE  LET lv == VolcanoLevels(N)
               kl == KAILevels(N)
           IN  /\ kl = Reverse(lv) /\ DOMAIN kl = 1..Len(lv)
               /\ \A i \in 1..Len(lv) : kl[i] = lv[Len(lv) + 1 - i] /\ Len(lv) + 1 - i \in 1..Len(lv)
<1>. DEFINE lv == VolcanoLevels(N)
            kl == KAILevels(N)
<1>. HIDE DEF lv, kl
<1>1. \/ Len(lv) = 4 /\ kl = [i \in 1..4 |-> lv[5 - i]]
      \/ Len(lv) = 3 /\ kl = [i \in 1..3 |-> lv[4 - i]]
  BY LevelsAre DEF lv, kl
<1>2. Len(lv) \in {3, 4} /\ kl = [i \in 1..Len(lv) |-> lv[Len(lv) + 1 - i]]
  <2>1. CASE Len(lv) = 4 /\ kl = [i \in 1..4 |-> lv[5 - i]]
    <3>1. \A i \in 1..4 : lv[5 - i] = lv[4 + 1 - i]
      OBVIOUS
    <3>2. [i \in 1..4 |-> lv[5 - i]] = [i \in 1..4 |-> lv[4 + 1 - i]]
      BY <3>1, Zenon
    <3>. QED
      BY <2>1, <3>2, Zenon
  <2>2. CASE Len(lv) = 3 /\ kl = [i \in 1..3 |-> lv[4 - i]]
    <3>1. \A i \in 1..3 : lv[4 - i] = lv[3 + 1 - i]
      OBVIOUS
    <3>2. [i \in 1..3 |-> lv[4 - i]] = [i \in 1..3 |-> lv[3 + 1 - i]]
      BY <3>1, Zenon
    <3>. QED
      BY <2>2, <3>2, Zenon
  <2>. QED
    BY <1>1, <2>1, <2>2
<1>3. \A i \in 1..Len(lv) : Len(lv) + 1 - i = (Len(lv) - i) + 1 /\ Len(lv) + 1 - i \in 1..Len(lv)
  BY <1>2
<1>4. kl = Reverse(lv)
  BY <1>2, <1>3 DEF Reverse
<1>. QED
  BY <1>2, <1>3, <1>4 DEF lv, kl

\* No node lacks a level, in the labels or in the tree, and the levels nest.
LEMMA LevelsComplete ==
    ASSUME Projected, DocsApart
    PROVE  EveryNodeInEveryLevel
<1>. SUFFICES ASSUME Done
              PROVE  /\ kai = Reverse(VolcanoLevels(nodes))
                     /\ \A x \in DOMAIN labels : \A i \in DOMAIN kai : kai[i] \in DOMAIN labels[x]
                     /\ \A t \in DOMAIN kai : UNION {Reached(h) : h \in {g \in tree : g.tier = t}} = DOMAIN labels
                     /\ \A i \in DOMAIN kai \ {1} : \A x, y \in DOMAIN labels :
                            labels[x][kai[i]] = labels[y][kai[i]]
                            => labels[x][kai[i - 1]] = labels[y][kai[i - 1]]
  BY DEF EveryNodeInEveryLevel
<1>. DEFINE lv == VolcanoLevels(nodes)
            n_ == Len(lv)
<1>1. /\ Named(nodes) /\ Nested(nodes) /\ kai = KAILevels(nodes) /\ tree = HyperNodes(nodes)
      /\ DOMAIN labels = {n.name : n \in nodes}
      /\ \A n \in nodes : labels[n.name] = Labels(n)
  BY LabelsAreTheirs, ResolvedAreNested DEF DocsApart
<1>2. /\ kai = Reverse(lv) /\ DOMAIN kai = 1..n_
      /\ \A i \in 1..n_ : kai[i] = lv[n_ + 1 - i] /\ n_ + 1 - i \in 1..n_
  BY <1>1, KaiIsReverse
<1>3. n_ \in 3..4 /\ DOMAIN lv = 1..n_
  BY <1>1, LevelsNest
<1>4. \A t \in 1..n_ : lv[t] \in KnownLevels /\ \A n \in nodes : Value(lv[t], n) # ""
  <2>1. \A t \in DOMAIN lv : lv[t] \in KnownLevels /\ \A n \in nodes : Value(lv[t], n) # ""
    BY <1>1, LevelsNest, Zenon
  <2>. QED
    BY <1>3, <2>1, Zenon
<1>5. \A t \in 1..n_ \ {1} : \A n, m \in nodes :
          Value(lv[t - 1], n) = Value(lv[t - 1], m) => Value(lv[t], n) = Value(lv[t], m)
  <2>1. \A t \in DOMAIN lv \ {1} : \A n, m \in nodes :
            Value(lv[t - 1], n) = Value(lv[t - 1], m) => Value(lv[t], n) = Value(lv[t], m)
    BY <1>1, LevelsNest, Zenon
  <2>. QED
    BY <1>3, <2>1, Zenon
<1>. HIDE DEF lv, n_
<1>6. \A n \in nodes : \A t \in 1..n_ : lv[t] \in DOMAIN labels[n.name] /\ labels[n.name][lv[t]] = Value(lv[t], n)
  <2>. SUFFICES ASSUME NEW n \in nodes, NEW t \in 1..n_
                PROVE  lv[t] \in DOMAIN Labels(n) /\ Labels(n)[lv[t]] = Value(lv[t], n)
    BY <1>1
  <2>1. lv[t] \in KnownLevels /\ Value(lv[t], n) # ""
    BY <1>4
  <2>. QED
    BY <2>1, LabelIsValue
<1>7. ASSUME NEW x \in DOMAIN labels, NEW i \in DOMAIN kai
      PROVE  kai[i] \in DOMAIN labels[x]
  <2>1. PICK n \in nodes : x = n.name
    BY <1>1
  <2>. QED
    BY <1>2, <1>6, <2>1
<1>8. ASSUME NEW t \in DOMAIN kai
      PROVE  UNION {Reached(h) : h \in {g \in tree : g.tier = t}} = DOMAIN labels
  <2>1. ASSUME NEW h \in tree, h.tier = t, NEW x \in Reached(h)
        PROVE  x \in DOMAIN labels
    BY <1>1, <2>1, TreeIsLabels DEF NamesWith
  <2>2. ASSUME NEW n \in nodes
        PROVE  \E h \in tree : h.tier = t /\ n.name \in Reached(h)
    <3>1. t \in 1..n_ /\ t \in DOMAIN VolcanoLevels(nodes) /\ Value(VolcanoLevels(nodes)[t], n) # ""
      BY <1>2, <1>3, <1>4 DEF lv
    <3>2. PICK h \in HyperNodes(nodes) : h.tier = t /\ h.name = <<VolcanoLevels(nodes)[t], Value(VolcanoLevels(nodes)[t], n)>>
      BY <3>1, EveryValueHasOne
    <3>3. h \in tree
      BY <1>1, <3>2
    <3>4. h.name[1] = VolcanoLevels(nodes)[t] /\ h.name[2] = Value(VolcanoLevels(nodes)[t], n)
      <4>1. \A x, a, b : x = <<a, b>> => x[1] = a /\ x[2] = b
        OBVIOUS
      <4>. QED
        BY ONLY <3>2, <4>1, ZenonT(40)
    <3>5. n.name \in NamesWith(nodes, h.name[1], h.name[2])
      BY <3>4 DEF NamesWith
    <3>6. Reached(h) = NamesWith(nodes, h.name[1], h.name[2])
      BY <3>3, TreeIsLabels
    <3>. QED
      BY <3>2, <3>3, <3>5, <3>6
  <2>. QED
    BY <1>1, <2>1, <2>2
<1>9. ASSUME NEW i \in DOMAIN kai \ {1}, NEW x \in DOMAIN labels, NEW y \in DOMAIN labels,
             labels[x][kai[i]] = labels[y][kai[i]]
      PROVE  labels[x][kai[i - 1]] = labels[y][kai[i - 1]]
  <2>1. PICK n \in nodes : x = n.name
    BY <1>1
  <2>2. PICK m \in nodes : y = m.name
    BY <1>1
  <2>. DEFINE t == n_ + 1 - i
  <2>3. t \in 1..n_ /\ kai[i] = lv[t]
    BY <1>2
  <2>4. i - 1 \in 1..n_ /\ n_ + 1 - (i - 1) = t + 1 /\ t + 1 \in 1..n_ \ {1} /\ (t + 1) - 1 = t
    BY <1>2, <1>3
  <2>5. kai[i - 1] = lv[t + 1]
    BY <1>2, <2>4
  <2>. HIDE DEF t
  <2>6. Value(lv[t], n) = Value(lv[t], m)
    BY <1>6, <1>9, <2>1, <2>2, <2>3
  <2>7. Value(lv[t + 1], n) = Value(lv[t + 1], m)
    BY <1>5, <2>4, <2>6
  <2>. QED
    BY <1>6, <2>1, <2>2, <2>4, <2>5, <2>7
<1>. QED
  BY <1>2, <1>7, <1>8, <1>9, Zenon DEF lv

\* Every node is in a domain of every level that KAI is told of, and the levels nest.
THEOREM NoNodeIsLeftOut ==
    ASSUME DocsApart
    PROVE  IntentSpec => []EveryNodeInEveryLevel
BY LevelsComplete, ProjectionsHold, PTL

-----------------------------------------------------------------------------
(* Peer counts. *)

\* The documents' figures are integers, their node lists finite.
LEMMA RacksAreFinite ==
    ASSUME NEW d \in Docs, Validate(d), NEW r \in DOMAIN d.racks
    PROVE  /\ IsFiniteSet(DOMAIN d.racks[r].nodes)
           /\ \A i \in DOMAIN d.racks[r].nodes :
                  <<r, i>> \in Slots(d) /\ d.pools[d.racks[r].nodes[i].pool].gpus \in Int
<1>. DEFINE NodeSet == [name : STRING, pool : STRING]
            RackSet == [name : STRING, faultDomain : STRING, nvlinkDomain : STRING, nodes : Seq(NodeSet)]
<1>1. d.racks \in Seq(RackSet)
  BY DocsAssumption
<1>2. d.racks[r].nodes \in Seq(NodeSet)
  <2>1. d.racks[r] \in RackSet
    <3>. HIDE DEF RackSet
    <3>. QED
      BY <1>1, LenProperties, ElementOfSeq
  <2>. QED
    BY <2>1
<1>3. Len(d.racks[r].nodes) \in Nat /\ DOMAIN d.racks[r].nodes = 1..Len(d.racks[r].nodes)
  <2>. HIDE DEF NodeSet
  <2>. QED
    BY <1>2, LenProperties
<1>4. IsFiniteSet(DOMAIN d.racks[r].nodes)
  BY <1>3, FS_Interval
<1>5. ASSUME NEW i \in DOMAIN d.racks[r].nodes
      PROVE  <<r, i>> \in Slots(d) /\ d.pools[d.racks[r].nodes[i].pool].gpus \in Int
  <2>1. <<r, i>> \in Slots(d)
    BY DEF Slots
  <2>2. NodeAt(d, <<r, i>>).pool \in DOMAIN d.pools
    BY <2>1 DEF Validate, ValidNodes
  <2>3. d.racks[r].nodes[i].pool \in DOMAIN d.pools
    BY <2>2 DEF NodeAt
  <2>4. d.pools[d.racks[r].nodes[i].pool] \in [profile : STRING, gpus : Int, nvlink : STRING, mig : BOOLEAN]
    BY <2>3, DocsAssumption
  <2>. QED
    BY <2>1, <2>4
<1>. QED
  BY <1>4, <1>5


LEMMA SlotParts ==
    ASSUME NEW d, NEW t \in Slots(d)
    PROVE  /\ t = <<t[1], t[2]>> /\ t[1] \in DOMAIN d.racks /\ t[2] \in DOMAIN d.racks[t[1]].nodes
           /\ NodeAt(d, t) = d.racks[t[1]].nodes[t[2]]
<1>1. PICK r \in DOMAIN d.racks : \E i \in DOMAIN d.racks[r].nodes : t = <<r, i>>
  BY DEF Slots
<1>2. PICK i \in DOMAIN d.racks[r].nodes : t = <<r, i>>
  BY <1>1
<1>3. t[1] = r /\ t[2] = i
  BY <1>2
<1>. QED
  BY <1>2, <1>3 DEF NodeAt

\* The nodes whose GPUs share a node's NVLink domain.
Fellows(N, n) == {m \in N : m.nvlinkDomain = n.nvlinkDomain}

\* In a rack that NVLink spans these are the nodes of the rack.
LEMMA FellowsInRack ==
    ASSUME NEW d, Validate(d), DomainsApart(d), NEW s \in Slots(d),
           ResolveNode(d, s).nvlinkDomain # "", d.racks[s[1]].nvlinkDomain # ""
    PROVE  LET at == [i \in DOMAIN d.racks[s[1]].nodes |-> ResolveNode(d, <<s[1], i>>)]
           IN  at \in Bijection(DOMAIN d.racks[s[1]].nodes, Fellows(Resolve(d), ResolveNode(d, s)))
<1>. DEFINE N == Resolve(d)
            n == ResolveNode(d, s)
            r == s[1]
            I == DOMAIN d.racks[r].nodes
            at == [i \in I |-> ResolveNode(d, <<r, i>>)]
            same == Fellows(N, n)
<1>1. r \in DOMAIN d.racks /\ s[2] \in I /\ s = <<r, s[2]>>
  BY SlotParts
<1>2. \A i \in I : <<r, i>> \in Slots(d) /\ <<r, i>>[1] = r
  BY <1>1 DEF Slots
<1>3. Nested(N)
  BY ResolvedAreNested
<1>4. \A t \in Slots(d) : ResolveNode(d, t) \in N /\ ResolveNode(d, t).rack = d.racks[t[1]].name
  BY WhatIsResolved DEF Resolve
<1>5. \A t \in Slots(d) : t[1] = r => ResolveNode(d, t).nvlinkDomain = d.racks[r].nvlinkDomain
  <2>1. ASSUME NEW t \in Slots(d), t[1] = r
        PROVE  d.pools[NodeAt(d, t).pool].nvlink # "none"
    BY <2>1 DEF Validate, NVLinkConsistent, ValidNodes
  <2>. SUFFICES ASSUME NEW t \in Slots(d), t[1] = r
                PROVE  ResolveNode(d, t).nvlinkDomain = d.racks[r].nvlinkDomain
    OBVIOUS
  <2>2. d.pools[NodeAt(d, t).pool].nvlink # "none"
    BY <2>1
  <2>3. d.racks[t[1]].nvlinkDomain # ""
    BY <2>1
  <2>. HIDE DEF r, N, n, I, at, same
  <2>4. ResolveNode(d, t).nvlinkDomain = d.racks[t[1]].nvlinkDomain
    BY <2>2, <2>3, WhatIsResolved
  <2>. QED
    BY <2>4
<1>6. \A i \in I : at[i] \in same
  <2>. SUFFICES ASSUME NEW i \in I
                PROVE  ResolveNode(d, <<r, i>>) \in N /\ ResolveNode(d, <<r, i>>).nvlinkDomain = n.nvlinkDomain
    BY DEF Fellows
  <2>. QED
    BY <1>2, <1>4, <1>5
<1>7. ASSUME NEW m \in same
      PROVE  \E i \in I : at[i] = m
  <2>1. PICK t \in Slots(d) : m = ResolveNode(d, t)
    BY DEF Fellows, Resolve
  <2>2. m.rack = n.rack
    BY <1>3, <1>4 DEF Nested, Fellows
  <2>3. t = <<t[1], t[2]>> /\ t[1] \in DOMAIN d.racks /\ t[2] \in DOMAIN d.racks[t[1]].nodes
    BY SlotParts
  <2>4. d.racks[t[1]].name = d.racks[r].name
    BY <1>4, <2>1, <2>2
  <2>5. t[1] = r
    BY <1>1, <2>3, <2>4 DEF Validate, ValidRacks
  <2>6. t[2] \in I /\ t = <<r, t[2]>>
    BY <2>3, <2>5
  <2>. HIDE DEF I
  <2>. QED
    BY <2>1, <2>6
<1>8. ASSUME NEW i \in I, NEW j \in I, at[i] = at[j]
      PROVE  i = j
  <2>1. ResolveNode(d, <<r, i>>).name = ResolveNode(d, <<r, j>>).name
    BY <1>8
  <2>2. NodeAt(d, <<r, i>>).name = NodeAt(d, <<r, j>>).name
    <3>1. \A t \in Slots(d) : ResolveNode(d, t).name = NodeAt(d, t).name
      BY WhatIsResolved
    <3>. QED
      BY <1>2, <2>1, <3>1, Zenon
  <2>3. <<r, i>> = <<r, j>>
    BY <1>2, <2>2, Zenon DEF Validate, ValidNodes
  <2>. QED
    BY <2>3
<1>. HIDE DEF I, same, at
<1>9. at \in [I -> same]
  <2>. USE DEF at
  <2>. QED
    BY <1>6
<1>. QED
  BY <1>7, <1>8, <1>9 DEF Bijection, Injection, Surjection, IsInjective, at, I, same

\* In any other rack a node's GPUs are alone with each other.
LEMMA FellowsAlone ==
    ASSUME NEW d, Validate(d), DomainsApart(d), NEW s \in Slots(d),
           ResolveNode(d, s).nvlinkDomain # "", d.racks[s[1]].nvlinkDomain = ""
    PROVE  Fellows(Resolve(d), ResolveNode(d, s)) = {ResolveNode(d, s)}
<1>. DEFINE N == Resolve(d)
            n == ResolveNode(d, s)
<1>1. n \in N /\ Named(N) /\ Nested(N)
  BY ResolvedAreNested, ResolvedAreNamed DEF Resolve
<1>2. ASSUME NEW m \in N, m.nvlinkDomain = n.nvlinkDomain
      PROVE  m = n
  <2>1. PICK t \in Slots(d) : m = ResolveNode(d, t)
    BY DEF Resolve
  <2>2. m.rack = n.rack
    BY <1>1, <1>2 DEF Nested
  <2>3. \A u \in Slots(d) : /\ u[1] \in DOMAIN d.racks
                            /\ ResolveNode(d, u).rack = d.racks[u[1]].name
    BY SlotParts, WhatIsResolved
  <2>4. t[1] = s[1]
    BY <2>1, <2>2, <2>3 DEF Validate, ValidRacks
  <2>5. \A u \in Slots(d) : u[1] = s[1] /\ ResolveNode(d, u).nvlinkDomain # ""
                            => ResolveNode(d, u).nvlinkDomain = ResolveNode(d, u).name
    BY WhatIsResolved, ZenonT(60)
  <2>6. m.name = n.name
    BY <1>2, <2>1, <2>4, <2>5
  <2>. QED
    BY <1>1, <1>2, <2>6 DEF Named
<1>. HIDE DEF N, n
<1>3. Fellows(N, n) = {n}
  BY <1>1, <1>2 DEF Fellows
<1>. QED
  BY <1>3 DEF N, n

\* Figures.
LEMMA OneLess == \A p, all : all \in Int /\ p = all - 1 => p + 1 = all
OBVIOUS

LEMMA PlusNone == \A p : p \in Int => p + 0 = p
OBVIOUS

LEMMA SumOfOne ==
    ASSUME NEW f, NEW x, f[x] \in Int
    PROVE  SumFunctionOnSet(f, {x}) = f[x]
<1>1. SumFunctionOnSet(f, {x}) = f[x] + SumFunctionOnSet(f, {x} \ {x})
  BY SumWithout, FS_Singleton
<1>2. {x} \ {x} = {}
  OBVIOUS
<1>. QED
  BY <1>1, <1>2, SumOfNone, PlusNone

\* The GPUs of the nodes that share a domain are a node's peers and one more.
LEMMA PeersAreCounted ==
    ASSUME NEW d \in Docs, Validate(d), DomainsApart(d), NEW s \in Slots(d),
           ResolveNode(d, s).nvlinkDomain # ""
    PROVE  ResolveNode(d, s).peers + 1 =
               SumFunction([m \in Fellows(Resolve(d), ResolveNode(d, s)) |-> m.gpus])
<1>. DEFINE n == ResolveNode(d, s)
            r == s[1]
            rack == d.racks[r]
            I == DOMAIN rack.nodes
            same == Fellows(Resolve(d), n)
            g == [m \in same |-> m.gpus]
            f == [i \in I |-> d.pools[rack.nodes[i].pool].gpus]
            b == [i \in I |-> ResolveNode(d, <<r, i>>)]
<1>1. r \in DOMAIN d.racks /\ s[2] \in I /\ s = <<r, s[2]>> /\ NodeAt(d, s) = rack.nodes[s[2]]
  BY SlotParts
<1>2. /\ IsFiniteSet(I)
      /\ \A i \in I : <<r, i>> \in Slots(d) /\ f[i] \in Int
  BY <1>1, RacksAreFinite
<1>3. d.pools[NodeAt(d, s).pool].nvlink # "none"
  BY WhatIsResolved
<1>4. SumFunction(g) = SumFunctionOnSet(g, same) /\ GPUsInRack(d, rack) = SumFunctionOnSet(f, I)
  BY Zenon DEF SumFunction, GPUsInRack
<1>5. CASE rack.nvlinkDomain # ""
  <2>1. n.peers = GPUsInRack(d, rack) - 1
    BY <1>3, <1>5, WhatIsResolved
  <2>2. b \in Bijection(I, same)
    BY <1>5, FellowsInRack
  <2>3. \A i \in I : b[i] \in same /\ b[i].gpus = f[i] /\ g[b[i]] = f[i]
    <3>1. \A i \in I : b[i] \in same
      BY <2>2 DEF Bijection, Injection
    <3>2. \A i \in I : b[i].gpus = f[i]
      <4>1. \A t \in Slots(d) : ResolveNode(d, t).gpus = d.pools[NodeAt(d, t).pool].gpus
        BY WhatIsResolved, ZenonT(40)
      <4>2. \A i \in I : NodeAt(d, <<r, i>>) = rack.nodes[i]
        BY DEF NodeAt
      <4>. QED
        BY <1>2, <4>1, <4>2
    <3>. HIDE DEF I, f, b, same
    <3>. QED
      BY <3>1, <3>2
  <2>4. \A m \in same : \E i \in I : b[i] = m
    BY <2>2 DEF Bijection, Surjection
  <2>5. \A m \in same : g[m] \in Int
    <3>. SUFFICES ASSUME NEW m \in same
                  PROVE  g[m] \in Int
      BY Zenon
    <3>1. PICK i \in I : b[i] = m
      BY <2>4, Zenon
    <3>2. g[b[i]] = f[i]
      BY <2>3, Zenon
    <3>3. f[i] \in Int
      <4>. HIDE DEF I, f, b, same, g
      <4>. QED
        BY <1>2
    <3>. QED
      BY <3>1, <3>2, <3>3, Zenon
  <2>. HIDE DEF I, f, b, same, g, n, rack
  <2>6. SumFunctionOnSet(f, I) = SumFunctionOnSet(g, same)
    <3>1. OneForOne(I, same, f, g)
      BY <1>2, <2>2, <2>3, <2>5 DEF OneForOne
    <3>. QED
      BY ONLY <3>1, SumOneForOne, SMT
  <2>7. SumFunctionOnSet(f, I) \in Int
    BY <1>2, SumType
  <2>8. n.peers + 1 = SumFunction(g)
    BY <1>4, <2>1, <2>6, <2>7, OneLess, Zenon
  <2>. QED
    BY <2>8 DEF n, g, same
<1>6. CASE rack.nvlinkDomain = ""
  <2>1. same = {n}
    BY <1>6, FellowsAlone
  <2>2. n.peers = n.gpus - 1
    BY <1>3, <1>6, WhatIsResolved
  <2>3. n.gpus \in Int
    <3>1. n.gpus = d.pools[NodeAt(d, s).pool].gpus
      BY WhatIsResolved, ZenonT(40)
    <3>. QED
      BY <1>1, <1>2, <3>1
  <2>4. g[n] = n.gpus
    BY <2>1
  <2>. HIDE DEF n, g, same
  <2>5. SumFunctionOnSet(g, {n}) = n.gpus
    BY <2>3, <2>4, SumOfOne
  <2>8. n.peers + 1 = SumFunction(g)
    BY <1>4, <2>1, <2>2, <2>3, <2>5, OneLess, Zenon
  <2>. QED
    BY <2>8 DEF n, g, same
<1>. QED
  BY <1>5, <1>6

\* The attributes there are.
LEMMA AttributesOf ==
    /\ \A d, p, h : h = [domain |-> d, peers |-> p]
                    => "domain" \in DOMAIN h /\ h.domain = d /\ h.peers = p
    /\ \A d, h : h = [domain |-> d]
                 => "domain" \in DOMAIN h /\ "peers" \notin DOMAIN h /\ h.domain = d
    /\ "domain" \notin DOMAIN <<>> /\ "peers" \notin DOMAIN <<>>
OBVIOUS

LEMMA FabricTells ==
    ASSUME NEW n, NEW h, h = FabricAttributes(n)
    PROVE  /\ "domain" \in DOMAIN h <=> n.nvlinkDomain # ""
           /\ n.nvlinkDomain # "" => h.domain = n.nvlinkDomain
           /\ "peers" \in DOMAIN h => n.nvlinkDomain # "" /\ h.peers = n.peers
<1>1. CASE n.nvlinkDomain = ""
  <2>1. h = <<>>
    BY <1>1, Zenon DEF FabricAttributes, GPUFabric, PartitionFabric
  <2>. QED
    BY <1>1, <2>1, AttributesOf, Zenon
<1>2. CASE n.nvlinkDomain # "" /\ n.mig
  <2>1. h = [domain |-> n.nvlinkDomain]
    BY <1>2, Zenon DEF FabricAttributes, PartitionFabric
  <2>. QED
    BY <1>2, <2>1, AttributesOf, Zenon
<1>3. CASE n.nvlinkDomain # "" /\ ~n.mig
  <2>1. h = [domain |-> n.nvlinkDomain, peers |-> n.peers]
    BY <1>3, Zenon DEF FabricAttributes, GPUFabric
  <2>2. "domain" \in DOMAIN h /\ h.domain = n.nvlinkDomain /\ h.peers = n.peers
    BY ONLY <2>1, AttributesOf
  <2>. QED
    BY ONLY <1>3, <2>2, Zenon
<1>. QED
  BY <1>1, <1>2, <1>3, Zenon

\* A GPU's peer count is that of the other GPUs of its domain, in every cluster whose
\* NVLink domains are told apart.
LEMMA PeersHold ==
    ASSUME Projected, DocsApart
    PROVE  PeerCountsAreTrue
<1>. SUFFICES ASSUME Done, NEW n \in nodes, "peers" \in DOMAIN fabric[n.name]
              PROVE  fabric[n.name].peers + 1
                         = SumFunction([m \in InDomain(fabric[n.name].domain) |-> m.gpus])
  BY DEF PeerCountsAreTrue
<1>1. /\ nodes = Resolve(doc) /\ Validate(doc) /\ doc \in Docs /\ DomainsApart(doc)
      /\ \A m \in nodes : fabric[m.name] = FabricAttributes(m)
  BY LabelsAreTheirs DEF DocsApart
<1>2. /\ n.nvlinkDomain # "" /\ fabric[n.name].domain = n.nvlinkDomain
      /\ fabric[n.name].peers = n.peers
  BY <1>1, FabricTells, Zenon
<1>3. InDomain(n.nvlinkDomain) = Fellows(nodes, n)
  <2>1. ASSUME NEW m \in nodes
        PROVE  ("domain" \in DOMAIN fabric[m.name] /\ fabric[m.name].domain = n.nvlinkDomain)
                   <=> m.nvlinkDomain = n.nvlinkDomain
    <3>. DEFINE h == fabric[m.name]
    <3>1. h = FabricAttributes(m)
      BY <1>1
    <3>. HIDE DEF h
    <3>2. /\ "domain" \in DOMAIN h <=> m.nvlinkDomain # ""
          /\ m.nvlinkDomain # "" => h.domain = m.nvlinkDomain
      BY <3>1, FabricTells, Zenon
    <3>3. ("domain" \in DOMAIN h /\ h.domain = n.nvlinkDomain) <=> m.nvlinkDomain = n.nvlinkDomain
      BY ONLY <1>2, <3>2, Zenon
    <3>. QED
      BY <3>3 DEF h
  <2>. QED
    BY <2>1, Zenon DEF Fellows, InDomain
<1>4. PICK s \in Slots(doc) : n = ResolveNode(doc, s)
  BY <1>1 DEF Resolve
<1>5. n.peers + 1 = SumFunction([m \in Fellows(nodes, n) |-> m.gpus])
  <2>1. ResolveNode(doc, s).peers + 1 =
               SumFunction([m \in Fellows(Resolve(doc), ResolveNode(doc, s)) |-> m.gpus])
    BY <1>1, <1>2, <1>4, PeersAreCounted
  <2>. QED
    BY <1>1, <1>4, <2>1, Zenon
<1>. QED
  BY <1>2, <1>3, <1>5, Zenon

\* The number of peers a GPU is published with is that of the GPUs of its domain.
THEOREM PeerCountsHold ==
    ASSUME DocsApart
    PROVE  IntentSpec => []PeerCountsAreTrue
BY PeersHold, ProjectionsHold, PTL

-----------------------------------------------------------------------------
(* Where the pods of a workload stand *)

\* A scenario's document, workload and scheduler, and pods on nodes of its cluster.
ScenarioKept == \E s \in Scenarios : doc = s.doc /\ w = s.w /\ sched = s.sched

Standing ==
    /\ ScenarioKept
    /\ \A p \in PlacedPods(placed) : placed[p] \in DOMAIN labels

\* What is submitted is submitted for good.
LEMMA SubmittedStays ==
    ASSUME pc = "submitted", [IntentNext]_intentVars
    PROVE  UNCHANGED <<vars, scenario, pc, objects>>
BY LookingMovesNothing DEF IntentNext, Looks, intentVars, TranslateFirst, Apply, Submit, Schedule,
                            Complete

LEMMA OthersPlaceNothing ==
    ASSUME pc # "submitted", IntentInv, [IntentNext]_intentVars
    PROVE  /\ UNCHANGED <<placed, scenario>> /\ doc' = doc
           /\ PlacedPods(placed) = {} /\ PlacedPods(placed') = {}
<1>1. PlacedPods(placed) = {}
  BY DEF IntentInv, IntentTyped, SubmittedAsTranslated, PlacedPods
<1>2. CASE TranslateFirst \/ Submit \/ Looks \/ UNCHANGED intentVars
  BY <1>1, <1>2, LookingMovesNothing DEF TranslateFirst, Submit, intentVars, vars
<1>3. CASE Apply
  BY <1>1, <1>3 DEF Apply, ValidateDoc, ResolveDoc, Generate
<1>4. CASE \E p \in 1..w.replicas : Complete(p)
  BY <1>1, <1>4 DEF Complete, PlacedPods, IntentInv, IntentTyped
<1>5. ~ (\E f \in [1..w.replicas -> DOMAIN labels \cup {""}] : Schedule(f))
  BY DEF Schedule
<1>. QED
  BY <1>2, <1>3, <1>4, <1>5 DEF IntentNext, Looks

\* The actions on what was submitted.
LEMMA SubmittedSteps ==
    ASSUME pc = "submitted", [IntentNext]_intentVars
    PROVE  \/ \E f \in [1..w.replicas -> DOMAIN labels \cup {""}] : Schedule(f)
           \/ Looks
           \/ UNCHANGED <<placed, judging>>
BY DEF IntentNext, Looks, intentVars, TranslateFirst, Apply, Submit, Complete

LEMMA StandingInit == IntentInit => Standing
<1>. SUFFICES ASSUME IntentInit
              PROVE  Standing
  OBVIOUS
<1>1. ScenarioKept
  BY DEF IntentInit, ScenarioKept
<1>2. PlacedPods(placed) = {}
  BY DEF IntentInit, PlacedPods
<1>. QED
  BY <1>1, <1>2 DEF Standing

LEMMA StandingStep == Standing /\ IntentInv /\ [IntentNext]_intentVars => Standing'
<1>. SUFFICES ASSUME Standing, IntentInv, [IntentNext]_intentVars
              PROVE  Standing'
  OBVIOUS
<1>1. CASE pc = "submitted"
  <2>1. UNCHANGED <<doc, labels, w, sched, pc>>
    BY <1>1, SubmittedStays DEF vars, scenario
  <2>2. ASSUME NEW p \in PlacedPods(placed')
        PROVE  placed'[p] \in DOMAIN labels
    <3>1. CASE \E f \in [1..w.replicas -> DOMAIN labels \cup {""}] : Schedule(f)
      BY <2>2, <3>1 DEF Schedule, PlacedPods
    <3>2. CASE placed' = placed
      BY <2>2, <3>2 DEF Standing
    <3>. QED
      BY <1>1, <3>1, <3>2, SubmittedSteps, LookingMovesNothing
  <2>. QED
    BY <1>1, <2>1, <2>2 DEF Standing, ScenarioKept, PlacedPods
<1>2. CASE pc # "submitted"
  <2>1. /\ w' = w /\ sched' = sched /\ doc' = doc
        /\ PlacedPods(placed') = {}
    BY <1>2, OthersPlaceNothing DEF scenario
  <2>. QED
    BY <1>2, <2>1 DEF Standing, ScenarioKept, PlacedPods
<1>. QED
  BY <1>1, <1>2

LEMMA StandingHolds == IntentSpec => []Standing
BY StandingInit, StandingStep, InvariantHolds, PTL DEF IntentSpec

\* A domain of a level, as a scheduler knows it, has one value of the label.
LEMMA DomainsHaveOneValue ==
    ASSUME Projected, Done, DocsApart, NEW level, NEW D \in DomainsAt(level)
    PROVE  \E v : \A x \in D : NodeLabel(x, level) = v
<1>1. CASE sched = "volcano"
  <2>1. PICK h \in tree : h.name[1] = level /\ D = Reached(h)
    BY <1>1 DEF DomainsAt
  <2>2. D = LabelDomain(level, h.name[2])
    BY <2>1, TreeIsLabels
  <2>. QED
    BY <2>2 DEF LabelDomain, NodeLabel
<1>2. CASE sched # "volcano"
  <2>1. PICK x \in DOMAIN labels : D = LabelDomain(level, NodeLabel(x, level))
    BY <1>2 DEF DomainsAt
  <2>. QED
    BY <2>1 DEF LabelDomain, NodeLabel
<1>. QED
  BY <1>1, <1>2

\* KAI reads the level off the Job of a gang, and is not told of it otherwise.
KaiIsToldOfGangs == \A s \in Scenarios : s.sched = "kai" /\ s.w.required # "" => s.w.gang

LEMMA PlacementStep ==
    ASSUME KaiIsToldOfGangs, DocsApart, Standing, IntentInv, Projected, PlacementHeld,
           [IntentNext]_intentVars
    PROVE  PlacementHeld'
<1>1. CASE pc = "submitted"
  <2>1. UNCHANGED <<labels, w, sched>>
    BY <1>1, SubmittedStays DEF vars, scenario
  <2>2. CASE placed' = placed
    BY <2>1, <2>2 DEF PlacementHeld, NodeLabel, PlacedPods
  <2>3. ASSUME NEW f \in [1..w.replicas -> DOMAIN labels \cup {""}], Schedule(f),
               w.required # "", ~(sched = "volcano" /\ w.gpus > 0)
        PROVE  \A p, q \in PlacedPods(f) : NodeLabel(f[p], w.required) = NodeLabel(f[q], w.required)
    <3>1. Supported(w, sched) /\ objects = Translate(w, sched, TopologyName) /\ Done
      BY <1>1 DEF IntentInv, SubmittedAsTranslated, Done
    <3>2. sched = "kai" \/ sched = "volcano"
      BY <2>3, <3>1 DEF Supported, IntentInv, IntentTyped
    <3>3. sched = "kai" => w.gang
      BY <2>3 DEF Standing, ScenarioKept, KaiIsToldOfGangs
    <3>4. objects.level = w.required /\ objects.claim.count = w.gpus
      BY <3>1, <3>2, <3>3 DEF Translate, Level, ClaimTemplate
    <3>5. Honoured
      BY <2>3, <3>4 DEF Honoured
    <3>6. PICK D \in DomainsAt(w.required) : \A p \in PlacedPods(f) : f[p] \in D
      BY <2>3, <3>4, <3>5 DEF Schedule, Within
    <3>7. PICK v : \A x \in D : NodeLabel(x, w.required) = v
      BY <3>1, DomainsHaveOneValue
    <3>. QED
      BY <3>6, <3>7
  <2>4. ASSUME NEW f \in [1..w.replicas -> DOMAIN labels \cup {""}], Schedule(f)
        PROVE  PlacementHeld'
    <3>1. placed' = f
      BY <2>4 DEF Schedule
    <3>. QED
      BY <2>1, <2>3, <2>4, <3>1, ZenonT(40) DEF PlacementHeld, NodeLabel, PlacedPods
  <2>. QED
    BY <1>1, <2>2, <2>4, SubmittedSteps, LookingMovesNothing
<1>2. CASE pc # "submitted"
  <2>1. PlacedPods(placed') = {}
    BY <1>2, OthersPlaceNothing
  <2>. QED
    BY <2>1 DEF PlacementHeld, PlacedPods
<1>. QED
  BY <1>1, <1>2

\* The level a workload requires holds of what was placed, in any cluster whose domains
\* are told apart, if the scheduler is told of it and takes its word.
THEOREM RequiredLevelHolds ==
    ASSUME KaiIsToldOfGangs, DocsApart
    PROVE  IntentSpec => []PlacementHeld
<1>1. IntentInit => PlacementHeld
  BY DEF IntentInit, PlacementHeld, PlacedPods
<1>2. Standing /\ IntentInv /\ Projected /\ PlacementHeld /\ [IntentNext]_intentVars => PlacementHeld'
  BY PlacementStep
<1>. QED
  BY <1>1, <1>2, StandingHolds, InvariantHolds, ProjectionsHold, PTL DEF IntentSpec

-----------------------------------------------------------------------------
(* What a confinedTo of a gang says *)

\* The replicas of a gang that is placed together are listed together, and the values read
\* so far are those of the replicas already looked at.
Read == {p \in 1..w.replicas : p \notin check.todo}
GangIsListed ==
    w.gang /\ AllOrNothing /\ check.todo # {} =>
        /\ PlacedPods(placed) = 1..w.replicas
        /\ check.todo \subseteq 1..w.replicas
        /\ check.values = {NodeLabel(placed[p], check.level) : p \in Read}

CheckTyped == check = [level |-> check.level, todo |-> check.todo, values |-> check.values]

\* The inductive invariant.
ConfinedInv ==
    /\ CheckTyped
    /\ pc # "submitted" => check.todo = {} /\ ~verdict.passed
    /\ GangIsListed
    /\ ConfinedForGood

\* A gang of which something is placed is all placed.
LEMMA GangIsAllPlaced ==
    ASSUME IntentInv, w.gang, AllOrNothing, PlacedPods(placed) # {}
    PROVE  PlacedPods(placed) = 1..w.replicas
<1>1. /\ w.replicas \in Nat /\ DOMAIN placed = 1..w.replicas
      /\ Cardinality(PlacedPods(placed)) \in {0, w.replicas}
  BY DEF IntentInv, IntentTyped, GangIsWhole, AllOrNothing
<1>2. IsFiniteSet(1..w.replicas) /\ Cardinality(1..w.replicas) = w.replicas
  BY <1>1, FS_Interval
<1>3. PlacedPods(placed) \in SUBSET (1..w.replicas)
  BY <1>1 DEF PlacedPods
<1>4. Cardinality(PlacedPods(placed)) # 0
  BY <1>2, <1>3, FS_Subset, FS_EmptySet
<1>. QED
  BY <1>1, <1>2, <1>3, <1>4, FS_Subset

\* Replicas of which the nodes' labels have one value share it.
LEMMA OneValueIsShared ==
    ASSUME NEW r \in Nat, NEW level, IsFiniteSet({NodeLabel(placed[p], level) : p \in 1..r}),
           Cardinality({NodeLabel(placed[p], level) : p \in 1..r}) = 1
    PROVE  \A p, q \in 1..r : NodeLabel(placed[p], level) = NodeLabel(placed[q], level)
<1>. DEFINE V == {NodeLabel(placed[p], level) : p \in 1..r}
<1>1. PICK v : V = {v}
  <2>. HIDE DEF V
  <2>. QED
    BY FS_Singleton DEF V
<1>. QED
  BY <1>1

LEMMA ValuesAreFinite ==
    ASSUME NEW r \in Nat, NEW level
    PROVE  IsFiniteSet({NodeLabel(placed[p], level) : p \in 1..r})
<1>. DEFINE V == {NodeLabel(placed[p], level) : p \in 1..r}
            g == [p \in 1..r |-> NodeLabel(placed[p], level)]
<1>1. g \in Surjection(1..r, V)
  BY DEF Surjection
<1>2. IsFiniteSet(1..r)
  BY FS_Interval
<1>. HIDE DEF g, V
<1>3. IsFiniteSet(V)
  BY <1>1, <1>2, FS_Surjection
<1>. QED
  BY <1>3 DEF V

\* What is listed and judged stays true while the scheduler goes on: of a gang that is all
\* placed, nothing is left to place.
LEMMA ConfinedScheduling ==
    ASSUME ConfinedInv, IntentInv, NEW f \in [1..w.replicas -> DOMAIN labels \cup {""}], Schedule(f)
    PROVE  ConfinedInv'
<1>1. /\ pc = "submitted" /\ placed' = f /\ \A p \in PlacedPods(placed) : f[p] = placed[p]
      /\ labels' = labels /\ w' = w /\ sched' = sched /\ pc' = pc /\ check' = check
      /\ verdict' = verdict
  BY DEF Schedule, vars, scenario, judging
<1>2. ASSUME PlacedPods(placed) = 1..w.replicas
      PROVE  /\ PlacedPods(placed') = 1..w.replicas
             /\ \A p \in 1..w.replicas : placed'[p] = placed[p]
  BY <1>1, <1>2 DEF PlacedPods
<1>3. GangIsListed'
  <2>1. /\ (w.gang /\ AllOrNothing /\ check.todo # {})'
               <=> w.gang /\ AllOrNothing /\ check.todo # {}
        /\ PlacedPods(placed)' = PlacedPods(placed')
        /\ (1..w.replicas)' = 1..w.replicas
        /\ check' = check /\ Read' = Read
        /\ \A p : NodeLabel(placed[p], check.level)' = NodeLabel(placed'[p], check.level)
    BY <1>1 DEF AllOrNothing, NodeLabel, PlacedPods, Read
  <2>2. ASSUME w.gang, AllOrNothing, check.todo # {}
        PROVE  /\ PlacedPods(placed') = 1..w.replicas
               /\ check.todo \subseteq 1..w.replicas
               /\ check.values = {NodeLabel(placed'[p], check.level) : p \in Read}
    <3>1. /\ PlacedPods(placed) = 1..w.replicas
          /\ check.todo \subseteq 1..w.replicas
          /\ check.values = {NodeLabel(placed[p], check.level) : p \in Read}
      BY <2>2 DEF ConfinedInv, GangIsListed
    <3>2. \A p \in Read : placed'[p] = placed[p]
      BY <1>2, <3>1 DEF Read
    <3>. QED
      BY <1>2, <3>1, <3>2
  <2>. QED
    BY <2>1, <2>2, Zenon DEF GangIsListed
<1>4. ConfinedForGood'
  <2>1. /\ verdict' = verdict /\ w' = w /\ (AllOrNothing' <=> AllOrNothing)
        /\ \A p : NodeLabel(placed[p], verdict.level)' = NodeLabel(placed'[p], verdict.level)
        /\ PlacedPods(placed)' = PlacedPods(placed')
    BY <1>1 DEF AllOrNothing, NodeLabel, PlacedPods
  <2>2. ASSUME verdict.passed, w.gang, AllOrNothing
        PROVE  /\ PlacedPods(placed') = 1..w.replicas
               /\ \A p, q \in 1..w.replicas :
                      NodeLabel(placed'[p], verdict.level) = NodeLabel(placed'[q], verdict.level)
    BY <1>2, <2>2 DEF ConfinedInv, ConfinedForGood
  <2>. QED
    BY <2>1, <2>2, Zenon DEF ConfinedForGood
<1>. QED
  BY <1>1, <1>3, <1>4 DEF ConfinedInv, CheckTyped

\* A judgement ends the check.
LEMMA Judging ==
    ASSUME ConfinedInv, NEW level, NEW passed, Judge(level, passed), pc' = "submitted",
           passed => ConfinedForGood'
    PROVE  ConfinedInv'
<1>1. verdict' = [level |-> level, passed |-> passed] /\ check' = NoCheck
  BY DEF Judge
<1>2. ~passed => ConfinedForGood'
  <2>1. verdict'.passed = passed
    BY <1>1
  <2>. QED
    BY <2>1, Zenon DEF ConfinedForGood
<1>3. check'.todo = {} /\ CheckTyped'
  BY <1>1 DEF NoCheck, CheckTyped
<1>. QED
  BY <1>2, <1>3 DEF ConfinedInv, GangIsListed

LEMMA ConfinedListing ==
    ASSUME ConfinedInv, IntentInv, NEW level \in Levels, ListReplicas(level)
    PROVE  ConfinedInv'
<1>1. /\ pc = "submitted"
      /\ labels' = labels /\ w' = w /\ sched' = sched /\ pc' = pc /\ placed' = placed
  BY DEF ListReplicas, vars, scenario
<1>2. CASE Judge(level, FALSE)
  BY <1>1, <1>2, Judging
<1>3. CASE /\ PlacedPods(placed) # {}
           /\ check' = [level |-> level, todo |-> PlacedPods(placed), values |-> {}]
           /\ verdict' = verdict
  <2>1. CheckTyped' /\ ConfinedForGood'
    BY <1>1, <1>3 DEF ConfinedInv, CheckTyped, ConfinedForGood, AllOrNothing, NodeLabel,
                      PlacedPods
  <2>2. ASSUME w.gang, AllOrNothing
        PROVE  PlacedPods(placed) = 1..w.replicas
    BY <1>3, <2>2, GangIsAllPlaced
  <2>3. check'.todo = PlacedPods(placed) /\ check'.values = {}
    BY <1>3
  <2>4. GangIsListed'
    BY <1>1, <2>2, <2>3 DEF GangIsListed, AllOrNothing, Read, PlacedPods
  <2>. QED
    BY <1>1, <2>1, <2>4 DEF ConfinedInv
<1>. QED
  BY <1>2, <1>3 DEF ListReplicas

\* One label read: the last one judges all of them.
LEMMA ConfinedReading ==
    ASSUME ConfinedInv, IntentInv, pc = "submitted", NEW p \in 1..w.replicas, ReadLabel(p)
    PROVE  ConfinedInv'
<1>. DEFINE left == check.todo \ {p}
            read == check.values \cup {NodeLabel(placed[p], check.level)}
            seen == {NodeLabel(placed[q], check.level) : q \in {q \in 1..w.replicas : q \notin left}}
<1>1. /\ p \in check.todo
      /\ labels' = labels /\ w' = w /\ sched' = sched /\ pc' = pc /\ placed' = placed
      /\ left = {} => Judge(check.level, Cardinality(read) = 1)
      /\ left # {} => /\ check' = [check EXCEPT !.todo = left, !.values = read]
                      /\ verdict' = verdict
  BY DEF ReadLabel, vars, scenario
<1>2. ASSUME w.gang, AllOrNothing
      PROVE  /\ PlacedPods(placed) = 1..w.replicas /\ check.todo \subseteq 1..w.replicas
             /\ read = seen
  <2>1. /\ PlacedPods(placed) = 1..w.replicas /\ check.todo \subseteq 1..w.replicas
        /\ check.values = {NodeLabel(placed[q], check.level) : q \in Read}
    BY <1>1, <1>2 DEF ConfinedInv, GangIsListed
  <2>2. {q \in 1..w.replicas : q \notin left} = Read \cup {p}
    BY <1>1 DEF Read
  <2>. QED
    BY <2>1, <2>2
<1>3. CASE left # {}
  <2>. HIDE DEF read
  <2>1. /\ check' = [check EXCEPT !.todo = left, !.values = read] /\ verdict' = verdict
    BY <1>1, <1>3
  <2>2. /\ check'.todo = left /\ check'.level = check.level /\ check'.values = read
    BY <2>1
  <2>3. GangIsListed'
    <3>1. /\ Read' = {q \in 1..w.replicas : q \notin left}
          /\ PlacedPods(placed)' = PlacedPods(placed)
          /\ \A q : NodeLabel(placed[q], check.level)' = NodeLabel(placed[q], check.level)
      BY <1>1, <2>2 DEF Read, PlacedPods, NodeLabel
    <3>2. ASSUME w.gang, AllOrNothing
          PROVE  /\ PlacedPods(placed)' = 1..w.replicas
                 /\ check'.todo \subseteq 1..w.replicas
                 /\ check'.values = {NodeLabel(placed[q], check.level)' : q \in Read'}
      BY <1>2, <2>2, <3>1, <3>2
    <3>3. (w.gang /\ AllOrNothing)' <=> w.gang /\ AllOrNothing
      BY <1>1 DEF AllOrNothing
    <3>. QED
      BY <1>1, <3>2, <3>3, Zenon DEF GangIsListed
  <2>4. CheckTyped' /\ ConfinedForGood'
    BY <1>1, <2>1, <2>2 DEF ConfinedInv, CheckTyped, ConfinedForGood, AllOrNothing, NodeLabel,
                            PlacedPods
  <2>. QED
    BY <1>1, <2>3, <2>4 DEF ConfinedInv
<1>4. CASE left = {}
  <2>1. verdict' = [level |-> check.level, passed |-> (Cardinality(read) = 1)]
    BY <1>1, <1>4 DEF Judge
  <2>2. ASSUME w.gang, AllOrNothing, Cardinality(read) = 1
        PROVE  \A i, j \in 1..w.replicas :
                   NodeLabel(placed[i], check.level) = NodeLabel(placed[j], check.level)
    <3>1. {q \in 1..w.replicas : q \notin left} = 1..w.replicas
      BY <1>4
    <3>2. read = {NodeLabel(placed[q], check.level) : q \in 1..w.replicas}
      BY <1>2, <2>2, <3>1, Zenon
    <3>3. Cardinality({NodeLabel(placed[q], check.level) : q \in 1..w.replicas}) = 1
      BY <2>2, <3>2, Zenon
    <3>4. w.replicas \in Nat
      BY DEF IntentInv, IntentTyped
    <3>5. IsFiniteSet({NodeLabel(placed[q], check.level) : q \in 1..w.replicas})
      BY ONLY <3>4, ValuesAreFinite
    <3>. QED
      BY ONLY <3>3, <3>4, <3>5, OneValueIsShared
  <2>3. Cardinality(read) = 1 => ConfinedForGood'
    BY <1>1, <1>2, <2>1, <2>2 DEF ConfinedForGood, AllOrNothing, NodeLabel, PlacedPods
  <2>. QED
    BY <1>1, <1>4, <2>3, Judging
<1>. QED
  BY <1>3, <1>4

LEMMA ConfinedInit == IntentInit => ConfinedInv
<1>. SUFFICES ASSUME IntentInit
              PROVE  ConfinedInv
  OBVIOUS
<1>1. check = NoCheck /\ verdict = Unjudged
  BY DEF IntentInit
<1>2. CheckTyped /\ check.todo = {} /\ ~verdict.passed
  BY <1>1 DEF NoCheck, Unjudged, CheckTyped
<1>. QED
  BY <1>2 DEF ConfinedInv, GangIsListed, ConfinedForGood

LEMMA ConfinedStep ==
    ASSUME ConfinedInv, IntentInv, [IntentNext]_intentVars
    PROVE  ConfinedInv'
<1>1. CASE pc = "submitted"
  <2>1. UNCHANGED <<vars, scenario, pc, objects>>
    BY <1>1, SubmittedStays
  <2>2. CASE \E f \in [1..w.replicas -> DOMAIN labels \cup {""}] : Schedule(f)
    BY <2>2, ConfinedScheduling
  <2>3. CASE Looks
    <3>1. CASE ReadFails
      BY <1>1, <2>1, <3>1, Judging DEF ReadFails
    <3>. QED
      BY <1>1, <2>3, <3>1, ConfinedListing, ConfinedReading DEF Looks
  <2>4. CASE UNCHANGED <<placed, judging>>
    BY <2>1, <2>4 DEF vars, scenario, judging, ConfinedInv, CheckTyped, GangIsListed,
                      ConfinedForGood, AllOrNothing, Read, NodeLabel, PlacedPods
  <2>. QED
    BY <1>1, <2>2, <2>3, <2>4, SubmittedSteps
<1>2. CASE pc # "submitted"
  <2>1. check.todo = {} /\ ~verdict.passed /\ CheckTyped
    BY <1>2 DEF ConfinedInv
  <2>2. ~Looks
    BY <1>2, <2>1 DEF Looks, ListReplicas, ReadLabel, ReadFails
  <2>3. UNCHANGED judging
    BY <1>2, <2>2 DEF IntentNext, Looks, intentVars, TranslateFirst, Apply, Submit, Schedule,
                      Complete
  <2>4. check'.todo = {} /\ ~verdict'.passed /\ CheckTyped'
    BY <2>1, <2>3 DEF judging, CheckTyped
  <2>. QED
    BY <2>4 DEF ConfinedInv, GangIsListed, ConfinedForGood
<1>. QED
  BY <1>1, <1>2

\* A confinedTo that passed a gang holds of all of it and for good, although it looks at the
\* replicas one by one while the scheduler goes on.
THEOREM ConfinedIsForGood == IntentSpec => []ConfinedForGood
<1>1. ConfinedInv => ConfinedForGood
  BY DEF ConfinedInv
<1>. QED
  BY <1>1, ConfinedInit, ConfinedStep, InvariantHolds, PTL DEF IntentSpec
=============================================================================
