------------------------ MODULE FaultRecovery_proofs ------------------------
(***************************************************************************)
(* Proofs about FaultRecovery for every set of nodes and devices, every    *)
(* plan of faults, and every number of replicas and pods.  Whatever        *)
(* Kubernetes does between two calls of the runner is summed up in one     *)
(* lemma: a pod that has been placed keeps its device for good.            *)
(***************************************************************************)
EXTENDS FaultRecovery, SequenceTheorems, TLAPS

\* The types of a pod, of a record and of a fault.
PodType == [phase : {"none", "pending", "bound", "running", "gone"},
            dev : Devices \cup {NoDevice}, deleting : BOOLEAN]
RecordType == [disrupted : SUBSET Pods, snapshot : SUBSET Pods]
FaultType == [kind : {"kill", "level", "devices"}, nodes : SUBSET Nodes,
              devices : SUBSET Devices, effect : {"none", "NoSchedule", "NoExecute"}]

\* A pod that has been placed, and may be gone by now.
Settled(p) == pods[p].phase \notin {"none", "pending"} /\ pods[p].dev \in Devices

\* While a fault is fired there is one, of the kind the next call is for.
FaultInHand ==
    /\ pc \in {"claims", "kill", "match", "list", "taint"} => Len(faults) < Len(plan)
    /\ pc = "kill" => Fault.kind = "kill"
    /\ pc \in {"match", "list", "taint"} => Fault.kind # "kill"

\* Pods are placed on devices, and only pods that have been placed are in a snapshot
\* or a record.
SnapshotsSettled ==
    /\ \A p \in Pods : Placed(p) => pods[p].dev \in Devices
    /\ \A p \in before : Settled(p)
    /\ \A i \in DOMAIN faults : \A p \in faults[i].snapshot \cup faults[i].disrupted : Settled(p)

\* The claims as listed tell the device of every pod of the snapshot that is still
\* there, and never another.
HeldIsRight ==
    pc \in {"kill", "match", "list", "taint"} =>
        \A p \in before :
            /\ Placed(p) => held[p] = {pods[p].dev.name}
            /\ held[p] # {} => held[p] = {pods[p].dev.name} /\ pods[p].dev \in Devices

\* The devices selected are those of the fault, on the nodes there are.
MatchIsRight ==
    pc \in {"list", "taint"} =>
        match = IF Fault.kind = "level" THEN {d \in Devices : d.node \in Fault.nodes \cap nodes}
                                        ELSE Fault.devices

\* A slice that is not left to do is done.
SlicesDone ==
    pc = "taint" => \A d \in match : d.slice \in todo \/ Fault.effect \in taints[d]

\* Every taint and every missing node is the work of a recorded fault that has recorded
\* whoever of its snapshot is on it, or of the fault in hand.
TaintsAccounted ==
    \A d \in Devices : taints[d] # {} =>
        \/ pc = "taint" /\ d \in match
        \/ pc = "error"
        \/ \E i \in DOMAIN faults :
               /\ d.node \in plan[i].nodes \/ d \in plan[i].devices
               /\ \A p \in faults[i].snapshot :
                      Placed(p) /\ pods[p].dev = d => p \in faults[i].disrupted

NodesAccounted ==
    \A n \in Nodes \ nodes :
        \E i \in DOMAIN faults :
            /\ n \in plan[i].nodes
            /\ \A p \in faults[i].snapshot :
                   Placed(p) /\ pods[p].dev.node = n => p \in faults[i].disrupted

\* The inductive invariant.
FaultInv ==
    /\ TypeOK
    /\ FaultInHand
    /\ SnapshotsSettled
    /\ HeldIsRight
    /\ MatchIsRight
    /\ SlicesDone
    /\ RecordedFaultsAreComplete
    /\ TaintsAccounted
    /\ NodesAccounted

-----------------------------------------------------------------------------

LEMMA InitInv == Init => FaultInv
<1>. SUFFICES ASSUME Init
              PROVE  FaultInv
  OBVIOUS
<1>1. faults = <<>> /\ Len(faults) = 0 /\ DOMAIN faults = {} /\ faults \in Seq(RecordType)
  BY EmptySeq DEF Init
<1>2. \A p \in Pods : pods[p].phase \in {"none", "pending"} /\ pods[p] \in PodType
  BY DEF Init, PodType
<1>3. TypeOK
  <2>1. pods \in [Pods -> PodType]
    BY <1>2 DEF Init
  <2>2. plan \in Plans /\ Len(plan) >= 0
    BY PlansAssumption DEF Init
  <2>. QED
    BY <1>1, <2>1, <2>2 DEF Init, TypeOK, PodType, RecordType
<1>. QED
  BY <1>1, <1>2, <1>3
  DEF Init, FaultInv, FaultInHand, SnapshotsSettled, HeldIsRight, MatchIsRight, SlicesDone,
      RecordedFaultsAreComplete, TaintsAccounted, NodesAccounted, Placed

\* The fault in hand is one of the plan.
LEMMA FaultTyped ==
    ASSUME TypeOK, Len(faults) < Len(plan)
    PROVE  /\ plan \in Seq(FaultType) /\ Len(faults) \in Nat
           /\ Len(faults) + 1 \in DOMAIN plan
           /\ Fault \in FaultType
           /\ Fault.kind = "kill" => \E n \in Nodes : Fault.nodes = {n}
           /\ Fault.kind # "kill" => Fault.effect \in {"NoSchedule", "NoExecute"}
<1>1. plan \in Seq(FaultType) /\ plan \in Plans
  BY PlansAssumption DEF TypeOK, FaultType
<1>2. Len(faults) \in Nat /\ Len(plan) \in Nat /\ DOMAIN plan = 1..Len(plan)
  BY <1>1 DEF TypeOK
<1>3. Len(faults) + 1 \in DOMAIN plan
  BY <1>2
<1>4. Fault \in FaultType /\ Fault \in Range(plan)
  BY <1>1, <1>3 DEF Fault, Range
<1>. QED
  BY <1>1, <1>2, <1>3, <1>4, PlansAssumption DEF FaultType

\* Kubernetes moves pods and nothing else: a pod that has been placed keeps its device,
\* and is not placed again.
LEMMA PodsStep ==
    ASSUME TypeOK, \A p \in Pods : Placed(p) => pods[p].dev \in Devices, Kubernetes
    PROVE  /\ UNCHANGED <<nodes, taints, plan, runner>>
           /\ pods' \in [Pods -> PodType]
           /\ \A p \in Pods : Placed(p)' => pods'[p].dev \in Devices
           /\ \A p \in Pods : Settled(p) => /\ Settled(p)' /\ pods'[p].dev = pods[p].dev
                                            /\ Placed(p)' => Placed(p)
<1>. USE DEF Placed, Settled
<1>1. PICK p \in Pods : \/ Create(p) \/ Start(p) \/ Evict(p) \/ RemovePod(p)
                        \/ \E d \in Devices : Schedule(p, d)
  BY DEF Kubernetes
<1>2. UNCHANGED <<nodes, taints, plan, runner>>
  BY <1>1 DEF Create, Start, Evict, RemovePod, Schedule
<1>3. pods \in [Pods -> PodType] /\ pods[p] \in PodType
  BY <1>1 DEF TypeOK, PodType
<1>4. PICK pod \in PodType :
          /\ pods' = [pods EXCEPT ![p] = pod]
          /\ pod.phase \in {"bound", "running"} => pod.dev \in Devices
          /\ Settled(p) => /\ pod.phase \notin {"none", "pending"}
                           /\ pod.dev = pods[p].dev
                           /\ pod.phase \in {"bound", "running"} => Placed(p)
  <2>1. CASE Create(p)
    <3>1. [pods[p] EXCEPT !.phase = "pending"] \in PodType
      BY <1>3 DEF PodType
    <3>. QED
      BY <1>3, <2>1, <3>1 DEF Create, PodType
  <2>2. CASE Start(p)
    <3>1. [pods[p] EXCEPT !.phase = "running"] \in PodType
      BY <1>3 DEF PodType
    <3>. QED
      BY <1>3, <2>2, <3>1 DEF Start, PodType
  <2>3. CASE Evict(p)
    <3>1. [pods[p] EXCEPT !.deleting = TRUE] \in PodType
      BY <1>3 DEF PodType
    <3>. QED
      BY <1>3, <2>3, <3>1 DEF Evict, Doomed, PodType
  <2>4. CASE RemovePod(p)
    <3>1. [pods[p] EXCEPT !.phase = "gone"] \in PodType
      BY <1>3 DEF PodType
    <3>. QED
      BY <1>3, <2>4, <3>1 DEF RemovePod, Live, PodType
  <2>5. CASE \E d \in Devices : Schedule(p, d)
    <3>1. PICK d \in Devices : Schedule(p, d)
      BY <2>5
    <3>2. [pods[p] EXCEPT !.phase = "bound", !.dev = d] \in PodType
      BY <1>3 DEF PodType
    <3>3. pods' = [pods EXCEPT ![p] = [pods[p] EXCEPT !.phase = "bound", !.dev = d]]
      BY <1>3, <3>1 DEF Schedule
    <3>. QED
      BY <1>3, <3>1, <3>2, <3>3 DEF Schedule, PodType
  <2>. QED
    BY <1>1, <2>1, <2>2, <2>3, <2>4, <2>5
<1>. QED
  BY <1>2, <1>3, <1>4

\* Records and snapshots are of pods.
LEMMA RecordsOfPods ==
    ASSUME TypeOK
    PROVE  /\ faults \in Seq(RecordType) /\ DOMAIN faults = 1..Len(faults)
           /\ \A i \in DOMAIN faults :
                  faults[i].snapshot \subseteq Pods /\ faults[i].disrupted \subseteq Pods
<1>1. faults \in Seq(RecordType)
  BY DEF TypeOK, RecordType
<1>2. \A i \in DOMAIN faults : faults[i] \in RecordType
  BY <1>1
<1>. QED
  BY <1>1, <1>2 DEF RecordType

LEMMA KubernetesKeepsInv ==
    ASSUME FaultInv, Kubernetes
    PROVE  FaultInv'
<1>1. TypeOK /\ \A p \in Pods : Placed(p) => pods[p].dev \in Devices
  BY DEF FaultInv, SnapshotsSettled
<1>2. /\ UNCHANGED <<nodes, taints, plan, pc, before, held, match, todo, faults, counted>>
      /\ pods' \in [Pods -> PodType]
      /\ \A p \in Pods : Placed(p)' => pods'[p].dev \in Devices
      /\ \A p \in Pods : Settled(p) => /\ Settled(p)' /\ pods'[p].dev = pods[p].dev
                                       /\ Placed(p)' => Placed(p)
  BY <1>1, PodsStep DEF runner
<1>3. before \subseteq Pods
      /\ \A i \in DOMAIN faults : faults[i].snapshot \cup faults[i].disrupted \subseteq Pods
  BY <1>1, RecordsOfPods DEF TypeOK
<1>4. TypeOK'
  BY <1>1, <1>2 DEF TypeOK, PodType
<1>5. SnapshotsSettled'
  BY <1>2, <1>3 DEF FaultInv, SnapshotsSettled
<1>6. HeldIsRight'
  BY <1>2, <1>3 DEF FaultInv, SnapshotsSettled, HeldIsRight
<1>7. TaintsAccounted'
  BY <1>2, <1>3 DEF FaultInv, SnapshotsSettled, TaintsAccounted
<1>8. NodesAccounted'
  BY <1>2, <1>3 DEF FaultInv, SnapshotsSettled, NodesAccounted
<1>. QED
  BY <1>2, <1>4, <1>5, <1>6, <1>7, <1>8
  DEF FaultInv, FaultInHand, MatchIsRight, SlicesDone, RecordedFaultsAreComplete, Fault

\* The reads of a snapshot: whoever is Running has been placed, and the claims are
\* listed after the pods.
LEMMA SnapshotKeepsInv ==
    ASSUME FaultInv, ListPods \/ ListClaims
    PROVE  FaultInv'
<1>1. CASE ListPods
  <2>1. /\ pc = "fire" /\ Len(faults) < Len(plan) /\ before' = Running /\ pc' = "claims"
        /\ UNCHANGED <<nodes, taints, pods, plan, held, match, todo, faults, counted>>
    BY <1>1 DEF ListPods, cluster
  <2>2. TypeOK'
    BY <2>1 DEF FaultInv, TypeOK, Running
  <2>3. SnapshotsSettled'
    BY <2>1 DEF FaultInv, SnapshotsSettled, Placed, Settled, Running
  <2>4. TaintsAccounted'
    BY <2>1 DEF FaultInv, TaintsAccounted, Placed
  <2>5. NodesAccounted'
    BY <2>1 DEF FaultInv, NodesAccounted, Placed
  <2>. QED
    BY <2>1, <2>2, <2>3, <2>4, <2>5
    DEF FaultInv, FaultInHand, HeldIsRight, MatchIsRight, SlicesDone, RecordedFaultsAreComplete
<1>2. CASE ListClaims
  <2>1. /\ pc = "claims" /\ pc' = IF Fault.kind = "kill" THEN "kill" ELSE "match"
        /\ held' = [p \in Pods |-> IF Placed(p) THEN {pods[p].dev.name} ELSE {}]
        /\ UNCHANGED <<nodes, taints, pods, plan, before, match, todo, faults, counted>>
    BY <1>2 DEF ListClaims, cluster
  <2>2. \A p \in Pods : Placed(p) => pods[p].dev \in Devices
    BY DEF FaultInv, SnapshotsSettled
  <2>3. TypeOK'
    <3>1. held' \in [Pods -> SUBSET {d.name : d \in Devices}]
      BY <2>1, <2>2
    <3>. QED
      BY <2>1, <3>1 DEF FaultInv, TypeOK
  <2>4. HeldIsRight'
    BY <2>1, <2>2 DEF FaultInv, TypeOK, HeldIsRight, Placed
  <2>5. SnapshotsSettled'
    BY <2>1 DEF FaultInv, SnapshotsSettled, Placed, Settled
  <2>6. TaintsAccounted'
    BY <2>1 DEF FaultInv, TaintsAccounted, Placed
  <2>7. NodesAccounted'
    BY <2>1 DEF FaultInv, NodesAccounted, Placed
  <2>. QED
    BY <2>1, <2>3, <2>4, <2>5, <2>6, <2>7
    DEF FaultInv, FaultInHand, MatchIsRight, SlicesDone, RecordedFaultsAreComplete, Fault
<1>. QED
  BY <1>1, <1>2

\* Selecting the devices and listing the slices.
LEMMA SelectionKeepsInv ==
    ASSUME FaultInv, DeviceMatch \/ ListSlices
    PROVE  FaultInv'
<1>1. /\ pc \in {"match", "list"} /\ Len(faults) < Len(plan) /\ TypeOK
      /\ UNCHANGED <<nodes, taints, pods, plan, before, held, faults, counted>>
  BY DEF DeviceMatch, ListSlices, FaultInv, FaultInHand, cluster
<1>2. Fault \in FaultType
  BY <1>1, FaultTyped
<1>3. SnapshotsSettled'
  BY <1>1 DEF FaultInv, SnapshotsSettled, Placed, Settled
<1>4. pc' \in {"list", "taint", "error"}
  BY DEF DeviceMatch, ListSlices
<1>5. HeldIsRight'
  BY <1>1, <1>4 DEF FaultInv, HeldIsRight, Placed
<1>6. TaintsAccounted'
  BY <1>1 DEF FaultInv, TaintsAccounted, Placed
<1>7. NodesAccounted'
  BY <1>1 DEF FaultInv, NodesAccounted, Placed
<1>8. MatchIsRight' /\ SlicesDone' /\ TypeOK'
  <2>1. CASE DeviceMatch
    BY <1>1, <1>2, <2>1
    DEF DeviceMatch, FaultInv, TypeOK, MatchIsRight, SlicesDone, Fault, FaultType
  <2>2. CASE ListSlices
    BY <1>1, <2>2 DEF ListSlices, FaultInv, TypeOK, MatchIsRight, SlicesDone, Fault, Slices
  <2>. QED
    BY <2>1, <2>2
<1>. QED
  BY <1>1, <1>3, <1>4, <1>5, <1>6, <1>7, <1>8
  DEF FaultInv, FaultInHand, RecordedFaultsAreComplete, Fault

\* One slice is updated: taints are only added, and only to devices that match.
LEMMA TaintKeepsInv ==
    ASSUME FaultInv, NEW s \in Slices, TaintSlice(s)
    PROVE  FaultInv'
<1>1. /\ pc = "taint" /\ Len(faults) < Len(plan) /\ TypeOK /\ Fault.kind # "kill"
      /\ UNCHANGED <<nodes, pods, plan, pc, before, held, match, faults, counted>>
      /\ todo' = todo \ {s}
  BY DEF TaintSlice, FaultInv, FaultInHand
<1>2. Fault.effect \in {"NoSchedule", "NoExecute"}
  BY <1>1, FaultTyped
<1>3. \A d \in Devices :
          /\ taints[d] \subseteq taints'[d] /\ taints'[d] \subseteq {"NoSchedule", "NoExecute"}
          /\ d \notin match => taints'[d] = taints[d]
          /\ d \in match /\ d.slice = s => Fault.effect \in taints'[d]
  BY <1>1, <1>2 DEF TaintSlice, TypeOK
<1>4. TypeOK'
  BY <1>1, <1>2, <1>3 DEF TypeOK, TaintSlice
<1>5. SnapshotsSettled'
  BY <1>1 DEF FaultInv, SnapshotsSettled, Placed, Settled
<1>6. HeldIsRight'
  BY <1>1 DEF FaultInv, HeldIsRight, Placed
<1>7. SlicesDone'
  BY <1>1, <1>3 DEF FaultInv, TypeOK, SlicesDone, Fault
<1>8. TaintsAccounted'
  BY <1>1, <1>3 DEF FaultInv, TaintsAccounted, Placed
<1>9. NodesAccounted'
  BY <1>1 DEF FaultInv, NodesAccounted, Placed
<1>10. RecordedFaultsAreComplete'
  <2>1. \A i \in DOMAIN faults : plan[i] \in FaultType
    BY <1>1, FaultTyped, RecordsOfPods
  <2>. QED
    BY <1>1, <1>3, <2>1 DEF FaultInv, RecordedFaultsAreComplete, FaultType
<1>11. MatchIsRight' /\ FaultInHand'
  BY <1>1 DEF FaultInv, MatchIsRight, FaultInHand, Fault
<1>. QED
  BY <1>4, <1>5, <1>6, <1>7, <1>8, <1>9, <1>10, <1>11 DEF FaultInv

\* One record more leaves the others as they are.
LEMMA RecordAppends ==
    ASSUME TypeOK, Len(faults) < Len(plan), NEW casualties \in SUBSET before, Record(casualties)
    PROVE  /\ faults' \in Seq(RecordType) /\ Len(faults') = Len(faults) + 1
           /\ DOMAIN faults' = DOMAIN faults \cup {Len(faults) + 1}
           /\ \A i \in DOMAIN faults : faults'[i] = faults[i] /\ i # Len(faults) + 1
           /\ faults'[Len(faults) + 1] = [disrupted |-> casualties, snapshot |-> before]
           /\ pc' = "fire"
<1>. DEFINE rec == [disrupted |-> casualties, snapshot |-> before]
<1>1. rec \in RecordType /\ faults \in Seq(RecordType) /\ faults' = Append(faults, rec)
      /\ pc' = "fire"
  BY RecordsOfPods DEF TypeOK, RecordType, Record
<1>2. /\ faults' \in Seq(RecordType) /\ Len(faults') = Len(faults) + 1
      /\ \A i \in 1..Len(faults) : faults'[i] = faults[i]
      /\ faults'[Len(faults) + 1] = rec
  BY <1>1, AppendProperties
<1>. QED
  BY <1>1, <1>2

\* A node goes, and whoever was Running on it goes on record.
LEMMA KillKeepsInv ==
    ASSUME FaultInv, KillNode
    PROVE  FaultInv'
<1>. DEFINE n1 == Len(faults) + 1
            casualties == {p \in before : pods[p].dev.node \in Fault.nodes}
<1>1. /\ pc = "kill" /\ Len(faults) < Len(plan) /\ TypeOK /\ Fault.kind = "kill"
      /\ nodes' = nodes \ Fault.nodes
      /\ Record(casualties)
      /\ UNCHANGED <<taints, pods, plan, before, held, match, todo, counted>>
  BY DEF KillNode, FaultInv, FaultInHand
<1>2. /\ faults' \in Seq(RecordType) /\ Len(faults') = n1
      /\ DOMAIN faults' = DOMAIN faults \cup {n1}
      /\ \A i \in DOMAIN faults : faults'[i] = faults[i]
      /\ faults'[n1] = [disrupted |-> casualties, snapshot |-> before]
      /\ pc' = "fire"
  BY <1>1, RecordAppends
<1>3. Fault = plan[n1] /\ Len(faults) \in Nat /\ Len(plan) \in Nat
  BY <1>1, FaultTyped DEF Fault
<1>4. TypeOK'
  BY <1>1, <1>2, <1>3 DEF TypeOK, RecordType
<1>5. SnapshotsSettled'
  BY <1>1, <1>2 DEF FaultInv, SnapshotsSettled, Placed, Settled
<1>6. RecordedFaultsAreComplete'
  <2>1. \A i \in DOMAIN faults : plan[i] \in FaultType
    BY <1>1, FaultTyped, RecordsOfPods
  <2>2. ASSUME NEW i \in DOMAIN faults'
        PROVE  /\ plan[i].kind = "kill" => plan[i].nodes \cap nodes' = {}
               /\ plan[i].kind = "level" => \A d \in Devices :
                      d.node \in plan[i].nodes \cap nodes' => plan[i].effect \in taints[d]
               /\ plan[i].kind = "devices" => \A d \in plan[i].devices : plan[i].effect \in taints[d]
    BY <1>1, <1>2, <1>3, <2>2 DEF FaultInv, RecordedFaultsAreComplete
  <2>. QED
    BY <1>1, <2>2 DEF RecordedFaultsAreComplete
<1>7. TaintsAccounted'
  BY <1>1, <1>2 DEF FaultInv, TaintsAccounted, Placed
<1>8. NodesAccounted'
  <2>1. ASSUME NEW n \in Nodes \ nodes'
        PROVE  \E i \in DOMAIN faults' :
                   /\ n \in plan[i].nodes
                   /\ \A p \in faults'[i].snapshot :
                          Placed(p) /\ pods[p].dev.node = n => p \in faults'[i].disrupted
    <3>1. CASE n \in Fault.nodes
      BY <1>2, <1>3, <3>1
    <3>2. CASE n \notin nodes
      BY <1>2, <3>2 DEF FaultInv, NodesAccounted
    <3>. QED
      BY <1>1, <3>1, <3>2
  <2>. QED
    BY <1>1, <2>1 DEF NodesAccounted, Placed
<1>. QED
  BY <1>2, <1>4, <1>5, <1>6, <1>7, <1>8
  DEF FaultInv, FaultInHand, HeldIsRight, MatchIsRight, SlicesDone

\* The last slice is done: the record takes whoever holds a device that matched.
LEMMA DegradedKeepsInv ==
    ASSUME FaultInv, RecordDegraded
    PROVE  FaultInv'
<1>. DEFINE n1 == Len(faults) + 1
            tainted == {d.name : d \in match}
            casualties == {p \in before : held[p] \cap tainted # {}}
<1>1. /\ pc = "taint" /\ todo = {} /\ Len(faults) < Len(plan) /\ TypeOK /\ Fault.kind # "kill"
      /\ Record(casualties)
      /\ UNCHANGED <<nodes, taints, pods, plan, before, held, match, todo, counted>>
  BY DEF RecordDegraded, FaultInv, FaultInHand, cluster
<1>2. /\ faults' \in Seq(RecordType) /\ Len(faults') = n1
      /\ DOMAIN faults' = DOMAIN faults \cup {n1}
      /\ \A i \in DOMAIN faults : faults'[i] = faults[i]
      /\ faults'[n1] = [disrupted |-> casualties, snapshot |-> before]
      /\ pc' = "fire"
  BY <1>1, RecordAppends
<1>3. /\ Fault = plan[n1] /\ Fault \in FaultType
      /\ Len(faults) \in Nat /\ Len(plan) \in Nat
  BY <1>1, FaultTyped DEF Fault
<1>4. TypeOK'
  BY <1>1, <1>2, <1>3 DEF TypeOK, RecordType
<1>5. SnapshotsSettled'
  BY <1>1, <1>2 DEF FaultInv, SnapshotsSettled, Placed, Settled
<1>6. /\ match = IF Fault.kind = "level" THEN {d \in Devices : d.node \in Fault.nodes \cap nodes}
                                         ELSE Fault.devices
      /\ \A d \in match : Fault.effect \in taints[d]
  BY <1>1 DEF FaultInv, MatchIsRight, SlicesDone
<1>7. RecordedFaultsAreComplete'
  <2>1. ASSUME NEW i \in DOMAIN faults'
        PROVE  /\ plan[i].kind = "kill" => plan[i].nodes \cap nodes = {}
               /\ plan[i].kind = "level" => \A d \in Devices :
                      d.node \in plan[i].nodes \cap nodes => plan[i].effect \in taints[d]
               /\ plan[i].kind = "devices" => \A d \in plan[i].devices : plan[i].effect \in taints[d]
    <3>1. CASE i \in DOMAIN faults
      BY <3>1 DEF FaultInv, RecordedFaultsAreComplete
    <3>2. CASE i = n1
      BY <1>1, <1>3, <1>6, <3>2
    <3>. QED
      BY <1>2, <3>1, <3>2
  <2>. QED
    BY <1>1, <2>1 DEF RecordedFaultsAreComplete
<1>8. TaintsAccounted'
  <2>1. ASSUME NEW d \in Devices, taints[d] # {}
        PROVE  \E i \in DOMAIN faults' :
                   /\ d.node \in plan[i].nodes \/ d \in plan[i].devices
                   /\ \A p \in faults'[i].snapshot :
                          Placed(p) /\ pods[p].dev = d => p \in faults'[i].disrupted
    <3>1. CASE d \in match
      <4>1. d.node \in Fault.nodes \/ d \in Fault.devices
        BY <1>6, <3>1
      <4>2. \A p \in before : Placed(p) /\ pods[p].dev = d => p \in casualties
        <5>1. d.name \in tainted
          BY <3>1
        <5>2. \A p \in before : Placed(p) => held[p] = {pods[p].dev.name}
          BY <1>1 DEF FaultInv, HeldIsRight
        <5>. QED
          BY <5>1, <5>2
      <4>. QED
        BY <1>2, <1>3, <4>1, <4>2
    <3>2. CASE d \notin match
      BY <1>1, <1>2, <2>1, <3>2 DEF FaultInv, TaintsAccounted
    <3>. QED
      BY <3>1, <3>2
  <2>. QED
    BY <1>1, <2>1 DEF TaintsAccounted, Placed
<1>9. NodesAccounted'
  BY <1>1, <1>2 DEF FaultInv, NodesAccounted, Placed
<1>. QED
  BY <1>2, <1>4, <1>5, <1>7, <1>8, <1>9
  DEF FaultInv, FaultInHand, HeldIsRight, MatchIsRight, SlicesDone

\* Steps that change neither the cluster nor the records.
LEMMA VerdictsKeepInv ==
    ASSUME FaultInv, CallFails \/ EndTimeline \/ CheckRescheduled
    PROVE  FaultInv'
<1>1. /\ pc' \in {"error", "evaluate", "passed", "failed"}
      /\ pc # "error" /\ (pc = "taint" => pc' = "error")
      /\ counted' \subseteq Pods
      /\ UNCHANGED <<nodes, taints, pods, plan, before, held, match, todo, faults>>
  BY DEF FaultInv, TypeOK, CallFails, EndTimeline, CheckRescheduled, Healthy, Running, cluster
<1>2. TypeOK'
  BY <1>1 DEF FaultInv, TypeOK
<1>3. SnapshotsSettled'
  BY <1>1 DEF FaultInv, SnapshotsSettled, Placed, Settled
<1>4. TaintsAccounted'
  BY <1>1 DEF FaultInv, TaintsAccounted, Placed
<1>5. NodesAccounted'
  BY <1>1 DEF FaultInv, NodesAccounted, Placed
<1>. QED
  BY <1>1, <1>2, <1>3, <1>4, <1>5
  DEF FaultInv, FaultInHand, HeldIsRight, MatchIsRight, SlicesDone, RecordedFaultsAreComplete

LEMMA StutterKeepsInv == FaultInv /\ UNCHANGED vars => FaultInv'
BY DEF vars, runner, FaultInv, TypeOK, FaultInHand, SnapshotsSettled, HeldIsRight, MatchIsRight,
       SlicesDone, RecordedFaultsAreComplete, TaintsAccounted, NodesAccounted, Fault, Placed, Settled

LEMMA StepKeepsInv == FaultInv /\ [Next]_vars => FaultInv'
<1>. SUFFICES ASSUME FaultInv, [Next]_vars
              PROVE  FaultInv'
  OBVIOUS
<1>1. CASE Kubernetes
  BY <1>1, KubernetesKeepsInv
<1>2. CASE Fire
  BY <1>2, SnapshotKeepsInv, KillKeepsInv, SelectionKeepsInv, TaintKeepsInv, DegradedKeepsInv,
     VerdictsKeepInv DEF Fire
<1>3. CASE CallFails \/ CheckRescheduled
  BY <1>3, VerdictsKeepInv
<1>4. CASE UNCHANGED vars
  BY <1>4, StutterKeepsInv
<1>. QED
  BY <1>1, <1>2, <1>3, <1>4 DEF Next

-----------------------------------------------------------------------------

\* The invariant holds in every behaviour.
THEOREM InvariantHolds == Spec => []FaultInv
BY InitInv, StepKeepsInv, PTL DEF Spec

\* Types of the fault injection, for every cluster and plan.
THEOREM FaultTypeCorrect == Spec => []TypeOK
<1>1. FaultInv => TypeOK
  BY DEF FaultInv
<1>. QED
  BY <1>1, InvariantHolds, PTL

\* A fault on record has been injected in full, and stays so.
THEOREM FaultsLandWhole == Spec => []RecordedFaultsAreComplete
<1>1. FaultInv => RecordedFaultsAreComplete
  BY DEF FaultInv
<1>. QED
  BY <1>1, InvariantHolds, PTL

\* A replica on its way out that counts as healthy came up behind the snapshot of a
\* fault that hits it: the window is the only way.
THEOREM OnlyTheWindow == Spec => []CorpsesOnlyFromWindow
<1>1. ASSUME FaultInv, pc = "evaluate", NEW p \in Healthy, Doomed(p)
      PROVE  \E i \in DOMAIN faults : Hits(i, p) /\ p \notin faults[i].snapshot
  <2>1. /\ p \in Pods /\ Placed(p) /\ pods[p].dev \in Devices /\ pods[p].dev # NoDevice
        /\ pods[p].dev.node \in Nodes
        /\ \A i \in DOMAIN faults : p \notin faults[i].disrupted
    BY <1>1, PlansAssumption, NoDeviceAssumption
    DEF Healthy, Running, Disrupted, Placed, FaultInv, SnapshotsSettled
  <2>2. CASE pods[p].dev.node \notin nodes
    BY <1>1, <2>1, <2>2 DEF FaultInv, NodesAccounted, Hits
  <2>3. CASE "NoExecute" \in taints[pods[p].dev]
    BY <1>1, <2>1, <2>3 DEF FaultInv, TaintsAccounted, Hits
  <2>. QED
    BY <1>1, <2>2, <2>3 DEF Doomed
<1>2. FaultInv => CorpsesOnlyFromWindow
  BY <1>1 DEF CorpsesOnlyFromWindow
<1>. QED
  BY <1>2, InvariantHolds, PTL

-----------------------------------------------------------------------------
(* Casualties are told by device names, so that names must tell devices.   *)

UniqueNames == \A d, e \in Devices : d.name = e.name => d = e

LEMMA StepKeepsCasualties ==
    UniqueNames /\ FaultInv /\ CasualtiesWereHit /\ [Next]_vars => CasualtiesWereHit'
<1>. SUFFICES ASSUME UniqueNames, FaultInv, CasualtiesWereHit, [Next]_vars
              PROVE  CasualtiesWereHit'
  OBVIOUS
<1>1. TypeOK /\ \A i \in DOMAIN faults : faults[i].disrupted \subseteq Pods
  BY RecordsOfPods DEF FaultInv
<1>2. CASE Kubernetes
  <2>1. /\ UNCHANGED <<nodes, taints, faults>>
        /\ \A p \in Pods : Settled(p) => pods'[p].dev = pods[p].dev
    BY <1>2, PodsStep DEF FaultInv, SnapshotsSettled, runner
  <2>. QED
    BY <1>1, <2>1 DEF FaultInv, SnapshotsSettled, CasualtiesWereHit, Disrupted
<1>3. CASE KillNode
  <2>. DEFINE casualties == {p \in before : pods[p].dev.node \in Fault.nodes}
  <2>0. TypeOK /\ Len(faults) < Len(plan) /\ casualties \in SUBSET before /\ Record(casualties)
    BY <1>3 DEF KillNode, FaultInv, FaultInHand
  <2>1. /\ DOMAIN faults' = DOMAIN faults \cup {Len(faults) + 1}
        /\ \A i \in DOMAIN faults : faults'[i] = faults[i]
        /\ faults'[Len(faults) + 1] = [disrupted |-> casualties, snapshot |-> before]
    BY <2>0, RecordAppends
  <2>2. nodes' = nodes \ Fault.nodes /\ UNCHANGED <<taints, pods>>
    BY <1>3 DEF KillNode
  <2>. QED
    BY <2>1, <2>2 DEF CasualtiesWereHit, Disrupted
<1>4. CASE RecordDegraded
  <2>. DEFINE casualties == {p \in before : held[p] \cap {d.name : d \in match} # {}}
  <2>0. TypeOK /\ Len(faults) < Len(plan) /\ casualties \in SUBSET before /\ Record(casualties)
    BY <1>4 DEF RecordDegraded, FaultInv, FaultInHand
  <2>1. /\ DOMAIN faults' = DOMAIN faults \cup {Len(faults) + 1}
        /\ \A i \in DOMAIN faults : faults'[i] = faults[i]
        /\ faults'[Len(faults) + 1] = [disrupted |-> casualties, snapshot |-> before]
    BY <2>0, RecordAppends
  <2>2. pc = "taint" /\ todo = {} /\ UNCHANGED <<nodes, taints, pods>>
    BY <1>4 DEF RecordDegraded, cluster
  <2>3. \A d \in match : d \in Devices /\ taints[d] # {}
    <3>1. Fault.kind # "kill" /\ match \subseteq Devices /\ \A d \in match : Fault.effect \in taints[d]
      BY <2>2 DEF FaultInv, TypeOK, SlicesDone, FaultInHand
    <3>. QED
      BY <1>1, <2>0, <3>1, FaultTyped
  <2>4. \A p \in before : held[p] # {} => held[p] = {pods[p].dev.name} /\ pods[p].dev \in Devices
    BY <2>2 DEF FaultInv, HeldIsRight
  <2>5. \A p \in faults'[Len(faults) + 1].disrupted : taints[pods[p].dev] # {}
    <3>1. ASSUME NEW p \in before, NEW d \in match, d.name \in held[p]
          PROVE  taints[pods[p].dev] # {}
      <4>1. pods[p].dev \in Devices /\ pods[p].dev.name = d.name
        BY <2>4, <3>1
      <4>2. pods[p].dev = d
        BY <2>3, <4>1 DEF UniqueNames
      <4>. QED
        BY <2>3, <4>2
    <3>. QED
      BY <2>1, <3>1
  <2>. QED
    BY <2>1, <2>5, <2>2 DEF CasualtiesWereHit, Disrupted
<1>5. CASE \E s \in Slices : TaintSlice(s)
  <2>1. UNCHANGED <<nodes, pods, faults>> /\ \A d \in Devices : taints[d] \subseteq taints'[d]
    BY <1>1, <1>5 DEF TaintSlice, TypeOK
  <2>2. \A p \in Disrupted : pods[p].dev \in Devices
    BY DEF FaultInv, SnapshotsSettled, Settled, Disrupted
  <2>3. ASSUME NEW p \in Disrupted, pods[p].dev.node \in nodes
        PROVE  taints'[pods[p].dev] # {}
    <3>1. taints[pods[p].dev] # {}
      BY <2>3 DEF CasualtiesWereHit
    <3>. QED
      BY <2>1, <2>2, <3>1
  <2>. QED
    BY <2>1, <2>3 DEF CasualtiesWereHit, Disrupted
<1>6. CASE \/ ListPods \/ ListClaims \/ DeviceMatch \/ ListSlices
           \/ EndTimeline \/ CallFails \/ CheckRescheduled
  BY <1>6 DEF ListPods, ListClaims, DeviceMatch, ListSlices, EndTimeline, CallFails,
              CheckRescheduled, cluster, CasualtiesWereHit, Disrupted
<1>7. CASE UNCHANGED vars
  BY <1>7 DEF vars, cluster, runner, CasualtiesWereHit, Disrupted
<1>. QED
  BY <1>2, <1>3, <1>4, <1>5, <1>6, <1>7 DEF Next, Fire

\* With names that tell devices, as those of whole GPUs do, no bystander is ever
\* recorded as disrupted.
THEOREM NoBystanders ==
    ASSUME UniqueNames
    PROVE  Spec => []CasualtiesWereHit
<1>1. Init => CasualtiesWereHit
  BY DEF Init, CasualtiesWereHit, Disrupted
<1>2. FaultInv /\ CasualtiesWereHit /\ [Next]_vars => CasualtiesWereHit'
  BY StepKeepsCasualties
<1>. QED
  BY <1>1, <1>2, InvariantHolds, PTL DEF Spec
=============================================================================
