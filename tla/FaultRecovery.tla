--------------------------- MODULE FaultRecovery ---------------------------
(***************************************************************************)
(* Fault injection and the judgement of recovery.                          *)
(*                                                                         *)
(* The runner (internal/runner) fires the faults of a scenario one after   *)
(* the other: it snapshots the pods, breaks something, and records whom    *)
(* that took out.  Afterwards it polls the pods until the workload is back *)
(* at full strength, counting by pod identity.  Every call to the API      *)
(* server is a step of its own (cluster/faults.go), and Kubernetes keeps   *)
(* moving in between: the workload controller, the scheduler, KWOK, the    *)
(* taint-eviction controller and the pod garbage collector are external    *)
(* and are modelled from what the runner observes of them.                 *)
(*                                                                         *)
(* One workload of single-device replicas.  A device is                    *)
(* [node, slice, name]; only its name appears in a claim's allocation.     *)
(* A fault is [kind, nodes, devices, effect]: "kill" deletes the one node  *)
(* of nodes, "level" degrades every device of the nodes carrying a label,  *)
(* "devices" degrades the devices whose attributes match.                  *)
(***************************************************************************)
EXTENDS Naturals, Sequences, FiniteSets, Functions

CONSTANTS
    Nodes,      \* the nodes of the topology
    Devices,    \* the devices their slices publish
    Replicas,   \* replicas of the workload
    Plans,      \* fault sequences to consider, one of them per behaviour
    MaxPods     \* bound on the pods created over the whole run

ASSUME PlansAssumption ==
    /\ \A d \in Devices : d.node \in Nodes
    /\ Replicas \in Nat \ {0} /\ MaxPods \in Nat
    /\ Plans \subseteq Seq([kind : {"kill", "level", "devices"}, nodes : SUBSET Nodes,
                           devices : SUBSET Devices,
                           effect : {"none", "NoSchedule", "NoExecute"}])
    /\ \A plan \in Plans : \A f \in Range(plan) :
           /\ f.kind = "kill" => \E n \in Nodes : f.nodes = {n}
           /\ f.kind # "kill" => f.effect # "none"

Pods == 1..MaxPods      \* pod UIDs, in the order of creation
Slices == {d.slice : d \in Devices}
NoDevice == [node |-> "none", slice |-> "none", name |-> "none"]

ASSUME NoDeviceAssumption == NoDevice \notin Devices

VARIABLES
    nodes,      \* nodes that exist in the API
    taints,     \* device -> the effects of its taints
    pods,       \* UID -> [phase, dev, deleting]
    plan,       \* the faults of the scenario, in timeline order
    pc,         \* what the runner does next
    before,     \* fire: UIDs that were Running in the pod list
    held,       \* fire: UID -> device names of its claims, as listed
    match,      \* fire: the devices deviceMatch selects
    todo,       \* TaintDevices: listed slices still to update
    faults,     \* the fault records: [disrupted, snapshot], oldest first
    counted     \* the replicas the last checkRescheduled counted as healthy

cluster == <<nodes, taints, pods>>
runner  == <<pc, before, held, match, todo, faults, counted>>
vars    == <<nodes, taints, pods, plan, runner>>

Live(p)   == pods[p].phase \in {"pending", "bound", "running"}
Placed(p) == pods[p].phase \in {"bound", "running"}
Running   == {p \in Pods : pods[p].phase = "running"}

Init ==
    /\ nodes = Nodes
    /\ taints = [d \in Devices |-> {}]
    /\ pods = [p \in Pods |-> [phase |-> IF p <= Replicas THEN "pending" ELSE "none",
                               dev |-> NoDevice, deleting |-> FALSE]]
    /\ plan \in Plans
    /\ pc = "fire"
    /\ before = {}
    /\ held = [p \in Pods |-> {}]
    /\ match = {}
    /\ todo = {}
    /\ faults = <<>>
    /\ counted = {}

-----------------------------------------------------------------------------
(* Kubernetes and KWOK (external)                                          *)

\* The Deployment or Job controller replaces a replica as soon as it is deleted.
Create(p) ==
    /\ pods[p].phase = "none"
    /\ \A q \in Pods : q < p => pods[q].phase # "none"
    /\ Cardinality({q \in Pods : Live(q) /\ ~pods[q].deleting}) < Replicas
    /\ pods' = [pods EXCEPT ![p].phase = "pending"]
    /\ UNCHANGED <<nodes, taints, plan, runner>>

\* The scheduler allocates an untainted free device and binds the pod.
Schedule(p, d) ==
    /\ pods[p].phase = "pending"
    /\ d.node \in nodes
    /\ taints[d] = {}
    /\ \A q \in Pods : Placed(q) => pods[q].dev # d
    /\ pods' = [pods EXCEPT ![p].phase = "bound", ![p].dev = d]
    /\ UNCHANGED <<nodes, taints, plan, runner>>

\* KWOK reports the pod Running; it does so only for nodes that exist.
Start(p) ==
    /\ pods[p].phase = "bound"
    /\ ~pods[p].deleting
    /\ pods[p].dev.node \in nodes
    /\ pods' = [pods EXCEPT ![p].phase = "running"]
    /\ UNCHANGED <<nodes, taints, plan, runner>>

\* A pod that holds a NoExecute-tainted device is evicted; a pod whose node is
\* gone keeps its phase until the garbage collector deletes it.
Doomed(p) == Placed(p) /\ \/ "NoExecute" \in taints[pods[p].dev]
                          \/ pods[p].dev.node \notin nodes
Evict(p) ==
    /\ Doomed(p)
    /\ ~pods[p].deleting
    /\ pods' = [pods EXCEPT ![p].deleting = TRUE]
    /\ UNCHANGED <<nodes, taints, plan, runner>>

\* Deletion completes; the claim goes with the pod and frees its device.
RemovePod(p) ==
    /\ Live(p) /\ pods[p].deleting
    /\ pods' = [pods EXCEPT ![p].phase = "gone"]
    /\ UNCHANGED <<nodes, taints, plan, runner>>

-----------------------------------------------------------------------------
(* The runner                                                              *)

Fault == plan[Len(faults) + 1]

\* fire, first read: SnapshotPods lists the pods.
ListPods ==
    /\ pc = "fire"
    /\ Len(faults) < Len(plan)
    /\ before' = Running
    /\ pc' = "claims"
    /\ UNCHANGED <<cluster, plan, held, match, todo, faults, counted>>

\* SnapshotPods, second read: the claims, and through them the device names.
ListClaims ==
    /\ pc = "claims"
    /\ held' = [p \in Pods |-> IF Placed(p) THEN {pods[p].dev.name} ELSE {}]
    /\ pc' = IF Fault.kind = "kill" THEN "kill" ELSE "match"
    /\ UNCHANGED <<cluster, plan, before, match, todo, faults, counted>>

\* Append the record of the current fault and go on along the timeline.
Record(casualties) ==
    /\ faults' = Append(faults, [disrupted |-> casualties, snapshot |-> before])
    /\ pc' = "fire"

\* killNode: the Node object goes; its slices and its pods stay.
KillNode ==
    /\ pc = "kill"
    /\ nodes' = nodes \ Fault.nodes
    /\ Record({p \in before : pods[p].dev.node \in Fault.nodes})
    /\ UNCHANGED <<taints, pods, plan, before, held, match, todo, counted>>

\* deviceMatch: a level resolves to the nodes that carry the label now, and the
\* fault is an error when there are none.
DeviceMatch ==
    /\ pc = "match"
    /\ LET labelled == Fault.nodes \cap nodes
       IN  IF Fault.kind = "level" /\ labelled = {}
           THEN pc' = "error" /\ UNCHANGED match
           ELSE /\ match' = IF Fault.kind = "level"
                            THEN {d \in Devices : d.node \in labelled}
                            ELSE Fault.devices
                /\ pc' = "list"
    /\ UNCHANGED <<cluster, plan, before, held, todo, faults, counted>>

\* TaintDevices lists the managed slices, those of deleted nodes included.
ListSlices ==
    /\ pc = "list"
    /\ todo' = {s \in Slices : \E d \in match : d.slice = s}
    /\ pc' = "taint"
    /\ UNCHANGED <<cluster, plan, before, held, match, faults, counted>>

\* Slip: the effect of the fault is not passed on.
TaintSliceNoSchedule(s) ==
    /\ pc = "taint"
    /\ s \in todo
    /\ taints' = [d \in Devices |->
                     IF d.slice = s /\ d \in match THEN taints[d] \cup {"NoSchedule"}
                                                   ELSE taints[d]]
    /\ todo' = todo \ {s}
    /\ UNCHANGED <<nodes, pods, plan, pc, before, held, match, faults, counted>>

\* One updateSliceDevices: the matching devices of one slice get the taint.
TaintSlice(s) ==
    /\ pc = "taint"
    /\ s \in todo
    /\ taints' = [d \in Devices |->
                     IF d.slice = s /\ d \in match THEN taints[d] \cup {Fault.effect}
                                                   ELSE taints[d]]
    /\ todo' = todo \ {s}
    /\ UNCHANGED <<nodes, pods, plan, pc, before, held, match, faults, counted>>

\* Slips in the record of a degradation: the timeline does not go on; everybody who
\* was Running; the record before the last slice is updated.
RecordDegradedAgain ==
    /\ pc = "taint"
    /\ todo = {}
    /\ faults' = Append(faults, [disrupted |-> {}, snapshot |-> before])
    /\ UNCHANGED <<cluster, plan, pc, before, held, match, todo, counted>>

RecordDegradedAll ==
    /\ pc = "taint"
    /\ todo = {}
    /\ Record(before)
    /\ UNCHANGED <<cluster, plan, before, held, match, todo, counted>>

RecordDegradedEarly ==
    /\ pc = "taint"
    /\ LET tainted == {d.name : d \in match}
       IN  Record({p \in before : held[p] \cap tainted # {}})
    /\ UNCHANGED <<cluster, plan, before, held, match, todo, counted>>

\* After the last update: whoever was Running and holds a tainted name.
RecordDegraded ==
    /\ pc = "taint"
    /\ todo = {}
    /\ LET tainted == {d.name : d \in match}
       IN  Record({p \in before : held[p] \cap tainted # {}})
    /\ UNCHANGED <<cluster, plan, before, held, match, todo, counted>>

\* Any call may fail; the run then ends with that error and no verdict, and
\* what was already injected stays injected.
CallFails ==
    /\ pc \in {"fire", "claims", "kill", "match", "list", "taint"}
    /\ pc = "fire" => Len(faults) < Len(plan)
    /\ pc = "taint" => todo # {}
    /\ pc' = "error"
    /\ UNCHANGED <<cluster, plan, before, held, match, todo, faults, counted>>

\* The timeline is over.
EndTimeline ==
    /\ pc = "fire"
    /\ Len(faults) = Len(plan)
    /\ pc' = "evaluate"
    /\ UNCHANGED <<cluster, plan, before, held, match, todo, faults, counted>>

\* Slips: the last fault only; everybody the snapshots saw.
DisruptedByLast == IF faults = <<>> THEN {} ELSE faults[Len(faults)].disrupted
SeenBefore == UNION {faults[i].snapshot : i \in DOMAIN faults}

\* disruptedFor: the UIDs that every fault took, together.
Disrupted == UNION {faults[i].disrupted : i \in DOMAIN faults}

Healthy == Running \ Disrupted

\* One round of evaluate's loop around checkRescheduled; after a check that failed
\* the deadline may have passed.
CheckRescheduled ==
    /\ pc = "evaluate"
    /\ counted' = Healthy
    /\ pc' \in IF Disrupted # {} /\ Cardinality(Healthy) >= Replicas
              THEN {"passed"} ELSE {"evaluate", "failed"}
    /\ UNCHANGED <<cluster, plan, before, held, match, todo, faults>>

-----------------------------------------------------------------------------

Kubernetes ==
    \E p \in Pods : \/ Create(p) \/ Start(p) \/ Evict(p) \/ RemovePod(p)
                    \/ \E d \in Devices : Schedule(p, d)

Fire == \/ ListPods \/ ListClaims \/ KillNode \/ DeviceMatch \/ ListSlices
        \/ (\E s \in Slices : TaintSlice(s)) \/ RecordDegraded \/ EndTimeline

Next == Kubernetes \/ Fire \/ CallFails \/ CheckRescheduled

\* The runner's own steps are a sequential program that keeps going, and the
\* controllers of Kubernetes work through their queues.
Fairness ==
    /\ WF_vars(Fire)
    /\ \A p \in Pods :
           /\ WF_vars(Create(p)) /\ WF_vars(Start(p))
           /\ WF_vars(Evict(p)) /\ WF_vars(RemovePod(p))
           /\ WF_vars(\E d \in Devices : Schedule(p, d))

Spec == Init /\ [][Next]_vars /\ Fairness

-----------------------------------------------------------------------------
(* Properties *)

TypeOK ==
    /\ nodes \subseteq Nodes
    /\ taints \in [Devices -> SUBSET {"NoSchedule", "NoExecute"}]
    /\ pods \in [Pods -> [phase : {"none", "pending", "bound", "running", "gone"},
                          dev : Devices \cup {NoDevice}, deleting : BOOLEAN]]
    /\ plan \in Plans
    /\ pc \in {"fire", "claims", "kill", "match", "list", "taint",
               "evaluate", "passed", "failed", "error"}
    /\ before \subseteq Pods
    /\ held \in [Pods -> SUBSET {d.name : d \in Devices}]
    /\ match \subseteq Devices /\ todo \subseteq Slices
    /\ faults \in Seq([disrupted : SUBSET Pods, snapshot : SUBSET Pods])
    /\ Len(faults) <= Len(plan)
    /\ counted \subseteq Pods

\* What fault i of the plan breaks: the node p sits on, or p's own device.
Hits(i, p) ==
    /\ pods[p].dev # NoDevice
    /\ \/ pods[p].dev.node \in plan[i].nodes
       \/ pods[p].dev \in plan[i].devices

\* checkRescheduled's claim (the comment above it): "a corpse is in the set, so
\* it cannot be mistaken for its own replacement".  No replica that is on its
\* way out is ever counted as healthy.
NoCorpseCounted == \A p \in counted : pc = "passed" => ~Doomed(p)

\* The same claim with the window that docs/designs/fault-injection.md accepts:
\* while recovery is being judged, a replica on its way out is counted only if
\* it was not yet Running when a fault that hits it took its snapshot.
CorpsesOnlyFromWindow ==
    pc = "evaluate" =>
        \A p \in Healthy : Doomed(p) =>
            \E i \in DOMAIN faults : Hits(i, p) /\ p \notin faults[i].snapshot

\* disrupted is the replicas that were Running "and were hit by it"
\* (faultRecord), never a bystander: each has lost its node or its own device.
CasualtiesWereHit ==
    \A p \in Disrupted :
        \/ pods[p].dev.node \notin nodes
        \/ taints[pods[p].dev] # {}

\* A fault is recorded only once it has been injected in full: every matching
\* device that is still attached to a node of the level is tainted, however many
\* slices that took, and no fault is judged in part after an error.
RecordedFaultsAreComplete ==
    \A i \in DOMAIN faults :
        LET f == plan[i]
        IN  /\ f.kind = "kill" => f.nodes \cap nodes = {}
            /\ f.kind = "level" => \A d \in Devices :
                   d.node \in f.nodes \cap nodes => f.effect \in taints[d]
            /\ f.kind = "devices" => \A d \in f.devices : f.effect \in taints[d]

Usable == {d \in Devices : d.node \in nodes /\ taints[d] = {}}

\* A casualty is "taken out" (Assertion.Disrupted): it does not stay.
CasualtiesGo ==
    \A p \in Pods : p \in Disrupted ~> pods[p].phase = "gone"

\* Once the timeline is over and the surviving hardware has room for the
\* workload, the condition rescheduledWithin polls for comes true: the count of
\* replicas outside the disrupted set gets back to full strength.
RecoveryIsReachable ==
    (pc \in {"evaluate", "passed", "failed"} /\ Cardinality(Usable) >= Replicas)
        ~> Cardinality(Healthy) >= Replicas
=============================================================================
