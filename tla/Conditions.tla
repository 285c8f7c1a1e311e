----------------------------- MODULE Conditions -----------------------------
(***************************************************************************)
(* The two conditions of a scenario that read devices back from the        *)
(* cluster (runner/assert.go): allocatedDevices, what the devices of a     *)
(* workload's pods must look like, and fragmentation, bounds on what the   *)
(* cluster has lost.                                                       *)
(*                                                                         *)
(* A check of allocatedDevices lists the pods, then the claims, then the   *)
(* slices (cluster/workloads.go), and pods and claims come and go in       *)
(* between.  Devices are attributed to pods through the owner of a claim,  *)
(* and attributes are looked up by the name of a device.                   *)
(***************************************************************************)
EXTENDS Fragmentation

CONSTANTS
    Workload,       \* the workload asserted on
    Others,         \* other workloads of the namespace
    MaxPods,        \* pods created in a behaviour
    Domain,         \* node -> NVLink domain, NoDomain for none
    NoDomain,       \* what reading an attribute a device lacks gives: ""
    Assertions      \* [kind |-> "allocated", want], want a function from attribute to
                    \* value, or [kind |-> "fragmentation", atLeast, atMost]

\* A claim that is not the scenario's is not a pod's.
ASSUME PodsAssumption ==
    /\ MaxPods \in Nat
    /\ \A u \in 1..MaxPods, w \in {Workload} \cup Others : Foreign # [uid |-> u, workload |-> w]

ASSUME AssertionsAssumption ==
    \A a \in Assertions :
        \/ a.kind = "allocated"
        \/ a.kind = "fragmentation" /\ a.atLeast \in Int /\ a.atMost \in Int

VARIABLES
    pods,       \* the pods there are: [uid, workload]
    created,    \* pods created so far
    check,      \* the check under way: [pc, assertion, owned, byPod, verdict]
    seen        \* history: the pods there were, and the claims, when each was listed

all == <<mig, claims, pods, created, check, seen>>

-----------------------------------------------------------------------------
(* Pods (external: the controllers, the scheduler, the garbage collector). *)
(* To the fragmentation condition a claim is a claim, whoever owns it: the *)
(* claims are Foreign there, and pods come with allocatedDevices only.     *)

CreatePod(w) ==
    /\ check.assertion.kind = "allocated"
    /\ created < MaxPods
    /\ created' = created + 1
    /\ pods' = pods \cup {[uid |-> created', workload |-> w]}
    /\ UNCHANGED <<mig, claims, check, seen>>

\* The scheduler binds a pod and its claim.
Bind(p, n, d) ==
    /\ \A c \in claims : c.pod # p
    /\ Allocate(n, d, p)
    /\ UNCHANGED <<pods, created, check, seen>>

DeletePod(p) ==
    /\ pods' = pods \ {p}
    /\ UNCHANGED <<mig, claims, created, check, seen>>

\* The claim of a pod goes after the pod.
CollectClaim(c) ==
    /\ c.pod \notin pods
    /\ Release(c)
    /\ UNCHANGED <<pods, created, check, seen>>

ForeignClaim(n, d) ==
    /\ check.assertion.kind = "fragmentation"
    /\ Allocate(n, d, Foreign)
    /\ UNCHANGED <<pods, created, check, seen>>

-----------------------------------------------------------------------------
(* Attributes                                                              *)

\* device
GPUAttributes(n) ==
    IF Domain[n] = NoDomain THEN [type |-> "gpu"]
    ELSE [type |-> "gpu", nvlinkDomain |-> Domain[n]]

\* migDevice
PartitionAttributes(n, d) ==
    IF Domain[n] = NoDomain THEN [type |-> "mig", profile |-> d.profile.name]
    ELSE [type |-> "mig", profile |-> d.profile.name, nvlinkDomain |-> Domain[n]]

\* ResourceSlices: a node publishes the one or the other.
Attributes(n, d) == IF IsPartition(d) THEN PartitionAttributes(n, d) ELSE GPUAttributes(n)

Read(attributes, a) == IF a \in DOMAIN attributes THEN attributes[a] ELSE NoDomain

\* Every attribute asked for has the value asked for; one that is missing reads as
\* the empty string.
Matches(want, got) == \A a \in DOMAIN want : Read(got, a) = want[a]

\* DeviceAttributes: by name, over the slices of all nodes as they are listed; a name
\* that comes again takes the place of the one before.
Publishers(name) ==
    {n \in Nodes : \E d \in ToSet(NodeDevices(n)) : DeviceName(d) = name}
DeviceAttributes(name) ==
    LET last == Max(Publishers(name))
        d    == CHOOSE x \in ToSet(NodeDevices(last)) : DeviceName(x) = name
    IN  Attributes(last, d)

-----------------------------------------------------------------------------
(* The checks                                                              *)

Unchecked(a) ==
    [pc |-> "idle", assertion |-> a, owned |-> {}, byPod |-> {}, verdict |-> FALSE]

\* WorkloadPods
ListPods ==
    /\ check.pc = "idle"
    /\ check.assertion.kind = "allocated"
    /\ check' = [check EXCEPT !.pc = "claims",
                              !.owned = {p.uid : p \in {q \in pods : q.workload = Workload}}]
    /\ seen' = [seen EXCEPT !.pods = pods]
    /\ UNCHANGED <<mig, claims, pods, created>>

\* Slip: every claim in the namespace is counted.
ListClaimsOfAll ==
    /\ check.pc = "claims"
    /\ check' = [check EXCEPT
          !.pc = "slices",
          !.byPod = {[pod |-> c.pod.uid, name |-> DeviceName(c.device)] :
                        c \in {d \in claims : d.pod # Foreign}}]
    /\ seen' = [seen EXCEPT !.claims = claims]
    /\ UNCHANGED <<mig, claims, pods, created>>

\* AllocatedDevices: the claims owned by one of these pods.
ListClaims ==
    /\ check.pc = "claims"
    /\ check' = [check EXCEPT
          !.pc = "slices",
          !.byPod = {[pod |-> c.pod.uid, name |-> DeviceName(c.device)] :
                        c \in {d \in claims : d.pod # Foreign /\ d.pod.uid \in check.owned}}]
    /\ seen' = [seen EXCEPT !.claims = claims]
    /\ UNCHANGED <<mig, claims, pods, created>>

\* checkAllocatedDevices
JudgeDevices ==
    /\ check.pc = "slices"
    /\ check' = [check EXCEPT
          !.pc = "done",
          !.verdict = /\ check.byPod # {}
                      /\ \A b \in check.byPod :
                            /\ Publishers(b.name) # {}
                            /\ Matches(check.assertion.want, DeviceAttributes(b.name))]
    /\ UNCHANGED <<mig, claims, pods, created, seen>>

\* Slip: a cluster without MIG nodes has lost nothing.
WithinBoundsOrNone(report) ==
    LET lost == SumFunction([n \in DOMAIN report |->
                    SumFunction([g \in DOMAIN report[n] |-> TotalLost(report[n][g])])])
    IN  lost \in check.assertion.atLeast .. check.assertion.atMost

\* The bounds hold of what all GPUs have lost, and there are GPUs to speak of.
WithinBounds(report) ==
    LET lost == SumFunction([n \in DOMAIN report |->
                    SumFunction([g \in DOMAIN report[n] |-> TotalLost(report[n][g])])])
    IN  DOMAIN report # {} /\ lost \in check.assertion.atLeast .. check.assertion.atMost

\* checkFragmentation: the slices do not change meanwhile, so the claims decide.
JudgeFragmentation ==
    /\ check.pc = "idle"
    /\ check.assertion.kind = "fragmentation"
    /\ check' = [check EXCEPT !.pc = "done", !.verdict = WithinBounds(Report)]
    /\ seen' = [seen EXCEPT !.claims = claims]
    /\ UNCHANGED <<mig, claims, pods, created>>

\* A list that cannot be read: the check has not held, and is made again.
ReadFails ==
    /\ check.pc \in {"claims", "slices"}
    /\ check' = Unchecked(check.assertion)
    /\ seen' = [pods |-> {}, claims |-> {}]
    /\ UNCHANGED <<mig, claims, pods, created>>

\* evaluate: a condition that did not hold is checked again.
Again ==
    /\ check.pc = "done"
    /\ ~check.verdict
    /\ check' = Unchecked(check.assertion)
    /\ seen' = [pods |-> {}, claims |-> {}]
    /\ UNCHANGED <<mig, claims, pods, created>>

CheckInit ==
    /\ Init
    /\ pods = {}
    /\ created = 0
    /\ \E a \in Assertions : check = Unchecked(a)
    /\ seen = [pods |-> {}, claims |-> {}]

\* What happens between a verdict and what follows it is of no interest.
Cluster ==
    \/ \E w \in {Workload} \cup Others : CreatePod(w)
    \/ \E p \in pods, n \in Nodes : \E d \in ToSet(NodeDevices(n)) : Bind(p, n, d)
    \/ \E p \in pods : DeletePod(p)
    \/ \E c \in claims : CollectClaim(c)
    \/ \E n \in Nodes : \E d \in ToSet(NodeDevices(n)) : ForeignClaim(n, d)

CheckNext ==
    \/ check.pc # "done" /\ Cluster
    \/ ListPods \/ ListClaims \/ JudgeDevices \/ JudgeFragmentation \/ ReadFails \/ Again

CheckSpec == CheckInit /\ [][CheckNext]_all

-----------------------------------------------------------------------------
(* Properties *)

\* What allocatedDevices reports is so: it passes if and only if the pods that the
\* workload had when they were listed held, when the claims were listed, at least one
\* device, and each of these devices, on the node that it is on, has all the attributes
\* asked for.  The code knows neither node nor pod of a device: it goes by names and
\* owners (AllocatedDevices, DeviceAttributes), with both lists read at different times.
DevicesAreWhatWasHeld ==
    check.pc = "done" /\ check.assertion.kind = "allocated" =>
        LET held == {c \in seen.claims : c.pod \in seen.pods /\ c.pod.workload = Workload}
        IN  check.verdict <=>
                /\ held # {}
                /\ \A c \in held : Matches(check.assertion.want,
                                           Attributes(c.node, c.device))

\* What fragmentation reports is so: it passes if and only if there are MIG GPUs and
\* what their own allocations make them lose is within the bounds (checkFragmentation).
LossIsWithinBounds ==
    check.pc = "done" /\ check.assertion.kind = "fragmentation" =>
        LET State(n, g) == StateFromAllocated(
                {c.device : c \in {e \in seen.claims : e.node = n /\ e.device.gpu = g}})
            lost == SumFunction([n \in MigNodes |-> SumFunction([g \in GPUs |->
                        SumFunction([p \in ToSet(Selected(n)) |-> Lost(p, State(n, g))])])])
        IN  check.verdict <=>
                /\ MigNodes # {}
                /\ check.assertion.atLeast <= lost
                /\ lost <= check.assertion.atMost

\* "all allocated devices match" when it passes (checkAllocatedDevices): no pod of the
\* workload holds another kind of device when the claims are listed.
NoDeviceEscapes ==
    check.pc = "done" /\ check.assertion.kind = "allocated" /\ check.verdict =>
        \A c \in seen.claims :
            c.pod # Foreign /\ c.pod.workload = Workload
            => Matches(check.assertion.want, Attributes(c.node, c.device))
=============================================================================
