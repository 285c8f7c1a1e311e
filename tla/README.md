# TLA+ models of gpu-sim

gpu-sim simulates a GPU cluster on Kubernetes: a topology file becomes simulated nodes
(KWOK), DRA ResourceSlices and scheduler topologies; a scenario file becomes workloads and
faults on that cluster, and assertions about how a scheduler reacted. These modules model
that program as it is written, check it with TLC on small instances, and prove the heart of
it with TLAPS. `PROJECT.json` lists the components, the runs, which source lines each
definition stands for, the hazards the properties are for, and the disagreements found.

## 1. The system

| Component | State it keeps | Operations | What is hard |
|---|---|---|---|
| `internal/mig` | none of its own: geometry tables, partitions held on a GPU | `Placements`, `PartitionsFor`, `StateFromAllocated`, `Analyse` | exclusion of partitions rests on counters alone; long sequences of claims and releases |
| `internal/generate` | none; objects built from a resolved topology | node labels, ResourceSlices (chunked), counters, KAI `Topology`, Volcano `HyperNode`s | four projections of one thing that have to agree |
| `internal/topology` | the document | `Validate`, `Resolve`, `nvlinkFor` | names used as identities |
| `internal/cluster` (apply) | nodes, slices, device class, scheduler topologies in the cluster | `ApplyTopology` and its writes, `Prune`, feature probe | partial failure, doing it again, order of writes and deletions, missing CRDs |
| `internal/cluster` (report) | none; reads slices and claims | `Fragmentation` | names that repeat |
| `internal/cluster` (faults), `internal/runner` | snapshot, fault records | `SnapshotPods`, `DeleteNode`, `TaintDevices`, `fire`, `disruptedFor`, `checkRescheduled` | pods start, die and are replaced while the runner reads; corpses that still report Running |
| `internal/runner` | timeline, deadlines, verdicts | `runTimeline`, `evaluate`, `check*` | sequential waits, deadlines measured from elsewhere, polling |
| `internal/cluster` (workloads) | the scenario namespace | `ClearNamespace`, `Submit`, `Retire` | background deletion, controllers, stale objects |
| `internal/cluster` (explanations, devices) | none; reads in several calls | `SchedulerReasons`, `AllocatedDevices`, `DeviceAttributes` | the cluster moves between the calls; objects told apart by part of a name |
| `internal/scenario` | the document | `Validate` | what is accepted decides what can be measured |
| `internal/workload` | none | `Translate` | intents a scheduler cannot express |
| `cmd/gpu-sim` | list of results, the runner's fault records | the loop of `runCmd`, signal, JSON file, exit code | early exits, a signal or a kill anywhere, faults and leftovers passing from one scenario to the next |

How they interact: the CLI loads a scenario and calls `Runner.Run`. Run translates the
workloads (refusing early), calls `ApplyTopology`, clears the namespace, waits until it is
empty, plays the timeline (submit, retire, fire faults), and evaluates the assertions one
after the other by polling the cluster. `runCmd` does so for a list of scenarios with one
runner, against one namespace, and may be interrupted or killed. There is no shared memory and no goroutine worth the
name in gpu-sim: all concurrency is between this one sequential program and the Kubernetes
controllers, schedulers, the garbage collector and KWOK, with the API server as the only
shared state. Every API call is one atomic step; between two calls anything may happen.

## 2. Modules

| Module | Models | State and actions |
|---|---|---|
| `MigGeometry` | `mig/profiles.go`, `partitions.go`, `fragmentation.go` | operators only: `Placements`, `SlicesOf`, `Ideal`, `Actual`, `LargestAllocatable`, `Analyse` |
| `MigAllocation` | counters of `generate/migslice.go` under the DRA allocator (external) | `allocated`, `remaining`; `Allocate`, `Release` |
| `SliceOwnership` | the abstract promise: each memory slice has one owner, SMs are a pool | `owner`, `pool`; `Acquire`, `Relinquish` |
| `Fragmentation` | published slices and `cluster/fragmentation.go` | `mig`, `claims`; the report is a function of what was published and claimed |
| `Conditions` | `checkAllocatedDevices`, `checkFragmentation` and the reads they make | adds `pods`, `check`, `seen`; `ListPods`, `ListClaims`, `JudgeDevices`, `JudgeFragmentation`, `ReadFails`, and pods and claims that move in between |
| `Topology` | `internal/topology` and the projections of `internal/generate` | operators: `Validate`, `Resolve`, `Labels`, `GPUFabric`, `PartitionFabric`, `DeviceType`, `KAILevels`, `HyperNodes` |
| `TopologyProjection` | a document on its way through them | `doc` ... `tree`; `ValidateDoc`, `ResolveDoc`, `Generate` |
| `SchedulerIntent` | `workload.Translate`, the schedulers (external), `checkConfinedTo` | adds `objects`, `placed`, `check`, `verdict` ...; `TranslateFirst`, `Apply`, `Submit`, `Schedule`, `ListReplicas`, `ReadLabel`, `ReadFails` |
| `ApplyTopology` | `cluster/topology.go`, the writes of `client.go`, `features.go` | cluster contents, `pc`, `todo`; one action per API write, `Fail`s, faults in between |
| `FaultRecovery` | `runner.fire`, `cluster/faults.go`, recovery check | nodes, taints, pods, `before`/`held`, `faults`; one action per API call of the runner and per controller step |
| `ScenarioRun` | `scenario.Validate`, `runTimeline`, `evaluate`, `Retire` | clock `now`, `phase`, deadlines, `verdicts`, `cancelled`, counted pods per workload |
| `Namespace` | `ClearNamespace`, `waitNamespaceEmpty`, `Submit`, from run to run | owners, ReplicaSets, pods, templates, groups; one action per API call, the controllers of Kubernetes |
| `Suite` | `runCmd`: the list, results, signal, JSON, exit code | adds `proc`, `list`, `results`, `faults`, `damage`, `json`, `exit` ...; `Invoke`, `Load`, `BeginS` ... `Report`, `Interrupt`, `Kill` |
| `Explanations` | `SchedulerReasons`, `checkUnschedulableReason`, KAI's groups (external) | adds `kai`, `check`, `stale`; `ReadGroups`, `ReadPods`, `MakeGroup`, `CollectGroup` |
| `MigAllocation_proofs`, `ApplyTopology_proofs`, `FaultRecovery_proofs`, `ScenarioRun_proofs` | the theorems about the module of that name | |
| `Conditions_proofs` | the theorems about `Fragmentation` and `Conditions` | |
| `SchedulerIntent_proofs` | the theorems about `TopologyProjection` and `SchedulerIntent` | |
| `Namespace_proofs` | the theorems about `Namespace`, `Suite` and `Explanations` | |
| `DataTheorems` | what these proofs need to know of orders, sums, concatenations and Go's division, and the library does not say | |
| `MC*` | constants for TLC | |

Conventions. An API call of gpu-sim is an action; what the code computes between two calls
is part of the action of the second. What Kubernetes does is marked external and taken from
what the code relies on. Operators introduced by "Slip:" are plausible mistakes in the code
next to them. They are not used by any specification: each property of a passing run has been
seen to fail with one of them in place of the definition it stands beside.

Composition. `MigAllocation` is composed with `SliceOwnership` by a refinement mapping
(`Ownership`). `Suite` and `Explanations` extend `Namespace` and are each proved to take only
steps of it, so that its theorems hold of a suite and of a namespace that is read while it
moves. `SchedulerIntent` extends `TopologyProjection`: the schedulers place pods by the
labels and trees that validation, resolution and generation made of a document. `Conditions`
extends `Fragmentation`, and both share `MigGeometry` with `MigAllocation`. `ApplyTopology`,
`Namespace` and `ScenarioRun` are the three successive parts of `Runner.Run`; `FaultRecovery`
opens up the `FireFault` and `Check` steps that are single steps in `ScenarioRun`. The
partitions that `ApplyTopology` writes as opaque chunks are those of `Fragmentation`.

## 3. Runs that pass

| Run | Shows |
|---|---|
| `mig_one_gpu` | One GPU of the datacenter shape (8 memory, 7 SM slices, all six profiles, 1420 states): partitions never overlap, counters and report agree after every sequence of claims (`Actual` is exactly what the allocator can still hand out), `Lost` is exactly what repacking recovers, and the counters implement `SliceOwnership`. |
| `conditions` | A MIG node beside a whole-GPU node, two MIG nodes cut from pools without a profile in common, and none; profiles in any order a file names them: pools are complete and within the slice limit; the report describes the cluster; `allocatedDevices` passes exactly if every device held by a listed pod when the claims were listed has the attributes asked for; `fragmentation` passes exactly within its bounds. 517600 states. |
| `apply_converges` | Up to three applies of two topologies sharing a node that turns from whole GPUs to MIG, each stopped anywhere, with killed nodes and tainted slices in between: a successful apply leaves exactly the topology; nothing is deleted before its replacement is in place; no slice is left without its node; no partitions without counters; foreign objects under other names are untouched. |
| `fault_evicting` | Kills, level and attribute faults that evict, alone and combined, against moving pods: recorded faults landed entirely, casualties were hit, a corpse counts as healthy only through the window of section 4. Under fairness: casualties go, and with room left the recovery condition becomes true. 147211 states. |
| `run_offered` | A retirement, three faults declared out of order of which two come at the offset of a submission, a refused scenario, a failing read, a signal at any time: faults fire in the order of their offsets and their declaration, none early, among exactly the workloads that should be there; a settle that was not cut off by the signal lasted its period, a failed `within` that was not used its budget, and what was cut off is no pass. Under fairness: every run ends whatever the cluster does and whether or not the signal comes, and a condition that stays true while polled for is found true, if no signal comes. 294370 states. |
| `suite_runs` | No scenario, and a list of two of which the first has a fault; signals, kills and files that do not load anywhere. Exit code 0 means that every scenario that was begun passed and that the JSON file is whole; what a verdict counts as disrupted, and what is broken while it is reached, is of its own scenario. Under fairness: every invocation ends. 505093 states. |
| `explained_runs` | A Deployment and a gang whose name contains the Deployment's, KAI in the first run and Volcano in the second, each run ending anywhere: leftovers come in only through a ReplicaSet that outlived the empty list (so never for a gang), Submit never meets a leftover, the PodGroup is there before what makes the pods, and a scheduler's reason comes from an object of this run or of the gap. 787 thousand states. |
| `intent_honoured` | Documents of two racks (empty and clashing names, bad pools, whole GPUs and partitions mixed) projected, and workloads on clusters with every level for the three schedulers, 616570 states: what KAI groups by labels is what Volcano's tree groups, every node is in every level, the peer counts that whole GPUs are published with are true; gangs are placed whole by a scheduler that keeps to their size and required levels hold where the scheduler looks at them (neither is asked of Volcano where `docs/designs/volcano-support.md` reports otherwise), whole GPUs and partitions are never mixed up. `confinedTo` reads label by label while the scheduler goes on; of a gang that passed, all replicas were placed and share one value, then and later. |

### Bounds

| Model | Bound | Why it is enough |
|---|---|---|
| MIG | the real shape 8/7, all its profiles, 1 GPU | GPUs only interact through the maps indexed by them; the theorems of section 5 cover every number (two GPUs of this shape have two million states) |
| Fragmentation, Conditions | 2 nodes, 2 GPUs, chunks of 8 in place of 64 (`maxDevicesPerSlice`), `MaxPods` 2 | more than, exactly and less than one chunk occur; a pod deleted and another made between two reads |
| Topology | 2 racks, up to 2 nodes each, 3 pools, one of them MIG | every clash of names, every mixture of NVLink and every neighbourhood of GPUs and partitions is between two things |
| SchedulerIntent | the same documents, and three of 3 nodes in 2 racks with up to 3 replicas | a domain of one node, one of two nodes, and too few GPUs for the gang in one of them |
| ApplyTopology | `MaxApplies` 3, one chunk per MIG node | failed, other topology, again; each write may be the last |
| FaultRecovery | 3 nodes, 2 replicas, `MaxPods` 6, plans of 2 faults | a replacement of a replacement can be hit; two faults on the same hardware |
| ScenarioRun | `MaxTime` 40, small periods in place of 60 s/90 s/2 s, `Lag` 1, `MaxErrors` 1, one signal | the periods keep their order (poll < wait); every run ends well before `MaxTime`: `EveryRunEnds` would fail if the clock stopped first |
| Explanations | `MaxRuns` 2, `MaxPods` 4, 1 replica | a run that leaves and one that finds; a pod, its replacement, and the same for the next run or the other workload |
| Suite | lists `<<>>` and `<<a, b>>`, `MaxRuns` 2 over all invocations, `MaxPods` 2 | the second run is the next of the list, or the first after a restart; leftovers as such are the question of `explained_runs` |

`CHECK_DEADLOCK FALSE` is set where a run is over and nothing is left to do: a finished
apply, a finished scenario, a document refused or projected, a check that passed in
`conditions`, pods or runs used up. Allocation never stops, and `mig_one_gpu` and
`frag_two_nodes` check that it does not.

### Fairness

- `FaultRecovery`: weak fairness of the runner's next call (a sequential program that goes
  on) and of each controller step per pod (they work through queues and retry). Nothing is
  assumed about failing calls, and none of `CheckRescheduled`: that the loop polls again is
  not needed for what the cluster reaches.
- `ScenarioRun`: weak fairness of the clock and of the runner only. The cluster owes
  nothing: ends are reached because every wait in the code has a deadline. Nor is a signal owed
  by anybody.
- `Suite`: weak fairness of the process going on (`Forward`): every wait of the code has a
  deadline and every call returns. The signal, the kill and the next invocation are owed by
  nobody, nor is any step of Kubernetes.
- All other modules state safety only.

## 4. Where code and documents disagree

Four runs each check one property that a comment or a document states, and find it violated by
what the code does. The quotations are in `PROJECT.json` under "findings".

| Run | What happens |
|---|---|
| `frag_two_nodes` | Allocated devices are remembered by name; MIG names repeat per node, so the report of one node shows the allocations of another. |
| `apply_no_volcano` | Without Volcano's CRD the 404 is taken for a missing object, the create fails, and so does the apply. |
| `run_negative` | `scheduled: none` with neither `within` nor `settle` passes in the instant it begins. |
| `intent_crowd` | `placement.required` of a workload that is not a gang is accepted for KAI and written nowhere. |

The other configurations beside the modules are not in `PROJECT.json`; they show further ones, and
are kept to be run by hand (`tlc -config X.cfg MC...`). TLC finds the property violated in
each; where one lists two properties, take the one found out to see the other.

| Configuration | Property | What happens |
|---|---|---|
| `FaultMigNames` | `CasualtiesWereHit` | As in `frag_two_nodes`: a fault on one MIG node records replicas on another as taken out (`runner/run.go:301`). |
| `FaultPairs` | `NoCorpseCounted` | A replica that starts between the pod list and the node's deletion is a corpse that counts as healthy; `docs/designs/fault-injection.md:188` accepts a related window, of pods starting after the fault. |
| | `CasualtiesGo` | A `NoSchedule` degradation records every holder as disrupted; nobody is evicted (`scenario/types.go:188` "to have taken out exactly this many"). |
| `ApplyTwice` | `FailureKeepsTree` | A failure while stale HyperNodes are deleted leaves a half-deleted tree, before "Pruning last" (`cluster/topology.go:86`). |
| | `ForeignUntouched` | A foreign node with the name of a topology node is taken over, and later pruned (`generate/labels.go:29`). |
| `ApplyNoKAI` | `KAIIsOptional` | Without KAI's CRD the apply fails instead of reporting the reason (`cluster/client.go:245`). |
| `ApplyPluginSlice` | `OneDescriptionPerNode` | On a node that becomes a MIG node the plugin's slice is not adopted, and the node is described twice (`cluster/client.go:143`). |
| `RunBudgets` | `RecoveredWithinBudget` | A recovery assertion that comes up after its deadline still passes (`scenario/types.go:193`). |
| | `RetirementReleases` | `Retire` gives up silently after its deadline; the next event fires against held devices (`cluster/workloads.go:347`). |
| `ExplainedByName` | `Hermetic` | The pod list is empty while the old ReplicaSet is still there; its next pod is measured by the next run (`cluster/workloads.go:46`). |
| | `ReasonIsOfWorkload` | KAI's groups are found by a part of their name, so `train` is given the reasons of `train-large` (`cluster/workloads.go:234`). |
| `ExplainedStaleGroup` | `GroupsAreOwn` | A PodGroup that could not be deleted is taken over by the next run (`cluster/workloads.go:65`). |
| `TopologyDomains` | `TreeMatchesLabels` | Two racks naming one NVLink domain pass validation; the HyperNode of each rack then reaches the other's nodes (`generate/labels.go:5`). |
| | `DomainsAreUnique` | A rack's domain may have the name of a node elsewhere that is a domain of its own (`topology/resolve.go:173`). |
| `IntentMixed` | `LevelIsKnown` | A level the generated tree does not have is submitted; `VolcanoTierNames`, meant for refusing it, has no caller (`generate/volcanotopology.go:137`). |
| | `ConfinedSomewhere` | Replicas on nodes without the label pass for sharing its value (`runner/assert.go:159`). |
| `ConditionsTwoMig` | `DevicesAreWhatWasHeld` | Attributes are looked up by device name over all nodes; of two MIG nodes of one pool, in different NVLink domains, the last listed answers for both (`cluster/workloads.go:175`). |
| `ConditionsYoungPod` | `NoDeviceEscapes` | A pod made after the pods were listed holds a device nobody looks at (`cluster/workloads.go:127`). |
| `SuiteInterrupted` | `SuccessIsWhole` | After a signal the loop ends with the scenario in hand; if all before it passed, the exit code is 0 (`cmd/gpu-sim/main.go:228`). |
| `FragTwice` | `PoolsAreComplete` | A profile named twice is selected twice, and its partitions are published twice under the same names (`mig/profiles.go:186`). |

## 5. Proofs

Every invariant and every action property that a run of section 3 checks is stated by a
theorem, for every value of the constants that meets the assumptions named there. The
assumptions on constants (`ASSUME`) are evaluated by TLC on every run; a theorem that needs more
has it as a hypothesis with a name:

| Hypothesis | Of | Without it |
|---|---|---|
| `SizesNest` | sizes of partitions divide one another and the memory, as in `mig/profiles.go:48` | no table in the code to try |
| `NamedOnce` | a pool names a profile once | `FragTwice` |
| `DocsApart` | the NVLink domains of a valid document have names of their own | `TopologyDomains` |
| `KaiIsToldOfGangs` | a level required of KAI is required of a gang | `intent_crowd` |
| `ForeignApart` | no topology names a foreign node, and foreign slices are of such nodes | `ApplyTwice` |
| `UniqueNames` | no two devices have one name | `FaultMigNames` |

The instances of section 3 meet each of them, as evaluated by TLC.

Three theorems say what holds in the states that meet a condition, and not of a restricted set of
clusters: names of MIG devices repeat from node to node, and how far the code is right in spite
of this depends on what is held at the time.

| Condition | Of the state | Otherwise |
|---|---|---|
| `HeldAlike(C)` | no partition that `C` holds on one MIG node is published under the same name on another and not held there | `frag_two_nodes` |
| `AskedAlike` | the assertion does not ask for the NVLink domain, or the MIG nodes are all in one | `ConditionsTwoMig` |

`MigAllocation_proofs` proves, for every geometry, list of profiles and set of GPUs that meets
the assumptions `GeometryAssumption` of `MigGeometry` and `NoPartitionAssumption` of
`MigAllocation`:

- `Inductive`: `Spec => []IndInv`;
- `TypeCorrect`, `Exclusion`: `TypeOK` and `NoOverlap`, both part of it;
- `Capped`: `InstanceCap`, from the exact account of SM slices and that every profile takes
  at least one;
- `Refinement`: the counters implement `SliceOwnership`;
- `ReportMatchesCounters` (`CountersMatchReport`): what the report computes from names is what
  the counters say;
- `LostIsRecovered` (`DefragmentationRecoversLost`), where `SizesNest`: of two sizes the smaller
  divides the larger, and each divides the memory.

Why an inductive invariant is needed: `NoOverlap` does not survive a release on its own. A
partition that gives back a memory counter makes its position available, which is safe only if
no other partition covers it and the counter really had been spent. `Covered` says that a
position's counter is spent exactly when some held partition covers it; `PoolExact` says that
what is missing from the SM pool is what held partitions take, counted as units so that a
cardinality can be taken without a sum. With both, `Allocate` finds all positions of a
partition uncovered, and `Release` restores exactly what it covered. The proof has a lemma
per action (`InitInv`, `AllocateInv`, `ReleaseInv`, `StutterInv`); the refinement maps
`owner` to the one held partition covering a position, unique by `NoOverlap`.

The report adds up SMs where the invariant counts units, so that the first step of
`ReportMatchesCounters` is that the sum is the number of units; the second is that a profile fits
at a position for the report exactly when the counters of that position and the pool allow it.
For `LostIsRecovered`, repacking puts the partitions of a GPU one after the other, the larger
first: what lies ahead of one is a sum of multiples of its size, so each comes to stand at a
position its profile is published at. No two overlap since each starts where those ahead end;
memory and SMs are kept because the repacking is a bijection; and the memory left is all at the
end, which is a multiple of every size, so that it takes as many of a profile as it has room for.

`ApplyTopology_proofs` proves, for every set of topologies, every cluster and every number of
applies, each cut off anywhere, from `TopologiesAssumption`:

- `InvariantHolds`: `Spec => []ApplyInv`, and from it `ApplyTypeCorrect` (`TypeOK`) and
  `CountersOrNothing` (`NoPartitionsWithoutCounters`);
- `AppliesConverge` (`Converges`): what an apply that returns without an error promises;
- `PruningLast` (`DeletesOnlyWhenInPlace`);
- `NothingForeignIsTouched` (`ForeignUntouched`) and `NoGPUsNowhere` (`MakesNoOrphans`), where
  `ForeignApart`: `ApplyNode` and `ApplyResourceSlice` adopt by name.

What holds when `ApplyTopology` returns says nothing of the state before it, so the invariant
speaks of every phase: `NodesDone`, `SlicesDone` and `TreesDone` say that the objects of the
topology that are not left to do are in place, with their status (and, in a status write,
that the node in hand has its spec); `Pruned` says that what is left to delete is not of the
topology and that nothing else of an earlier one remains; `Probed` that slices of a topology
with MIG are written only past the gate. An earlier apply needs no account of its own: the
loops write every object again and the lists are taken of what is there, which is why the
proof goes through with no fact about what a cut-off apply leaves. There is one lemma per
kind of step (writes, moving on, deletions, faults).

`Namespace_proofs` proves, for every set of workloads and number of runs:

- `InvariantHolds`: `Spec => []NamespaceInv`, and from it `NamespaceTypeCorrect` (`TypeOK`);
- `NoConflict` (`SubmitNeverConflicts`), `OneGap` (`LeftoversOnlyThroughGap`) and
  `GroupBeforeOwner` (`GroupComesFirst`).

That no name is taken when `Submit` starts follows from what each step of `ClearNamespace`
has emptied and the controllers cannot refill, and during the submission from the workloads
that Submit has not come to yet (`Cleared`). `Fresh` gives every object and pod of a run being
submitted or measured to that run or to the gap; `GroupsFirst` needs it, with `Begun`, since a
group is told from none by the number of its run.

`Owned` keeps every pod with an owner.

Of `Suite` it proves, for every set of lists, files and workloads:

- `SuiteImplementsNamespace` (`SpecS => Spec`): so that `NamespaceInv` holds of every suite;
- `SuiteInvariantHolds`: `SpecS => []SuiteInv`, and from it `SuiteTypeCorrect` (`TypeOKS`),
  `SuccessAlwaysEarned` (`SuccessIsEarned`) and `FaultsNeverLeak` (`FaultsStayInTheirRun`).

An exit code is given long after the verdicts it rests on: `ResultsInOrder` ties the results
to the list, `EndsInOrder` says that the report comes with the end of the list or a signal,
and `OwnFaults` that what is remembered and broken while a run goes on is its own.

Of `Explanations` it proves, for every relation between names that relates each to itself
(`ExplanationsAssumption`):

- `ExplanationsImplementNamespace` and `ExplanationsInvariantHolds`;
- `ReasonsAccounted` (`ReasonsAreAccountedFor`): from `GroupsAccounted` for KAI's groups and
  `Fresh` for Volcano's groups and pods.

`FaultRecovery_proofs` proves, for every set of nodes and devices, plans and numbers of pods:

- `InvariantHolds`, and from it `FaultTypeCorrect` (`TypeOK`), `FaultsLandWhole`
  (`RecordedFaultsAreComplete`) and `OnlyTheWindow` (`CorpsesOnlyFromWindow`);
- `NoBystanders` (`CasualtiesWereHit`), where `UniqueNames`.

All that Kubernetes does between two calls of the runner enters through one lemma: a pod that
has been placed keeps its device. `HeldIsRight` and `MatchIsRight` carry what was read before a
fault to its end, `SlicesDone` the taints written so far, and `TaintsAccounted` and
`NodesAccounted` give each taint and each missing node a recorded fault that recorded whoever
of its snapshot was there.

`ScenarioRun_proofs` proves, for every scenario, every setting of the periods, however long a
call takes and whenever a signal comes:

- `InvariantHolds` and from it `VerdictsWait` (`VerdictsTakeTheirTime`): `SleepsItOut` and
  `PollsItOut` say what the clock owes a verdict while it is not yet made, unless a signal
  ends the wait, when it is a failed one;
- `TimelineInvariant`, and from it `TimelineIsKept` (`TimelineHappened`) and `RunTypeCorrect`
  (`TypeOK`).

A timeline is the events of a scenario sorted by their offsets. That nothing is lost or moved
by sorting is one lemma of `DataTheorems`: who counts those before it is at its place, and
counting is a bijection (`RankTheorem`). The invariant is then an account of the events that are
past: a workload exists if its submission is past and its retirement is not
(`WorkloadsAccounted`), has pods only if its submission is past (`PodsAccounted`), and the records
are those of the fault events past, in their order, each with what was found when it fired
(`FaultsAccounted`). That the workloads found are those the author expects at the fault's
offset is a fact about the sorted list: workloads are collected before faults, so that at one
offset they come first.

`SchedulerIntent_proofs` proves, for every document and workload:

- `InvariantHolds`, and from it `GangsStayWhole` (`GangIsWhole`) and `KindsStayApart`
  (`DevicesAreOfTheKind`);
- where `DocsApart`, from the lemma that `Projected` is invariant: `SchedulersAgree`
  (`TreeMatchesLabels`), `NoNodeIsLeftOut` (`EveryNodeInEveryLevel`) and `PeerCountsHold`
  (`PeerCountsAreTrue`);
- `RequiredLevelHolds` (`PlacementHeld`), where `DocsApart` and `KaiIsToldOfGangs`;
- `ConfinedIsForGood` (`ConfinedForGood`).

`NodesNamed` is needed since `""` stands for not being placed: validation refuses a node of
that name. `SubmittedAsTranslated` ties the objects to the workload; that a gang is placed
whole is an argument about cardinalities of placed and completed pods. `Projected` says that
the nodes are those of the document and each projection is made of them, so that the
projections are compared as functions of a set of nodes. A HyperNode reaches what the HyperNodes
below it reach, level by level; it reaches the nodes with its label and no other as long as
the levels nest (`Nested`), which validation sees to except for NVLink domains. Peers are a sum over
the racks' lists for the code and one over the nodes of a domain for the property, equal by a
bijection between places in the lists and nodes; partitions are published with the domain and
no count, so that their GPUs are counted as peers and have no count of their own. `Standing`
puts every placed pod on a node of the cluster. A confinedTo reads its labels one after the
other: `GangIsListed` says that a check of a gang in progress has all its replicas before it
and in `values` the values of those it has read, which placing can no longer change
(`ConfinedInv`). Of Volcano neither this nor `GangIsWhole` is claimed: it is reported to admit
an oversized gang bit by bit, and a replica placed after the list is not looked at.

`Conditions_proofs` proves, for every table of profiles (`TableAssumption`), every topology
(`ConfigsAssumption`), every number of pods (`PodsAssumption`) and all bounds
(`AssertionsAssumption`):

- `InvariantHolds`: `CheckSpec => []CheckInv`;
- `ReportIsOfNames`: in every cluster the report describes a MIG GPU as if everything were held
  on it that is held under its partitions' names on any node; and from it `ReportIsTrue`
  (`ReportDescribesCluster`), in every state in which `HeldAlike(claims)`;
- `LossIsJudgedByName`, the verdict on these figures, and from it `LossIsJudged`
  (`LossIsWithinBounds`), if `HeldAlike` of the claims that were seen;
- `DevicesAreReported` (`DevicesAreWhatWasHeld`), whenever `AskedAlike`;
- `InventoryIsComplete` (`PoolsAreComplete`), where `NamedOnce`.

A check works in three calls, and concludes from what the first two noted: `NotesAreTrue` ties
its notes to what was listed, `PodsAreApart` lets a uid stand for a pod over all the time
between, `ClaimsArePublished` gives every claim a device to be found by name, and
`JudgedOfNotes` the verdict to the notes. What a name tells is a theorem about what is
published: the GPU, the profile and the position, but not the node. So a device found by name
on another node is of the same type and profile and may differ in its domain, and whether it
is held is known of the name alone, which is what `ReportIsOfNames` and `LossIsJudgedByName` say.
The report reads a node's partitions back from chunks and in the order of the
geometry: that joining the chunks gives the list back, that each of its elements is in one of
them, and that sorting by rank finds every profile once are lemmas of `DataTheorems`.

`DataTheorems` has those and what is needed of sums: that they are numbers, do not depend on
the names of what is added, split along a partition, are multiples of what every part is a
multiple of. The library's induction theorems cannot be used by the provers at hand; where a
fact is about every finite set or every number it is proved by taking a smallest
counterexample, which the library gives without a parameter (inclusion on finite sets is well
founded).

Only model-checked: liveness under fairness (`EveryRunEnds`, `TruthIsSeen`, `CasualtiesGo`,
`RecoveryIsReachable`, `InvocationsEnd`) and `ENABLED`, which the prover cannot do. That a
property of section 4 is violated is shown by a behaviour and is no theorem.

## 6. Not modelled

The wording and layout of reports, flags, the commands `topology` and `fragmentation`, YAML
decoding and header fields, lookups and hashes (`profile`, `gpuid`), PCIe and NUMA attributes,
product names and capacities, tolerations, queues and images of pods. A retry on conflict inside
a single write is part of the write: only the one that succeeds is a step.

The timeline and deadlines of `ScenarioRun` have scheduling, health and recovery as
conditions; `confinedTo`, `allocatedDevices`, `fragmentation` and `unschedulableReason` are
modelled by what they read and conclude (`SchedulerIntent`, `Conditions`, `Explanations`),
without the clock that polls them, which is the same for every condition.

Two findings in the schedulers themselves that `docs/designs/volcano-support.md` reports are kept
out of what is assumed of them: Volcano's topology awareness does not look at DRA workloads
(`Honoured`), and it appears to admit an oversized gang incrementally (`AllOrNothing`), so that
`Schedule` lets it place any number of a gang's pods. Neither `PlacementHeld`, `GangIsWhole` nor
`ConfinedForGood` speaks of it in these cases. A `confinedTo` of a workload that is not a gang, or of
a gang under Volcano, speaks of the replicas placed when they were listed; what is placed
later may be elsewhere. Scenario and topology files, scripts and CI are inputs, not program.

## 7. Plan

Done: every component of section 1 that is modelled is checked, and every invariant and action
property of the runs is proved. Next, in this order:

1. The converse of `SchedulersAgree` for a document that is not `DocsApart`, up to the levels
   above the NVLink domain.
2. `FaultRecovery` as a refinement of the `FireFault` and `Check` steps of `ScenarioRun`, of
   which the README only says that they correspond.
