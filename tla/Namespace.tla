----------------------------- MODULE Namespace -----------------------------
(***************************************************************************)
(* The scenario namespace from one run to the next (runner.Run,            *)
(* cluster.ClearNamespace, waitNamespaceEmpty, cluster.Submit).            *)
(*                                                                         *)
(* Every scenario uses the same namespace.  A run clears what the run      *)
(* before left, waits until no pod is listed, and submits its workloads;   *)
(* a run may end anywhere, and the next one starts over.  Deletion is in   *)
(* the background: a Deployment or Job is gone at once, and the garbage    *)
(* collector follows with what it owned.  The controllers of Kubernetes    *)
(* are external.                                                           *)
(***************************************************************************)
EXTENDS Naturals, FiniteSets

CONSTANTS
    Workloads,  \* workload names, the same in every scenario
    Gangs,      \* those that become a Job; the others become a Deployment
    Replicas,   \* replicas of each
    VolcanoRuns, \* the runs whose scenario asks for Volcano, the others use KAI
    MaxRuns,    \* bound on the runs
    MaxPods     \* bound on the pods created over all runs

ASSUME NamespaceAssumption ==
    /\ Gangs \subseteq Workloads
    /\ Replicas \in Nat \ {0} /\ MaxRuns \in Nat /\ MaxPods \in Nat
    /\ VolcanoRuns \subseteq Nat

Pods == 1..MaxPods

VARIABLES
    owners,     \* Deployments and Jobs that exist: [w, run]
    sets,       \* ReplicaSets that exist: [w, run]
    pods,       \* [phase, deleting, owner], by order of creation
    templates,  \* workload -> the run that wrote its claim template, 0: none
    groups,     \* workload -> the run that wrote its Volcano PodGroup, 0: none
    run,        \* the run in progress, or the last one
    pc,         \* what the runner does next
    at,         \* the workload Submit is working on
    todo,       \* workloads still to submit
    gap         \* history: ReplicaSets that were left when the empty list came

objects == <<owners, sets, pods, templates, groups>>
vars    == <<objects, run, pc, at, todo, gap>>

None == [w |-> "none", run |-> 0]
Own(w, r) == [w |-> w, run |-> r]

Present == {p \in Pods : pods[p].phase \in {"pending", "bound"}}

Init ==
    /\ owners = {} /\ sets = {}
    /\ pods = [p \in Pods |-> [phase |-> "none", deleting |-> FALSE, owner |-> None]]
    /\ templates = [w \in Workloads |-> 0]
    /\ groups = [w \in Workloads |-> 0]
    /\ run = 0 /\ pc = "idle" /\ at = "none" /\ todo = {} /\ gap = {}

-----------------------------------------------------------------------------
(* Kubernetes (external)                                                   *)

\* The Deployment controller.
CreateReplicaSet(o) ==
    /\ o \in owners
    /\ o.w \notin Gangs
    /\ o \notin sets
    /\ sets' = sets \cup {o}
    /\ UNCHANGED <<owners, pods, templates, groups, run, pc, at, todo, gap>>

\* What creates and keeps pods: a ReplicaSet or a Job.
Keeper(o) == o \in sets \/ (o \in owners /\ o.w \in Gangs)

\* A keeper makes up for missing pods; pods being deleted do not count.  Volcano's
\* webhook refuses a pod whose PodGroup does not exist.
CreatePod(o, p) ==
    /\ Keeper(o)
    /\ pods[p].phase = "none"
    /\ \A q \in Pods : q < p => pods[q].phase # "none"
    /\ Cardinality({q \in Present : pods[q].owner = o /\ ~pods[q].deleting}) < Replicas
    /\ o.run \in VolcanoRuns => groups[o.w] # 0
    /\ pods' = [pods EXCEPT ![p] = [phase |-> "pending", deleting |-> FALSE, owner |-> o]]
    /\ UNCHANGED <<owners, sets, templates, groups, run, pc, at, todo, gap>>

Bind(p) ==
    /\ pods[p].phase = "pending"
    /\ pods' = [pods EXCEPT ![p].phase = "bound"]
    /\ UNCHANGED <<owners, sets, templates, groups, run, pc, at, todo, gap>>

\* Deleting an unbound pod takes effect at once, a bound one is given time.
Deleted(pod) == IF pod.phase = "pending" THEN [pod EXCEPT !.phase = "gone"]
                                         ELSE [pod EXCEPT !.deleting = TRUE]

RemovePod(p) ==
    /\ p \in Present /\ pods[p].deleting
    /\ pods' = [pods EXCEPT ![p].phase = "gone"]
    /\ UNCHANGED <<owners, sets, templates, groups, run, pc, at, todo, gap>>

\* The garbage collector: ReplicaSets without their Deployment, then pods without
\* their keeper.
CollectSet(o) ==
    /\ o \in sets \ owners
    /\ sets' = sets \ {o}
    /\ UNCHANGED <<owners, pods, templates, groups, run, pc, at, todo, gap>>

CollectPod(p) ==
    /\ p \in Present /\ ~pods[p].deleting
    /\ ~Keeper(pods[p].owner)
    /\ pods' = [pods EXCEPT ![p] = Deleted(@)]
    /\ UNCHANGED <<owners, sets, templates, groups, run, pc, at, todo, gap>>

-----------------------------------------------------------------------------
(* The runner                                                              *)

Begin ==
    /\ pc = "idle"
    /\ run < MaxRuns
    /\ run' = run + 1
    /\ pc' = "clearDeployments"
    /\ gap' = {}
    /\ UNCHANGED <<objects, at, todo>>

\* ClearNamespace, one DeleteCollection after the other.
ClearDeployments ==
    /\ pc = "clearDeployments"
    /\ owners' = {o \in owners : o.w \in Gangs}
    /\ pc' = "clearJobs"
    /\ UNCHANGED <<sets, pods, templates, groups, run, at, todo, gap>>

\* Slip: the Jobs are left.
ClearJobsNot ==
    /\ pc = "clearJobs"
    /\ pc' = "clearPods"
    /\ UNCHANGED <<objects, run, at, todo, gap>>

ClearJobs ==
    /\ pc = "clearJobs"
    /\ owners' = {o \in owners : o.w \notin Gangs}
    /\ pc' = "clearPods"
    /\ UNCHANGED <<sets, pods, templates, groups, run, at, todo, gap>>

ClearPods ==
    /\ pc = "clearPods"
    /\ pods' = [p \in Pods |-> IF p \in Present THEN Deleted(pods[p]) ELSE pods[p]]
    /\ pc' = "clearTemplates"
    /\ UNCHANGED <<owners, sets, templates, groups, run, at, todo, gap>>

ClearTemplates ==
    /\ pc = "clearTemplates"
    /\ templates' = [w \in Workloads |-> 0]
    /\ pc' = "clearGroups"
    /\ UNCHANGED <<owners, sets, pods, groups, run, at, todo, gap>>

\* The PodGroups: an error here is ignored.
ClearGroups ==
    /\ pc = "clearGroups"
    /\ groups' \in {groups, [w \in Workloads |-> 0]}
    /\ pc' = "wait"
    /\ UNCHANGED <<owners, sets, pods, templates, run, at, todo, gap>>

\* Slip: pods being deleted are not waited for.
WaitActive ==
    /\ pc = "wait"
    /\ \A p \in Present : pods[p].deleting
    /\ gap' = sets
    /\ todo' = Workloads
    /\ pc' = "submit"
    /\ UNCHANGED <<objects, run, at>>

\* waitNamespaceEmpty, the poll that finds no pod.
WaitEmpty ==
    /\ pc = "wait"
    /\ Present = {}
    /\ gap' = sets
    /\ todo' = Workloads
    /\ pc' = "submit"
    /\ UNCHANGED <<objects, run, at>>

\* Slip: the owner first, then the group.
SubmitOwnerFirst(w) ==
    /\ pc = "submit"
    /\ w \in todo
    /\ owners' = owners \cup {Own(w, run)}
    /\ at' = w
    /\ todo' = todo \ {w}
    /\ pc' = "owner"
    /\ UNCHANGED <<sets, pods, templates, groups, run, gap>>

\* Submit, first call: the PodGroup, if there is to be one; one that exists
\* already is taken as it is.
SubmitGroup(w) ==
    /\ pc = "submit"
    /\ w \in todo
    /\ groups' = IF run \in VolcanoRuns /\ groups[w] = 0 THEN [groups EXCEPT ![w] = run] ELSE groups
    /\ at' = w
    /\ todo' = todo \ {w}
    /\ pc' = "template"
    /\ UNCHANGED <<owners, sets, pods, templates, run, gap>>

\* Second call: the claim template; the same.
SubmitTemplate ==
    /\ pc = "template"
    /\ templates' = IF templates[at] = 0 THEN [templates EXCEPT ![at] = run] ELSE templates
    /\ pc' = "owner"
    /\ UNCHANGED <<owners, sets, pods, groups, run, at, todo, gap>>

\* Third call: the Job or the Deployment; one that exists already is an error.
SubmitOwner ==
    /\ pc = "owner"
    /\ IF \E o \in owners : o.w = at
       THEN pc' = "conflict" /\ UNCHANGED owners
       ELSE pc' = "submit" /\ owners' = owners \cup {Own(at, run)}
    /\ UNCHANGED <<sets, pods, templates, groups, run, at, todo, gap>>

\* Everything is submitted; assertions are judged from now on.
Measure ==
    /\ pc = "submit"
    /\ todo = {}
    /\ pc' = "measure"
    /\ UNCHANGED <<objects, run, at, todo, gap>>

\* The run ends: after its assertions, on an error of any call, at the deadline of
\* waitNamespaceEmpty, or with the process.
EndRun ==
    /\ pc # "idle"
    /\ pc' = "idle"
    /\ UNCHANGED <<objects, run, at, todo, gap>>

-----------------------------------------------------------------------------

Kubernetes ==
    \/ \E o \in owners : CreateReplicaSet(o)
    \/ \E o \in sets \cup owners : CollectSet(o) \/ \E p \in Pods : CreatePod(o, p)
    \/ \E p \in Pods : Bind(p) \/ RemovePod(p) \/ CollectPod(p)

Runner ==
    \/ Begin \/ ClearDeployments \/ ClearJobs \/ ClearPods \/ ClearTemplates \/ ClearGroups
    \/ WaitEmpty \/ (\E w \in todo : SubmitGroup(w)) \/ SubmitTemplate \/ SubmitOwner
    \/ Measure \/ EndRun

Next == Kubernetes \/ Runner

Spec == Init /\ [][Next]_vars

-----------------------------------------------------------------------------
(* Properties *)

Owns == [w : Workloads, run : 1..MaxRuns]

\* Type invariant; among the rest, at most one Deployment or Job per
\* name, and the workload Submit works on is off its list.
TypeOK ==
    /\ owners \subseteq Owns /\ sets \subseteq Owns /\ gap \subseteq Owns
    /\ \A o, q \in owners : o.w = q.w => o = q
    /\ pods \in [Pods -> [phase : {"none", "pending", "bound", "gone"},
                          deleting : BOOLEAN, owner : Owns \cup {None}]]
    /\ templates \in [Workloads -> 0..MaxRuns]
    /\ groups \in [Workloads -> 0..MaxRuns]
    /\ run \in 0..MaxRuns
    /\ pc \in {"idle", "clearDeployments", "clearJobs", "clearPods", "clearTemplates",
               "clearGroups", "wait", "submit", "template", "owner", "conflict", "measure"}
    /\ at \in Workloads \cup {"none"} /\ todo \subseteq Workloads
    /\ pc \in {"template", "owner", "conflict"} => at \in Workloads \ todo

\* "Scenarios are hermetic, and a run that measured leftovers would report a
\* confident wrong answer" (ClearNamespace): no pod of an earlier run is there
\* while the assertions of a run are judged.
Hermetic == pc = "measure" => \A p \in Present : pods[p].owner.run = run

\* The one way in: a leftover belongs to a ReplicaSet that was still there when the
\* list of pods came back empty.
LeftoversOnlyThroughGap ==
    pc \in {"submit", "template", "owner", "measure"} =>
        \A p \in Present : pods[p].owner.run # run => pods[p].owner \in gap

\* Clearing makes room: what an earlier run left, however it ended, never makes
\* Submit fail with "already exists".
SubmitNeverConflicts == pc # "conflict"

\* "The PodGroup goes first" (Submit): the Job or Deployment of this run never
\* exists without a PodGroup its pods may name.
GroupComesFirst ==
    run \in VolcanoRuns => \A o \in owners : o.run = run /\ pc \in {"submit", "template", "owner", "measure"}
                                     => groups[o.w] # 0

\* The PodGroup holds the size of the gang; the one the pods of a run name was
\* written for that run.
GroupsAreOwn == pc = "measure" /\ run \in VolcanoRuns => \A w \in Workloads : groups[w] = run
=============================================================================
