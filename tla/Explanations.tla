---------------------------- MODULE Explanations ----------------------------
(***************************************************************************)
(* Why a workload is not placed, in the scheduler's own words              *)
(* (cluster.SchedulerReasons, runner.checkUnschedulableReason).            *)
(*                                                                         *)
(* KAI keeps its explanation on a PodGroup that its pod grouper makes for  *)
(* what owns the pods, and names after it; every scheduler leaves one on   *)
(* the pod.  The runner reads both, in two calls, and takes the groups by  *)
(* a part of their name.  Whether a group or a pod that may carry the      *)
(* reason an assertion asks for does so is left open until it is read.     *)
(***************************************************************************)
EXTENDS Namespace

CONSTANT NameContains  \* pairs <<v, w>>: the group of workload v has w in its name

ASSUME ExplanationsAssumption ==
    /\ NameContains \subseteq Workloads \X Workloads
    /\ \A w \in Workloads : <<w, w>> \in NameContains

VARIABLES
    kai,      \* KAI's PodGroups, by the Deployment or Job they are for
    check,    \* the assertion's reading: workload, next call, who was found to say it
    stale     \* history: what of earlier runs was left when the empty list came

varsE == <<vars, kai, check, stale>>

Unasked == [w |-> "none", next |-> "groups", sources |-> {}]

InitE == Init /\ kai = {} /\ check = Unasked /\ stale = {}

-----------------------------------------------------------------------------
(* KAI and the schedulers (external) *)

\* The pod grouper, for pods that ask for KAI.
MakeGroup(p) ==
    /\ p \in Present
    /\ pods[p].owner.run \notin VolcanoRuns
    /\ pods[p].owner \notin kai
    /\ kai' = kai \cup {pods[p].owner}
    /\ UNCHANGED <<vars, check, stale>>

\* The garbage collector.
CollectGroup(o) ==
    /\ o \in kai \ owners
    /\ kai' = kai \ {o}
    /\ UNCHANGED <<vars, check, stale>>

-----------------------------------------------------------------------------
(* The runner *)

BeginE ==
    /\ Begin
    /\ check' = Unasked /\ stale' = {}
    /\ UNCHANGED kai

\* ClearNamespace deletes the groups of KAI and those of Volcano; the error of
\* either call is ignored.
ClearGroupsE ==
    /\ ClearGroups
    /\ kai' \in {kai, {}}
    /\ UNCHANGED <<check, stale>>

WaitEmptyE ==
    /\ WaitEmpty
    /\ stale' = kai \cup sets
    /\ UNCHANGED <<kai, check>>

OtherSteps ==
    /\ \/ ClearDeployments \/ ClearJobs \/ ClearPods \/ ClearTemplates
       \/ (\E w \in todo : SubmitGroup(w)) \/ SubmitTemplate \/ SubmitOwner
    /\ UNCHANGED <<kai, check, stale>>

\* Slip: a group is taken when the workload's name contains the group's.
NamedLikeReversed(w) == {o \in kai : <<w, o.w>> \in NameContains}

\* The groups whose name contains the workload's.
NamedLike(w) == {o \in kai : <<o.w, w>> \in NameContains}

\* SchedulerReasons, first call; an error finds nothing.
ReadGroups(w) ==
    /\ pc = "measure"
    /\ check.next = "groups"
    /\ \E found \in SUBSET NamedLike(w) :
           check' = [w |-> w, next |-> "pods", sources |-> found]
    /\ UNCHANGED <<vars, kai, stale>>

\* Second call: the workload's pods that are not bound; the same.
ReadPods ==
    /\ pc = "measure"
    /\ check.next = "pods"
    /\ LET unbound == {p \in Pods : pods[p].phase = "pending" /\ pods[p].owner.w = check.w}
       IN  \E found \in SUBSET {pods[p].owner : p \in unbound} :
               check' = [check EXCEPT !.next = "groups", !.sources = @ \cup found]
    /\ UNCHANGED <<vars, kai, stale>>

\* checkUnschedulableReason passes on any source.
Passes == check.w # "none" /\ check.next = "groups" /\ check.sources # {}

-----------------------------------------------------------------------------

Cluster ==
    \/ Kubernetes /\ UNCHANGED <<kai, check, stale>>
    \/ \E p \in Pods : MakeGroup(p)
    \/ \E o \in kai : CollectGroup(o)

Reading == (\E w \in Workloads : ReadGroups(w)) \/ ReadPods

NextE ==
    \/ Cluster
    \/ BeginE \/ ClearGroupsE \/ WaitEmptyE \/ OtherSteps \/ Reading
    \/ (Measure \/ EndRun) /\ UNCHANGED <<kai, check, stale>>

SpecE == InitE /\ [][NextE]_varsE

-----------------------------------------------------------------------------
(* Properties *)

TypeOKE ==
    /\ TypeOK
    /\ kai \subseteq Owns /\ stale \subseteq Owns
    /\ check \in [w : Workloads \cup {"none"}, next : {"groups", "pods"}, sources : SUBSET Owns]

\* "A stale one makes the next run's scheduler reasons refer to the previous workload"
\* (ClearNamespace, of PodGroups): whatever the two calls of a check find between them
\* was said in this run of a workload whose name contains the one asked for, or stands
\* on what was left when the list of pods came back empty.
ReasonsAreAccountedFor ==
    pc = "measure" =>
        \A o \in check.sources : \/ o.run = run /\ <<o.w, check.w>> \in NameContains
                                 \/ o \in stale

\* "A workload can stay pending for the intended reason or for a completely unrelated
\* one, and only the first is a passing test" (docs/scenarios.md): what passes was said
\* of the workload itself.
ReasonIsOfWorkload == Passes => \E o \in check.sources : o.w = check.w
=============================================================================
