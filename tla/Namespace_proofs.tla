-------------------------- MODULE Namespace_proofs --------------------------
(***************************************************************************)
(* Proofs about Namespace for every set of workloads, whichever runs are   *)
(* Volcano's, and for every bound on runs and pods; and about the two      *)
(* modules that only take steps of it, so that what is proved of it holds  *)
(* there: Suite, for every list of scenarios, and Explanations, for every  *)
(* relation between names.                                                 *)
(***************************************************************************)
EXTENDS Suite, Explanations, SequenceTheorems, TLAPS

Submitting == {"submit", "template", "owner", "measure"}

\* The first run has begun before anything is cleared or submitted.
Begun == pc # "idle" => run # 0

\* ClearNamespace leaves no Deployment and no Job for Submit to meet: those that
\* exist later are of the workloads that Submit has done with.
Cleared ==
    /\ pc = "clearJobs" => \A o \in owners : o.w \in Gangs
    /\ pc \in {"clearPods", "clearTemplates", "clearGroups", "wait"} => owners = {}
    /\ pc \in {"submit", "template", "owner"} => \A o \in owners : o.w \notin todo
    /\ pc \in {"template", "owner"} => \A o \in owners : o.w # at

\* What exists while a run is submitted and measured is of this run, but for the
\* ReplicaSets in the gap and their pods.
Fresh ==
    pc \in Submitting =>
        /\ \A o \in owners : o.run = run
        /\ \A o \in sets : o.run = run \/ o \in gap
        /\ \A p \in Present : pods[p].owner.run = run \/ pods[p].owner \in gap

\* Under Volcano the PodGroup precedes the template and the owner.
GroupsFirst ==
    run \in VolcanoRuns /\ pc \in Submitting =>
        /\ \A o \in owners : groups[o.w] # 0
        /\ pc \in {"template", "owner"} => groups[at] # 0

\* A pod that is there has an owner.
Owned == \A p \in Present : pods[p].owner \in Owns

\* The inductive invariant.
NamespaceInv ==
    /\ TypeOK
    /\ Owned
    /\ pc # "conflict"
    /\ Begun
    /\ Cleared
    /\ Fresh
    /\ GroupsFirst

\* The type of the pods, the one part of TypeOK that is a function of records.
PodType == [phase : {"none", "pending", "bound", "gone"},
            deleting : BOOLEAN, owner : Owns \cup {None}]

-----------------------------------------------------------------------------

LEMMA InitInv == Init => NamespaceInv
BY NamespaceAssumption DEF Init, NamespaceInv, Owned, TypeOK, Begun, Cleared, Fresh, GroupsFirst,
   Submitting, Present, Pods, None, Owns

\* A step that changes only ReplicaSets: those of a new one are of an owner.
LEMMA ReplicaSetsKeepInv ==
    ASSUME NamespaceInv,
           \/ \E o \in owners : CreateReplicaSet(o)
           \/ \E o \in sets \cup owners : CollectSet(o)
    PROVE  NamespaceInv'
<1>1. /\ sets' \subseteq sets \cup owners
      /\ UNCHANGED <<owners, pods, templates, groups, run, pc, at, todo, gap>>
  BY DEF CreateReplicaSet, CollectSet
<1>2. Present' = Present
  BY <1>1 DEF Present
<1>3. TypeOK'
  BY <1>1 DEF NamespaceInv, TypeOK
<1>4. Fresh' /\ Owned'
  BY <1>1, <1>2 DEF NamespaceInv, Fresh, Owned, Submitting
<1>. QED
  BY <1>1, <1>3, <1>4 DEF NamespaceInv, Begun, Cleared, GroupsFirst, Submitting

\* A step that changes only pods: a new one is of a keeper that exists, and no other
\* comes back.
LEMMA PodsKeepInv ==
    ASSUME NamespaceInv,
           \/ \E o \in sets \cup owners : \E p \in Pods : CreatePod(o, p)
           \/ \E p \in Pods : Bind(p) \/ RemovePod(p) \/ CollectPod(p)
    PROVE  NamespaceInv'
<1>1. pods \in [Pods -> PodType] /\ sets \cup owners \subseteq Owns
  BY DEF NamespaceInv, TypeOK, PodType
<1>2. UNCHANGED <<owners, sets, templates, groups, run, pc, at, todo, gap>>
  BY DEF CreatePod, Bind, RemovePod, CollectPod
<1>3. /\ pods' \in [Pods -> PodType]
      /\ \A q \in Present' : \/ q \in Present /\ pods'[q].owner = pods[q].owner
                             \/ pods'[q].owner \in sets \cup owners
  <2>1. CASE \E o \in sets \cup owners : \E p \in Pods : CreatePod(o, p)
    <3>1. PICK o \in sets \cup owners, p \in Pods : CreatePod(o, p)
      BY <2>1
    <3>2. pods' = [pods EXCEPT ![p] = [phase |-> "pending", deleting |-> FALSE, owner |-> o]]
      BY <3>1 DEF CreatePod
    <3>. QED
      BY <1>1, <3>2 DEF Present, PodType
  <2>2. CASE \E p \in Pods : Bind(p) \/ RemovePod(p) \/ CollectPod(p)
    <3>1. PICK p \in Pods : Bind(p) \/ RemovePod(p) \/ CollectPod(p)
      BY <2>2
    <3>2. p \in Present /\ pods[p] \in PodType
      BY <1>1, <3>1 DEF Bind, RemovePod, CollectPod, Present
    <3>3. PICK pod \in PodType : pod.owner = pods[p].owner /\ pods' = [pods EXCEPT ![p] = pod]
      <4>1. CASE Bind(p)
        <5>1. [pods[p] EXCEPT !.phase = "bound"] \in PodType
          BY <3>2 DEF PodType
        <5>. QED
          BY <3>2, <4>1, <5>1 DEF Bind, PodType
      <4>2. CASE RemovePod(p)
        <5>1. [pods[p] EXCEPT !.phase = "gone"] \in PodType
          BY <3>2 DEF PodType
        <5>. QED
          BY <3>2, <4>2, <5>1 DEF RemovePod, PodType
      <4>3. CASE CollectPod(p)
        <5>1. pods' = [pods EXCEPT ![p] = Deleted(pods[p])]
          BY <1>1, <3>2, <4>3 DEF CollectPod, Present
        <5>2. Deleted(pods[p]) \in PodType /\ Deleted(pods[p]).owner = pods[p].owner
          BY <3>2 DEF Deleted, PodType
        <5>. QED
          BY <5>1, <5>2
      <4>. QED
        BY <3>1, <4>1, <4>2, <4>3
    <3>. QED
      BY <1>1, <3>2, <3>3 DEF Present
  <2>. QED
    BY <2>1, <2>2
<1>4. TypeOK'
  BY <1>2, <1>3 DEF NamespaceInv, TypeOK, PodType
<1>5. Fresh' /\ Owned'
  BY <1>1, <1>2, <1>3 DEF NamespaceInv, Fresh, Owned, Owns, Submitting
<1>. QED
  BY <1>2, <1>4, <1>5 DEF NamespaceInv, Begun, Cleared, GroupsFirst, Submitting

\* Beginning, clearing and ending: what Submit may meet goes, step by step.
LEMMA ClearingKeepsInv ==
    ASSUME NamespaceInv,
           \/ Begin \/ ClearDeployments \/ ClearJobs \/ ClearPods \/ ClearTemplates
           \/ ClearGroups \/ EndRun
    PROVE  NamespaceInv'
<1>1. pc' \in {"idle", "clearDeployments", "clearJobs", "clearPods", "clearTemplates",
               "clearGroups", "wait"}
  BY DEF Begin, ClearDeployments, ClearJobs, ClearPods, ClearTemplates, ClearGroups, EndRun
<1>2. Fresh' /\ GroupsFirst'
  BY <1>1 DEF Fresh, GroupsFirst, Submitting
<1>3. Cleared'
  BY DEF NamespaceInv, Cleared, objects, Begin, ClearDeployments, ClearJobs, ClearPods,
         ClearTemplates, ClearGroups, EndRun
<1>4. Owned'
  <2>1. CASE ClearPods
    <3>1. pods \in [Pods -> PodType] /\ pods' = [p \in Pods |-> IF p \in Present THEN Deleted(pods[p]) ELSE pods[p]]
      BY <2>1 DEF NamespaceInv, TypeOK, PodType, ClearPods
    <3>2. \A p \in Pods : Deleted(pods[p]).owner = pods[p].owner
      BY <3>1 DEF Deleted, PodType
    <3>3. ASSUME NEW p \in Present'
          PROVE  p \in Present /\ pods'[p].owner = pods[p].owner
      BY <3>1, <3>2 DEF Present
    <3>. QED
      BY <3>3 DEF NamespaceInv, Owned, Owns
  <2>2. CASE ~ClearPods
    <3>1. pods' = pods
      BY <2>2 DEF objects, Begin, ClearDeployments, ClearJobs, ClearTemplates, ClearGroups, EndRun
    <3>. QED
      BY <3>1 DEF NamespaceInv, Owned, Present, Owns
  <2>. QED
    BY <2>1, <2>2
<1>5. TypeOK' /\ Begun'
  <2>1. CASE Begin \/ EndRun
    BY <2>1, NamespaceAssumption
    DEF NamespaceInv, TypeOK, Begun, Begin, EndRun, objects
  <2>2. CASE ClearDeployments \/ ClearJobs
    BY <2>2 DEF NamespaceInv, TypeOK, Begun, ClearDeployments, ClearJobs
  <2>3. CASE ClearPods
    <3>. DEFINE after(p) == IF p \in Present THEN Deleted(pods[p]) ELSE pods[p]
    <3>1. pods \in [Pods -> PodType]
      BY DEF NamespaceInv, TypeOK, PodType
    <3>2. ASSUME NEW p \in Pods
          PROVE  after(p) \in PodType
      <4>1. pods[p] \in PodType
        BY <3>1
      <4>. QED
        BY <4>1 DEF Deleted, PodType
    <3>3. pods' = [p \in Pods |-> after(p)]
      BY <2>3 DEF ClearPods
    <3>. HIDE DEF after
    <3>4. pods' \in [Pods -> PodType]
      BY <3>2, <3>3
    <3>. QED
      BY <2>3, <3>4 DEF NamespaceInv, TypeOK, Begun, PodType, ClearPods
  <2>4. CASE ClearTemplates \/ ClearGroups
    BY <2>4, NamespaceAssumption DEF NamespaceInv, TypeOK, Begun, ClearTemplates, ClearGroups
  <2>. QED
    BY <2>1, <2>2, <2>3, <2>4
<1>. QED
  BY <1>1, <1>2, <1>3, <1>4, <1>5 DEF NamespaceInv

\* Submitting starts from no owner and no pod, and goes group by group, each before
\* its owner.
LEMMA SubmittingKeepsInv ==
    ASSUME NamespaceInv,
           \/ WaitEmpty \/ (\E w \in todo : SubmitGroup(w)) \/ SubmitTemplate
           \/ SubmitOwner \/ Measure
    PROVE  NamespaceInv'
<1>0. Owned'
  <2>1. pods' = pods
    BY DEF objects, WaitEmpty, SubmitGroup, SubmitTemplate, SubmitOwner, Measure
  <2>. QED
    BY <2>1 DEF NamespaceInv, Owned, Present, Owns
<1>1. CASE WaitEmpty
  <2>1. /\ owners = {} /\ Present = {} /\ gap' = sets /\ todo' = Workloads /\ pc' = "submit"
        /\ UNCHANGED <<owners, sets, pods, templates, groups, run, at>>
        /\ pc = "wait"
    BY <1>1 DEF WaitEmpty, NamespaceInv, Cleared, objects
  <2>2. Present' = {}
    BY <2>1 DEF Present
  <2>3. TypeOK' /\ Begun'
    BY <2>1 DEF NamespaceInv, TypeOK, Begun
  <2>. QED
    BY <1>0, <2>1, <2>2, <2>3 DEF NamespaceInv, Cleared, Fresh, GroupsFirst
<1>2. CASE \E w \in todo : SubmitGroup(w)
  <2>1. PICK w \in todo : SubmitGroup(w)
    BY <1>2
  <2>2. /\ pc = "submit" /\ at' = w /\ todo' = todo \ {w} /\ pc' = "template"
        /\ groups' = IF run \in VolcanoRuns /\ groups[w] = 0 THEN [groups EXCEPT ![w] = run] ELSE groups
        /\ UNCHANGED <<owners, sets, pods, templates, run, gap>>
    BY <2>1 DEF SubmitGroup
  <2>3. /\ groups \in [Workloads -> 0..MaxRuns] /\ w \in Workloads /\ run \in 0..MaxRuns
        /\ run # 0 /\ owners \subseteq Owns
    BY <2>2 DEF NamespaceInv, TypeOK, Begun
  <2>4. TypeOK' /\ Begun'
    BY <2>2, <2>3 DEF NamespaceInv, TypeOK, Begun
  <2>5. Fresh' /\ Cleared'
    BY <2>2 DEF NamespaceInv, Fresh, Cleared, Submitting, Present
  <2>6. GroupsFirst'
    BY <2>2, <2>3 DEF NamespaceInv, GroupsFirst, Submitting, Owns
  <2>. QED
    BY <1>0, <2>2, <2>4, <2>5, <2>6 DEF NamespaceInv
<1>3. CASE SubmitTemplate
  <2>1. /\ pc = "template" /\ pc' = "owner"
        /\ UNCHANGED <<owners, sets, pods, groups, run, at, todo, gap>>
    BY <1>3 DEF SubmitTemplate
  <2>2. TypeOK' /\ Begun'
    BY <1>3 DEF SubmitTemplate, NamespaceInv, TypeOK, Begun
  <2>. QED
    BY <1>0, <2>1, <2>2 DEF NamespaceInv, Cleared, Fresh, GroupsFirst, Submitting, Present
<1>4. CASE SubmitOwner
  <2>1. /\ pc = "owner" /\ pc' = "submit" /\ owners' = owners \cup {Own(at, run)}
        /\ UNCHANGED <<sets, pods, templates, groups, run, at, todo, gap>>
    BY <1>4 DEF SubmitOwner, NamespaceInv, Cleared
  <2>2. Own(at, run) \in Owns /\ at \notin todo
    BY <2>1 DEF NamespaceInv, TypeOK, Begun, Own, Owns
  <2>3. TypeOK' /\ Begun'
    BY <2>1, <2>2 DEF NamespaceInv, TypeOK, Begun, Cleared, Own
  <2>. QED
    BY <1>0, <2>1, <2>2, <2>3
    DEF NamespaceInv, Cleared, Fresh, GroupsFirst, Submitting, Present, Own
<1>5. CASE Measure
  <2>1. /\ pc = "submit" /\ pc' = "measure"
        /\ UNCHANGED <<owners, sets, pods, templates, groups, run, at, todo, gap>>
    BY <1>5 DEF Measure, objects
  <2>2. TypeOK' /\ Begun'
    BY <2>1 DEF NamespaceInv, TypeOK, Begun
  <2>. QED
    BY <1>0, <2>1, <2>2 DEF NamespaceInv, Cleared, Fresh, GroupsFirst, Submitting, Present
<1>. QED
  BY <1>1, <1>2, <1>3, <1>4, <1>5

LEMMA StutterKeepsInv == NamespaceInv /\ UNCHANGED vars => NamespaceInv'
BY DEF NamespaceInv, Owned, Owns, TypeOK, Begun, Cleared, Fresh, GroupsFirst, Present, vars, objects

-----------------------------------------------------------------------------

\* Whatever run ends where, and whatever the controllers make of it, the account of
\* what ClearNamespace has removed and Submit has made stays right.
THEOREM InvariantHolds == Spec => []NamespaceInv
<1>1. NamespaceInv /\ [Next]_vars => NamespaceInv'
  <2>. SUFFICES ASSUME NamespaceInv, [Next]_vars
                PROVE  NamespaceInv'
    OBVIOUS
  <2>1. CASE Kubernetes
    BY <2>1, ReplicaSetsKeepInv, PodsKeepInv DEF Kubernetes
  <2>2. CASE Runner
    BY <2>2, ClearingKeepsInv, SubmittingKeepsInv DEF Runner
  <2>3. CASE UNCHANGED vars
    BY <2>3, StutterKeepsInv
  <2>. QED
    BY <2>1, <2>2, <2>3 DEF Next
<1>. QED
  BY InitInv, <1>1, PTL DEF Spec

\* Type correctness of the namespace, for every set of workloads.
THEOREM NamespaceTypeCorrect == Spec => []TypeOK
<1>1. NamespaceInv => TypeOK
  BY DEF NamespaceInv
<1>. QED
  BY InvariantHolds, <1>1, PTL

\* Submit never fails on what an earlier run left, however many there were and
\* wherever each of them ended (ClearNamespace, then Submit).
THEOREM NoConflict == Spec => []SubmitNeverConflicts
<1>1. NamespaceInv => SubmitNeverConflicts
  BY DEF NamespaceInv, SubmitNeverConflicts
<1>. QED
  BY InvariantHolds, <1>1, PTL

\* A ReplicaSet that outlived the empty list is the only way for a leftover into a
\* later run (waitNamespaceEmpty).
THEOREM OneGap == Spec => []LeftoversOnlyThroughGap
<1>1. NamespaceInv => LeftoversOnlyThroughGap
  BY DEF NamespaceInv, Fresh, Submitting, LeftoversOnlyThroughGap
<1>. QED
  BY InvariantHolds, <1>1, PTL

\* With Volcano no Job or Deployment of a run exists before its PodGroup (Submit).
THEOREM GroupBeforeOwner == Spec => []GroupComesFirst
<1>1. NamespaceInv => GroupComesFirst
  BY DEF NamespaceInv, GroupsFirst, Submitting, GroupComesFirst
<1>. QED
  BY InvariantHolds, <1>1, PTL

-----------------------------------------------------------------------------
(* Suite: what the loop remembers from one scenario to the next.           *)

\* The results are those of the first scenarios of the list, and a result counts
\* faults of its own run only.
ResultsInOrder ==
    \A i \in DOMAIN results : /\ results[i].file = list[i]
                              /\ results[i].counted \subseteq {results[i].run}

\* What is remembered and what is broken while a run goes on is of that run.
OwnFaults == pc # "idle" => faults \cup damage \subseteq {run}

\* There is no exit code before the end, and the end comes with the list or a signal.
EndsInOrder ==
    /\ proc # "off" => exit = "none" /\ list # <<>>
    /\ proc = "report" => /\ results # <<>>
                          /\ Len(results) = Len(list) \/ interrupted

\* The inductive invariant, on top of that of Namespace.
SuiteInv ==
    /\ TypeOKS
    /\ ResultsInOrder
    /\ OwnFaults
    /\ EndsInOrder
    /\ SuccessIsEarned

-----------------------------------------------------------------------------
(* A suite is a behaviour of Namespace.                                    *)

LEMMA SuiteStepsAreNamespaceSteps == [NextS]_varsS => [Next]_vars
<1>. SUFFICES ASSUME [NextS]_varsS
              PROVE  [Next]_vars
  OBVIOUS
<1>1. CASE Kubernetes
  BY <1>1 DEF Next
<1>2. CASE \E s \in Lists : Invoke(s)
  BY <1>2 DEF Invoke
<1>3. CASE Forward
  <2>1. CASE BeginS
    BY <2>1 DEF BeginS, Next, Runner
  <2>2. CASE FailLater \/ FinishRun \/ Fire
    BY <2>2 DEF FailLater, FinishRun, Fire, Next, Runner
  <2>3. CASE Step
    BY <2>3 DEF Step, Next, Runner
  <2>4. CASE MeasureS
    BY <2>4 DEF MeasureS, Next, Runner
  <2>5. CASE Load \/ FailEarly \/ Judge("passed") \/ Judge("failed") \/ EndOfList \/ Report
    BY <2>5 DEF Load, FailEarly, Judge, EndOfList, Report
  <2>. QED
    BY <1>3, <2>1, <2>2, <2>3, <2>4, <2>5 DEF Forward
<1>4. CASE Interrupt \/ Kill
  BY <1>4 DEF Interrupt, Kill, Next, Runner
<1>5. CASE UNCHANGED varsS
  BY <1>5 DEF varsS
<1>. QED
  BY <1>1, <1>2, <1>3, <1>4, <1>5 DEF NextS

\* The loop of runCmd changes the namespace only as runs one after the other do.
THEOREM SuiteImplementsNamespace == SpecS => Spec
<1>1. InitS => Init
  BY DEF InitS
<1>. QED
  BY <1>1, SuiteStepsAreNamespaceSteps, PTL DEF SpecS, Spec

\* Hence the invariant of Namespace.
LEMMA NamespaceHolds == SpecS => []NamespaceInv
BY SuiteImplementsNamespace, InvariantHolds, PTL

-----------------------------------------------------------------------------
(* The invariant of the suite                                              *)

LEMMA SuiteInitInv == InitS /\ NamespaceInv => SuiteInv
<1>. SUFFICES ASSUME InitS, NamespaceInv
              PROVE  SuiteInv
  OBVIOUS
<1>1. <<>> \in Seq(Results) /\ Len(<<>>) = 0 /\ interrupted \in BOOLEAN
  BY EmptySeq DEF InitS
<1>2. TypeOKS
  <2>1. TypeOK /\ pc = "idle"
    BY DEF InitS, Init, NamespaceInv
  <2>. QED
    BY <1>1, <2>1 DEF InitS, TypeOKS
<1>. QED
  BY <1>2 DEF InitS, Init, SuiteInv, ResultsInOrder, OwnFaults, EndsInOrder, SuccessIsEarned

\* Steps of the run that leave the loop alone: the run stays what it is, and an idle
\* one stays idle.
LEMMA RunStepsKeepInv ==
    ASSUME SuiteInv, NamespaceInv',
           UNCHANGED suiteVars, run' = run, pc' # "idle" => pc # "idle"
    PROVE  SuiteInv'
<1>1. TypeOKS'
  BY DEF SuiteInv, TypeOKS, NamespaceInv, suiteVars
<1>. QED
  BY <1>1 DEF SuiteInv, ResultsInOrder, OwnFaults, EndsInOrder, SuccessIsEarned, suiteVars

LEMMA KubernetesLeavesTheRun == Kubernetes => UNCHANGED <<run, pc>>
BY DEF Kubernetes, CreateReplicaSet, CollectSet, CreatePod, Bind, RemovePod, CollectPod

LEMMA StepStaysInTheRun == Step \/ MeasureS => run' = run /\ pc # "idle" /\ UNCHANGED suiteVars
BY DEF Step, MeasureS, ClearDeployments, ClearJobs, ClearPods, ClearTemplates, ClearGroups,
       WaitEmpty, SubmitGroup, SubmitTemplate, SubmitOwner, Measure, objects

\* What a scenario leaves behind is one more result of the right kind.
LEMMA ReturnKeepsInv ==
    ASSUME SuiteInv, NamespaceInv, NamespaceInv',
           NEW outcome \in {"passed", "failed", "error"}, NEW counted,
           counted \subseteq {run} \cap (1..MaxRuns),
           proc = "running", Return(outcome, counted),
           pc' = "idle", run' = run,
           faults' \subseteq 1..MaxRuns, damage' \subseteq 1..MaxRuns
    PROVE  SuiteInv'
<1>. DEFINE res == [file |-> File, outcome |-> outcome, run |-> run, counted |-> counted]
<1>1. /\ results' = Append(results, res)
      /\ proc' = IF interrupted THEN "report" ELSE "next"
      /\ UNCHANGED <<list, interrupted, judged, json, exit>>
  BY DEF Return
<1>2. /\ results \in Seq(Results) /\ list \in Seq(STRING)
      /\ Len(results) < Len(list) /\ exit = "none" /\ list # <<>>
  BY SuiteAssumption, EmptySeq DEF SuiteInv, TypeOKS, EndsInOrder
<1>3. Len(results) \in Nat /\ Len(list) \in Nat
  BY <1>2, LenProperties
<1>4. Len(results) + 1 \in 1..Len(list)
  BY <1>2, <1>3
<1>5. list[Len(results) + 1] \in STRING
  BY <1>2, <1>4, ElementOfSeq
<1>6. res \in Results
  <2>1. run \in 0..MaxRuns
    BY DEF NamespaceInv, TypeOK
  <2>. QED
    BY <1>5, <2>1 DEF Results, File
<1>. HIDE DEF res
<1>7. /\ results' \in Seq(Results) /\ Len(results') = Len(results) + 1
      /\ \A i \in 1..Len(results) : results'[i] = results[i]
      /\ results'[Len(results) + 1] = res
  BY <1>1, <1>2, <1>6, AppendProperties
<1>8. TypeOKS'
  BY <1>1, <1>2, <1>3, <1>7 DEF SuiteInv, TypeOKS, NamespaceInv
<1>9. ResultsInOrder'
  <2>1. DOMAIN results' = 1..(Len(results) + 1) /\ DOMAIN results = 1..Len(results)
    BY <1>2, <1>7, LenProperties
  <2>2. res.file = list[Len(results) + 1] /\ res.counted \subseteq {res.run}
    BY DEF res, File
  <2>3. \A i \in 1..Len(results) : results[i].file = list[i] /\ results[i].counted \subseteq {results[i].run}
    BY <2>1 DEF SuiteInv, ResultsInOrder
  <2>4. \A i \in 1..(Len(results) + 1) : i \in 1..Len(results) \/ i = Len(results) + 1
    BY <1>3
  <2>. QED
    BY <1>1, <1>7, <2>1, <2>2, <2>3, <2>4 DEF ResultsInOrder
<1>10. results' # <<>>
  BY <1>3, <1>7, EmptySeq
<1>. QED
  BY <1>1, <1>2, <1>8, <1>9, <1>10 DEF SuiteInv, OwnFaults, EndsInOrder, SuccessIsEarned

\* The steps that begin or end a scenario.
LEMMA ScenarioStepsKeepInv ==
    ASSUME SuiteInv, NamespaceInv, NamespaceInv',
           BeginS \/ FailEarly \/ FailLater \/ Fire \/ FinishRun \/ Judge("passed") \/ Judge("failed")
    PROVE  SuiteInv'
<1>1. /\ run \in 0..MaxRuns /\ MaxRuns \in Nat
      /\ pc # "idle" => run \in 1..MaxRuns /\ faults \cup damage \subseteq {run}
      /\ faults \subseteq 1..MaxRuns /\ damage \subseteq 1..MaxRuns
  BY NamespaceAssumption DEF NamespaceInv, TypeOK, Begun, SuiteInv, OwnFaults, TypeOKS
<1>2. CASE BeginS
  <2>1. /\ proc = "running" /\ faults' = {} /\ damage' = {} /\ judged' = "no"
        /\ UNCHANGED <<proc, list, results, interrupted, json, exit>>
    BY <1>2 DEF BeginS
  <2>2. TypeOKS'
    BY <2>1 DEF SuiteInv, TypeOKS, NamespaceInv
  <2>. QED
    BY <2>1, <2>2 DEF SuiteInv, ResultsInOrder, OwnFaults, EndsInOrder, SuccessIsEarned
<1>3. CASE FailEarly
  <2>1. /\ proc = "running" /\ pc = "idle" /\ faults' = {} /\ damage' \subseteq damage
        /\ Return("error", {}) /\ pc' = pc /\ run' = run
    BY <1>3 DEF FailEarly, vars
  <2>. QED
    BY <1>1, <2>1, ReturnKeepsInv
<1>4. CASE FailLater
  <2>1. /\ proc = "running" /\ pc # "idle" /\ pc' = "idle" /\ run' = run
        /\ Return("error", faults) /\ UNCHANGED <<faults, damage>>
    BY <1>4 DEF FailLater, EndRun
  <2>. QED
    BY <1>1, <2>1, ReturnKeepsInv
<1>5. CASE Fire /\ run \in faults'
  <2>1. /\ proc = "running" /\ pc = "submit"
        /\ damage' = damage \cup {run} /\ faults' \subseteq faults \cup {run}
        /\ UNCHANGED <<vars, proc, list, results, interrupted, judged, json, exit>>
    BY <1>5 DEF Fire
  <2>2. run' = run /\ pc' = pc
    BY <2>1 DEF vars
  <2>3. faults' \cup damage' \subseteq {run} /\ {run} \subseteq 1..MaxRuns
    BY <1>1, <2>1
  <2>4. TypeOKS'
    BY <2>1, <2>2, <2>3 DEF SuiteInv, TypeOKS, NamespaceInv
  <2>. QED
    BY <2>1, <2>2, <2>3, <2>4
    DEF SuiteInv, ResultsInOrder, OwnFaults, EndsInOrder, SuccessIsEarned
<1>6. CASE Fire /\ run \notin faults'
  <2>1. /\ proc = "running" /\ pc = "submit" /\ pc' = "idle" /\ run' = run
        /\ damage' = damage \cup {run} /\ faults' \subseteq faults \cup {run}
        /\ Return("error", faults)
    BY <1>6 DEF Fire, EndRun
  <2>2. faults' \subseteq 1..MaxRuns /\ damage' \subseteq 1..MaxRuns
    BY <1>1, <2>1
  <2>. QED
    BY <1>1, <2>1, <2>2, ReturnKeepsInv
<1>7. CASE FinishRun
  <2>1. /\ proc = "running" /\ pc = "measure" /\ judged # "no" /\ pc' = "idle" /\ run' = run
        /\ Return(judged, faults) /\ UNCHANGED <<faults, damage>>
    BY <1>7 DEF FinishRun, EndRun
  <2>2. judged \in {"passed", "failed", "error"}
    BY <2>1 DEF SuiteInv, TypeOKS
  <2>. QED
    BY <1>1, <2>1, <2>2, ReturnKeepsInv
<1>8. CASE Judge("passed") \/ Judge("failed")
  <2>1. /\ judged' \in {"passed", "failed"}
        /\ UNCHANGED <<vars, proc, list, results, interrupted, faults, damage, json, exit>>
    BY <1>8 DEF Judge
  <2>2. run' = run /\ pc' = pc
    BY <2>1 DEF vars
  <2>3. TypeOKS'
    BY <2>1, <2>2 DEF SuiteInv, TypeOKS, NamespaceInv
  <2>. QED
    BY <2>1, <2>2, <2>3 DEF SuiteInv, ResultsInOrder, OwnFaults, EndsInOrder, SuccessIsEarned
<1>. QED
  BY <1>2, <1>3, <1>4, <1>5, <1>6, <1>7, <1>8

\* The steps of the loop between scenarios, and what comes from outside.
LEMMA LoopStepsKeepInv ==
    ASSUME SuiteInv, NamespaceInv, NamespaceInv',
           \/ \E s \in Lists : Invoke(s)
           \/ Load \/ EndOfList \/ Report \/ Interrupt \/ Kill
    PROVE  SuiteInv'
<1>1. results \in Seq(Results) /\ list \in Seq(STRING)
  BY SuiteAssumption, EmptySeq DEF SuiteInv, TypeOKS
<1>2. CASE \E s \in Lists : Invoke(s)
  <2>1. PICK s \in Lists : Invoke(s)
    BY <1>2
  <2>2. /\ proc = "off" /\ list' = s /\ results' = <<>> /\ interrupted' = FALSE
        /\ faults' = {} /\ judged' = "no" /\ json' = "old" /\ run' = run /\ pc' = pc
        /\ damage' = damage
        /\ IF s = <<>> THEN proc' = "off" /\ exit' = "failure" ELSE proc' = "next" /\ exit' = "none"
    BY <2>1 DEF Invoke, vars
  <2>3. pc = "idle"
    BY <2>2 DEF SuiteInv, TypeOKS
  <2>4. s \in Seq(STRING) /\ Len(s) \in Nat /\ Len(<<>>) = 0
        /\ <<>> \in Seq(Results) /\ DOMAIN <<>> = {}
    BY SuiteAssumption, EmptySeq, LenProperties
  <2>5. TypeOKS'
    <3>1. TypeOK' /\ interrupted' \in BOOLEAN
      BY <2>2 DEF NamespaceInv
    <3>2. list' \in Lists /\ results' \in Seq(Results) /\ Len(results') <= Len(list')
      BY <2>2, <2>4
    <3>. QED
      BY <2>2, <2>3, <3>1, <3>2 DEF SuiteInv, TypeOKS
  <2>. QED
    BY <2>2, <2>3, <2>4, <2>5
    DEF SuiteInv, ResultsInOrder, OwnFaults, EndsInOrder, SuccessIsEarned
<1>3. CASE Load
  <2>1. /\ proc = "next" /\ Len(results) < Len(list)
        /\ \/ proc' = "running" /\ exit' = exit
           \/ proc' = "off" /\ exit' = "failure"
        /\ run' = run /\ pc' = pc
        /\ UNCHANGED <<list, results, interrupted, faults, damage, judged, json>>
    BY <1>3 DEF Load, vars
  <2>2. TypeOKS'
    BY <2>1 DEF SuiteInv, TypeOKS, NamespaceInv, EndsInOrder
  <2>. QED
    BY <2>1, <2>2 DEF SuiteInv, ResultsInOrder, OwnFaults, EndsInOrder, SuccessIsEarned
<1>4. CASE EndOfList
  <2>1. /\ proc = "next" /\ Len(results) = Len(list) /\ proc' = "report" /\ run' = run /\ pc' = pc
        /\ UNCHANGED <<list, results, interrupted, faults, damage, judged, json, exit>>
    BY <1>4 DEF EndOfList, vars
  <2>2. results # <<>>
    BY <1>1, <2>1, EmptySeq DEF SuiteInv, EndsInOrder
  <2>3. TypeOKS'
    BY <2>1 DEF SuiteInv, TypeOKS, NamespaceInv
  <2>. QED
    BY <2>1, <2>2, <2>3 DEF SuiteInv, ResultsInOrder, OwnFaults, EndsInOrder, SuccessIsEarned
<1>5. CASE Report
  <2>1. /\ proc = "report" /\ proc' = "off" /\ run' = run /\ pc' = pc
        /\ UNCHANGED <<list, results, interrupted, faults, damage, judged>>
        /\ \/ /\ json' = "whole"
              /\ exit' = IF \A i \in DOMAIN results : Passed(results[i]) THEN "success" ELSE "failure"
           \/ json' \in {json, "broken"} /\ exit' = "failure"
    BY <1>5 DEF Report, vars
  <2>2. TypeOKS'
    BY <2>1 DEF SuiteInv, TypeOKS, NamespaceInv
  <2>. QED
    BY <2>1, <2>2 DEF SuiteInv, ResultsInOrder, OwnFaults, EndsInOrder, SuccessIsEarned
<1>6. CASE Interrupt
  <2>1. /\ interrupted' = TRUE /\ proc # "off" /\ run' = run /\ pc' = pc
        /\ UNCHANGED <<proc, list, results, faults, damage, judged, json, exit>>
    BY <1>6 DEF Interrupt, vars
  <2>2. TypeOKS'
    BY <2>1 DEF SuiteInv, TypeOKS, NamespaceInv
  <2>. QED
    BY <2>1, <2>2 DEF SuiteInv, ResultsInOrder, OwnFaults, EndsInOrder, SuccessIsEarned
<1>7. CASE Kill
  <2>1. /\ proc' = "off" /\ exit' = "killed" /\ pc' = "idle"
        /\ UNCHANGED <<list, results, interrupted, faults, damage, judged, json>>
    BY <1>7 DEF Kill, EndRun, vars
  <2>2. TypeOKS'
    BY <2>1 DEF SuiteInv, TypeOKS, NamespaceInv
  <2>. QED
    BY <2>1, <2>2 DEF SuiteInv, ResultsInOrder, OwnFaults, EndsInOrder, SuccessIsEarned
<1>. QED
  BY <1>2, <1>3, <1>4, <1>5, <1>6, <1>7

\* Whatever is on the list, whatever fails, and whenever the process is interrupted or
\* killed, the account of the scenarios that have run stays right.
THEOREM SuiteInvariantHolds == SpecS => []SuiteInv
<1>1. SuiteInv /\ NamespaceInv /\ NamespaceInv' /\ [NextS]_varsS => SuiteInv'
  <2>. SUFFICES ASSUME SuiteInv, NamespaceInv, NamespaceInv', [NextS]_varsS
                PROVE  SuiteInv'
    OBVIOUS
  <2>1. CASE Kubernetes /\ UNCHANGED suiteVars
    BY <2>1, KubernetesLeavesTheRun, RunStepsKeepInv
  <2>2. CASE Step \/ MeasureS
    BY <2>2, StepStaysInTheRun, RunStepsKeepInv
  <2>3. CASE \/ BeginS \/ FailEarly \/ FailLater \/ Fire \/ FinishRun
             \/ Judge("passed") \/ Judge("failed")
    BY <2>3, ScenarioStepsKeepInv
  <2>4. CASE \/ \E s \in Lists : Invoke(s)
             \/ Load \/ EndOfList \/ Report \/ Interrupt \/ Kill
    BY <2>4, LoopStepsKeepInv
  <2>5. CASE UNCHANGED varsS
    <3>1. UNCHANGED suiteVars /\ run' = run /\ pc' = pc
      BY <2>5 DEF varsS, vars
    <3>. QED
      BY <3>1, RunStepsKeepInv
  <2>. QED
    BY <2>1, <2>2, <2>3, <2>4, <2>5 DEF NextS, Forward
<1>. QED
  BY SuiteInitInv, NamespaceHolds, <1>1, PTL DEF SpecS

\* Type correctness of the suite.
THEOREM SuiteTypeCorrect == SpecS => []TypeOKS
<1>1. SuiteInv => TypeOKS
  BY DEF SuiteInv
<1>. QED
  BY SuiteInvariantHolds, <1>1, PTL

\* Exit code 0 is given only for scenarios that ran, in the order of the list, and
\* passed, with a JSON file that is whole (runCmd).
THEOREM SuccessAlwaysEarned == SpecS => []SuccessIsEarned
<1>1. SuiteInv => SuccessIsEarned
  BY DEF SuiteInv
<1>. QED
  BY SuiteInvariantHolds, <1>1, PTL

\* No fault of one scenario reaches the verdict of another (Runner.Run, runCmd).
THEOREM FaultsNeverLeak == SpecS => []FaultsStayInTheirRun
<1>1. SuiteInv => FaultsStayInTheirRun
  BY DEF SuiteInv, ResultsInOrder, OwnFaults, FaultsStayInTheirRun
<1>. QED
  BY SuiteInvariantHolds, <1>1, PTL

-----------------------------------------------------------------------------
(* Explanations: the account of where reasons come from rests on the       *)
(* account of what is in the namespace: a group or a pod is of this run,   *)
(* or stands on what the clearing left.                                    *)

\* A group of KAI's is of this run or was left, and so is every ReplicaSet of the gap.
GroupsAccounted ==
    pc \in Submitting =>
        /\ gap \subseteq stale
        /\ \A o \in kai : o.run = run \/ o \in stale

\* Nothing is asked before everything is submitted, and a second call is for the
\* workload of the first.
AskedInOrder ==
    /\ pc \notin {"idle", "measure"} => check = Unasked
    /\ check.next = "pods" => check.w \in Workloads

\* The inductive invariant, on top of that of Namespace.
ExplanationsInv ==
    /\ TypeOKE
    /\ GroupsAccounted
    /\ AskedInOrder
    /\ ReasonsAreAccountedFor

-----------------------------------------------------------------------------
(* Reading changes nothing in the namespace.                               *)

LEMMA ExplanationStepsAreNamespaceSteps == [NextE]_varsE => [Next]_vars
<1>. SUFFICES ASSUME [NextE]_varsE
              PROVE  [Next]_vars
  OBVIOUS
<1>1. CASE Cluster
  BY <1>1 DEF Cluster, MakeGroup, CollectGroup, Next
<1>2. CASE BeginE \/ ClearGroupsE \/ WaitEmptyE \/ OtherSteps \/ Measure \/ EndRun
  BY <1>2 DEF BeginE, ClearGroupsE, WaitEmptyE, OtherSteps, Next, Runner
<1>3. CASE Reading
  BY <1>3 DEF Reading, ReadGroups, ReadPods
<1>4. CASE UNCHANGED varsE
  BY <1>4 DEF varsE
<1>. QED
  BY <1>1, <1>2, <1>3, <1>4 DEF NextE

\* SchedulerReasons and KAI's pod grouper leave the clearing and submitting as it is.
THEOREM ExplanationsImplementNamespace == SpecE => Spec
<1>1. InitE => Init
  BY DEF InitE
<1>. QED
  BY <1>1, ExplanationStepsAreNamespaceSteps, PTL DEF SpecE, Spec

LEMMA NamespaceHoldsE == SpecE => []NamespaceInv
BY ExplanationsImplementNamespace, InvariantHolds, PTL

-----------------------------------------------------------------------------

LEMMA ExplanationsInitInv == InitE /\ NamespaceInv => ExplanationsInv
<1>. SUFFICES ASSUME InitE, NamespaceInv
              PROVE  ExplanationsInv
  OBVIOUS
<1>1. pc = "idle" /\ kai = {} /\ stale = {} /\ check = Unasked /\ TypeOK
  BY DEF InitE, Init, NamespaceInv
<1>2. check \in [w : Workloads \cup {"none"}, next : {"groups", "pods"}, sources : SUBSET Owns]
  BY <1>1 DEF Unasked
<1>. QED
  BY <1>1, <1>2
  DEF Unasked, ExplanationsInv, TypeOKE, GroupsAccounted, AskedInOrder, ReasonsAreAccountedFor,
      Submitting

\* A step that asks nothing and leaves the groups alone: what is accounted for stays so
\* while the run, the gap and the phase before submitting do.
LEMMA OtherStepsKeepInv ==
    ASSUME ExplanationsInv, NamespaceInv',
           UNCHANGED <<run, kai, check, stale>>,
           pc' \in Submitting => pc \in Submitting /\ gap' = gap,
           pc' \notin {"idle", "measure"} => pc \notin {"idle", "measure"},
           pc' = "measure" => pc = "measure" \/ check = Unasked
    PROVE  ExplanationsInv'
BY DEF ExplanationsInv, TypeOKE, GroupsAccounted, AskedInOrder, ReasonsAreAccountedFor,
       NamespaceInv, Unasked

LEMMA OutsideLeavesThePhase ==
    Kubernetes => UNCHANGED <<run, pc, gap>>
BY DEF Kubernetes, CreateReplicaSet, CollectSet, CreatePod, Bind, RemovePod, CollectPod

LEMMA MakeGroupKeepsInv ==
    ASSUME ExplanationsInv, NamespaceInv, NEW p \in Pods, MakeGroup(p)
    PROVE  ExplanationsInv'
<1>1. /\ p \in Present /\ kai' = kai \cup {pods[p].owner}
      /\ UNCHANGED <<check, stale>> /\ run' = run /\ pc' = pc /\ gap' = gap /\ TypeOK'
  <2>1. UNCHANGED vars /\ TypeOK
    BY DEF MakeGroup, NamespaceInv
  <2>2. TypeOK'
    BY <2>1 DEF TypeOK, vars, objects
  <2>. QED
    BY <2>1, <2>2 DEF MakeGroup, vars
<1>2. pods[p].owner \in Owns
  BY <1>1 DEF NamespaceInv, Owned
<1>3. pc \in Submitting => pods[p].owner.run = run \/ pods[p].owner \in gap
  BY <1>1 DEF NamespaceInv, Fresh
<1>. QED
  BY <1>1, <1>2, <1>3
  DEF ExplanationsInv, TypeOKE, GroupsAccounted, AskedInOrder, ReasonsAreAccountedFor

\* A group fewer needs no accounting.
LEMMA CollectGroupKeepsInv ==
    ASSUME ExplanationsInv, NamespaceInv', NEW o, CollectGroup(o)
    PROVE  ExplanationsInv'
<1>1. /\ kai' \subseteq kai /\ UNCHANGED <<check, stale>>
      /\ run' = run /\ pc' = pc /\ gap' = gap /\ TypeOK'
  BY DEF CollectGroup, vars, NamespaceInv
<1>. QED
  BY <1>1 DEF ExplanationsInv, TypeOKE, GroupsAccounted, AskedInOrder, ReasonsAreAccountedFor

\* The runner's steps: a run begins with nothing asked, and what is there when the empty
\* list comes is what was left.
LEMMA RunnerKeepsInv ==
    ASSUME ExplanationsInv, NamespaceInv, NamespaceInv',
           \/ BeginE \/ ClearGroupsE \/ WaitEmptyE \/ OtherSteps
           \/ (Measure \/ EndRun) /\ UNCHANGED <<kai, check, stale>>
    PROVE  ExplanationsInv'
<1>1. CASE BeginE
  <2>1. pc' = "clearDeployments" /\ check' = Unasked /\ stale' = {} /\ kai' = kai /\ TypeOK'
    BY <1>1 DEF BeginE, Begin, NamespaceInv
  <2>2. Unasked \in [w : Workloads \cup {"none"}, next : {"groups", "pods"}, sources : SUBSET Owns]
    BY DEF Unasked
  <2>. QED
    BY <2>1, <2>2 DEF Unasked, ExplanationsInv, TypeOKE, GroupsAccounted, AskedInOrder,
                      ReasonsAreAccountedFor, Submitting
<1>2. CASE ClearGroupsE
  <2>1. /\ pc = "clearGroups" /\ pc' = "wait" /\ kai' \subseteq kai
        /\ UNCHANGED <<check, stale>> /\ TypeOK'
    BY <1>2 DEF ClearGroupsE, ClearGroups, NamespaceInv
  <2>. QED
    BY <2>1 DEF ExplanationsInv, TypeOKE, GroupsAccounted, AskedInOrder,
                ReasonsAreAccountedFor, Submitting
<1>3. CASE WaitEmptyE
  <2>1. /\ pc = "wait" /\ pc' = "submit" /\ gap' = sets /\ stale' = kai \cup sets
        /\ UNCHANGED <<kai, check, run>> /\ TypeOK /\ TypeOK'
    BY <1>3 DEF WaitEmptyE, WaitEmpty, objects, NamespaceInv
  <2>2. stale' \subseteq Owns
    BY <2>1 DEF ExplanationsInv, TypeOKE, TypeOK
  <2>. QED
    BY <2>1, <2>2 DEF ExplanationsInv, TypeOKE, GroupsAccounted, AskedInOrder,
                      ReasonsAreAccountedFor
<1>4. CASE OtherSteps
  <2>1. /\ UNCHANGED <<run, kai, check, stale>>
        /\ pc' \in Submitting => pc \in Submitting /\ gap' = gap
        /\ pc' # "measure" /\ pc \notin {"idle", "measure"}
    BY <1>4 DEF OtherSteps, ClearDeployments, ClearJobs, ClearPods, ClearTemplates,
                SubmitGroup, SubmitTemplate, SubmitOwner, Submitting
  <2>. QED
    BY <2>1, OtherStepsKeepInv
<1>5. CASE (Measure \/ EndRun) /\ UNCHANGED <<kai, check, stale>>
  <2>1. /\ UNCHANGED <<run, gap, kai, check, stale>>
        /\ \/ pc = "submit" /\ pc' = "measure"
           \/ pc' = "idle"
    BY <1>5 DEF Measure, EndRun, objects
  <2>2. pc = "submit" => check = Unasked
    BY DEF ExplanationsInv, AskedInOrder
  <2>. QED
    BY <2>1, <2>2, OtherStepsKeepInv DEF Submitting
<1>. QED
  BY <1>1, <1>2, <1>3, <1>4, <1>5

\* First call: a group named like the workload, of this run or left.
LEMMA ReadGroupsKeepsInv ==
    ASSUME ExplanationsInv, NamespaceInv', NEW w \in Workloads, ReadGroups(w)
    PROVE  ExplanationsInv'
<1>1. PICK found \in SUBSET NamedLike(w) :
          check' = [w |-> w, next |-> "pods", sources |-> found]
  BY DEF ReadGroups
<1>2. /\ pc = "measure" /\ UNCHANGED <<kai, stale>>
      /\ run' = run /\ pc' = pc /\ gap' = gap /\ TypeOK'
  BY DEF ReadGroups, vars, NamespaceInv
<1>3. found \subseteq Owns
  BY <1>1 DEF NamedLike, ExplanationsInv, TypeOKE
<1>4. \A o \in found : <<o.w, w>> \in NameContains /\ (o.run = run \/ o \in stale)
  BY <1>1, <1>2 DEF NamedLike, ExplanationsInv, GroupsAccounted, Submitting
<1>. QED
  BY <1>1, <1>2, <1>3, <1>4
  DEF ExplanationsInv, TypeOKE, GroupsAccounted, AskedInOrder, ReasonsAreAccountedFor

\* Second call: a pod of the workload itself, of this run or kept by a ReplicaSet of the
\* gap.
LEMMA ReadPodsKeepsInv ==
    ASSUME ExplanationsInv, NamespaceInv, NamespaceInv', ReadPods
    PROVE  ExplanationsInv'
<1>. DEFINE unbound == {p \in Pods : pods[p].phase = "pending" /\ pods[p].owner.w = check.w}
<1>1. PICK found \in SUBSET {pods[p].owner : p \in unbound} :
          check' = [check EXCEPT !.next = "groups", !.sources = @ \cup found]
  BY DEF ReadPods
<1>2. /\ pc = "measure" /\ UNCHANGED <<kai, stale>>
      /\ run' = run /\ pc' = pc /\ gap' = gap /\ TypeOK'
  BY DEF ReadPods, vars, NamespaceInv
<1>3. /\ check.w \in Workloads
      /\ check \in [w : Workloads \cup {"none"}, next : {"groups", "pods"}, sources : SUBSET Owns]
  BY DEF ReadPods, ExplanationsInv, AskedInOrder, TypeOKE
<1>4. \A o \in found : o \in Owns /\ o.w = check.w /\ (o.run = run \/ o \in stale)
  <2>1. \A p \in unbound : p \in Present /\ pods[p].owner.w = check.w
    BY DEF Present
  <2>2. \A p \in Present : pods[p].owner \in Owns
    BY DEF NamespaceInv, Owned
  <2>3. \A p \in Present : pods[p].owner.run = run \/ pods[p].owner \in stale
    BY <1>2 DEF NamespaceInv, Fresh, ExplanationsInv, GroupsAccounted, Submitting
  <2>. QED
    BY <1>1, <2>1, <2>2, <2>3
<1>5. <<check.w, check.w>> \in NameContains
  BY <1>3, ExplanationsAssumption
<1>6. /\ check'.w = check.w /\ check'.next = "groups"
      /\ check'.sources = check.sources \cup found
      /\ check' \in [w : Workloads \cup {"none"}, next : {"groups", "pods"}, sources : SUBSET Owns]
  BY <1>1, <1>3, <1>4
<1>7. ReasonsAreAccountedFor'
  BY <1>2, <1>4, <1>5, <1>6 DEF ExplanationsInv, ReasonsAreAccountedFor
<1>. QED
  BY <1>2, <1>6, <1>7 DEF ExplanationsInv, TypeOKE, GroupsAccounted, AskedInOrder

LEMMA ExplanationsStepKeepsInv ==
    ExplanationsInv /\ NamespaceInv /\ NamespaceInv' /\ [NextE]_varsE => ExplanationsInv'
<1>. SUFFICES ASSUME ExplanationsInv, NamespaceInv, NamespaceInv', [NextE]_varsE
              PROVE  ExplanationsInv'
  OBVIOUS
<1>1. CASE Kubernetes /\ UNCHANGED <<kai, check, stale>>
  BY <1>1, OutsideLeavesThePhase, OtherStepsKeepInv
<1>2. CASE \E p \in Pods : MakeGroup(p)
  BY <1>2, MakeGroupKeepsInv
<1>3. CASE \E o \in kai : CollectGroup(o)
  BY <1>3, CollectGroupKeepsInv
<1>4. CASE \/ BeginE \/ ClearGroupsE \/ WaitEmptyE \/ OtherSteps
           \/ (Measure \/ EndRun) /\ UNCHANGED <<kai, check, stale>>
  BY <1>4, RunnerKeepsInv
<1>5. CASE Reading
  BY <1>5, ReadGroupsKeepsInv, ReadPodsKeepsInv DEF Reading
<1>6. CASE UNCHANGED varsE
  <2>1. UNCHANGED <<run, pc, gap, kai, check, stale>>
    BY <1>6 DEF varsE, vars
  <2>. QED
    BY <2>1, OtherStepsKeepInv
<1>. QED
  BY <1>1, <1>2, <1>3, <1>4, <1>5, <1>6 DEF NextE, Cluster

\* The invariant holds in every behaviour.
THEOREM ExplanationsInvariantHolds == SpecE => []ExplanationsInv
<1>1. InitE /\ NamespaceInv => ExplanationsInv
  BY ExplanationsInitInv
<1>2. ExplanationsInv /\ NamespaceInv /\ NamespaceInv' /\ [NextE]_varsE => ExplanationsInv'
  BY ExplanationsStepKeepsInv
<1>. QED
  BY <1>1, <1>2, NamespaceHoldsE, PTL DEF SpecE

\* Whatever a check finds was said in its own run of a workload named like the one asked
\* for, or stands on what the clearing left: there is no third way.
THEOREM ReasonsAccounted == SpecE => []ReasonsAreAccountedFor
<1>1. ExplanationsInv => ReasonsAreAccountedFor
  BY DEF ExplanationsInv
<1>. QED
  BY <1>1, ExplanationsInvariantHolds, PTL
=============================================================================
