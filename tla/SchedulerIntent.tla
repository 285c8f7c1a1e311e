--------------------------- MODULE SchedulerIntent ---------------------------
(***************************************************************************)
(* A workload's intent, what it is translated into for a scheduler         *)
(* (workload.Translate), what the scheduler then may do, and what the      *)
(* confinedTo assertion says of the result (runner.checkConfinedTo), which *)
(* reads it call by call while the scheduler goes on.                      *)
(*                                                                         *)
(* The schedulers are external.  They keep to what the objects tell them:  *)
(* the GPUs of a node, the level to stay within and, but for Volcano, the  *)
(* size of the gang.                                                       *)
(***************************************************************************)
EXTENDS TopologyProjection, FiniteSets

CONSTANTS
    Scenarios,  \* [doc, w, sched]: a topology document, one workload [replicas, gang,
                \* required, gpus, mig] ("" for no placement), and "kai", "volcano" or
                \* "default"
    Levels,     \* levels asserted with confinedTo
    Instances   \* MIG instances that a GPU can hold at once

ASSUME IntentAssumption ==
    /\ \A s \in Scenarios : /\ s.doc \in Docs
                            /\ s.w.replicas \in Nat \ {0} /\ s.w.gpus \in Nat
                            /\ {s.w.gang, s.w.mig} \subseteq BOOLEAN
                            /\ s.sched \in {"kai", "volcano", "default"}
    /\ Levels \subseteq STRING
    /\ Instances \in Nat

VARIABLES
    w, sched,       \* the workload and the scheduler, beside the document
    pc,             \* "translate", "refused", "apply" or "submitted"
    objects,        \* what was submitted, as the scheduler reads it
    placed,         \* pod -> node name, "" before it is placed
    completed,      \* pods of a Job that ran to their end and gave back their GPUs
    check,          \* the confinedTo check in progress: [level, todo, values]
    verdict         \* the last confinedTo judgement

scenario   == <<w, sched>>
judging    == <<check, verdict>>
intentVars == <<vars, scenario, pc, objects, placed, completed, judging>>

-----------------------------------------------------------------------------
(* Translation *)

\* checkSupported.
Supported(x, s) == s = "default" => ~x.gang /\ x.required = ""

\* Slip: the annotation of the Job is forgotten.
MinMemberOfCrowd(x, s) == IF s = "volcano" /\ x.gang THEN x.replicas ELSE 1

\* The number of pods placed together: KAI reads an annotation of the Job and takes
\* 1 without it, Volcano the PodGroup.
MinMember(x, s) == IF s # "default" /\ x.gang THEN x.replicas ELSE 1

\* Slip: Volcano alone is told.
LevelForVolcano(x, s) == IF s = "volcano" THEN x.required ELSE ""

\* The level to stay within: two annotations of the Job for KAI, the PodGroup's
\* networkTopology for Volcano.
Level(x, s) == IF s = "volcano" \/ (s = "kai" /\ x.gang) THEN x.required ELSE ""

\* The claim template: the class of the devices, and how many.
ClaimTemplate(x) == [class |-> IF x.mig THEN "mig" ELSE "gpu", count |-> x.gpus]

Translate(x, s, topologyName) ==
    [kind |-> IF x.gang THEN "Job" ELSE "Deployment",
     claim |-> ClaimTemplate(x),
     minMember |-> MinMember(x, s),
     level |-> Level(x, s),
     topology |-> IF s = "kai" /\ Level(x, s) # "" THEN topologyName ELSE ""]

-----------------------------------------------------------------------------
(* The runner *)

Nothing   == [kind |-> "none", claim |-> [class |-> "gpu", count |-> 0], minMember |-> 0,
              level |-> "", topology |-> ""]
NoCheck   == [level |-> "", todo |-> {}, values |-> {}]
Unjudged  == [level |-> "", passed |-> FALSE]
TopologyName == "the topology"

IntentInit ==
    /\ \E s \in Scenarios : doc = s.doc /\ w = s.w /\ sched = s.sched
    /\ Init
    /\ pc = "translate"
    /\ objects = Nothing
    /\ placed = [p \in 1..w.replicas |-> ""] /\ completed = {}
    /\ check = NoCheck /\ verdict = Unjudged

\* Run translates before anything is created.
TranslateFirst ==
    /\ pc = "translate"
    /\ pc' = IF Supported(w, sched) THEN "apply" ELSE "refused"
    /\ UNCHANGED <<vars, scenario, objects, placed, completed, judging>>

\* ApplyTopology, which may end in an error.
Apply ==
    /\ pc = "apply"
    /\ ValidateDoc \/ ResolveDoc \/ Generate
    /\ UNCHANGED <<scenario, pc, objects, placed, completed, judging>>

\* Translated again, with the name of the topology, and submitted.
Submit ==
    /\ pc = "apply" /\ phase = "generated"
    /\ IF Supported(w, sched)
       THEN objects' = Translate(w, sched, TopologyName) /\ pc' = "submitted"
       ELSE UNCHANGED objects /\ pc' = "refused"
    /\ UNCHANGED <<vars, scenario, placed, completed, judging>>

PlacedPods(f) == {p \in DOMAIN f : f[p] # ""}

\* NodeLabel: "" for a label that is not there.
NodeLabel(x, level) == IF level \in DOMAIN labels[x] THEN labels[x][level] ELSE ""

Judge(level, passed) ==
    /\ verdict' = [level |-> level, passed |-> passed]
    /\ check' = NoCheck

\* checkConfinedTo lists the replicas (WorkloadPods) and is over if this fails, if no
\* replica is placed, or if nothing is known of the level.
ListReplicas(level) ==
    /\ pc = "submitted" /\ check = NoCheck
    /\ \/ Judge(level, FALSE)
       \/ /\ level \in KnownLevels /\ PlacedPods(placed) # {}
          /\ check' = [level |-> level, todo |-> PlacedPods(placed), values |-> {}]
          /\ UNCHANGED verdict
    /\ UNCHANGED <<vars, scenario, pc, objects, placed, completed>>

\* Slip: the values read before are forgotten.
ReadLastLabel(p) ==
    /\ p \in check.todo
    /\ LET left == check.todo \ {p}
           read == {NodeLabel(placed[p], check.level)}
       IN  IF left = {} THEN Judge(check.level, Cardinality(read) = 1)
           ELSE check' = [check EXCEPT !.todo = left, !.values = read] /\ UNCHANGED verdict
    /\ UNCHANGED <<vars, scenario, pc, objects, placed, completed>>

\* The label of each listed replica's node is read (NodeLabel); it passes if there was one
\* value.
ReadLabel(p) ==
    /\ p \in check.todo
    /\ LET left == check.todo \ {p}
           read == check.values \cup {NodeLabel(placed[p], check.level)}
       IN  IF left = {} THEN Judge(check.level, Cardinality(read) = 1)
           ELSE check' = [check EXCEPT !.todo = left, !.values = read] /\ UNCHANGED verdict
    /\ UNCHANGED <<vars, scenario, pc, objects, placed, completed>>

\* Or a read fails, and with it the check.
ReadFails ==
    /\ check.todo # {}
    /\ Judge(check.level, FALSE)
    /\ UNCHANGED <<vars, scenario, pc, objects, placed, completed>>

-----------------------------------------------------------------------------
(* The schedulers and KWOK (external) *)

\* The levels the scheduler finds in what was generated for it.
LevelsKnown ==
    CASE sched = "kai"     -> Range(kai)
      [] sched = "volcano" -> {h.name[1] : h \in tree}
      [] sched = "default" -> {}

\* Volcano does not look at the level when GPUs come through claims
\* (docs/designs/volcano-support.md); nor does anyone without one.
Honoured == objects.level # "" /\ ~(sched = "volcano" /\ objects.claim.count > 0)

\* Volcano "appears to admit incrementally" what does not fit as a whole (same place).
AllOrNothing == sched # "volcano"

\* The nodes of a domain, as the scheduler knows them.
DomainsAt(level) ==
    IF sched = "volcano" THEN {Reached(h) : h \in {g \in tree : g.name[1] = level}}
    ELSE {LabelDomain(level, NodeLabel(x, level)) : x \in DOMAIN labels}

\* A placement within one domain of the level.
Within(f) ==
    /\ objects.level \in LevelsKnown
    /\ \E d \in DomainsAt(objects.level) : \A p \in PlacedPods(f) : f[p] \in d

\* Every node has the devices its pods claim: the device classes select by type.
Devices(n) == IF objects.claim.class # DeviceType(n) THEN 0
              ELSE IF n.mig THEN Instances * n.gpus ELSE n.gpus
Fits(f) ==
    \A n \in nodes :
        objects.claim.count * Cardinality({p \in PlacedPods(f) \ completed : f[p] = n.name})
            <= Devices(n)

Schedule(f) ==
    /\ pc = "submitted"
    /\ f # placed
    /\ \A p \in PlacedPods(placed) : f[p] = placed[p]
    /\ Fits(f)
    /\ AllOrNothing => Cardinality(PlacedPods(f)) >= objects.minMember
    /\ Honoured => Within(f)
    /\ placed' = f
    /\ UNCHANGED <<vars, scenario, pc, objects, completed, judging>>

\* KWOK drives the pods of a Job to Completed.
Complete(p) ==
    /\ objects.kind = "Job"
    /\ placed[p] # "" /\ p \notin completed
    /\ completed' = completed \cup {p}
    /\ UNCHANGED <<vars, scenario, pc, objects, placed, judging>>

IntentNext ==
    \/ TranslateFirst \/ Apply \/ Submit
    \/ \E level \in Levels : ListReplicas(level)
    \/ \E p \in 1..w.replicas : ReadLabel(p)
    \/ ReadFails
    \/ \E f \in [1..w.replicas -> DOMAIN labels \cup {""}] : Schedule(f)
    \/ \E p \in 1..w.replicas : Complete(p)

IntentSpec == IntentInit /\ [][IntentNext]_intentVars

-----------------------------------------------------------------------------
(* Properties *)

\* A gang is placed whole or not at all ("otherwise it would look like a gang and
\* behave like a crowd", job): by KAI, which is told of it, and by the default scheduler,
\* which never gets one.  Of Volcano this is not to be seen (docs/designs/volcano-support.md).
GangIsWhole ==
    w.gang /\ sched # "volcano" => Cardinality(PlacedPods(placed)) \in {0, w.replicas}

\* The level a workload requires holds of what was placed, if the scheduler takes its
\* word; "quietly running something weaker" is what UnsupportedError is against.
PlacementHeld ==
    /\ w.required # "" /\ ~(sched = "volcano" /\ w.gpus > 0)
    => \A p, q \in PlacedPods(placed) :
        NodeLabel(placed[p], w.required) = NodeLabel(placed[q], w.required)

\* "A workload asking for a GPU never receives a slice of one" (translate.go), nor the
\* other way round: pods with a claim stand where their kind of device is.
DevicesAreOfTheKind ==
    w.gpus > 0 => \A p \in PlacedPods(placed), n \in nodes : placed[p] = n.name => (n.mig <=> w.mig)

\* The level a workload is submitted with is one its scheduler was told of, in the
\* topology that was applied (VolcanoTierNames is there "to reject a placement
\* Volcano's tree cannot express").
LevelIsKnown ==
    objects.level # "" =>
        /\ objects.level \in LevelsKnown
        /\ sched = "kai" => objects.topology = TopologyName

\* confinedTo ("every placed replica shares one value of that topology level", docs/scenarios.md)
\* looks at the replicas that were placed when it listed them.  Of a gang that passed, none
\* was still to be placed, and none is placed elsewhere later: all of it shares the value.
ConfinedForGood ==
    verdict.passed /\ w.gang /\ AllOrNothing =>
        /\ PlacedPods(placed) = 1..w.replicas
        /\ \A p, q \in 1..w.replicas :
               NodeLabel(placed[p], verdict.level) = NodeLabel(placed[q], verdict.level)

\* What passes is in a domain of the level: nodes that have not the label share none.
ConfinedSomewhere ==
    verdict.passed => \A p \in PlacedPods(placed) : NodeLabel(placed[p], verdict.level) # ""
=============================================================================
