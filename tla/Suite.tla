-------------------------------- MODULE Suite --------------------------------
(***************************************************************************)
(* gpu-sim run (main.runCmd): a list of scenario files taken one after     *)
(* the other by one runner, against one cluster and one namespace.         *)
(*                                                                         *)
(* The process may be interrupted, which cancels every call that follows,  *)
(* or killed, and may be started again.  What passes from one scenario to  *)
(* the next is the namespace (Namespace), the faults that the runner       *)
(* remembers and the damage they did to the cluster.                       *)
(***************************************************************************)
EXTENDS Namespace, Sequences

CONSTANTS
    Lists,   \* the lists of scenario files an invocation may be given
    Faulty   \* the files of scenarios with a fault

ASSUME SuiteAssumption == Lists \subseteq Seq(STRING) /\ Faulty \subseteq STRING

VARIABLES
    proc,         \* "off", "next" (between scenarios), "running" or "report"
    list,         \* the files of this invocation, in the order of their names
    results,      \* one for each that has run: [file, outcome, run, counted]
    interrupted,  \* has the signal come?
    faults,       \* Runner.faults: the runs that the recorded faults are of
    damage,       \* the runs whose faults the cluster still shows
    judged,       \* what the assertions of this run came to
    json,         \* the JSON file: "old", "broken" or "whole" (the results)
    exit          \* how the last invocation ended

suiteVars == <<proc, list, results, interrupted, faults, damage, judged, json, exit>>
varsS     == <<vars, suiteVars>>

InitS ==
    /\ Init
    /\ proc = "off" /\ list = <<>> /\ results = <<>> /\ interrupted = FALSE
    /\ faults = {} /\ damage = {} /\ judged = "no" /\ json = "old" /\ exit = "none"

File == list[Len(results) + 1]

-----------------------------------------------------------------------------
(* The loop *)

\* Up to the loop: no scenario is found, or a list is.
Invoke(s) ==
    /\ proc = "off"
    /\ run < MaxRuns
    /\ list' = s /\ results' = <<>> /\ interrupted' = FALSE
    /\ faults' = {} /\ judged' = "no" /\ json' = "old"
    /\ IF s = <<>> THEN proc' = "off" /\ exit' = "failure"
                   ELSE proc' = "next" /\ exit' = "none"
    /\ UNCHANGED <<vars, damage>>

\* A file that does not load ends the process, without summary and JSON.
Load ==
    /\ proc = "next"
    /\ Len(results) < Len(list)
    /\ \/ proc' = "running" /\ UNCHANGED exit
       \/ proc' = "off" /\ exit' = "failure"
    /\ UNCHANGED <<vars, list, results, interrupted, faults, damage, judged, json>>

\* Slip: the runner keeps the faults it remembers.
BeginKeeping ==
    /\ proc = "running"
    /\ ~interrupted
    /\ Begin
    /\ damage' = {} /\ judged' = "no"
    /\ UNCHANGED <<proc, list, results, interrupted, faults, json, exit>>

\* Run: forgets the faults, applies the topology, which undoes the damage
\* (ApplyTopology), and goes on to the namespace.
BeginS ==
    /\ proc = "running"
    /\ ~interrupted
    /\ Begin
    /\ faults' = {} /\ damage' = {} /\ judged' = "no"
    /\ UNCHANGED <<proc, list, results, interrupted, json, exit>>

\* What a scenario that has run leaves for the loop; ctx.Err is asked afterwards.
Return(outcome, counted) ==
    /\ results' = Append(results, [file |-> File, outcome |-> outcome,
                                   run |-> run, counted |-> counted])
    /\ proc' = IF interrupted THEN "report" ELSE "next"
    /\ UNCHANGED <<list, interrupted, judged, json, exit>>

\* Run fails before it clears the namespace: the intent cannot be translated, or the
\* topology was not applied entirely.
FailEarly ==
    /\ proc = "running" /\ pc = "idle"
    /\ faults' = {}
    /\ damage' \in SUBSET damage
    /\ Return("error", {})
    /\ UNCHANGED vars

\* Slip: the wait for the empty namespace has no end.
FailLaterNotWaiting ==
    /\ proc = "running" /\ pc \notin {"idle", "wait", "measure"}
    /\ EndRun
    /\ Return("error", faults)
    /\ UNCHANGED <<faults, damage>>

\* Run fails on the way to the assertions: a call fails, the wait for the empty
\* namespace ends, or the signal came.
FailLater ==
    /\ proc = "running" /\ pc \notin {"idle", "measure"}
    /\ EndRun
    /\ Return("error", faults)
    /\ UNCHANGED <<faults, damage>>

\* The steps of the run as before, as long as calls are not cancelled.
Step ==
    /\ proc = "running"
    /\ ~interrupted
    /\ \/ ClearDeployments \/ ClearJobs \/ ClearPods \/ ClearTemplates \/ ClearGroups
       \/ WaitEmpty \/ (\E w \in todo : SubmitGroup(w)) \/ SubmitTemplate \/ SubmitOwner
    /\ UNCHANGED suiteVars

\* A fault of the timeline; one that fails is not recorded, and ends the run.
Fire ==
    /\ proc = "running" /\ pc = "submit"
    /\ ~interrupted
    /\ File \in Faulty /\ run \notin faults
    /\ damage' = damage \cup {run}
    /\ faults' \in {faults, faults \cup {run}}
    /\ IF run \in faults'
       THEN UNCHANGED <<vars, proc, list, results, interrupted, judged, json, exit>>
       ELSE EndRun /\ Return("error", faults)

\* The end of the timeline.
MeasureS ==
    /\ proc = "running"
    /\ File \in Faulty => run \in faults
    /\ Measure
    /\ UNCHANGED suiteVars

\* The assertions come to an end.  After the signal only those pass that ask nothing
\* of the cluster: the blast radius is judged from what the runner remembers.
Judge(outcome) ==
    /\ proc = "running" /\ pc = "measure" /\ judged = "no"
    /\ outcome = "passed" /\ interrupted => File \in Faulty
    /\ judged' = outcome
    /\ UNCHANGED <<vars, proc, list, results, interrupted, faults, damage, json, exit>>

FinishRun ==
    /\ proc = "running" /\ pc = "measure" /\ judged # "no"
    /\ EndRun
    /\ Return(judged, faults)
    /\ UNCHANGED <<faults, damage>>

EndOfList ==
    /\ proc = "next" /\ Len(results) = Len(list)
    /\ proc' = "report"
    /\ UNCHANGED <<vars, list, results, interrupted, faults, damage, judged, json, exit>>

Passed(res) == res.outcome = "passed"

\* Slip: only failed assertions count.
ReportFailuresOnly ==
    /\ proc = "report"
    /\ json' = "whole"
    /\ exit' = IF \E i \in DOMAIN results : results[i].outcome = "failed" THEN "failure" ELSE "success"
    /\ proc' = "off"
    /\ UNCHANGED <<vars, list, results, interrupted, faults, damage, judged>>

\* The JSON file, which may fail before it is opened or while it is written; then the
\* exit code.
Report ==
    /\ proc = "report"
    /\ \/ /\ json' = "whole"
          /\ exit' = IF \A i \in DOMAIN results : Passed(results[i]) THEN "success" ELSE "failure"
       \/ json' \in {json, "broken"} /\ exit' = "failure"
    /\ proc' = "off"
    /\ UNCHANGED <<vars, list, results, interrupted, faults, damage, judged>>

-----------------------------------------------------------------------------
(* From outside *)

Interrupt ==
    /\ proc # "off" /\ ~interrupted
    /\ interrupted' = TRUE
    /\ UNCHANGED <<vars, proc, list, results, faults, damage, judged, json, exit>>

Kill ==
    /\ proc # "off"
    /\ proc' = "off" /\ exit' = "killed"
    /\ IF pc = "idle" THEN UNCHANGED vars ELSE EndRun
    /\ UNCHANGED <<list, results, interrupted, faults, damage, judged, json>>

-----------------------------------------------------------------------------

\* The process's own steps.
Forward ==
    \/ Load \/ BeginS \/ FailEarly \/ FailLater \/ Step \/ Fire \/ MeasureS
    \/ Judge("passed") \/ Judge("failed") \/ FinishRun \/ EndOfList \/ Report

NextS ==
    \/ Kubernetes /\ UNCHANGED suiteVars
    \/ \E s \in Lists : Invoke(s)
    \/ Forward
    \/ Interrupt \/ Kill

SpecS == InitS /\ [][NextS]_varsS /\ WF_varsS(Forward)

-----------------------------------------------------------------------------
(* Properties *)

Results == [file : STRING, outcome : {"passed", "failed", "error"}, run : 0..MaxRuns,
            counted : SUBSET (1..MaxRuns)]

TypeOKS ==
    /\ TypeOK
    /\ proc \in {"off", "next", "running", "report"}
    /\ list \in Lists \cup {<<>>}
    /\ results \in Seq(Results)
    /\ json \in {"old", "broken", "whole"}
    /\ Len(results) <= Len(list)
    /\ proc = "running" => Len(results) < Len(list)
    /\ interrupted \in BOOLEAN
    /\ faults \subseteq 1..MaxRuns /\ damage \subseteq 1..MaxRuns
    /\ judged \in {"no", "passed", "failed"}
    /\ exit \in {"none", "success", "failure", "killed"}
    /\ pc # "idle" => proc = "running"

\* "The exit status is non-zero if anything failed, so a scenario suite drops into a CI
\* job without further plumbing" (docs/scenarios.md): success means that the scenarios
\* of the list ran and passed, each in its turn, all of them but after a signal, and
\* that the JSON file says so.
SuccessIsEarned ==
    exit = "success" =>
        /\ results # <<>> /\ json = "whole"
        /\ \A i \in DOMAIN results : Passed(results[i]) /\ results[i].file = list[i]
        /\ Len(results) = Len(list) \/ interrupted

\* "A fault never leaks into the next scenario" (docs/scenarios.md): what a verdict
\* counts as disrupted, and what is broken while it is reached, is of its own run.
FaultsStayInTheirRun ==
    /\ pc = "measure" => faults \cup damage \subseteq {run}
    /\ \A i \in DOMAIN results : results[i].counted \subseteq {results[i].run}

\* Every invocation comes to its end, whatever the cluster does.
InvocationsEnd == proc # "off" ~> proc = "off"

\* A suite is not over before its list is.
SuccessIsWhole == exit = "success" => Len(results) = Len(list)
=============================================================================
