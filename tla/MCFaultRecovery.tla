-------------------------- MODULE MCFaultRecovery --------------------------
(* Small clusters and fault plans for TLC.                                    *)
EXTENDS FaultRecovery

Kill(n)        == [kind |-> "kill", nodes |-> {n}, devices |-> {}, effect |-> "none"]
Level(ns, e)   == [kind |-> "level", nodes |-> ns, devices |-> {}, effect |-> e]
Attrs(ds, e)   == [kind |-> "devices", nodes |-> {}, devices |-> ds, effect |-> e]

\* Whole GPUs: one per node, each in its node's slice, with a name of its own
\* (gpuid.DeviceName).
WholeNodes == {"n1", "n2", "n3"}
Gpu(n)     == [node |-> n, slice |-> n, name |-> n]
WholeGPUs  == {Gpu(n) : n \in WholeNodes}

\* Plans that kill, that degrade, and that mix the two on the same hardware; one
\* degrades a level whose only node is already dead, and those of a single fault on
\* n1 leave room for everybody afterwards.
EvictingPlans ==
    { <<Kill("n1")>>, <<Attrs({Gpu("n1")}, "NoExecute")>>,
      <<Level({"n1", "n2"}, "NoExecute")>>,
      <<Kill("n1"), Level({"n1", "n2"}, "NoExecute")>>,
      <<Attrs({Gpu("n1")}, "NoExecute"), Kill("n1")>>,
      <<Kill("n1"), Level({"n1"}, "NoExecute")>> }

\* Two GPUs per node, so that one kill hits two replicas.
PairNodes == {"n1", "n2"}
PairGPUs  == {[node |-> n, slice |-> n, name |-> <<n, k>>] : n \in PairNodes, k \in {0, 1}}

\* One kill, or the cordon of docs/scenarios.md: no new work on n1.
KillOrCordon == { <<Kill("n1")>>, <<Level({"n1"}, "NoSchedule")>> }

\* MIG partitions: two nodes of one shape publish the same device names.
MigNodes == {"n1", "n2"}
Mig(n, k) == [node |-> n, slice |-> <<n, k>>, name |-> k]
MigParts == {Mig(n, k) : n \in MigNodes, k \in {1, 2}}
MigLevel == { <<Level({"n1"}, "NoExecute")>> }
=============================================================================
