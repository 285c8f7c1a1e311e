-------------------------- MODULE MCSchedulerIntent -------------------------
(* Two racks of three nodes for TLC, with NVLink everywhere or not; and the   *)
(* documents of MCTopologyProjection, each with a workload that asks for more *)
(* partitions than a node has, and so is never placed.                        *)
EXTENDS SchedulerIntent, MCTopologyProjection

Pool(gpus, nvlink, mig) == [profile |-> "q", gpus |-> gpus, nvlink |-> nvlink, mig |-> mig]

Doc(second, mig) ==
    [pools |-> [mesh |-> Pool(2, "full-mesh", FALSE), other |-> Pool(1, second, mig)],
     racks |-> <<[name |-> "r1", faultDomain |-> "f1", nvlinkDomain |-> "d1",
                  nodes |-> <<[name |-> "a", pool |-> "mesh"]>>],
                 [name |-> "r2", faultDomain |-> "f2", nvlinkDomain |-> "",
                  nodes |-> <<[name |-> "b", pool |-> "other"], [name |-> "c", pool |-> "other"]>>]>>]

EveryLevel == Doc("full-mesh", FALSE)
Partitions == Doc("full-mesh", TRUE)
Mixed == Doc("none", FALSE)
Made == {EveryLevel, Partitions, Mixed}
MadeOrOwn == Made \cup OwnDomains

All == {"kai", "volcano", "default"}
Asked == {"rack", "nvlink-domain", "datacenter"}

Work(gangs, required, gpus, mig) ==
    [replicas : {1, 3}, gang : gangs, required : required, gpus : gpus, mig : mig]

On(docs, works, scheds) == [doc : docs, w : works, sched : scheds]

\* What the default scheduler refuses and the others honour, and the documents.
Idle == [replicas |-> 1, gang |-> FALSE, required |-> "", gpus |-> 3, mig |-> TRUE]
HonouredOrOwn ==
    On({EveryLevel}, Work({TRUE}, KnownLevels \cup {""}, {0, 1}, {FALSE})
                     \cup Work({FALSE}, {""}, {0, 1}, {FALSE}), All)
    \cup On({Partitions}, Work(BOOLEAN, {""}, {1}, BOOLEAN), All)
    \cup On(OwnDomains, {Idle}, {"kai"})

Crowd == On({EveryLevel}, Work({FALSE}, {"rack"}, {0}, {FALSE}), {"kai"})
FreeOrDomain == On({Mixed}, Work({TRUE}, {"nvlink-domain"}, {0}, {FALSE}), {"volcano"})
    \cup On({Mixed}, Work({FALSE}, {""}, {1}, {FALSE}), {"kai"})
=============================================================================
