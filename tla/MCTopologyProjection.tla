------------------------ MODULE MCTopologyProjection ------------------------
(* Documents of two racks for TLC: names that clash or are empty, pools of *)
(* different size, with and without NVLink, of GPUs and of partitions.     *)
EXTENDS TopologyProjection

\* The profiles that MIG can cut.
Cut == {"p", "q"}

Pools ==
    [big   |-> [profile |-> "p", gpus |-> 2, nvlink |-> "full-mesh", mig |-> FALSE],
     small |-> [profile |-> "q", gpus |-> 1, nvlink |-> "full-mesh", mig |-> TRUE],
     bare  |-> [profile |-> "q", gpus |-> 2, nvlink |-> "none", mig |-> FALSE]]

BadPools == {[big |-> [Pools.big EXCEPT !.gpus = 0], small |-> Pools.small],
             [big |-> [Pools.big EXCEPT !.nvlink = "ring"], small |-> Pools.small],
             [big |-> [Pools.big EXCEPT !.profile = ""], small |-> Pools.small],
             [big |-> [Pools.big EXCEPT !.profile = "uncut", !.mig = TRUE], small |-> Pools.small]}

NodeLists(names, pools) ==
    LET node == [name : names, pool : pools]
    IN  UNION {[1..k -> node] : k \in 0..2}

RackOf(names, faults, domains, lists) ==
    [name : names, faultDomain : faults, nvlinkDomain : domains, nodes : lists]

TwoRacks(pools, first, second) == [pools : pools, racks : {<<a, b>> : a \in first, b \in second}]

\* Every rack spans NVLink under a name of its own, or not at all.
OwnDomains ==
    TwoRacks({Pools},
             RackOf({"r1"}, {"f1"}, {"", "d1"}, NodeLists({"a", "b"}, {"big", "small", "bare"})),
             RackOf({"r1", "r2", ""}, {"f1", "f2", ""}, {"", "d2"},
                    NodeLists({"b", "c"}, {"big", "bare", "none"})))
    \cup TwoRacks(BadPools,
             RackOf({"r1"}, {"f1"}, {"", "d1"}, NodeLists({"a"}, {"big", "small"})),
             RackOf({"r2"}, {"f1"}, {"", "d2"}, NodeLists({"b"}, {"small", "bare"})))

\* Both racks may name the same domain.
SharedDomain ==
    TwoRacks({Pools},
             RackOf({"r1"}, {"f1"}, {"", "d1"}, NodeLists({"a"}, {"big"})),
             RackOf({"r2"}, {"f1", "f2"}, {"", "d1"}, NodeLists({"b", "c"}, {"big", "small"})))

\* The first rack's domain may have the name of a node of the second.
NodeNamedDomain ==
    TwoRacks({Pools},
             RackOf({"r1"}, {"f1"}, {"", "c"}, NodeLists({"a"}, {"big"})),
             RackOf({"r2"}, {"f1", "f2"}, {"", "d2"}, NodeLists({"b", "c"}, {"big", "small"})))

ClashingDomains == SharedDomain \cup NodeNamedDomain
=============================================================================
