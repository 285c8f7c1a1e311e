-------------------------- MODULE MCApplyTopology --------------------------
(* Two topologies that share a node which changes shape, for TLC.             *)
EXTENDS ApplyTopology

T(name, ns, mig, chunks, groups) ==
    [name |-> name, nodes |-> ns, mig |-> mig, chunks |-> chunks, groups |-> groups]

Rack(r) == <<"rack", r>>

\* n2 is a whole-GPU node in the first and MIG-enabled in the second.
Plain == T("plain", {"n1", "n2"}, {}, 1, {Rack("r1")})
Mixed == T("mixed", {"n2", "n3"}, {"n2"}, 1, {Rack("r1"), Rack("r2")})
PlainAndMixed == {Plain, Mixed}

Env(g, k, v) == [gate |-> g, kai |-> k, volcano |-> v]
Complete     == {Env(TRUE, TRUE, TRUE)}
GateMayBeOff == {Env(g, TRUE, TRUE) : g \in BOOLEAN}
NoVolcano    == {Env(TRUE, TRUE, FALSE)}
NoKAI        == {Env(TRUE, FALSE, TRUE)}

RealNode  == {"real"}
RealSlice == {[node |-> "real", part |-> <<"gpu">>]}
Collision == {"n1"}
NoSlice   == {}
\* The slice fake-gpu-operator's plugin published for n2.
PluginSlice == {[node |-> "n2", part |-> <<"gpu">>]}
OnlyMixed == {Mixed}
=============================================================================
