---------------------------- MODULE MCConditions ----------------------------
(* Topologies, NVLink domains and assertions for TLC.                         *)
EXTENDS Conditions, MCFragmentation

\* A MIG node without a domain beside a whole-GPU node with one: profiles not in the
\* order of the geometry, which a topology file may do; or one that fills its slices
\* exactly.  Two MIG nodes of pools without a profile in common.  And no MIG node at all.
Mixed == { <<Whole, Mig(<<"3g", "2g">>)>>, <<Whole, Mig(<<"2g">>)>>,
           <<Mig(<<"7g">>), Mig(<<"3g">>)>>, <<Whole, Whole>> }
FirstOnly == <<"rack-a", "">>

\* Two MIG nodes of one pool in different domains.
BothMig == { <<Mig(<<"3g">>), Mig(<<"3g">>)>> }
Apart == <<"rack-a", "rack-b">>

Want(a, v) == [kind |-> "allocated", want |-> [x \in {a} |-> v]]
Bounds(l, h) == [kind |-> "fragmentation", atLeast |-> l, atMost |-> h]

Asked ==
    { Want("nvlinkDomain", "rack-a"), Bounds(0, 1), Bounds(1, 9),
      [kind |-> "allocated", want |-> [type |-> "mig", profile |-> "2g"]] }

AskedDomain == { Want("nvlinkDomain", "rack-a") }
=============================================================================
