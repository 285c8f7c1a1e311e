-------------------------- MODULE MCFragmentation --------------------------
(* Selections of the datacenter shape for TLC.                                *)
EXTENDS Fragmentation

P(n, m, s) == [name |-> n, mem |-> m, sm |-> s]
P1g == P("1g", 1, 1)   P2g == P("2g", 2, 2)
P3g == P("3g", 4, 3)   P4g == P("4g", 4, 4)   P7g == P("7g", 8, 7)

Shape == << P1g, P2g, P3g, P4g, P7g >>

Whole == [enabled |-> FALSE, profiles |-> <<>>]
Mig(names) == [enabled |-> TRUE, profiles |-> names]

\* One MIG node beside a whole-GPU node: profiles in the order of the geometry, and
\* in another order, which a topology file may use too; one that fills its slices
\* exactly; and no list, which is every profile.
OneMigNode == { <<Mig(<<"2g", "4g", "7g">>), Whole>>,
                <<Mig(<<"7g", "3g", "2g">>), Whole>>,
                <<Mig(<<"2g">>), Whole>> }

\* Two MIG nodes of the same pool.
TwoMigNodes == { <<Mig(<<"3g", "7g">>), Mig(<<"3g", "7g">>)>> }

\* A profile that is named twice.
Twice == { <<Mig(<<"3g", "3g">>), Whole>> }
=============================================================================
