-------------------------- MODULE MCMigAllocation --------------------------
(* The datacenter shape of profiles.go (datacenterShape), for TLC.            *)
EXTENDS MigAllocation

P(n, m, s) == [name |-> n, mem |-> m, sm |-> s]

DatacenterShape ==
    << P("1g", 1, 1), P("1gx2", 2, 1), P("2g", 2, 2),
       P("3g", 4, 3), P("4g", 4, 4), P("7g", 8, 7) >>
=============================================================================
