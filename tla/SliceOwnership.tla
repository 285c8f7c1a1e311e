--------------------------- MODULE SliceOwnership ---------------------------
(***************************************************************************)
(* What a MIG-enabled node promises, said without counters, profiles or    *)
(* alignment: every memory slice of a GPU has at most one owner, and the   *)
(* GPU's SM slices are a pool that its owners draw from.  A holder takes   *)
(* its whole region and its share of the pool in one step, or waits.       *)
(***************************************************************************)
EXTENDS Integers

CONSTANTS
    Home,       \* GPU -> its memory slices
    Pool,       \* the SM slices of a GPU
    Holders,    \* who may own slices: [gpu, ...]
    Region(_),  \* the slices of its GPU a holder takes
    Share(_),   \* the part of the pool it takes
    Free        \* the owner of a slice that nobody holds

VARIABLES
    owner,      \* GPU -> slice -> its holder, or Free
    pool        \* GPU -> SM slices left

vars == <<owner, pool>>

Homes == DOMAIN Home

Init ==
    /\ owner = [g \in Homes |-> [i \in Home[g] |-> Free]]
    /\ pool = [g \in Homes |-> Pool]

\* h takes its region; every slice of it must be free.
Acquire(h) ==
    /\ \A i \in Region(h) : owner[h.gpu][i] = Free
    /\ pool[h.gpu] >= Share(h)
    /\ owner' = [owner EXCEPT ![h.gpu] =
                    [i \in Home[h.gpu] |-> IF i \in Region(h) THEN h ELSE @[i]]]
    /\ pool' = [pool EXCEPT ![h.gpu] = @ - Share(h)]

\* h gives all of its region back; it must own the whole of it.
Relinquish(h) ==
    /\ \A i \in Region(h) : owner[h.gpu][i] = h
    /\ owner' = [owner EXCEPT ![h.gpu] =
                    [i \in Home[h.gpu] |-> IF i \in Region(h) THEN Free ELSE @[i]]]
    /\ pool' = [pool EXCEPT ![h.gpu] = @ + Share(h)]

Next == \E h \in Holders : Acquire(h) \/ Relinquish(h)

Spec == Init /\ [][Next]_vars
=============================================================================
