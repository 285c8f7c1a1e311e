--------------------------- MODULE MCScenarioRun ---------------------------
(* A few scenarios for TLC.                                                   *)
EXTENDS ScenarioRun

W(n, r, s, t)  == [name |-> n, replicas |-> r, submitAt |-> s, retireAt |-> t]
F(n, t, hits)  == [name |-> n, at |-> t, hits |-> hits]
A(k, w, want)  == [kind |-> k, workload |-> w, want |-> want,
                   within |-> 0, settle |-> 0, budget |-> 0]
Within(a, t)   == [a EXCEPT !.within = t]
Settle(a, t)   == [a EXCEPT !.settle = t]
Budget(a, t)   == [a EXCEPT !.budget = t]

S(ws, fs, as) == [workloads |-> ws, faults |-> fs, assertions |-> as]

\* A workload retired while another takes its place, and judged both ways.
Churn == S(<<W("a", 1, 0, 2), W("b", 1, 2, 0)>>, <<>>,
           <<Within(A("running", "b", 1), 2), Settle(A("scheduled", "a", "none"), 1)>>)

\* Faults declared out of order, two of them at the offset of a submission.
Outage == S(<<W("a", 1, 0, 0), W("b", 1, 1, 0)>>,
            <<F("late", 2, {"a"}), F("first", 1, {"b"}), F("second", 1, {})>>,
            <<Settle(A("disrupted", "a", 0), 1)>>)

\* A fault, what it took, and the way back.
Recovery == S(<<W("a", 1, 0, 0)>>, <<F("f", 1, {"a"})>>,
              <<A("disrupted", "a", 1), Budget(A("rescheduled", "a", 0), 2)>>)

\* Refused by validation: retired before it is submitted.
Backwards == S(<<W("a", 1, 2, 1)>>, <<>>, <<A("running", "a", 0)>>)

Offered == {Churn, Outage, Recovery, Backwards}

\* "none", with neither mode.
Negative == {S(<<W("a", 1, 0, 0)>>, <<>>, <<A("scheduled", "a", "none")>>)}

\* A recovery budget behind an assertion that waits.
Behind == {S(<<W("a", 1, 0, 0)>>, <<F("x", 1, {"a"})>>,
             <<Within(A("running", "a", 0), 8), Budget(A("rescheduled", "a", 0), 1)>>)}

\* The same, or a retirement and an event after it.
BehindOrRetiring == Behind \cup {S(<<W("a", 1, 0, 1), W("b", 1, 2, 0)>>, <<>>, <<A("scheduled", "b", "all")>>)}
=============================================================================
