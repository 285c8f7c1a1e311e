---------------------------- MODULE ScenarioRun ----------------------------
(***************************************************************************)
(* One scenario against the clock: what validation lets through            *)
(* (scenario/parse.go), the timeline of submissions, retirements and       *)
(* faults (runner/run.go), and the assertions, judged one after the other  *)
(* (runner/assert.go).                                                     *)
(*                                                                         *)
(* Time is a clock that ticks while the runner sleeps, and up to Lag times *)
(* around each of its steps, which is how long its calls may take.  The    *)
(* cluster is reduced, per workload, to how many replicas are bound, how   *)
(* many run, and how many report Running although a fault took them; its   *)
(* controllers are external and never obliged to act.  FaultRecovery looks *)
(* at the faults in detail; here a fault is one step.  A signal may come   *)
(* at any time: it cancels the context that every call and wait is given.  *)
(*                                                                         *)
(* A scenario is [workloads, faults, assertions], sequences of             *)
(*   [name, replicas, submitAt, retireAt]   (retireAt 0: never),           *)
(*   [name, at, hits]   (the workloads whose running replicas it takes),   *)
(*   [kind, workload, want, within, settle, budget]   (0: not set).        *)
(* Four of the eight conditions are modelled; the others are read off the  *)
(* cluster in the same two modes.                                          *)
(***************************************************************************)
EXTENDS Integers, Sequences, SequencesExt, FiniteSets

CONSTANTS
    Scenarios,      \* the scenario files to consider
    DefaultWait,    \* runner.defaultWait
    Poll,           \* the pause between two checks, 2 s
    RetireWait,     \* how long Retire waits for pods to go, 60 s
    Lag,            \* bound on the ticks around one step of the runner
    MaxErrors,      \* bound on the reads that fail
    MaxTime         \* bound on the clock, beyond what any run needs (EveryRunEnds)

ASSUME ClockAssumption ==
    /\ {DefaultWait, Poll, RetireWait} \subseteq Nat \ {0}
    /\ {Lag, MaxErrors, MaxTime} \subseteq Nat

ASSUME ScenariosAssumption ==
    \A s \in Scenarios :
        /\ s.workloads \in Seq([name : STRING, replicas : Int, submitAt : Int, retireAt : Int])
        /\ s.faults \in Seq([name : STRING, at : Int, hits : SUBSET STRING])
        /\ Len(s.assertions) \in Nat /\ DOMAIN s.assertions = 1..Len(s.assertions)
        /\ \A i \in DOMAIN s.assertions :
               {s.assertions[i].within, s.assertions[i].settle, s.assertions[i].budget} \subseteq Nat

-----------------------------------------------------------------------------
(* Validation                                                              *)

WorkloadNames(s) == {s.workloads[i].name : i \in DOMAIN s.workloads}

ValidWorkload(w) ==
    /\ w.replicas > 0
    /\ w.submitAt >= 0
    /\ w.retireAt # 0 => w.retireAt > w.submitAt

ValidFault(f) == f.at > 0

\* Both modes at once, a fault assertion without a fault, and a polled "none" are
\* refused; "none" with neither mode, and a count of 0, are not.
ValidAssertion(a, s) ==
    /\ a.workload \in WorkloadNames(s)
    /\ ~(a.within > 0 /\ a.settle > 0)
    /\ a.kind \in {"disrupted", "rescheduled"} => s.faults # <<>>
    /\ a.kind = "scheduled" /\ a.want = "none" => a.within = 0

Validate(s) ==
    /\ s.workloads # <<>> /\ s.assertions # <<>>
    /\ \A i, j \in DOMAIN s.workloads :
           s.workloads[i].name = s.workloads[j].name => i = j
    /\ \A i \in DOMAIN s.workloads : ValidWorkload(s.workloads[i])
    /\ \A i \in DOMAIN s.faults : ValidFault(s.faults[i])
    /\ \A i, j \in DOMAIN s.faults : s.faults[i].name = s.faults[j].name => i = j
    /\ \A i \in DOMAIN s.assertions : ValidAssertion(s.assertions[i], s)

-----------------------------------------------------------------------------
(* The timeline                                                            *)

\* The places at which runTimeline collects the events: for each workload that of its
\* submission and of its retirement, if there is one; then those of the faults.
Places(s) ==
    {<<i, 1>> : i \in DOMAIN s.workloads}
    \cup {<<i, 2>> : i \in {j \in DOMAIN s.workloads : s.workloads[j].retireAt > 0}}
    \cup {<<Len(s.workloads) + 1, j>> : j \in DOMAIN s.faults}

\* The event collected at place k.
Declared(s, k) ==
    IF k[1] = Len(s.workloads) + 1
    THEN [kind |-> "fault", at |-> s.faults[k[2]].at, name |-> s.faults[k[2]].name,
          hits |-> s.faults[k[2]].hits]
    ELSE LET w == s.workloads[k[1]]
         IN  IF k[2] = 1
             THEN [kind |-> "submit", at |-> w.submitAt, name |-> w.name, hits |-> {}]
             ELSE [kind |-> "retire", at |-> w.retireAt, name |-> w.name, hits |-> {}]

\* The stable sort by offset: an event comes after those of smaller offset, and after
\* those of the same offset that were collected earlier.  Slip: the faults of an offset
\* go first.
EarlierFaultsFirst(s, j, k) ==
    \/ Declared(s, j).at < Declared(s, k).at
    \/ /\ Declared(s, j).at = Declared(s, k).at
       /\ j[1] > k[1] \/ (j[1] = k[1] /\ j[2] < k[2])
Earlier(s, j, k) ==
    \/ Declared(s, j).at < Declared(s, k).at
    \/ /\ Declared(s, j).at = Declared(s, k).at
       /\ j[1] < k[1] \/ (j[1] = k[1] /\ j[2] < k[2])
Rank(s, k) == Cardinality({j \in Places(s) : Earlier(s, j, k)}) + 1
Order(s) ==
    [n \in 1..Cardinality(Places(s)) |-> CHOOSE k \in Places(s) : Rank(s, k) = n]
Events ==
    [s \in Scenarios |-> [n \in DOMAIN Order(s) |-> Declared(s, Order(s)[n])]]

VARIABLES
    scenario,   \* the scenario that runs
    now,        \* the clock; the timeline starts at 0
    lag,        \* ticks since the runner could have moved
    wake,       \* the runner sleeps until then
    phase,      \* what it does next
    next,       \* index of the next event, then of the next assertion
    deadline,   \* of the retirement or of the assertion in progress
    started,    \* when the assertion in progress was begun
    read,       \* the last check: [ok, at]
    verdicts,   \* the results: [passed, settled, cut, started, readAt]
    faults,     \* the fault records: [name, at, disrupted], and for the properties
                \* found, the workloads there were when it fired
    errors,     \* calls that failed
    cancelled,  \* a signal has come, and the context is cancelled
    alive,      \* workloads whose Deployment or Job exists
    pods        \* workload -> [bound, fresh, corpses]

run     == <<scenario, next, deadline, started, read, verdicts, faults>>
cluster == <<alive, pods>>
outside == <<errors, cancelled>>
vars    == <<run, cluster, now, lag, wake, phase, outside>>

Names == WorkloadNames(scenario)
Replicas(w) == (CHOOSE r \in Range(scenario.workloads) : r.name = w).replicas
Event == Events[scenario][next]
Assertion == scenario.assertions[next]
Pods(w) == pods[w].bound + pods[w].fresh + pods[w].corpses
Awake == now >= wake

Init ==
    /\ scenario \in {s \in Scenarios : Validate(s)}
    /\ now = 0 /\ lag = 0 /\ wake = Events[scenario][1].at
    /\ phase = "timeline" /\ next = 1
    /\ deadline = 0 /\ started = 0
    /\ read = [ok |-> FALSE, at |-> 0]
    /\ verdicts = <<>> /\ faults = <<>> /\ errors = 0 /\ cancelled = FALSE
    /\ alive = {}
    /\ pods = [w \in Names |-> [bound |-> 0, fresh |-> 0, corpses |-> 0]]

\* Time passes while the runner sleeps, or while a step of it takes its time.  A signal
\* wakes it.
Tick ==
    /\ phase \notin {"done", "error"}
    /\ now < MaxTime
    /\ IF Awake \/ cancelled THEN lag < Lag /\ lag' = lag + 1 ELSE lag' = lag
    /\ now' = now + 1
    /\ UNCHANGED <<run, cluster, wake, phase, outside>>

\* SIGINT or SIGTERM (signal.NotifyContext).
Signal ==
    /\ phase \notin {"done", "error"}
    /\ ~cancelled /\ cancelled' = TRUE
    /\ UNCHANGED <<run, cluster, now, lag, wake, phase, errors>>

-----------------------------------------------------------------------------
(* The cluster (external)                                                  *)

\* A replica is created and bound when one is missing; the controllers do not wait for
\* a disrupted one to be gone.
Place(w) ==
    /\ w \in alive
    /\ pods[w].bound + pods[w].fresh < Replicas(w)
    /\ pods' = [pods EXCEPT ![w].bound = @ + 1]
    /\ UNCHANGED <<run, alive, now, lag, wake, phase, outside>>

Start(w) ==
    /\ pods[w].bound > 0
    /\ pods' = [pods EXCEPT ![w].bound = @ - 1, ![w].fresh = @ + 1]
    /\ UNCHANGED <<run, alive, now, lag, wake, phase, outside>>

\* A disrupted replica is evicted or collected at last.
Evict(w) ==
    /\ pods[w].corpses > 0
    /\ pods' = [pods EXCEPT ![w].corpses = @ - 1]
    /\ UNCHANGED <<run, alive, now, lag, wake, phase, outside>>

\* The garbage collector removes the pods of a retired workload.
Collect(w) ==
    /\ w \notin alive
    /\ Pods(w) > 0
    /\ pods' = [pods EXCEPT ![w] = [bound |-> 0, fresh |-> 0, corpses |-> 0]]
    /\ UNCHANGED <<run, alive, now, lag, wake, phase, outside>>

-----------------------------------------------------------------------------
(* runTimeline                                                             *)

\* Sleep until the offset of event k, if there is one and it is still to come.
SleepUntilEvent(k) ==
    /\ wake' = IF k \in DOMAIN Events[scenario] THEN Events[scenario][k].at ELSE now
    /\ lag' = 0

\* It is the turn of an event, whose calls are made under a context that is not cancelled.
Due(kind) ==
    /\ phase = "timeline" /\ Awake /\ ~cancelled
    /\ next \in DOMAIN Events[scenario]
    /\ Event.kind = kind

Submit ==
    /\ Due("submit")
    /\ alive' = alive \cup {Event.name}
    /\ next' = next + 1
    /\ SleepUntilEvent(next')
    /\ UNCHANGED <<scenario, deadline, started, read, verdicts, faults, pods, now, phase, outside>>

\* Retire: delete the objects, then wait for the pods.
Retire ==
    /\ Due("retire")
    /\ alive' = alive \ {Event.name}
    /\ deadline' = now + RetireWait
    /\ phase' = "retiring"
    /\ lag' = 0
    /\ UNCHANGED <<scenario, next, started, read, verdicts, faults, pods, now, wake, outside>>

\* Slip: no deadline.
RetirePollForever ==
    /\ phase = "retiring" /\ Awake /\ ~cancelled
    /\ IF Pods(Event.name) = 0
       THEN /\ phase' = "timeline"
            /\ next' = next + 1
            /\ SleepUntilEvent(next')
       ELSE wake' = now + 1 /\ lag' = 0 /\ UNCHANGED <<phase, next>>
    /\ UNCHANGED <<scenario, deadline, started, read, verdicts, faults, cluster, now, outside>>

\* One round of Retire's loop: done when no pod is left, and without a word when
\* the deadline has passed.
RetirePoll ==
    /\ phase = "retiring" /\ Awake /\ ~cancelled
    /\ IF Pods(Event.name) = 0 \/ now > deadline
       THEN /\ phase' = "timeline"
            /\ next' = next + 1
            /\ SleepUntilEvent(next')
       ELSE wake' = now + 1 /\ lag' = 0 /\ UNCHANGED <<phase, next>>
    /\ UNCHANGED <<scenario, deadline, started, read, verdicts, faults, cluster, now, outside>>

\* fire: the running replicas of the workloads it hits are recorded.
FireFault ==
    /\ Due("fault")
    /\ faults' = Append(faults, [name |-> Event.name, at |-> now, found |-> alive,
           disrupted |-> [w \in Names |-> IF w \in Event.hits THEN pods[w].fresh ELSE 0]])
    /\ pods' = [w \in Names |-> IF w \in Event.hits
                                THEN [pods[w] EXCEPT !.fresh = 0, !.corpses = @ + pods[w].fresh]
                                ELSE pods[w]]
    /\ next' = next + 1
    /\ SleepUntilEvent(next')
    /\ UNCHANGED <<scenario, deadline, started, read, verdicts, alive, now, phase, outside>>

EndTimeline ==
    /\ phase = "timeline"
    /\ next = Len(Events[scenario]) + 1
    /\ phase' = "evaluate" /\ next' = 1
    /\ lag' = 0
    /\ UNCHANGED <<scenario, deadline, started, read, verdicts, faults, cluster, now, wake, outside>>

\* A call fails: the run has no verdict.
Abort ==
    /\ phase \in {"timeline", "retiring"} /\ Awake
    /\ next \in DOMAIN Events[scenario]
    /\ errors < MaxErrors /\ errors' = errors + 1
    /\ phase' = "error"
    /\ UNCHANGED <<run, cluster, now, lag, wake, cancelled>>

\* After a signal the wait for the next event or for the pods returns, and a call fails.
Interrupted ==
    /\ phase \in {"timeline", "retiring"} /\ cancelled
    /\ next \in DOMAIN Events[scenario]
    /\ phase' = "error"
    /\ UNCHANGED <<run, cluster, now, lag, wake, outside>>

-----------------------------------------------------------------------------
(* evaluate                                                                *)

\* disruptedFor: the casualties of all faults.
TotalDisrupted(w) == FoldSeq(LAMBDA f, n : n + f.disrupted[w], 0, faults)

\* ExpectedScheduled
Expected(a) == CASE a.want = "all"  -> Replicas(a.workload)
                 [] a.want = "none" -> 0
                 [] OTHER           -> a.want

\* check
Holds(a) ==
    LET p == pods[a.workload]
    IN  CASE a.kind = "scheduled"   -> Pods(a.workload) = Expected(a)
          [] a.kind = "running"     -> p.fresh + p.corpses = a.want
          [] a.kind = "disrupted"   -> faults # <<>> /\ TotalDisrupted(a.workload) = a.want
          [] a.kind = "rescheduled" -> /\ TotalDisrupted(a.workload) > 0
                                       /\ p.fresh >= Replicas(a.workload)

\* A budget of recovery runs from the last fault, whichever workload it hit.
DeadlineOf(a) ==
    IF a.kind = "rescheduled" /\ faults # <<>>
    THEN faults[Len(faults)].at + a.budget
    ELSE now + IF a.within > 0 THEN a.within ELSE DefaultWait

\* evaluate, up to its first wait or its first check.
BeginAssertion ==
    /\ phase = "evaluate"
    /\ next \in DOMAIN scenario.assertions
    /\ started' = now
    /\ lag' = 0
    /\ IF Assertion.settle > 0
       THEN /\ phase' = "settle" /\ wake' = now + Assertion.settle
            /\ UNCHANGED deadline
       ELSE /\ phase' = "check" /\ wake' = now
            /\ deadline' = DeadlineOf(Assertion)
    /\ UNCHANGED <<scenario, next, read, verdicts, faults, cluster, now, outside>>

Conclude(passed, at, cut) ==
    /\ verdicts' = Append(verdicts, [passed |-> passed, settled |-> Assertion.settle > 0,
                                     cut |-> cut, started |-> started, readAt |-> at])
    /\ phase' = "evaluate"
    /\ next' = next + 1

\* A check that reads the cluster may fail to, which counts as a no; after a signal it does.
Reads(a, ok) ==
    \/ /\ cancelled => a.kind = "disrupted"
       /\ ok = Holds(a) /\ UNCHANGED errors
    \/ /\ a.kind # "disrupted" /\ ok = FALSE
       /\ IF cancelled THEN UNCHANGED errors ELSE errors < MaxErrors /\ errors' = errors + 1

\* settle: wait the whole period, then check once.
CheckSettled ==
    /\ phase = "settle" /\ Awake
    /\ \E ok \in BOOLEAN : Reads(Assertion, ok) /\ Conclude(ok, now, FALSE)
    /\ lag' = 0
    /\ UNCHANGED <<scenario, deadline, started, read, faults, cluster, now, wake, cancelled>>

\* A signal ends the wait, even one that is over: a failed verdict, without a check.
CutSettling ==
    /\ phase = "settle" /\ cancelled
    /\ Conclude(FALSE, now, TRUE)
    /\ lag' = 0
    /\ UNCHANGED <<scenario, deadline, started, read, faults, cluster, now, wake, outside>>

\* Slip: no check once the deadline has passed.
CheckInTime ==
    /\ phase = "check" \/ (phase = "pause" /\ Awake)
    /\ \E ok \in BOOLEAN : /\ Reads(Assertion, ok)
                          /\ read' = [ok |-> ok /\ now <= deadline, at |-> now]
    /\ phase' = "decide"
    /\ lag' = 0
    /\ UNCHANGED <<scenario, next, deadline, started, verdicts, faults, cluster, now, wake,
                   cancelled>>

\* within: check, at first and after every pause ...
Check ==
    /\ phase = "check" \/ (phase = "pause" /\ Awake)
    /\ \E ok \in BOOLEAN : Reads(Assertion, ok) /\ read' = [ok |-> ok, at |-> now]
    /\ phase' = "decide"
    /\ lag' = 0
    /\ UNCHANGED <<scenario, next, deadline, started, verdicts, faults, cluster, now, wake,
                   cancelled>>

\* Slip: one check, and no second one.
DecideAtOnce ==
    /\ phase = "decide"
    /\ Conclude(read.ok, read.at, FALSE)
    /\ lag' = 0
    /\ UNCHANGED <<scenario, deadline, started, read, faults, cluster, now, wake, outside>>

\* Slip: a result for every check.
DecideEachTime ==
    /\ phase = "decide"
    /\ IF read.ok \/ now > deadline
       THEN Conclude(read.ok, read.at, FALSE) /\ UNCHANGED wake
       ELSE /\ phase' = "pause" /\ wake' = now + Poll
            /\ verdicts' = Append(verdicts, [passed |-> FALSE, settled |-> FALSE, cut |-> FALSE,
                                             started |-> started, readAt |-> read.at])
            /\ UNCHANGED next
    /\ lag' = 0
    /\ UNCHANGED <<scenario, deadline, started, read, faults, cluster, now, outside>>

\* ... and conclude when it held or the deadline has passed, else sleep.
Decide ==
    /\ phase = "decide"
    /\ IF read.ok \/ now > deadline
       THEN Conclude(read.ok, read.at, FALSE) /\ UNCHANGED wake
       ELSE phase' = "pause" /\ wake' = now + Poll /\ UNCHANGED <<verdicts, next>>
    /\ lag' = 0
    /\ UNCHANGED <<scenario, deadline, started, read, faults, cluster, now, outside>>

\* A signal ends the pause: the last check, which did not hold, is the verdict.
CutPolling ==
    /\ phase = "pause" /\ cancelled
    /\ Conclude(read.ok, read.at, TRUE)
    /\ lag' = 0
    /\ UNCHANGED <<scenario, deadline, started, read, faults, cluster, now, wake, outside>>

Finish ==
    /\ phase = "evaluate"
    /\ next = Len(scenario.assertions) + 1
    /\ phase' = "done"
    /\ UNCHANGED <<run, cluster, now, lag, wake, outside>>

-----------------------------------------------------------------------------

Cluster == \E w \in Names : Place(w) \/ Start(w) \/ Evict(w) \/ Collect(w)

Runner == \/ Submit \/ Retire \/ RetirePoll \/ FireFault \/ EndTimeline \/ Interrupted
          \/ BeginAssertion \/ CheckSettled \/ CutSettling \/ Check \/ Decide \/ CutPolling
          \/ Finish

Next == Tick \/ Signal \/ Cluster \/ Runner \/ Abort

\* The clock goes on and the process is scheduled; the cluster owes nothing.
Spec == Init /\ [][Next]_vars /\ WF_vars(Tick) /\ WF_vars(Runner)

-----------------------------------------------------------------------------
(* Properties *)

TypeOK ==
    /\ now \in 0..MaxTime /\ lag \in 0..Lag /\ wake \in Nat /\ deadline \in Nat
    /\ phase \in {"timeline", "retiring", "evaluate", "settle", "check", "pause", "decide",
                  "done", "error"}
    /\ next \in 1..(Len(Events[scenario]) + Len(scenario.assertions) + 1)
    /\ Len(verdicts) <= Len(scenario.assertions)
    /\ \A i \in DOMAIN verdicts : verdicts[i] \in
           [passed : BOOLEAN, settled : BOOLEAN, cut : BOOLEAN, started : Nat, readAt : Nat]
    /\ Len(faults) <= Len(scenario.faults)
    /\ alive \subseteq Names
    /\ pods \in [Names -> [bound : Nat, fresh : Nat, corpses : Nat]]
    /\ cancelled \in BOOLEAN

\* The workloads a scenario's author expects to exist at offset t, after what happens to
\* workloads at t itself.
ExistAt(t) == {r.name : r \in {w \in Range(scenario.workloads) :
                                   w.submitAt <= t /\ (w.retireAt = 0 \/ t < w.retireAt)}}

\* The timeline as a scenario's author reads it ("a scenario can rely on the order it
\* wrote them in").  The records are of different faults, in the order of their offsets
\* and then of their declaration; each fired no earlier than its offset, when exactly the
\* workloads existed that are submitted and not yet retired at this offset, and took
\* replicas of no workload it does not hit or that was still to be submitted.  When
\* the assertions are judged, every fault is on record, and a workload exists exactly when it is
\* not to be retired.
TimelineHappened ==
    /\ \A k \in DOMAIN faults : \E f \in Range(scenario.faults) :
           /\ f.name = faults[k].name
           /\ f.at <= faults[k].at
           /\ faults[k].found = ExistAt(f.at)
           /\ \A w \in Range(scenario.workloads) :
                  faults[k].disrupted[w.name] > 0 => w.name \in f.hits /\ w.submitAt <= f.at
    /\ \A k, l \in DOMAIN faults : \A i, j \in DOMAIN scenario.faults :
           LET f == scenario.faults[i]
               g == scenario.faults[j]
           IN  k < l /\ f.name = faults[k].name /\ g.name = faults[l].name
                   => f.at < g.at \/ (f.at = g.at /\ i < j)
    /\ phase \in {"evaluate", "settle", "check", "pause", "decide", "done"} =>
           /\ Len(faults) = Len(scenario.faults)
           /\ alive = {w.name : w \in {r \in Range(scenario.workloads) : r.retireAt = 0}}

\* "settle waits out the whole period and then checks once"; a failed within has
\* used up its whole budget: its last read was no earlier than one lag before the
\* deadline had passed.  Only a signal cuts this short, and what it cuts short fails.
VerdictsTakeTheirTime ==
    \A i \in DOMAIN verdicts :
        LET a == scenario.assertions[i]
            v == verdicts[i]
        IN  /\ v.settled => v.cut \/ v.readAt >= v.started + a.settle
            /\ ~v.settled /\ ~v.passed /\ a.kind # "rescheduled" =>
                   \/ v.cut
                   \/ v.readAt + Lag > v.started + IF a.within > 0 THEN a.within ELSE DefaultWait
            /\ v.cut => cancelled /\ ~v.passed

\* A condition that is true from some point of the polling on is found to be: an
\* assertion never fails because the runner looked once and did not look again (unless
\* a signal comes, or a call fails).
Polling(i)  == phase \in {"check", "pause"} /\ next = i /\ errors = MaxErrors
HoldsNow(i) == i \in DOMAIN scenario.assertions /\ Holds(scenario.assertions[i])
Passed(i)   == i \in DOMAIN verdicts /\ verdicts[i].passed
TruthIsSeen ==
    \A i \in UNION {DOMAIN s.assertions : s \in Scenarios} :
        [](Polling(i) /\ [](HoldsNow(i) /\ ~cancelled) => <>Passed(i))

\* Every wait of the runner has an end, whatever the cluster does and whether or not a
\* signal comes: a run comes to its verdicts or an error.
EveryRunEnds == <>(phase \in {"done", "error"})

\* evaluate: "a condition asserting that nothing happened needs the scheduler to
\* have been given a fair chance to act"; none passes in the instant it is begun.
NegativesAreGivenTime ==
    \A i \in DOMAIN verdicts :
        LET a == scenario.assertions[i]
        IN  a.kind = "scheduled" /\ Expected(a) = 0 /\ verdicts[i].passed
                => verdicts[i].readAt > verdicts[i].started

\* RescheduledWithin: "back to full strength within this long of the fault".  A
\* pass was read within the budget of some fault that hit the workload, give or
\* take one poll and its lags.
RecoveredWithinBudget ==
    \A i \in DOMAIN verdicts :
        LET a == scenario.assertions[i]
        IN  a.kind = "rescheduled" /\ verdicts[i].passed =>
                \E k \in DOMAIN faults :
                    /\ faults[k].disrupted[a.workload] > 0
                    /\ verdicts[i].readAt <= faults[k].at + a.budget + Poll + 2 * Lag

\* Retire: "Wait for the pods to go, or the partitions they hold would still be
\* allocated when the next event fires".
RetirementReleases ==
    [][phase = "retiring" /\ phase' = "timeline" => Pods(Event.name) = 0]_vars
=============================================================================
