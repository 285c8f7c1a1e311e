------------------------- MODULE ScenarioRun_proofs -------------------------
(***************************************************************************)
(* Proofs about ScenarioRun for every scenario, every setting of the       *)
(* runner's periods, and every bound on how long its calls take: how much  *)
(* time a verdict is based on, and that the timeline of a scenario has     *)
(* happened as declared by the time it is judged.                          *)
(***************************************************************************)
EXTENDS ScenarioRun, SequenceTheorems, DataTheorems, TLAPS

Judging == {"evaluate", "settle", "check", "pause", "decide"}
VerdictType ==
    [passed : BOOLEAN, settled : BOOLEAN, cut : BOOLEAN, started : Nat, readAt : Nat]

\* The budget of an assertion that is polled for.
Wait(a) == IF a.within > 0 THEN a.within ELSE DefaultWait

\* The clock goes on, and no step takes more than Lag of it.
ClockTyped ==
    /\ scenario \in Scenarios
    /\ now \in Nat /\ lag \in 0..Lag
    /\ verdicts \in Seq(VerdictType)
    /\ cancelled \in BOOLEAN

\* One assertion after the other: there are no verdicts before the first, and then the
\* assertion in hand is the first without one.
InTurn ==
    /\ phase \in {"timeline", "retiring"} => verdicts = <<>>
    /\ phase \in Judging => next = Len(verdicts) + 1
    /\ phase \in Judging \ {"evaluate"} =>
           next \in DOMAIN scenario.assertions /\ started \in Nat

\* Who settles sleeps for the whole period.
SleepsItOut ==
    phase = "settle" => Assertion.settle > 0 /\ wake = started + Assertion.settle

\* Who polls has the whole budget, and decides at most a lag after the read; pauses only
\* after a check that did not hold.
PollsItOut ==
    /\ phase \in {"check", "pause", "decide"} =>
           /\ Assertion.settle = 0 /\ wake \in Nat
           /\ Assertion.kind # "rescheduled" => deadline = started + Wait(Assertion)
    /\ phase \in {"check", "decide"} => wake <= now
    /\ phase \in {"pause", "decide"} => read.ok \in BOOLEAN /\ read.at \in Nat
    /\ phase = "pause" => ~read.ok
    /\ phase = "decide" => now <= read.at + lag

\* The inductive invariant.
RunInv ==
    /\ ClockTyped
    /\ InTurn
    /\ SleepsItOut
    /\ PollsItOut
    /\ VerdictsTakeTheirTime

\* What the invariant is about, beside the clock.
judged == <<scenario, phase, next, deadline, started, read, verdicts, wake>>

-----------------------------------------------------------------------------

LEMMA InitInv == Init => RunInv
<1>. SUFFICES ASSUME Init
              PROVE  RunInv
  OBVIOUS
<1>1. /\ scenario \in Scenarios /\ now = 0 /\ lag = 0 /\ phase = "timeline" /\ verdicts = <<>>
      /\ cancelled = FALSE
  BY DEF Init
<1>2. verdicts \in Seq(VerdictType) /\ DOMAIN verdicts = {}
  BY <1>1, EmptySeq
<1>3. ClockTyped
  <2>1. now \in Nat /\ lag \in 0..Lag
    BY <1>1, ClockAssumption
  <2>2. cancelled \in BOOLEAN
    BY <1>1
  <2>. QED
    BY ONLY <1>1, <1>2, <2>1, <2>2, Zenon DEF ClockTyped
<1>4. InTurn /\ SleepsItOut /\ PollsItOut
  BY <1>1 DEF InTurn, SleepsItOut, PollsItOut, Judging
<1>5. VerdictsTakeTheirTime
  BY <1>2 DEF VerdictsTakeTheirTime
<1>. QED
  BY <1>3, <1>4, <1>5 DEF RunInv

\* Time passes: only for a decision that is due it matters how much.
LEMMA TickKeepsInv ==
    ASSUME RunInv, Tick
    PROVE  RunInv'
<1>1. /\ UNCHANGED judged /\ UNCHANGED cancelled /\ now \in Nat /\ now' = now + 1
      /\ lag' \in {lag, lag + 1} /\ lag' \in 0..Lag /\ (Awake => lag' = lag + 1)
      /\ lag \in 0..Lag /\ Lag \in Nat
  BY ClockAssumption DEF Tick, run, outside, judged, RunInv, ClockTyped
<1>2. ClockTyped'
  BY <1>1 DEF RunInv, ClockTyped, judged
<1>3. PollsItOut'
  <2>1. phase = "decide" => Awake
    BY <1>1 DEF RunInv, PollsItOut, Awake
  <2>. QED
    BY <1>1, <2>1 DEF RunInv, PollsItOut, judged, Assertion, Wait
<1>. QED
  BY <1>1, <1>2, <1>3 DEF RunInv, InTurn, SleepsItOut, VerdictsTakeTheirTime, judged, Assertion

\* What happens in the cluster is no matter of time, nor is the arrival of a signal.
LEMMA ClusterKeepsInv ==
    ASSUME RunInv, UNCHANGED <<judged, now, lag>>, cancelled' \in {cancelled, TRUE}
    PROVE  RunInv'
BY DEF RunInv, ClockTyped, InTurn, SleepsItOut, PollsItOut, VerdictsTakeTheirTime, judged,
       Assertion, Wait

\* The timeline ends with the first assertion, and the list after the last.
LEMMA TimelineKeepsInv ==
    ASSUME RunInv,
           \/ Submit \/ Retire \/ RetirePoll \/ FireFault \/ EndTimeline \/ Abort
           \/ Interrupted \/ Finish
    PROVE  RunInv'
<1>1. /\ cancelled' = cancelled
      /\ scenario' = scenario /\ verdicts' = verdicts /\ now' = now /\ lag' \in {0, lag}
      /\ \/ phase \in {"timeline", "retiring"} /\ phase' \in {"timeline", "retiring", "error"}
         \/ phase = "timeline" /\ phase' = "evaluate" /\ next' = 1
         \/ phase' = "done"
  BY DEF Submit, Retire, RetirePoll, FireFault, EndTimeline, Abort, Interrupted, Finish, Due,
         SleepUntilEvent, run, outside
<1>2. ClockTyped'
  BY <1>1, ClockAssumption DEF RunInv, ClockTyped
<1>3. InTurn'
  <2>1. Len(<<>>) = 0
    BY EmptySeq
  <2>. QED
    BY <1>1, <2>1 DEF RunInv, InTurn, Judging
<1>. QED
  BY <1>1, <1>2, <1>3 DEF RunInv, SleepsItOut, PollsItOut, VerdictsTakeTheirTime

LEMMA BeginKeepsInv ==
    ASSUME RunInv, BeginAssertion
    PROVE  RunInv'
<1>1. /\ phase = "evaluate" /\ next \in DOMAIN scenario.assertions
      /\ started' = now /\ lag' = 0
      /\ UNCHANGED <<scenario, next, read, verdicts, now, cancelled>>
      /\ now \in Nat /\ Assertion' = Assertion
  BY DEF BeginAssertion, outside, RunInv, ClockTyped, Assertion
<1>2. Assertion.settle \in Nat /\ Assertion.within \in Nat /\ DefaultWait \in Nat
  BY <1>1, ScenariosAssumption, ClockAssumption DEF RunInv, ClockTyped, Assertion
<1>3. \/ phase' = "settle" /\ Assertion.settle > 0 /\ wake' = now + Assertion.settle
      \/ /\ phase' = "check" /\ Assertion.settle = 0 /\ wake' = now
         /\ Assertion.kind # "rescheduled" => deadline' = now + Wait(Assertion)
  BY <1>2 DEF BeginAssertion, DeadlineOf, Wait
<1>4. ClockTyped'
  BY <1>1, ClockAssumption DEF RunInv, ClockTyped
<1>5. InTurn'
  BY <1>1, <1>3 DEF RunInv, InTurn, Judging
<1>6. SleepsItOut' /\ PollsItOut'
  BY <1>1, <1>3 DEF SleepsItOut, PollsItOut, Wait
<1>. QED
  BY <1>1, <1>4, <1>5, <1>6 DEF RunInv, VerdictsTakeTheirTime

\* What VerdictsTakeTheirTime says of a verdict.
TookItsTime(v, a) ==
    /\ v.settled => v.cut \/ v.readAt >= v.started + a.settle
    /\ ~v.settled /\ ~v.passed /\ a.kind # "rescheduled"
           => v.cut \/ v.readAt + Lag > v.started + Wait(a)
    /\ v.cut => cancelled /\ ~v.passed

\* A verdict is given on the assertion in hand, and has taken its time.
LEMMA ConcludeKeepsInv ==
    ASSUME RunInv, phase \in {"settle", "pause", "decide"},
           NEW passed \in BOOLEAN, NEW at \in Nat, NEW cut \in BOOLEAN,
           Conclude(passed, at, cut), UNCHANGED <<scenario, now, cancelled>>, lag' = 0,
           Assertion.settle > 0 => cut \/ at >= started + Assertion.settle,
           ~(Assertion.settle > 0) /\ ~passed /\ Assertion.kind # "rescheduled"
               => cut \/ at + Lag > started + Wait(Assertion),
           cut => cancelled /\ ~passed
    PROVE  RunInv'
<1>. DEFINE v == [passed |-> passed, settled |-> Assertion.settle > 0, cut |-> cut,
                  started |-> started, readAt |-> at]
<1>1. /\ started \in Nat /\ verdicts \in Seq(VerdictType) /\ next = Len(verdicts) + 1
      /\ phase' = "evaluate" /\ next' = next + 1 /\ verdicts' = Append(verdicts, v)
  BY DEF RunInv, ClockTyped, InTurn, Judging, Conclude
<1>2. v \in VerdictType
  BY <1>1 DEF VerdictType
<1>3. /\ verdicts' \in Seq(VerdictType) /\ Len(verdicts') = Len(verdicts) + 1
      /\ Len(verdicts) \in Nat
      /\ \A i \in 1..Len(verdicts) : verdicts'[i] = verdicts[i]
      /\ verdicts'[next] = v
  BY <1>1, <1>2, AppendProperties
<1>4. /\ DOMAIN verdicts = 1..Len(verdicts)
      /\ DOMAIN verdicts' = 1..Len(verdicts) \cup {next}
  BY <1>1, <1>3
<1>5. ClockTyped'
  BY <1>3, ClockAssumption DEF RunInv, ClockTyped
<1>6. InTurn'
  BY <1>1, <1>3 DEF InTurn, Judging
<1>7. VerdictsTakeTheirTime'
  <2>1. ASSUME NEW i \in DOMAIN verdicts'
        PROVE  TookItsTime(verdicts'[i], scenario.assertions[i])
    <3>1. CASE i \in DOMAIN verdicts
      <4>1. verdicts'[i] = verdicts[i]
        BY <1>3, <1>4, <3>1
      <4>. QED
        BY <3>1, <4>1 DEF RunInv, VerdictsTakeTheirTime, TookItsTime, Wait
    <3>2. CASE i = next
      <4>1. /\ v.settled <=> Assertion.settle > 0
            /\ v.passed = passed /\ v.started = started /\ v.readAt = at /\ v.cut = cut
        OBVIOUS
      <4>2. verdicts'[i] = v /\ scenario.assertions[i] = Assertion
        BY <1>3, <3>2 DEF Assertion
      <4>3. TookItsTime(v, Assertion)
        BY <4>1 DEF TookItsTime
      <4>. HIDE DEF v
      <4>. QED
        BY <4>2, <4>3
    <3>. QED
      BY <1>4, <3>1, <3>2
  <2>. QED
    BY <2>1 DEF VerdictsTakeTheirTime, TookItsTime, Wait
<1>. QED
  BY <1>1, <1>5, <1>6, <1>7 DEF RunInv, SleepsItOut, PollsItOut

LEMMA CheckSettledKeepsInv ==
    ASSUME RunInv, CheckSettled
    PROVE  RunInv'
<1>1. PICK ok \in BOOLEAN : Conclude(ok, now, FALSE)
  BY DEF CheckSettled
<1>2. /\ phase = "settle" /\ now >= wake /\ lag' = 0 /\ UNCHANGED <<scenario, now, cancelled>>
      /\ now \in Nat /\ Assertion.settle > 0 /\ wake = started + Assertion.settle
  BY DEF CheckSettled, Awake, RunInv, ClockTyped, SleepsItOut
<1>. QED
  BY <1>1, <1>2, ConcludeKeepsInv

\* A signal cuts the wait short, and the verdict says so.
LEMMA CutKeepsInv ==
    ASSUME RunInv, CutSettling \/ CutPolling
    PROVE  RunInv'
<1>1. /\ phase \in {"settle", "pause"} /\ cancelled /\ lag' = 0
      /\ UNCHANGED <<scenario, now, cancelled>> /\ now \in Nat
  BY DEF CutSettling, CutPolling, outside, RunInv, ClockTyped
<1>2. PICK at \in Nat : Conclude(FALSE, at, TRUE)
  <2>1. CASE CutSettling
    BY <1>1, <2>1 DEF CutSettling
  <2>2. CASE CutPolling
    <3>1. read.ok = FALSE /\ read.at \in Nat
      BY <2>2 DEF CutPolling, RunInv, PollsItOut
    <3>. QED
      BY <2>2, <3>1 DEF CutPolling
  <2>. QED
    BY <2>1, <2>2
<1>. QED
  BY <1>1, <1>2, ConcludeKeepsInv

LEMMA CheckKeepsInv ==
    ASSUME RunInv, Check
    PROVE  RunInv'
<1>1. PICK ok \in BOOLEAN : read' = [ok |-> ok, at |-> now]
  BY DEF Check
<1>2. /\ phase \in {"check", "pause"} /\ now \in Nat /\ phase' = "decide" /\ lag' = 0
      /\ UNCHANGED <<scenario, next, deadline, started, verdicts, now, wake, cancelled>>
      /\ Assertion' = Assertion
  BY DEF Check, RunInv, ClockTyped, Assertion
<1>3. wake <= now
  BY DEF Check, Awake, RunInv, ClockTyped, PollsItOut
<1>4. PollsItOut'
  BY <1>1, <1>2, <1>3 DEF RunInv, PollsItOut, Wait
<1>5. ClockTyped'
  BY <1>2, ClockAssumption DEF RunInv, ClockTyped
<1>. QED
  BY <1>2, <1>4, <1>5 DEF RunInv, InTurn, SleepsItOut, VerdictsTakeTheirTime, Judging

LEMMA DecideKeepsInv ==
    ASSUME RunInv, Decide
    PROVE  RunInv'
<1>1. /\ phase = "decide" /\ lag' = 0
      /\ UNCHANGED <<scenario, deadline, started, read, now, cancelled>>
      /\ now \in Nat /\ lag \in 0..Lag /\ Lag \in Nat /\ Poll \in Nat /\ started \in Nat
      /\ next \in DOMAIN scenario.assertions /\ next = Len(verdicts) + 1
      /\ Assertion.settle = 0
      /\ Assertion.kind # "rescheduled" => deadline = started + Wait(Assertion)
      /\ read.ok \in BOOLEAN /\ read.at \in Nat /\ now <= read.at + lag
  BY ClockAssumption DEF Decide, outside, RunInv, ClockTyped, InTurn, PollsItOut, Judging
<1>2. Wait(Assertion) \in Nat
  BY <1>1, ScenariosAssumption, ClockAssumption DEF RunInv, ClockTyped, Assertion, Wait
<1>3. CASE read.ok \/ now > deadline
  <2>1. Conclude(read.ok, read.at, FALSE)
    BY <1>3 DEF Decide
  <2>2. ~read.ok /\ Assertion.kind # "rescheduled" => read.at + Lag > started + Wait(Assertion)
    BY <1>1, <1>2, <1>3
  <2>3. phase \in {"settle", "pause", "decide"} /\ ~(Assertion.settle > 0)
    BY <1>1
  <2>4. RunInv
    OBVIOUS
  <2>. QED
    BY ONLY <1>1, <2>1, <2>2, <2>3, <2>4, ConcludeKeepsInv
<1>4. CASE ~(read.ok \/ now > deadline)
  <2>1. phase' = "pause" /\ wake' = now + Poll /\ UNCHANGED <<verdicts, next>> /\ ~read.ok
    BY <1>4 DEF Decide
  <2>2. Assertion' = Assertion
    BY <1>1, <2>1 DEF Assertion
  <2>3. PollsItOut'
    BY <1>1, <2>1, <2>2 DEF PollsItOut, Wait
  <2>4. ClockTyped' /\ InTurn'
    BY <1>1, <2>1, ClockAssumption DEF RunInv, ClockTyped, InTurn, Judging
  <2>. QED
    BY <1>1, <2>1, <2>3, <2>4 DEF RunInv, SleepsItOut, VerdictsTakeTheirTime
<1>. QED
  BY <1>3, <1>4

LEMMA StepKeepsInv == RunInv /\ [Next]_vars => RunInv'
<1>. SUFFICES ASSUME RunInv, [Next]_vars
              PROVE  RunInv'
  OBVIOUS
<1>1. CASE Tick
  BY <1>1, TickKeepsInv
<1>2. CASE Cluster \/ Signal \/ UNCHANGED vars
  <2>1. UNCHANGED <<judged, now, lag>> /\ cancelled' \in {cancelled, TRUE}
    BY <1>2 DEF Cluster, Signal, Place, Start, Evict, Collect, vars, outside, run, judged
  <2>. QED
    BY <2>1, ClusterKeepsInv
<1>3. CASE Runner \/ Abort
  BY <1>3, TimelineKeepsInv, BeginKeepsInv, CheckSettledKeepsInv, CheckKeepsInv, DecideKeepsInv,
     CutKeepsInv
  DEF Runner
<1>. QED
  BY <1>1, <1>2, <1>3 DEF Next

-----------------------------------------------------------------------------

\* The invariant holds in every behaviour.
THEOREM InvariantHolds == Spec => []RunInv
BY InitInv, StepKeepsInv, PTL DEF Spec

\* However slow the cluster and the calls: a settled verdict has waited out its period,
\* and a failed poll its budget, or a signal came and the verdict is a failed one.
THEOREM VerdictsWait == Spec => []VerdictsTakeTheirTime
<1>1. RunInv => VerdictsTakeTheirTime
  BY DEF RunInv
<1>. QED
  BY <1>1, InvariantHolds, PTL

-----------------------------------------------------------------------------
(* What the timeline consists of *)

EventType == [kind : {"submit", "retire", "fault"}, at : Nat,
              name : STRING, hits : SUBSET STRING]

\* What validation leaves of a scenario.
LEMMA ValidScenario ==
    ASSUME NEW s \in Scenarios, Validate(s)
    PROVE  /\ Len(s.workloads) \in Nat \ {0} /\ DOMAIN s.workloads = 1..Len(s.workloads)
           /\ \A i \in DOMAIN s.workloads :
                  /\ s.workloads[i].name \in STRING
                  /\ s.workloads[i].replicas \in Nat /\ s.workloads[i].submitAt \in Nat
                  /\ s.workloads[i].retireAt \in Nat
                  /\ s.workloads[i].retireAt # 0 => s.workloads[i].retireAt > s.workloads[i].submitAt
           /\ \A i, j \in DOMAIN s.workloads :
                  s.workloads[i].name = s.workloads[j].name => i = j
           /\ Len(s.faults) \in Nat /\ DOMAIN s.faults = 1..Len(s.faults)
           /\ \A j \in DOMAIN s.faults :
                  /\ s.faults[j].name \in STRING /\ s.faults[j].at \in Nat
                  /\ s.faults[j].hits \subseteq STRING
           /\ \A i, j \in DOMAIN s.faults : s.faults[i].name = s.faults[j].name => i = j
           /\ Len(s.assertions) \in Nat /\ DOMAIN s.assertions = 1..Len(s.assertions)
<1>. DEFINE W == [name : STRING, replicas : Int, submitAt : Int, retireAt : Int]
            F == [name : STRING, at : Int, hits : SUBSET STRING]
<1>1. s.workloads \in Seq(W) /\ s.workloads # <<>> /\ s.faults \in Seq(F)
  BY ScenariosAssumption DEF Validate
<1>2. Len(s.workloads) \in Nat \ {0} /\ DOMAIN s.workloads = 1..Len(s.workloads)
  BY <1>1, EmptySeq
<1>3. ASSUME NEW i \in DOMAIN s.workloads
      PROVE  /\ s.workloads[i].name \in STRING
             /\ s.workloads[i].replicas \in Nat /\ s.workloads[i].submitAt \in Nat
             /\ s.workloads[i].retireAt \in Nat
             /\ s.workloads[i].retireAt # 0 => s.workloads[i].retireAt > s.workloads[i].submitAt
  <2>1. s.workloads[i] \in W
    BY <1>1, <1>2, ElementOfSeq
  <2>2. ValidWorkload(s.workloads[i])
    BY DEF Validate
  <2>. QED
    BY <2>1, <2>2 DEF ValidWorkload
<1>4. Len(s.faults) \in Nat /\ DOMAIN s.faults = 1..Len(s.faults)
  BY <1>1
<1>5. ASSUME NEW j \in DOMAIN s.faults
      PROVE  s.faults[j].name \in STRING /\ s.faults[j].at \in Nat /\ s.faults[j].hits \subseteq STRING
  <2>1. s.faults[j] \in F
    BY <1>1, <1>4, ElementOfSeq
  <2>. QED
    BY <2>1 DEF Validate, ValidFault
<1>. QED
  BY <1>2, <1>3, <1>4, <1>5, ScenariosAssumption DEF Validate

LEMMA PlacesTyped ==
    ASSUME NEW s \in Scenarios, Validate(s)
    PROVE  /\ IsFiniteSet(Places(s)) /\ Places(s) # {}
           /\ \A k \in Places(s) : /\ k = <<k[1], k[2]>> /\ k[1] \in Nat /\ k[2] \in Nat
                                   /\ Declared(s, k) \in EventType
<1>. DEFINE L == Len(s.workloads)
            F == Len(s.faults)
<1>1. L \in Nat \ {0} /\ F \in Nat /\ DOMAIN s.workloads = 1..L /\ DOMAIN s.faults = 1..F
  BY ValidScenario
<1>2. Places(s) \in SUBSET ((1..L+1) \X (1..F+2))
  <2>. SUFFICES ASSUME NEW k \in Places(s)
                PROVE  k \in (1..L+1) \X (1..F+2)
    OBVIOUS
  <2>1. CASE \E i \in 1..L : k = <<i, 1>> \/ k = <<i, 2>>
    BY <1>1, <2>1
  <2>2. CASE \E j \in 1..F : k = <<L + 1, j>>
    BY <1>1, <2>2
  <2>. QED
    BY <1>1, <2>1, <2>2 DEF Places
<1>3. IsFiniteSet((1..L+1) \X (1..F+2))
  <2>1. L + 1 \in Int /\ F + 2 \in Int /\ 1 \in Int
    BY <1>1
  <2>2. IsFiniteSet(1..L+1) /\ IsFiniteSet(1..F+2)
    BY <2>1, FS_Interval, Zenon
  <2>. QED
    BY <2>2, FS_Product, Zenon
<1>4. IsFiniteSet(Places(s))
  BY <1>2, <1>3, FS_Subset
<1>5. <<1, 1>> \in Places(s)
  BY <1>1 DEF Places
<1>6. ASSUME NEW k \in Places(s)
      PROVE  Declared(s, k) \in EventType
  <2>1. CASE \E i \in DOMAIN s.workloads : k = <<i, 1>> \/ (s.workloads[i].retireAt > 0 /\ k = <<i, 2>>)
    <3>1. PICK i \in DOMAIN s.workloads : k = <<i, 1>> \/ k = <<i, 2>>
      BY <2>1
    <3>2. k[1] = i /\ k[1] # L + 1
      BY <1>1, <3>1
    <3>3. s.workloads[i].name \in STRING /\ s.workloads[i].submitAt \in Nat /\ s.workloads[i].retireAt \in Nat
      BY ValidScenario
    <3>4. Declared(s, k) = IF k[2] = 1
                           THEN [kind |-> "submit", at |-> s.workloads[i].submitAt,
                                 name |-> s.workloads[i].name, hits |-> {}]
                           ELSE [kind |-> "retire", at |-> s.workloads[i].retireAt,
                                 name |-> s.workloads[i].name, hits |-> {}]
      BY <3>2 DEF Declared
    <3>5. {} \in SUBSET STRING
      OBVIOUS
    <3>6. CASE k[2] = 1
      BY <3>3, <3>4, <3>5, <3>6 DEF EventType
    <3>7. CASE k[2] # 1
      BY <3>3, <3>4, <3>5, <3>7 DEF EventType
    <3>. QED
      BY <3>6, <3>7
  <2>2. CASE \E j \in DOMAIN s.faults : k = <<L + 1, j>>
    <3>1. PICK j \in DOMAIN s.faults : k = <<L + 1, j>>
      BY <2>2
    <3>2. s.faults[j].name \in STRING /\ s.faults[j].at \in Nat /\ s.faults[j].hits \in SUBSET STRING
      BY ValidScenario
    <3>3. Declared(s, k) = [kind |-> "fault", at |-> s.faults[j].at, name |-> s.faults[j].name,
                            hits |-> s.faults[j].hits]
      BY <3>1 DEF Declared
    <3>. QED
      BY <3>2, <3>3 DEF EventType
  <2>. QED
    BY <2>1, <2>2 DEF Places
<1>. QED
  BY <1>1, <1>2, <1>4, <1>5, <1>6

\* The stable sort puts every event in a place, and those before it in smaller ones.
LEMMA OrderSorts ==
    ASSUME NEW s \in Scenarios, Validate(s), NEW N, N = Cardinality(Places(s))
    PROVE  /\ N \in Nat \ {0}
           /\ Order(s) \in [1..N -> Places(s)]
           /\ \A k \in Places(s) : \E n \in 1..N : Order(s)[n] = k
           /\ \A m, n \in 1..N : m < n <=> Earlier(s, Order(s)[m], Order(s)[n])
<1>. DEFINE P == Places(s)
            below == [k \in P |-> {j \in P : Earlier(s, j, k)}]
            rank == [k \in P |-> Cardinality(below[k]) + 1]
<1>1. IsFiniteSet(P) /\ P # {}
  BY PlacesTyped
<1>2. \A k \in P : Declared(s, k).at \in Nat /\ k[1] \in Nat /\ k[2] \in Nat /\ k = <<k[1], k[2]>>
  BY PlacesTyped DEF EventType
<1>3. below \in [P -> SUBSET P]
  OBVIOUS
<1>4. \A x \in P : x \notin below[x]
  BY <1>2 DEF Earlier
<1>5. ASSUME NEW x \in P, NEW y \in P, x \in below[y]
      PROVE  below[x] \subseteq below[y]
  BY <1>2, <1>5 DEF Earlier
<1>6. ASSUME NEW x \in P, NEW y \in P, x # y
      PROVE  x \in below[y] \/ y \in below[x]
  <2>1. x[1] # y[1] \/ x[2] # y[2]
    BY <1>2, <1>6
  <2>. QED
    BY <1>2, <2>1 DEF Earlier
<1>7. /\ N \in Nat /\ rank \in Bijection(P, 1..N)
      /\ \A x, y \in P : x \in below[y] <=> rank[x] < rank[y]
  <2>. HIDE DEF P, below
  <2>. QED
    BY <1>1, <1>3, <1>4, <1>5, <1>6, RankTheorem DEF P
<1>8. N # 0
  BY <1>1, FS_EmptySet
<1>9. \A k \in P : rank[k] = Rank(s, k)
  BY DEF Rank
<1>10. /\ \A x, y \in P : rank[x] = rank[y] => x = y
       /\ \A n \in 1..N : \E k \in P : rank[k] = n
       /\ \A k \in P : rank[k] \in 1..N
  <2>. HIDE DEF rank, P
  <2>1. rank \in Bijection(P, 1..N)
    BY <1>7
  <2>2. rank \in [P -> 1..N]
    BY <2>1 DEF Bijection, Injection
  <2>3. \A x, y \in P : rank[x] = rank[y] => x = y
    BY <1>6, <1>7, <2>2
  <2>4. \A n \in 1..N : \E k \in P : rank[k] = n
    BY <2>1 DEF Bijection, Surjection
  <2>. QED
    BY <2>2, <2>3, <2>4
<1>11. \A n \in 1..N : Order(s)[n] \in P /\ rank[Order(s)[n]] = n
  <2>. SUFFICES ASSUME NEW n \in 1..N
                PROVE  Order(s)[n] \in P /\ rank[Order(s)[n]] = n
    OBVIOUS
  <2>1. Order(s)[n] = CHOOSE k \in P : Rank(s, k) = n
    BY DEF Order
  <2>2. \E k \in P : Rank(s, k) = n
    <3>. HIDE DEF rank, P
    <3>. QED
      BY <1>9, <1>10
  <2>. HIDE DEF rank, P
  <2>. QED
    BY <1>9, <2>1, <2>2
<1>12. Order(s) \in [1..N -> P]
  BY <1>11 DEF Order
<1>13. ASSUME NEW k \in P
       PROVE  \E n \in 1..N : Order(s)[n] = k
  <2>. HIDE DEF rank, P
  <2>. QED
    BY <1>10, <1>11
<1>14. ASSUME NEW m \in 1..N, NEW n \in 1..N
       PROVE  m < n <=> Earlier(s, Order(s)[m], Order(s)[n])
  <2>1. Order(s)[m] \in below[Order(s)[n]] <=> m < n
    <3>. HIDE DEF rank, below, P
    <3>. QED
      BY <1>7, <1>11
  <2>. QED
    BY <1>11, <2>1
<1>. QED
  BY <1>7, <1>8, <1>12, <1>13, <1>14

LEMMA EventsAreThePlaces ==
    ASSUME NEW s \in Scenarios, Validate(s), NEW E, E = Events[s],
           NEW N, N = Cardinality(Places(s))
    PROVE  /\ N \in Nat \ {0} /\ E \in Seq(EventType) /\ Len(E) = N /\ DOMAIN E = 1..N
           /\ \A n \in 1..N : Order(s)[n] \in Places(s) /\ E[n] = Declared(s, Order(s)[n])
           /\ \A k \in Places(s) : \E n \in 1..N : Order(s)[n] = k
           /\ \A m, n \in 1..N : m < n <=> Earlier(s, Order(s)[m], Order(s)[n])
<1>1. /\ N \in Nat \ {0} /\ Order(s) \in [1..N -> Places(s)]
      /\ \A k \in Places(s) : \E n \in 1..N : Order(s)[n] = k
      /\ \A m, n \in 1..N : m < n <=> Earlier(s, Order(s)[m], Order(s)[n])
  BY OrderSorts
<1>2. E = [n \in 1..N |-> Declared(s, Order(s)[n])]
  BY <1>1 DEF Events
<1>3. \A n \in 1..N : Declared(s, Order(s)[n]) \in EventType
  BY <1>1, PlacesTyped
<1>4. E \in [1..N -> EventType]
  BY <1>2, <1>3, Zenon
<1>5. E \in Seq(EventType)
  BY <1>1, <1>4
<1>6. Len(E) = N /\ DOMAIN E = 1..N
  BY <1>1, <1>2, <1>5
<1>. QED
  BY <1>1, <1>2, <1>5, <1>6

\* The places of a workload's submission and retirement, and of a fault.
LEMMA WhatIsDeclared ==
    ASSUME NEW s \in Scenarios, Validate(s)
    PROVE  /\ \A i \in DOMAIN s.workloads :
                  /\ <<i, 1>> \in Places(s) /\ Declared(s, <<i, 1>>).kind = "submit"
                  /\ Declared(s, <<i, 1>>).name = s.workloads[i].name
                  /\ Declared(s, <<i, 1>>).at = s.workloads[i].submitAt
                  /\ s.workloads[i].retireAt # 0 => <<i, 2>> \in Places(s)
                  /\ Declared(s, <<i, 2>>).kind = "retire"
                  /\ Declared(s, <<i, 2>>).name = s.workloads[i].name
                  /\ Declared(s, <<i, 2>>).at = s.workloads[i].retireAt
           /\ \A j \in DOMAIN s.faults : LET k == <<Len(s.workloads) + 1, j>>
                                         IN  /\ k \in Places(s) /\ Declared(s, k).kind = "fault"
                                             /\ Declared(s, k).name = s.faults[j].name
                                             /\ Declared(s, k).at = s.faults[j].at
                                             /\ Declared(s, k).hits = s.faults[j].hits
           /\ \A k \in Places(s) :
                  LET d == Declared(s, k)
                  IN  /\ d.kind = "submit" => \E i \in DOMAIN s.workloads : k = <<i, 1>>
                      /\ d.kind = "retire" => \E i \in DOMAIN s.workloads :
                                                  k = <<i, 2>> /\ s.workloads[i].retireAt # 0
                      /\ d.kind = "fault" => \E j \in DOMAIN s.faults :
                                                  k = <<Len(s.workloads) + 1, j>>
<1>. DEFINE L == Len(s.workloads)
<1>1. L \in Nat /\ DOMAIN s.workloads = 1..L
  BY ValidScenario
<1>2. ASSUME NEW i \in DOMAIN s.workloads
      PROVE  /\ <<i, 1>> \in Places(s) /\ Declared(s, <<i, 1>>).kind = "submit"
             /\ Declared(s, <<i, 1>>).name = s.workloads[i].name
             /\ Declared(s, <<i, 1>>).at = s.workloads[i].submitAt
             /\ s.workloads[i].retireAt # 0 => <<i, 2>> \in Places(s)
             /\ Declared(s, <<i, 2>>).kind = "retire"
             /\ Declared(s, <<i, 2>>).name = s.workloads[i].name
             /\ Declared(s, <<i, 2>>).at = s.workloads[i].retireAt
  <2>1. i # L + 1
    BY <1>1
  <2>2. s.workloads[i].retireAt # 0 => s.workloads[i].retireAt > 0
    BY ValidScenario
  <2>3. Declared(s, <<i, 1>>) = [kind |-> "submit", at |-> s.workloads[i].submitAt,
                                 name |-> s.workloads[i].name, hits |-> {}]
    BY <2>1 DEF Declared
  <2>4. Declared(s, <<i, 2>>) = [kind |-> "retire", at |-> s.workloads[i].retireAt,
                                 name |-> s.workloads[i].name, hits |-> {}]
    BY <2>1 DEF Declared
  <2>5. /\ <<i, 1>> \in Places(s)
        /\ s.workloads[i].retireAt # 0 => <<i, 2>> \in Places(s)
    BY <2>2 DEF Places
  <2>. QED
    BY <2>3, <2>4, <2>5
<1>3. ASSUME NEW j \in DOMAIN s.faults
      PROVE  LET k == <<L + 1, j>>
             IN  /\ k \in Places(s) /\ Declared(s, k).kind = "fault"
                 /\ Declared(s, k).name = s.faults[j].name
                 /\ Declared(s, k).at = s.faults[j].at
                 /\ Declared(s, k).hits = s.faults[j].hits
  BY DEF Declared, Places
<1>4. ASSUME NEW k \in Places(s)
      PROVE  \/ \E i \in DOMAIN s.workloads : k = <<i, 1>>
             \/ \E i \in DOMAIN s.workloads : k = <<i, 2>> /\ s.workloads[i].retireAt # 0
             \/ \E j \in DOMAIN s.faults : k = <<L + 1, j>>
  <2>1. \A i \in DOMAIN s.workloads : s.workloads[i].retireAt > 0 => s.workloads[i].retireAt # 0
    BY ValidScenario
  <2>. QED
    BY <2>1, Zenon DEF Places
<1>5. ASSUME NEW k \in Places(s), NEW d, d = Declared(s, k)
      PROVE  /\ d.kind = "submit" => \E i \in DOMAIN s.workloads : k = <<i, 1>>
             /\ d.kind = "retire" => \E i \in DOMAIN s.workloads :
                                         k = <<i, 2>> /\ s.workloads[i].retireAt # 0
             /\ d.kind = "fault" => \E j \in DOMAIN s.faults : k = <<L + 1, j>>
  <2>1. CASE \E i \in DOMAIN s.workloads : k = <<i, 1>>
    <3>1. d.kind = "submit"
      BY <1>2, <1>5, <2>1
    <3>. QED
      BY <2>1, <3>1
  <2>2. CASE \E i \in DOMAIN s.workloads : k = <<i, 2>> /\ s.workloads[i].retireAt # 0
    <3>1. d.kind = "retire"
      BY <1>2, <1>5, <2>2
    <3>. QED
      BY <2>2, <3>1
  <2>3. CASE \E j \in DOMAIN s.faults : k = <<L + 1, j>>
    <3>1. d.kind = "fault"
      BY <1>3, <1>5, <2>3
    <3>. QED
      BY <2>3, <3>1
  <2>. QED
    BY <1>4, <2>1, <2>2, <2>3
<1>6. \A k \in Places(s) :
          LET d == Declared(s, k)
          IN  /\ d.kind = "submit" => \E i \in DOMAIN s.workloads : k = <<i, 1>>
              /\ d.kind = "retire" => \E i \in DOMAIN s.workloads :
                                          k = <<i, 2>> /\ s.workloads[i].retireAt # 0
              /\ d.kind = "fault" => \E j \in DOMAIN s.faults : k = <<L + 1, j>>
  BY ONLY <1>5
<1>. QED
  BY ONLY <1>2, <1>3, <1>6, ZenonT(120)

-----------------------------------------------------------------------------
(* The facts about the timeline that the proofs use *)

\* Events in the order of their offsets.
EventsSorted(s) ==
    /\ Events[s] \in Seq(EventType) /\ Events[s] # <<>>
    /\ \A m, n \in DOMAIN Events[s] : m <= n => Events[s][m].at <= Events[s][n].at

\* Each workload is submitted, and afterwards retired if it is to be.
WorkloadsListed(s) ==
    LET E == Events[s]
    IN  /\ \A n \in DOMAIN E : E[n].kind \in {"submit", "retire"} =>
               E[n].name \in WorkloadNames(s)
        /\ \A r \in Range(s.workloads) :
               /\ \E n \in DOMAIN E : E[n].kind = "submit" /\ E[n].name = r.name
               /\ r.retireAt # 0 <=>
                      \E n \in DOMAIN E : E[n].kind = "retire" /\ E[n].name = r.name
        /\ \A m, n \in DOMAIN E :
               E[m].kind = "submit" /\ E[n].kind = "retire" /\ E[m].name = E[n].name
                   => m < n

\* Every fault is one event; they come in the order of their offsets and then of their
\* declaration, and after what happens to workloads at the same offset.
FaultEvents(s) == {n \in DOMAIN Events[s] : Events[s][n].kind = "fault"}
Before(f, i, g, j) == f.at < g.at \/ (f.at = g.at /\ i < j)
FaultsListed(s) ==
    LET E == Events[s]
        T == FaultEvents(s)
    IN  /\ Cardinality(T) = Len(s.faults)
        /\ \A n \in T : \E j \in DOMAIN s.faults :
               E[n].name = s.faults[j].name /\ E[n].at = s.faults[j].at /\ E[n].hits = s.faults[j].hits
        /\ \A m, n \in T : \A i, j \in DOMAIN s.faults :
               E[m].name = s.faults[i].name /\ E[n].name = s.faults[j].name =>
                   (m < n <=> Before(s.faults[i], i, s.faults[j], j))
        /\ \A n \in T : \A m \in DOMAIN E : \A r \in Range(s.workloads) :
               /\ E[m].kind = "submit" /\ E[m].name = r.name => (m < n <=> r.submitAt <= E[n].at)
               /\ E[m].kind = "retire" /\ E[m].name = r.name => (m < n <=> r.retireAt <= E[n].at)

LEMMA SortedTheorem ==
    ASSUME NEW s \in Scenarios, Validate(s)
    PROVE  EventsSorted(s)
<1>. DEFINE E == Events[s]
            N == Cardinality(Places(s))
<1>1. /\ N \in Nat \ {0} /\ E \in Seq(EventType) /\ DOMAIN E = 1..N /\ Len(E) = N
      /\ \A n \in 1..N : E[n] = Declared(s, Order(s)[n])
      /\ \A m, n \in 1..N : m < n <=> Earlier(s, Order(s)[m], Order(s)[n])
  BY EventsAreThePlaces
<1>2. ASSUME NEW m \in 1..N, NEW n \in 1..N, m <= n
      PROVE  E[m].at <= E[n].at
  <2>1. E[m] \in EventType /\ E[n] \in EventType
    BY <1>1, ElementOfSeq
  <2>2. m # n => Earlier(s, Order(s)[m], Order(s)[n])
    BY <1>1, <1>2
  <2>. QED
    BY <1>1, <2>1, <2>2 DEF Earlier, EventType
<1>3. E # <<>>
  BY <1>1, EmptySeq
<1>. QED
  BY <1>1, <1>2, <1>3 DEF EventsSorted

LEMMA WorkloadsTheorem ==
    ASSUME NEW s \in Scenarios, Validate(s)
    PROVE  WorkloadsListed(s)
<1>. DEFINE E == Events[s]
            N == Cardinality(Places(s))
            w(i) == s.workloads[i]
<1>1. /\ DOMAIN E = 1..N /\ N \in Nat
      /\ \A n \in 1..N : Order(s)[n] \in Places(s) /\ E[n] = Declared(s, Order(s)[n])
      /\ \A k \in Places(s) : \E n \in 1..N : Order(s)[n] = k
      /\ \A m, n \in 1..N : m < n <=> Earlier(s, Order(s)[m], Order(s)[n])
  BY EventsAreThePlaces
<1>2. \A i, j \in DOMAIN s.workloads : w(i).name = w(j).name => i = j
  BY ValidScenario
<1>0. \A i \in DOMAIN s.workloads :
          /\ Declared(s, <<i, 1>>).kind = "submit" /\ Declared(s, <<i, 1>>).name = w(i).name
          /\ Declared(s, <<i, 2>>).kind = "retire" /\ Declared(s, <<i, 2>>).name = w(i).name
  BY WhatIsDeclared, ZenonT(60)
<1>3. ASSUME NEW n \in 1..N
      PROVE  /\ E[n].kind = "submit" =>
                    \E i \in DOMAIN s.workloads : Order(s)[n] = <<i, 1>> /\ E[n].name = w(i).name
             /\ E[n].kind = "retire" =>
                    \E i \in DOMAIN s.workloads : /\ Order(s)[n] = <<i, 2>> /\ w(i).retireAt # 0
                                                  /\ E[n].name = w(i).name
  <2>1. Order(s)[n] \in Places(s) /\ E[n] = Declared(s, Order(s)[n])
    BY <1>1
  <2>2. CASE E[n].kind = "submit"
    <3>1. PICK i \in DOMAIN s.workloads : Order(s)[n] = <<i, 1>>
      BY <2>1, <2>2, WhatIsDeclared
    <3>2. E[n].name = w(i).name
      BY <1>0, <2>1, <3>1
    <3>. QED
      BY <2>2, <3>1, <3>2
  <2>3. CASE E[n].kind = "retire"
    <3>1. PICK i \in DOMAIN s.workloads : Order(s)[n] = <<i, 2>> /\ w(i).retireAt # 0
      BY <2>1, <2>3, WhatIsDeclared
    <3>2. E[n].name = w(i).name
      BY <1>0, <2>1, <3>1
    <3>. QED
      BY <2>3, <3>1, <3>2
  <2>. QED
    BY <2>2, <2>3
<1>4. \A n \in DOMAIN E : E[n].kind \in {"submit", "retire"} => E[n].name \in WorkloadNames(s)
  BY <1>1, <1>3 DEF WorkloadNames
<1>5. ASSUME NEW r \in Range(s.workloads)
      PROVE  /\ \E n \in DOMAIN E : E[n].kind = "submit" /\ E[n].name = r.name
             /\ r.retireAt # 0 <=>
                      \E n \in DOMAIN E : E[n].kind = "retire" /\ E[n].name = r.name
  <2>1. PICK i \in DOMAIN s.workloads : r = w(i)
    BY DEF Range
  <2>2. \E n \in DOMAIN E : E[n].kind = "submit" /\ E[n].name = r.name
    <3>1. <<i, 1>> \in Places(s)
      BY WhatIsDeclared
    <3>2. PICK n \in 1..N : Order(s)[n] = <<i, 1>>
      BY <1>1, <3>1
    <3>3. E[n] = Declared(s, <<i, 1>>)
      BY <1>1, <3>2
    <3>4. n \in DOMAIN E
      BY <1>1
    <3>5. E[n].kind = "submit" /\ E[n].name = r.name
      BY <1>0, <2>1, <3>3
    <3>. QED
      BY <3>4, <3>5
  <2>3. ASSUME r.retireAt # 0
        PROVE  \E n \in DOMAIN E : E[n].kind = "retire" /\ E[n].name = r.name
    <3>1. <<i, 2>> \in Places(s)
      BY <2>1, <2>3, WhatIsDeclared
    <3>2. PICK n \in 1..N : Order(s)[n] = <<i, 2>>
      BY <1>1, <3>1
    <3>3. E[n] = Declared(s, <<i, 2>>)
      BY <1>1, <3>2
    <3>4. n \in DOMAIN E
      BY <1>1
    <3>5. E[n].kind = "retire" /\ E[n].name = r.name
      BY <1>0, <2>1, <3>3
    <3>. QED
      BY <3>4, <3>5
  <2>4. ASSUME NEW n \in DOMAIN E, E[n].kind = "retire", E[n].name = r.name
        PROVE  r.retireAt # 0
    BY <1>1, <1>2, <1>3, <2>1, <2>4
  <2>. QED
    BY <2>2, <2>3, <2>4
<1>6. ASSUME NEW m \in DOMAIN E, NEW n \in DOMAIN E,
             E[m].kind = "submit", E[n].kind = "retire", E[m].name = E[n].name
      PROVE  m < n
  <2>1. PICK i \in DOMAIN s.workloads : Order(s)[m] = <<i, 1>> /\ E[m].name = w(i).name
    BY <1>1, <1>3, <1>6
  <2>2. PICK j \in DOMAIN s.workloads : /\ Order(s)[n] = <<j, 2>> /\ w(j).retireAt # 0
                                        /\ E[n].name = w(j).name
    BY <1>1, <1>3, <1>6
  <2>3. i = j
    BY <1>2, <1>6, <2>1, <2>2
  <2>4. w(i).retireAt > w(i).submitAt
    BY <2>2, <2>3, ValidScenario
  <2>5. Declared(s, <<i, 1>>).at = w(i).submitAt /\ Declared(s, <<i, 2>>).at = w(i).retireAt
    BY WhatIsDeclared
  <2>6. Earlier(s, Order(s)[m], Order(s)[n])
    BY <2>1, <2>2, <2>3, <2>4, <2>5, ValidScenario DEF Earlier
  <2>. QED
    BY <1>1, <2>6
<1>. QED
  BY <1>4, <1>5, <1>6 DEF WorkloadsListed

LEMMA FaultsTheorem ==
    ASSUME NEW s \in Scenarios, Validate(s)
    PROVE  FaultsListed(s)
<1>. DEFINE E == Events[s]
            N == Cardinality(Places(s))
            L == Len(s.workloads)
            F == Len(s.faults)
            T == FaultEvents(s)
            f == [n \in T |-> Order(s)[n][2]]
<1>1. /\ DOMAIN E = 1..N /\ N \in Nat
      /\ \A n \in 1..N : Order(s)[n] \in Places(s) /\ E[n] = Declared(s, Order(s)[n])
      /\ \A k \in Places(s) : \E n \in 1..N : Order(s)[n] = k
      /\ \A m, n \in 1..N : m < n <=> Earlier(s, Order(s)[m], Order(s)[n])
  BY EventsAreThePlaces
<1>2. F \in Nat /\ DOMAIN s.faults = 1..F
  BY ValidScenario
<1>3. \A k \in Places(s) : ~Earlier(s, k, k)
  BY PlacesTyped DEF Earlier, EventType
<1>4. \A n \in T : n \in 1..N /\ \E j \in 1..F : Order(s)[n] = <<L + 1, j>>
  BY <1>1, <1>2, WhatIsDeclared DEF FaultEvents
<1>5. ASSUME NEW j \in 1..F
      PROVE  \E n \in T : Order(s)[n] = <<L + 1, j>>
  <2>1. <<L + 1, j>> \in Places(s)
    BY <1>2, WhatIsDeclared
  <2>2. PICK n \in 1..N : Order(s)[n] = <<L + 1, j>>
    BY <1>1, <2>1
  <2>3. E[n] = Declared(s, <<L + 1, j>>)
    BY <1>1, <2>2
  <2>4. E[n].kind = "fault"
    BY <1>2, <2>3, WhatIsDeclared
  <2>. QED
    BY <1>1, <2>2, <2>4 DEF FaultEvents
<1>6. f \in Bijection(T, 1..F)
  <2>1. f \in [T -> 1..F]
    BY <1>4
  <2>2. ASSUME NEW m \in T, NEW n \in T, f[m] = f[n]
        PROVE  m = n
    <3>1. Order(s)[m] = Order(s)[n]
      BY <1>4, <2>2
    <3>2. m \in 1..N /\ n \in 1..N /\ ~(m < n) /\ ~(n < m)
      BY <1>1, <1>3, <1>4, <3>1
    <3>. QED
      BY <3>2
  <2>3. ASSUME NEW j \in 1..F
        PROVE  \E n \in T : f[n] = j
    <3>1. PICK n \in T : Order(s)[n] = <<L + 1, j>>
      BY <1>5
    <3>2. f[n] = Order(s)[n][2] /\ <<L + 1, j>>[2] = j
      OBVIOUS
    <3>. QED
      BY <3>1, <3>2
  <2>. HIDE DEF f, T
  <2>. QED
    BY <2>1, <2>2, <2>3, Fun_IsBij
<1>7. Cardinality(T) = F
  <2>1. IsFiniteSet(1..F) /\ Cardinality(1..F) = F
    BY <1>2, FS_Interval
  <2>2. ExistsBijection(1..F, T)
    <3>. HIDE DEF f, T
    <3>1. ExistsBijection(T, 1..F)
      BY <1>6, Fun_ExistsBij
    <3>. QED
      BY <3>1, Fun_ExistsBijSymmetric
  <2>. QED
    BY <2>1, <2>2, FS_Bijection
<1>8. ASSUME NEW n \in T, NEW j \in 1..F, Order(s)[n] = <<L + 1, j>>
      PROVE  E[n].name = s.faults[j].name /\ E[n].at = s.faults[j].at /\ E[n].hits = s.faults[j].hits
  <2>1. E[n] = Declared(s, <<L + 1, j>>)
    BY <1>1, <1>4, <1>8
  <2>. QED
    BY <1>2, <2>1, WhatIsDeclared
<1>9. \A n \in T : \E j \in DOMAIN s.faults :
          E[n].name = s.faults[j].name /\ E[n].at = s.faults[j].at /\ E[n].hits = s.faults[j].hits
  BY <1>2, <1>4, <1>8
<1>10. ASSUME NEW m \in T, NEW n \in T, NEW i \in DOMAIN s.faults, NEW j \in DOMAIN s.faults,
              E[m].name = s.faults[i].name, E[n].name = s.faults[j].name
       PROVE  m < n <=> Before(s.faults[i], i, s.faults[j], j)
  <2>1. PICK a \in 1..F : Order(s)[m] = <<L + 1, a>>
    BY <1>4
  <2>2. PICK b \in 1..F : Order(s)[n] = <<L + 1, b>>
    BY <1>4
  <2>3. a = i /\ b = j
    BY <1>2, <1>8, <1>10, <2>1, <2>2, ValidScenario
  <2>4. m \in 1..N /\ n \in 1..N
    BY <1>4
  <2>5. m < n <=> Earlier(s, <<L + 1, i>>, <<L + 1, j>>)
    BY <1>1, <2>1, <2>2, <2>3, <2>4
  <2>6. /\ Declared(s, <<L + 1, i>>).at = s.faults[i].at
        /\ Declared(s, <<L + 1, j>>).at = s.faults[j].at
    BY WhatIsDeclared
  <2>. QED
    BY <2>5, <2>6, ValidScenario DEF Earlier, Before
<1>11. ASSUME NEW n \in T, NEW m \in DOMAIN E, NEW r \in Range(s.workloads), E[m].name = r.name,
              E[m].kind \in {"submit", "retire"}
       PROVE  m < n <=> (IF E[m].kind = "submit" THEN r.submitAt ELSE r.retireAt) <= E[n].at
  <2>1. PICK j \in 1..F : Order(s)[n] = <<L + 1, j>>
    BY <1>4
  <2>2. PICK h \in DOMAIN s.workloads : r = s.workloads[h]
    BY DEF Range
  <2>3. PICK i \in DOMAIN s.workloads : Order(s)[m] = <<i, IF E[m].kind = "submit" THEN 1 ELSE 2>>
    <3>1. Order(s)[m] \in Places(s) /\ E[m] = Declared(s, Order(s)[m])
      BY <1>1
    <3>2. CASE E[m].kind = "submit"
      BY <3>1, <3>2, WhatIsDeclared
    <3>3. CASE E[m].kind = "retire"
      BY <3>1, <3>3, WhatIsDeclared
    <3>. QED
      BY <1>11, <3>2, <3>3
  <2>4. Declared(s, Order(s)[m]) = E[m] /\ m \in 1..N /\ n \in 1..N
    BY <1>1, <1>4
  <2>5. /\ s.workloads[i].name = r.name
        /\ E[m].at = IF E[m].kind = "submit" THEN s.workloads[i].submitAt
                                             ELSE s.workloads[i].retireAt
    <3>1. CASE E[m].kind = "submit"
      <4>1. E[m] = Declared(s, <<i, 1>>)
        BY <2>3, <2>4, <3>1
      <4>2. /\ Declared(s, <<i, 1>>).name = s.workloads[i].name
            /\ Declared(s, <<i, 1>>).at = s.workloads[i].submitAt
        BY WhatIsDeclared, ZenonT(60)
      <4>. QED
        BY ONLY <1>11, <3>1, <4>1, <4>2
    <3>2. CASE E[m].kind = "retire"
      <4>1. E[m] = Declared(s, <<i, 2>>)
        BY <2>3, <2>4, <3>2
      <4>2. /\ Declared(s, <<i, 2>>).name = s.workloads[i].name
            /\ Declared(s, <<i, 2>>).at = s.workloads[i].retireAt
        BY WhatIsDeclared, ZenonT(60)
      <4>. QED
        BY ONLY <1>11, <3>2, <4>1, <4>2
    <3>. QED
      BY <1>11, <3>1, <3>2
  <2>6. i = h
    BY <2>2, <2>5, ValidScenario
  <2>7. i \in Nat /\ L \in Nat /\ i < L + 1
    BY ValidScenario
  <2>8. Declared(s, Order(s)[n]).at = E[n].at /\ E[m].at \in Nat /\ E[n].at \in Nat
    <3>1. Declared(s, Order(s)[n]) = E[n] /\ Order(s)[m] \in Places(s) /\ Order(s)[n] \in Places(s)
      BY <1>1, <2>4
    <3>. QED
      BY <2>4, <3>1, PlacesTyped DEF EventType
  <2>9. m < n <=> Earlier(s, Order(s)[m], Order(s)[n])
    BY <1>1, <2>4
  <2>10. Order(s)[m][1] = i /\ Order(s)[n][1] = L + 1
    BY <2>1, <2>3
  <2>11. m < n <=> E[m].at <= E[n].at
    BY <2>4, <2>7, <2>8, <2>9, <2>10 DEF Earlier
  <2>. QED
    BY <2>2, <2>5, <2>6, <2>11
<1>12. \A n \in T : \A m \in DOMAIN E : \A r \in Range(s.workloads) :
           /\ E[m].kind = "submit" /\ E[m].name = r.name => (m < n <=> r.submitAt <= E[n].at)
           /\ E[m].kind = "retire" /\ E[m].name = r.name => (m < n <=> r.retireAt <= E[n].at)
  BY <1>11
<1>. QED
  BY <1>7, <1>9, <1>10, <1>12, Zenon DEF FaultsListed

-----------------------------------------------------------------------------
(* The timeline, kept account of *)

PodCounts == [bound : Nat, fresh : Nat, corpses : Nat]
FaultRecord == [name : STRING, at : Nat, found : SUBSET STRING, disrupted : [Names -> Nat]]
OnTimeline == phase \in {"timeline", "retiring"}

\* The scenario in hand is a valid one.
RunTyped ==
    /\ scenario \in Scenarios /\ Validate(scenario)
    /\ now \in 0..MaxTime /\ wake \in Nat /\ deadline \in Nat
    /\ phase \in {"timeline", "retiring", "done", "error"} \cup Judging
    /\ alive \subseteq Names
    /\ pods \in [Names -> PodCounts]
    /\ faults \in Seq(FaultRecord)

\* The place on the timeline, and in the list of assertions.
InPlace ==
    /\ next \in 1..(Len(Events[scenario]) + Len(scenario.assertions) + 1)
    /\ OnTimeline => next <= Len(Events[scenario]) + 1
    /\ phase = "retiring" => next <= Len(Events[scenario]) /\ Event.kind = "retire"
    /\ phase = "timeline" /\ next <= Len(Events[scenario]) => wake = Event.at
    /\ Len(verdicts) <= Len(scenario.assertions)

\* The events that have happened.
Past == {n \in DOMAIN Events[scenario] : n < next \/ (phase = "retiring" /\ n = next)}
Listed(kind, w) == {n \in DOMAIN Events[scenario] :
                        Events[scenario][n].kind = kind /\ Events[scenario][n].name = w}

\* A workload exists from the event of its submission to that of its retirement.
WorkloadsAccounted ==
    OnTimeline =>
        alive = {w \in Names : Listed("submit", w) \cap Past # {} /\ Listed("retire", w) \cap Past = {}}

\* No replica of what has not been submitted.
PodsAccounted ==
    OnTimeline => \A w \in Names : Pods(w) > 0 => Listed("submit", w) \cap Past # {}

\* Record r tells truly of the fault whose event is e.
Recorded(r, e) ==
    /\ r.name = e.name /\ r.at >= e.at
    /\ r.found = ExistAt(e.at)
    /\ \A w \in Range(scenario.workloads) :
           r.disrupted[w.name] > 0 => w.name \in e.hits /\ w.submitAt <= e.at

\* A fault on record for every one that has happened, in the order of the events.
FaultsAccounted ==
    /\ Len(faults) <= Len(scenario.faults)
    /\ \A k \in DOMAIN faults : \E n \in FaultEvents(scenario) :
           (OnTimeline => n \in Past) /\ Recorded(faults[k], Events[scenario][n])
    /\ \A k, l \in DOMAIN faults : \A m, n \in FaultEvents(scenario) :
           /\ k < l
           /\ Events[scenario][m].name = faults[k].name
           /\ Events[scenario][n].name = faults[l].name
           => m < n
    /\ OnTimeline => Len(faults) = Cardinality(FaultEvents(scenario) \cap Past)

\* What the whole timeline leaves.
AtTheEnd ==
    phase \in Judging \cup {"done"} =>
        /\ Len(faults) = Len(scenario.faults)
        /\ alive = {w.name : w \in {r \in Range(scenario.workloads) : r.retireAt = 0}}

\* The inductive invariant.
TimelineInv ==
    /\ RunInv
    /\ RunTyped
    /\ InPlace
    /\ WorkloadsAccounted
    /\ PodsAccounted
    /\ FaultsAccounted
    /\ AtTheEnd

\* What the invariant says of the timeline itself.
LEMMA TimelineFacts ==
    ASSUME NEW s \in Scenarios, Validate(s), NEW E, E = Events[s]
    PROVE  /\ Len(E) \in Nat \ {0} /\ DOMAIN E = 1..Len(E)
           /\ \A n \in 1..Len(E) : E[n] \in EventType
           /\ \A n \in 1..Len(E) : E[n].kind \in {"submit", "retire"} => E[n].name \in WorkloadNames(s)
           /\ \A m, n \in 1..Len(E) : m <= n => E[m].at <= E[n].at
           /\ \A m, n \in 1..Len(E) :
                  E[m].kind = "submit" /\ E[n].kind = "retire" /\ E[m].name = E[n].name
                      => m < n
           /\ IsFiniteSet(FaultEvents(s)) /\ FaultEvents(s) \subseteq 1..Len(E)
           /\ Cardinality(FaultEvents(s)) = Len(s.faults)
           /\ \A m, n \in FaultEvents(s) : E[m].name = E[n].name => m = n
<1>1. E \in Seq(EventType) /\ E # <<>>
  BY SortedTheorem DEF EventsSorted
<1>2. Len(E) \in Nat \ {0} /\ DOMAIN E = 1..Len(E)
  BY <1>1, EmptySeq
<1>3. \A n \in 1..Len(E) : E[n] \in EventType
  BY <1>1, <1>2, ElementOfSeq
<1>4. FaultEvents(s) \in SUBSET (1..Len(E)) /\ IsFiniteSet(1..Len(E))
  BY <1>2, FS_Interval DEF FaultEvents
<1>5. IsFiniteSet(FaultEvents(s))
  BY <1>4, FS_Subset
<1>6. WorkloadsListed(s) /\ FaultsListed(s) /\ EventsSorted(s)
  BY SortedTheorem, WorkloadsTheorem, FaultsTheorem
<1>7. \A n \in 1..Len(E) : E[n].kind \in {"submit", "retire"} => E[n].name \in WorkloadNames(s)
  BY <1>2, <1>6 DEF WorkloadsListed
<1>8. \A m, n \in 1..Len(E) : m <= n => E[m].at <= E[n].at
  BY <1>2, <1>6 DEF EventsSorted
<1>9. \A m, n \in 1..Len(E) :
          E[m].kind = "submit" /\ E[n].kind = "retire" /\ E[m].name = E[n].name => m < n
  BY <1>2, <1>6 DEF WorkloadsListed
<1>10. ASSUME NEW m \in FaultEvents(s), NEW n \in FaultEvents(s), E[m].name = E[n].name
       PROVE  m = n
  <2>1. PICK j \in DOMAIN s.faults : E[m].name = s.faults[j].name
    BY <1>6 DEF FaultsListed
  <2>2. m \in Nat /\ n \in Nat /\ j \in Nat /\ s.faults[j].at \in Nat
    BY <1>2, <1>4, ValidScenario
  <2>3. /\ m < n <=> Before(s.faults[j], j, s.faults[j], j)
        /\ n < m <=> Before(s.faults[j], j, s.faults[j], j)
    BY <1>6, <1>10, <2>1 DEF FaultsListed
  <2>4. ~Before(s.faults[j], j, s.faults[j], j)
    BY <2>2 DEF Before
  <2>. QED
    BY ONLY <2>2, <2>3, <2>4
<1>11. Cardinality(FaultEvents(s)) = Len(s.faults)
  BY <1>6 DEF FaultsListed
<1>. QED
  BY <1>2, <1>3, <1>4, <1>5, <1>7, <1>8, <1>9, <1>10, <1>11

\* At a fault exactly those workloads exist that are submitted and not yet retired at its offset.
LEMMA ExistAtFault ==
    ASSUME NEW s \in Scenarios, Validate(s), scenario = s, NEW n \in FaultEvents(s),
           NEW E, E = Events[s]
    PROVE  /\ ExistAt(E[n].at) =
                  {w \in Names : /\ \E m \in Listed("submit", w) : m < n
                                 /\ ~\E m \in Listed("retire", w) : m < n}
           /\ \A r \in Range(s.workloads) : \A m \in Listed("submit", r.name) :
                  m < n => r.submitAt <= E[n].at
<1>. DEFINE t == E[n].at
            X == {w \in Names : /\ \E m \in Listed("submit", w) : m < n
                                /\ ~\E m \in Listed("retire", w) : m < n}
<1>1. FaultsListed(s) /\ WorkloadsListed(s)
  BY FaultsTheorem, WorkloadsTheorem
<1>2. ASSUME NEW r \in Range(s.workloads)
      PROVE  /\ \A m \in Listed("submit", r.name) : m < n <=> r.submitAt <= t
             /\ \A m \in Listed("retire", r.name) : m < n <=> r.retireAt <= t
             /\ Listed("submit", r.name) # {}
             /\ r.retireAt # 0 <=> Listed("retire", r.name) # {}
  <2>1. /\ \A m \in Listed("submit", r.name) : m < n <=> r.submitAt <= t
        /\ \A m \in Listed("retire", r.name) : m < n <=> r.retireAt <= t
    BY <1>1 DEF FaultsListed, Listed
  <2>2. /\ Listed("submit", r.name) # {}
        /\ r.retireAt # 0 <=> Listed("retire", r.name) # {}
    BY <1>1 DEF WorkloadsListed, Listed
  <2>. QED
    BY <2>1, <2>2
<1>3. \A r \in Range(s.workloads) : r.name \in Names
  BY DEF Range, Names, WorkloadNames
<1>4. \A w \in Names : \E r \in Range(s.workloads) : r.name = w
  BY DEF Range, Names, WorkloadNames
<1>5. ASSUME NEW r \in Range(s.workloads)
      PROVE  r.submitAt <= t /\ (r.retireAt = 0 \/ t < r.retireAt) <=> r.name \in X
  <2>1. t \in Nat /\ r.retireAt \in Nat
    <3>1. n \in 1..Len(E) /\ E[n] \in EventType
      BY TimelineFacts
    <3>2. PICK i \in DOMAIN s.workloads : r = s.workloads[i]
      BY DEF Range
    <3>. QED
      BY <3>1, <3>2, ValidScenario DEF EventType
  <2>2. r.submitAt <= t <=> \E m \in Listed("submit", r.name) : m < n
    BY <1>2
  <2>3. r.retireAt = 0 \/ t < r.retireAt <=> ~\E m \in Listed("retire", r.name) : m < n
    BY <1>2, <2>1
  <2>4. r.name \in X <=> /\ \E m \in Listed("submit", r.name) : m < n
                         /\ ~\E m \in Listed("retire", r.name) : m < n
    BY <1>3
  <2>. QED
    BY ONLY <2>2, <2>3, <2>4
<1>6. ExistAt(t) = {r.name : r \in {w \in Range(s.workloads) :
                                       w.submitAt <= t /\ (w.retireAt = 0 \/ t < w.retireAt)}}
  BY DEF ExistAt
<1>7. X \subseteq Names
  OBVIOUS
<1>. HIDE DEF X, t
<1>8. \A x : x \in ExistAt(t) <=> x \in X
  BY <1>4, <1>5, <1>6, <1>7, Zenon
<1>9. ExistAt(t) = X
  BY <1>8
<1>. QED
  BY <1>2, <1>9 DEF X, t

LEMMA InitTimeline == Init => TimelineInv
<1>. SUFFICES ASSUME Init
              PROVE  TimelineInv
  OBVIOUS
<1>. DEFINE E == Events[scenario]
            zero == [bound |-> 0, fresh |-> 0, corpses |-> 0]
<1>1. scenario \in Scenarios /\ Validate(scenario)
  BY DEF Init
<1>2. /\ Len(E) \in Nat \ {0} /\ DOMAIN E = 1..Len(E) /\ E[1] \in EventType
      /\ IsFiniteSet(FaultEvents(scenario)) /\ FaultEvents(scenario) \subseteq 1..Len(E)
      /\ Cardinality(FaultEvents(scenario)) = Len(scenario.faults)
  BY <1>1, TimelineFacts
<1>3. Len(scenario.assertions) \in Nat /\ Len(scenario.faults) \in Nat
  BY <1>1, ValidScenario
<1>4. /\ now = 0 /\ wake = E[1].at /\ phase = "timeline" /\ next = 1 /\ deadline = 0
      /\ verdicts = <<>> /\ faults = <<>> /\ alive = {} /\ pods = [w \in Names |-> zero]
  BY DEF Init
<1>5. zero \in PodCounts
  BY DEF PodCounts
<1>6. RunTyped
  <2>1. pods \in [Names -> PodCounts]
    BY <1>4, <1>5, Zenon
  <2>2. faults \in Seq(FaultRecord)
    BY <1>4, EmptySeq
  <2>. QED
    BY <1>1, <1>2, <1>4, <2>1, <2>2, ClockAssumption DEF RunTyped, EventType
<1>7. InPlace
  <2>1. Len(verdicts) = 0
    BY <1>4, EmptySeq
  <2>2. phase # "retiring" /\ wake = Event.at
    BY <1>4 DEF Event
  <2>3. next \in 1..(Len(E) + Len(scenario.assertions) + 1) /\ next <= Len(E) + 1
    <3>1. \A a, b \in Nat : 1 \in 1..(a + b + 1) /\ 1 <= a + 1
      OBVIOUS
    <3>. QED
      BY <1>2, <1>3, <1>4, <3>1
  <2>4. Len(verdicts) <= Len(scenario.assertions)
    BY <1>3, <2>1
  <2>. QED
    BY <2>2, <2>3, <2>4 DEF InPlace
<1>8. Past = {}
  BY <1>2, <1>4 DEF Past
<1>9. WorkloadsAccounted
  BY <1>4, <1>8 DEF WorkloadsAccounted
<1>10. FaultsAccounted
  BY <1>3, <1>4, <1>8, EmptySeq, FS_EmptySet DEF FaultsAccounted
<1>11. PodsAccounted
  <2>1. \A w \in Names : Pods(w) = 0
    BY <1>4 DEF Pods
  <2>. QED
    BY <2>1 DEF PodsAccounted
<1>12. AtTheEnd
  BY <1>4 DEF AtTheEnd, Judging
<1>. QED
  BY InitInv, <1>6, <1>7, <1>9, <1>10, <1>11, <1>12 DEF TimelineInv

\* What the rest of the invariant is about, beside the clock and the pods.
timeline == <<scenario, phase, next, deadline, verdicts, faults, alive, wake>>

LEMMA TimelineUnchanged ==
    ASSUME TimelineInv, UNCHANGED timeline
    PROVE  /\ InPlace' /\ WorkloadsAccounted' /\ FaultsAccounted' /\ AtTheEnd'
           /\ pods' = pods => PodsAccounted'
<1>1. /\ scenario' = scenario /\ phase' = phase /\ next' = next /\ verdicts' = verdicts
      /\ faults' = faults /\ alive' = alive /\ wake' = wake
  BY DEF timeline
<1>2. InPlace'
  BY <1>1 DEF TimelineInv, InPlace, OnTimeline, Event
<1>3. Past' = Past /\ OnTimeline' = OnTimeline
  BY <1>1 DEF Past, OnTimeline
<1>4. WorkloadsAccounted'
  BY <1>1, <1>3 DEF TimelineInv, WorkloadsAccounted, Listed, Names
<1>5. AtTheEnd'
  BY <1>1 DEF TimelineInv, AtTheEnd
<1>6. FaultsAccounted'
  BY <1>1, <1>3 DEF TimelineInv, FaultsAccounted, Recorded, ExistAt
<1>7. pods' = pods => PodsAccounted'
  BY <1>1, <1>3 DEF TimelineInv, PodsAccounted, Listed, Names, Pods
<1>. QED
  BY <1>2, <1>4, <1>5, <1>6, <1>7

LEMMA FaultsTyped ==
    ASSUME RunTyped
    PROVE  /\ Len(faults) \in Nat /\ DOMAIN faults = 1..Len(faults)
           /\ \A i \in DOMAIN faults : faults[i].at \in Nat
<1>1. faults \in Seq(FaultRecord)
  BY DEF RunTyped
<1>2. Len(faults) \in Nat /\ DOMAIN faults = 1..Len(faults)
  BY <1>1
<1>3. \A i \in DOMAIN faults : faults[i] \in FaultRecord
  BY <1>1, <1>2, ElementOfSeq
<1>. QED
  BY <1>2, <1>3 DEF FaultRecord

\* Time passes, or a signal comes.
LEMMA TickKeepsTimeline ==
    ASSUME TimelineInv, Tick \/ Signal
    PROVE  TimelineInv'
<1>1. UNCHANGED timeline /\ UNCHANGED pods /\ now' \in 0..MaxTime
  BY ClockAssumption DEF Tick, Signal, run, cluster, timeline, TimelineInv, RunTyped
<1>2. RunInv'
  <2>1. CASE Tick
    BY <2>1, TickKeepsInv DEF TimelineInv
  <2>2. CASE Signal
    <3>1. UNCHANGED <<judged, now, lag>> /\ cancelled' = TRUE
      BY <2>2 DEF Signal, run, judged
    <3>. QED
      BY <3>1, ClusterKeepsInv DEF TimelineInv
  <2>. QED
    BY <2>1, <2>2
<1>3. RunTyped'
  BY <1>1 DEF TimelineInv, RunTyped, timeline, Names, FaultRecord
<1>. QED
  BY <1>1, <1>2, <1>3, TimelineUnchanged DEF TimelineInv

\* The controllers move the pods between the counts, and add one only to what exists.
LEMMA ClusterKeepsTimeline ==
    ASSUME TimelineInv, Cluster
    PROVE  TimelineInv'
<1>1. UNCHANGED timeline /\ UNCHANGED now
  BY DEF Cluster, Place, Start, Evict, Collect, timeline, run
<1>2. RunInv'
  <2>1. UNCHANGED <<judged, now, lag, cancelled>>
    BY DEF Cluster, Place, Start, Evict, Collect, run, judged, outside
  <2>. QED
    BY <2>1, ClusterKeepsInv DEF TimelineInv
<1>. DEFINE total(p) == p.bound + p.fresh + p.corpses
<1>3. PICK v \in Names, p \in PodCounts :
          /\ pods' = [pods EXCEPT ![v] = p]
          /\ total(p) > 0 => v \in alive \/ total(pods[v]) > 0
  <2>1. PICK v \in Names : Place(v) \/ Start(v) \/ Evict(v) \/ Collect(v)
    BY DEF Cluster
  <2>2. pods[v] \in PodCounts
    BY DEF TimelineInv, RunTyped
  <2>3. CASE Place(v)
    <3>. DEFINE p == [pods[v] EXCEPT !.bound = @ + 1]
    <3>1. p \in PodCounts
      BY <2>2 DEF PodCounts
    <3>2. pods' = [pods EXCEPT ![v] = p] /\ v \in alive
      BY <2>3 DEF Place
    <3>. QED
      BY <3>1, <3>2
  <2>4. CASE Start(v)
    <3>. DEFINE p == [pods[v] EXCEPT !.bound = @ - 1, !.fresh = @ + 1]
    <3>1. /\ pods[v].bound \in Nat /\ pods[v].fresh \in Nat /\ pods[v].corpses \in Nat
          /\ pods[v].bound > 0
      BY <2>2, <2>4 DEF PodCounts, Start
    <3>. DEFINE b == pods[v].bound - 1
                q == pods[v].fresh + 1
    <3>3. b \in Nat /\ q \in Nat /\ total(pods[v]) > 0
      BY <3>1
    <3>4. p = [pods[v] EXCEPT !.bound = b, !.fresh = q]
      OBVIOUS
    <3>5. \A c \in PodCounts : \A m, n \in Nat : [c EXCEPT !.bound = m, !.fresh = n] \in PodCounts
      BY DEF PodCounts
    <3>6. p \in PodCounts
      <4>. HIDE DEF b, q, p
      <4>. QED
        BY <2>2, <3>3, <3>4, <3>5
    <3>2. pods' = [pods EXCEPT ![v] = p]
      BY <2>4 DEF Start
    <3>. QED
      BY <3>2, <3>3, <3>6
  <2>5. CASE Evict(v)
    <3>. DEFINE p == [pods[v] EXCEPT !.corpses = @ - 1]
    <3>1. p \in PodCounts /\ total(pods[v]) > 0
      BY <2>2, <2>5 DEF PodCounts, Evict
    <3>2. pods' = [pods EXCEPT ![v] = p]
      BY <2>5 DEF Evict
    <3>. QED
      BY <3>1, <3>2
  <2>6. CASE Collect(v)
    <3>. DEFINE p == [bound |-> 0, fresh |-> 0, corpses |-> 0]
    <3>1. p \in PodCounts /\ p.bound = 0 /\ p.fresh = 0 /\ p.corpses = 0
      BY DEF PodCounts
    <3>2. pods' = [pods EXCEPT ![v] = p]
      BY <2>6 DEF Collect
    <3>3. total(p) = 0
      BY <3>1
    <3>4. ~(total(p) > 0)
      BY ONLY <3>3
    <3>. HIDE DEF p, total
    <3>. QED
      BY <3>1, <3>2, <3>4, Zenon
  <2>. QED
    BY <2>1, <2>3, <2>4, <2>5, <2>6
<1>4. RunTyped'
  BY <1>1, <1>3 DEF TimelineInv, RunTyped, timeline, Names, FaultRecord
<1>5. PodsAccounted'
  <2>1. /\ Past' = Past /\ OnTimeline' = OnTimeline /\ Names' = Names
        /\ \A w : Listed("submit", w)' = Listed("submit", w)
    BY <1>1 DEF timeline, Past, OnTimeline, Names, Listed
  <2>2. ASSUME OnTimeline, NEW w \in Names, total(pods'[w]) > 0
        PROVE  Listed("submit", w) \cap Past # {}
    <3>1. w \in alive \/ total(pods[w]) > 0
      <4>1. pods \in [Names -> PodCounts]
        BY DEF TimelineInv, RunTyped
      <4>2. CASE w = v
        BY <1>3, <2>2, <4>1, <4>2
      <4>3. CASE w # v
        BY <1>3, <2>2, <4>1, <4>3
      <4>. QED
        BY <4>2, <4>3
    <3>2. w \in alive => Listed("submit", w) \cap Past # {}
      BY <2>2 DEF TimelineInv, WorkloadsAccounted
    <3>3. total(pods[w]) > 0 => Listed("submit", w) \cap Past # {}
      BY <2>2 DEF TimelineInv, PodsAccounted, Pods
    <3>. QED
      BY <3>1, <3>2, <3>3
  <2>. QED
    BY <2>1, <2>2 DEF PodsAccounted, Pods
<1>. QED
  BY <1>1, <1>2, <1>4, <1>5, TimelineUnchanged DEF TimelineInv

\* The runner judges: what happened on the timeline stays as it was.
LEMMA JudgingKeepsTimeline ==
    ASSUME TimelineInv,
           \/ BeginAssertion \/ CheckSettled \/ CutSettling \/ Check \/ Decide \/ CutPolling
           \/ Finish
    PROVE  TimelineInv'
<1>. DEFINE A == scenario.assertions
            E == Events[scenario]
<1>1. RunInv'
  BY BeginKeepsInv, CheckSettledKeepsInv, CheckKeepsInv, DecideKeepsInv, TimelineKeepsInv,
     CutKeepsInv
  DEF TimelineInv
<1>2. /\ UNCHANGED <<scenario, now, faults, alive, pods>>
      /\ phase \in Judging /\ phase' \in Judging \cup {"done"}
  BY DEF BeginAssertion, CheckSettled, CutSettling, Check, Decide, CutPolling, Finish, Conclude,
         cluster, run, Judging
<1>3. /\ scenario \in Scenarios /\ Validate(scenario)
      /\ now \in 0..MaxTime /\ wake \in Nat /\ deadline \in Nat /\ MaxTime \in Nat
      /\ now \in Nat
  BY ClockAssumption DEF TimelineInv, RunTyped
<1>4. Len(A) \in Nat /\ DOMAIN A = 1..Len(A) /\ Len(E) \in Nat \ {0} /\ Len(scenario.faults) \in Nat
  BY <1>3, ValidScenario, TimelineFacts
<1>5. wake' \in Nat /\ deadline' \in Nat
  <2>1. CASE BeginAssertion
    <3>1. next \in DOMAIN A /\ Assertion = A[next]
      BY <2>1 DEF BeginAssertion, Assertion
    <3>2. {Assertion.within, Assertion.settle, Assertion.budget} \subseteq Nat
      BY <1>3, <3>1, ScenariosAssumption
    <3>3. DeadlineOf(Assertion) \in Nat
      <4>1. faults # <<>> => faults[Len(faults)].at \in Nat
        <5>1. faults \in Seq(FaultRecord)
          BY DEF TimelineInv, RunTyped
        <5>2. faults # <<>> => Len(faults) \in DOMAIN faults
          BY <5>1, EmptySeq
        <5>. QED
          BY <5>2, FaultsTyped DEF TimelineInv
      <4>2. /\ Assertion.within \in Nat /\ Assertion.budget \in Nat
            /\ now \in Nat /\ DefaultWait \in Nat
        BY <1>3, <3>2, ClockAssumption
      <4>. QED
        BY <4>1, <4>2 DEF DeadlineOf
    <3>. QED
      BY <1>3, <2>1, <3>2, <3>3 DEF BeginAssertion
  <2>2. CASE CheckSettled \/ CutSettling \/ Check \/ CutPolling \/ Finish
    <3>1. UNCHANGED <<wake, deadline>>
      BY <2>2 DEF CheckSettled, CutSettling, Check, CutPolling, Finish, run
    <3>. QED
      BY <1>3, <3>1
  <2>3. CASE Decide
    <3>1. deadline' = deadline /\ wake' \in {wake, now + Poll}
      BY <2>3 DEF Decide
    <3>2. Poll \in Nat
      BY ClockAssumption
    <3>. QED
      BY ONLY <1>3, <3>1, <3>2
  <2>. QED
    BY <2>1, <2>2, <2>3
<1>6. RunTyped'
  BY <1>2, <1>3, <1>5 DEF TimelineInv, RunTyped, Names, FaultRecord
<1>7. InPlace'
  <2>1. /\ Len(verdicts) \in Nat /\ Len(verdicts)' \in Nat
        /\ Len(verdicts') <= Len(A) /\ next' \in 1..(Len(E) + Len(A) + 1)
    <3>1. /\ verdicts \in Seq(VerdictType) /\ verdicts' \in Seq(VerdictType)
          /\ next = Len(verdicts) + 1
          /\ phase \in Judging \ {"evaluate"} => next \in DOMAIN A
          /\ phase' \in Judging => next' = Len(verdicts') + 1
          /\ phase' \in Judging \ {"evaluate"} => next' \in DOMAIN A
      BY <1>1, <1>2 DEF TimelineInv, RunInv, ClockTyped, InTurn, Judging
    <3>2. Len(verdicts) \in Nat /\ Len(verdicts') \in Nat
      BY <3>1
    <3>3. \/ UNCHANGED <<next, verdicts>>
          \/ /\ phase \in {"settle", "pause", "decide"}
             /\ next' = next + 1 /\ phase' = "evaluate"
      BY DEF BeginAssertion, CheckSettled, CutSettling, Check, Decide, CutPolling, Finish,
             Conclude, run
    <3>4. Len(verdicts) <= Len(A) /\ next \in 1..(Len(E) + Len(A) + 1)
      BY DEF TimelineInv, InPlace
    <3>. DEFINE a == Len(A)
                e == Len(E)
                v == Len(verdicts)
    <3>5. a \in Nat /\ e \in Nat /\ DOMAIN A = 1..a /\ v \in Nat /\ Len(verdicts') \in Nat
      BY <1>4, <3>2
    <3>6. v <= a /\ next \in 1..(e + a + 1)
      BY <3>4
    <3>. HIDE DEF a, e, v
    <3>7. CASE UNCHANGED <<next, verdicts>>
      BY <3>5, <3>6, <3>7 DEF a, e, v
    <3>8. CASE /\ phase \in {"settle", "pause", "decide"}
               /\ next' = next + 1 /\ phase' = "evaluate"
      <4>1. next \in 1..a
        BY <3>1, <3>5, <3>8 DEF Judging
      <4>2. next' \in 1..(e + a + 1) /\ Len(verdicts') <= a
        BY <3>1, <3>5, <3>8, <4>1 DEF Judging
      <4>. QED
        BY <3>2, <4>2 DEF a, e
    <3>. QED
      BY <3>3, <3>7, <3>8
  <2>. QED
    BY <1>2, <2>1 DEF InPlace, OnTimeline, Judging
<1>8. WorkloadsAccounted' /\ PodsAccounted'
  BY <1>2 DEF WorkloadsAccounted, PodsAccounted, OnTimeline, Judging
<1>9. FaultsAccounted'
  BY <1>2 DEF TimelineInv, FaultsAccounted, Recorded, ExistAt, OnTimeline, Judging
<1>10. AtTheEnd'
  BY <1>2 DEF TimelineInv, AtTheEnd
<1>. QED
  BY <1>1, <1>6, <1>7, <1>8, <1>9, <1>10 DEF TimelineInv

\* The run ends without a verdict.
LEMMA AbortKeepsTimeline ==
    ASSUME TimelineInv, Abort \/ Interrupted
    PROVE  TimelineInv'
<1>1. /\ UNCHANGED <<scenario, now, faults, alive, pods, wake, deadline, next, verdicts>>
      /\ phase' = "error"
  BY DEF Abort, Interrupted, run, cluster
<1>2. RunInv'
  BY TimelineKeepsInv DEF TimelineInv
<1>3. RunTyped'
  BY <1>1 DEF TimelineInv, RunTyped, Names, FaultRecord
<1>4. InPlace'
  BY <1>1 DEF TimelineInv, InPlace, OnTimeline
<1>5. FaultsAccounted'
  BY <1>1 DEF TimelineInv, FaultsAccounted, Recorded, ExistAt, OnTimeline
<1>6. WorkloadsAccounted' /\ PodsAccounted' /\ AtTheEnd'
  BY <1>1 DEF WorkloadsAccounted, PodsAccounted, AtTheEnd, OnTimeline, Judging
<1>. QED
  BY <1>2, <1>3, <1>4, <1>5, <1>6 DEF TimelineInv

\* The runner goes on to the next event, and sleeps until it is due.
LEMMA AdvanceOnTimeline ==
    ASSUME TimelineInv, OnTimeline, next <= Len(Events[scenario]), next' = next + 1,
           phase' = "timeline", SleepUntilEvent(next'), UNCHANGED <<scenario, verdicts, now>>
    PROVE  /\ InPlace' /\ wake' \in Nat
           /\ next \in DOMAIN Events[scenario] /\ Past' = Past \cup {next}
<1>. DEFINE E == Events[scenario]
            e == Len(E)
            a == Len(scenario.assertions)
<1>1. /\ scenario \in Scenarios /\ Validate(scenario) /\ now \in Nat
      /\ next \in 1..(e + a + 1) /\ Len(verdicts) <= a
  <2>1. scenario \in Scenarios /\ Validate(scenario) /\ now \in Nat
    BY ClockAssumption DEF TimelineInv, RunTyped
  <2>2. next \in 1..(e + a + 1) /\ Len(verdicts) <= a
    BY DEF TimelineInv, InPlace
  <2>. QED
    BY <2>1, <2>2
<1>2. /\ e \in Nat \ {0} /\ DOMAIN E = 1..e /\ a \in Nat
      /\ \A n \in 1..e : E[n].at \in Nat
  <2>1. \A n \in 1..e : E[n] \in EventType
    BY <1>1, TimelineFacts
  <2>. QED
    BY <1>1, <2>1, TimelineFacts, ValidScenario DEF EventType
<1>3. next \in 1..e
  <2>. HIDE DEF e, a, E
  <2>1. next <= e
    BY DEF e, E
  <2>. QED
    BY <1>1, <1>2, <2>1
<1>4. wake' = IF next' \in DOMAIN E THEN E[next'].at ELSE now
  BY DEF SleepUntilEvent
<1>5. next' \in 1..(e + a + 1) /\ next' <= e + 1 /\ (next' <= e <=> next' \in DOMAIN E)
  <2>. HIDE DEF e, a, E
  <2>. QED
    BY <1>2, <1>3
<1>6. InPlace'
  BY <1>1, <1>4, <1>5 DEF InPlace, Event
<1>7. wake' \in Nat
  BY <1>1, <1>2, <1>4
<1>8. Past' = Past \cup {next}
  <2>1. /\ Past = {n \in 1..e : n < next \/ (phase = "retiring" /\ n = next)}
        /\ Past' = {n \in 1..e : n < next + 1}
    BY <1>2 DEF Past
  <2>. HIDE DEF e
  <2>. QED
    BY <1>2, <1>3, <2>1
<1>. QED
  BY <1>2, <1>3, <1>6, <1>7, <1>8

\* What all events have in common: they are due, and in their turn.
LEMMA DueFacts ==
    ASSUME TimelineInv, NEW kind, Due(kind)
    PROVE  /\ scenario \in Scenarios /\ Validate(scenario) /\ now \in Nat
           /\ OnTimeline /\ phase = "timeline" /\ next \in 1..Len(Events[scenario])
           /\ next <= Len(Events[scenario]) /\ next \notin Past
           /\ Event \in EventType /\ Event.kind = kind /\ Event.at <= now
           /\ Past = {n \in 1..Len(Events[scenario]) : n < next}
<1>1. /\ scenario \in Scenarios /\ Validate(scenario) /\ now \in Nat /\ now >= wake
      /\ phase = "timeline" /\ next \in DOMAIN Events[scenario] /\ Event.kind = kind
      /\ next <= Len(Events[scenario]) => wake = Event.at
  BY ClockAssumption DEF TimelineInv, RunTyped, InPlace, Due, Awake
<1>2. /\ Len(Events[scenario]) \in Nat \ {0} /\ DOMAIN Events[scenario] = 1..Len(Events[scenario])
      /\ \A n \in 1..Len(Events[scenario]) : Events[scenario][n] \in EventType
  BY <1>1, TimelineFacts
<1>3. next \in 1..Len(Events[scenario]) /\ next <= Len(Events[scenario])
  BY <1>1, <1>2
<1>4. Event \in EventType
  BY <1>2, <1>3 DEF Event
<1>5. Past = {n \in 1..Len(Events[scenario]) : n < next}
  BY <1>1, <1>2 DEF Past
<1>. QED
  BY <1>1, <1>3, <1>4, <1>5 DEF OnTimeline

\* An event that is no fault, and leaves what is on record alone.
LEMMA NoFaultFired ==
    ASSUME TimelineInv, OnTimeline, UNCHANGED <<scenario, faults>>, OnTimeline',
           FaultEvents(scenario) \cap Past' = FaultEvents(scenario) \cap Past
    PROVE  FaultsAccounted'
<1>1. \A k \in DOMAIN faults : \E n \in FaultEvents(scenario) \cap Past :
          Recorded(faults[k], Events[scenario][n])
  BY DEF TimelineInv, FaultsAccounted
<1>2. \A k, e : Recorded(k, e)' <=> Recorded(k, e)
  BY DEF Recorded, ExistAt
<1>3. \A k \in DOMAIN faults' : \E n \in FaultEvents(scenario)' :
          (OnTimeline => n \in Past)' /\ Recorded(faults[k], Events[scenario][n])'
  BY <1>1, <1>2
<1>. QED
  BY <1>3 DEF TimelineInv, FaultsAccounted

\* The past grows, and no pod is made.
LEMMA PodsStayAccounted ==
    ASSUME TimelineInv, OnTimeline, scenario' = scenario, Past \subseteq Past',
           \A w \in Names : Pods(w)' > 0 => Pods(w) > 0
    PROVE  PodsAccounted'
<1>1. Names' = Names /\ \A w : Listed("submit", w)' = Listed("submit", w)
  BY DEF Names, Listed
<1>. QED
  BY <1>1 DEF TimelineInv, PodsAccounted

LEMMA SubmitKeepsTimeline ==
    ASSUME TimelineInv, Submit
    PROVE  TimelineInv'
<1>. DEFINE E == Events[scenario]
            v == Event.name
<1>1. /\ scenario \in Scenarios /\ Validate(scenario) /\ now \in Nat
      /\ OnTimeline /\ phase = "timeline" /\ next \in 1..Len(E) /\ next <= Len(E)
      /\ Event.kind = "submit" /\ Past = {n \in 1..Len(E) : n < next}
  BY DueFacts DEF Submit
<1>2. /\ alive' = alive \cup {v} /\ next' = next + 1 /\ phase' = "timeline"
      /\ SleepUntilEvent(next')
      /\ UNCHANGED <<scenario, deadline, verdicts, faults, pods, now>>
  BY <1>1 DEF Submit
<1>3. /\ InPlace' /\ wake' \in Nat /\ next \in DOMAIN E /\ Past' = Past \cup {next}
  BY <1>1, <1>2, AdvanceOnTimeline
<1>4. RunInv'
  BY TimelineKeepsInv DEF TimelineInv
<1>5. v \in Names
  BY <1>1, TimelineFacts DEF Names, Event
<1>6. RunTyped'
  BY <1>2, <1>3, <1>5 DEF TimelineInv, RunTyped, Names, FaultRecord
<1>7. WorkloadsAccounted'
  <2>1. \A w : /\ next \in Listed("submit", w) <=> w = v
               /\ next \notin Listed("retire", w)
    BY <1>1, <1>3 DEF Listed, Event
  <2>2. Listed("retire", v) \cap Past = {}
    <3>1. \A n \in Listed("retire", v) : n \in 1..Len(E) /\ next < n
      BY <1>1, TimelineFacts DEF Listed, Event
    <3>. QED
      BY <1>1, <3>1
  <2>3. /\ \A w : Listed("submit", w)' = Listed("submit", w)
        /\ \A w : Listed("retire", w)' = Listed("retire", w)
        /\ Names' = Names
    BY <1>2 DEF Listed, Names
  <2>4. alive = {w \in Names : /\ Listed("submit", w) \cap Past # {}
                               /\ Listed("retire", w) \cap Past = {}}
    BY <1>1 DEF TimelineInv, WorkloadsAccounted
  <2>5. ASSUME NEW w \in Names
        PROVE  w \in alive' <=> /\ Listed("submit", w) \cap Past' # {}
                                /\ Listed("retire", w) \cap Past' = {}
    BY <1>2, <1>3, <2>1, <2>2, <2>4
  <2>6. alive' \subseteq Names
    BY <1>2, <1>5, <2>4
  <2>7. alive' = {w \in Names : /\ Listed("submit", w) \cap Past' # {}
                                /\ Listed("retire", w) \cap Past' = {}}
    BY <2>5, <2>6
  <2>. QED
    BY <2>3, <2>7 DEF WorkloadsAccounted
<1>8. FaultsAccounted'
  <2>1. next \notin FaultEvents(scenario)
    BY <1>1 DEF FaultEvents, Event
  <2>2. FaultEvents(scenario) \cap Past' = FaultEvents(scenario) \cap Past
    BY <1>3, <2>1
  <2>. QED
    BY <1>1, <1>2, <2>2, NoFaultFired DEF OnTimeline
<1>9. PodsAccounted' /\ AtTheEnd'
  <2>1. \A w \in Names : Pods(w)' = Pods(w)
    BY <1>2 DEF Pods
  <2>2. PodsAccounted'
    BY <1>1, <1>2, <1>3, <2>1, PodsStayAccounted
  <2>. QED
    BY <1>2, <2>2 DEF AtTheEnd, Judging
<1>. QED
  BY <1>3, <1>4, <1>6, <1>7, <1>8, <1>9 DEF TimelineInv

LEMMA RetireKeepsTimeline ==
    ASSUME TimelineInv, Retire
    PROVE  TimelineInv'
<1>. DEFINE E == Events[scenario]
            v == Event.name
<1>1. /\ scenario \in Scenarios /\ Validate(scenario) /\ now \in Nat
      /\ OnTimeline /\ phase = "timeline" /\ next \in 1..Len(E) /\ next <= Len(E)
      /\ Event.kind = "retire" /\ Past = {n \in 1..Len(E) : n < next}
  BY DueFacts DEF Retire
<1>2. /\ alive' = alive \ {v} /\ phase' = "retiring" /\ deadline' = now + RetireWait
      /\ UNCHANGED <<scenario, next, verdicts, faults, pods, now, wake>>
  BY DEF Retire
<1>3. InPlace'
  BY <1>1, <1>2 DEF TimelineInv, InPlace, OnTimeline, Event
<1>4. DOMAIN E = 1..Len(E) /\ Past' = Past \cup {next}
  <2>1. Len(E) \in Nat /\ DOMAIN E = 1..Len(E)
    BY <1>1, TimelineFacts
  <2>2. Past' = {n \in 1..Len(E) : n < next \/ n = next}
    BY <1>2, <2>1 DEF Past
  <2>. QED
    BY <1>1, <2>1, <2>2
<1>5. RunInv'
  BY TimelineKeepsInv DEF TimelineInv
<1>6. RunTyped'
  BY <1>1, <1>2, ClockAssumption DEF TimelineInv, RunTyped, Names, FaultRecord
<1>7. WorkloadsAccounted'
  <2>1. \A w : /\ next \in Listed("retire", w) <=> w = v
               /\ next \notin Listed("submit", w)
    BY <1>1, <1>4 DEF Listed, Event
  <2>2. /\ \A w : Listed("submit", w)' = Listed("submit", w)
        /\ \A w : Listed("retire", w)' = Listed("retire", w)
        /\ Names' = Names
    BY <1>2 DEF Listed, Names
  <2>3. alive = {w \in Names : /\ Listed("submit", w) \cap Past # {}
                               /\ Listed("retire", w) \cap Past = {}}
    BY <1>1 DEF TimelineInv, WorkloadsAccounted
  <2>4. alive' = {w \in Names : /\ Listed("submit", w) \cap Past' # {}
                                /\ Listed("retire", w) \cap Past' = {}}
    BY <1>2, <1>4, <2>1, <2>3
  <2>. QED
    BY <2>2, <2>4 DEF WorkloadsAccounted
<1>8. FaultsAccounted'
  <2>1. next \notin FaultEvents(scenario)
    BY <1>1 DEF FaultEvents, Event
  <2>2. FaultEvents(scenario) \cap Past' = FaultEvents(scenario) \cap Past
    BY <1>4, <2>1
  <2>. QED
    BY <1>1, <1>2, <2>2, NoFaultFired DEF OnTimeline
<1>9. PodsAccounted' /\ AtTheEnd'
  <2>1. \A w \in Names : Pods(w)' = Pods(w)
    BY <1>2 DEF Pods
  <2>2. PodsAccounted'
    BY <1>1, <1>2, <1>4, <2>1, PodsStayAccounted
  <2>. QED
    BY <1>2, <2>2 DEF AtTheEnd, Judging
<1>. QED
  BY <1>3, <1>5, <1>6, <1>7, <1>8, <1>9 DEF TimelineInv

LEMMA RetirePollKeepsTimeline ==
    ASSUME TimelineInv, RetirePoll
    PROVE  TimelineInv'
<1>. DEFINE E == Events[scenario]
<1>1. /\ scenario \in Scenarios /\ Validate(scenario) /\ now \in Nat
      /\ OnTimeline /\ phase = "retiring" /\ next <= Len(E)
      /\ UNCHANGED <<scenario, deadline, verdicts, faults, alive, pods, now>>
  BY ClockAssumption DEF RetirePoll, TimelineInv, RunTyped, InPlace, OnTimeline, cluster
<1>2. RunInv'
  BY TimelineKeepsInv DEF TimelineInv
<1>3. /\ InPlace' /\ wake' \in Nat /\ Past' = Past /\ OnTimeline'
      /\ phase' \in {"timeline", "retiring"}
  <2>1. CASE UNCHANGED <<phase, next>>
    <3>1. Past' = Past /\ OnTimeline'
      BY <1>1, <2>1 DEF Past, OnTimeline
    <3>2. InPlace'
      BY <1>1, <2>1 DEF TimelineInv, InPlace, OnTimeline, Event
    <3>3. wake' = now + 1 \/ phase' # phase
      BY <1>1, <2>1 DEF RetirePoll
    <3>. QED
      BY <1>1, <2>1, <3>1, <3>2, <3>3
  <2>2. CASE phase' = "timeline" /\ next' = next + 1 /\ SleepUntilEvent(next')
    <3>1. InPlace' /\ wake' \in Nat /\ next \in DOMAIN E /\ Past' = Past \cup {next}
      BY <1>1, <2>2, AdvanceOnTimeline
    <3>2. Past' = Past /\ OnTimeline'
      BY <1>1, <2>2, <3>1 DEF Past, OnTimeline
    <3>. QED
      BY <2>2, <3>1, <3>2
  <2>. QED
    BY <2>1, <2>2 DEF RetirePoll
<1>4. RunTyped'
  BY <1>1, <1>3 DEF TimelineInv, RunTyped, Names, FaultRecord
<1>5. WorkloadsAccounted'
  <2>1. /\ \A k, w : Listed(k, w)' = Listed(k, w)
        /\ Names' = Names
    BY <1>1 DEF Listed, Names
  <2>. QED
    BY <1>1, <1>3, <2>1 DEF TimelineInv, WorkloadsAccounted
<1>6. FaultsAccounted'
  BY <1>1, <1>3, NoFaultFired
<1>7. PodsAccounted' /\ AtTheEnd'
  <2>1. \A w \in Names : Pods(w)' = Pods(w)
    BY <1>1 DEF Pods
  <2>2. PodsAccounted'
    BY <1>1, <1>3, <2>1, PodsStayAccounted
  <2>. QED
    BY <1>3, <2>2 DEF AtTheEnd, Judging
<1>. QED
  BY <1>2, <1>3, <1>4, <1>5, <1>6, <1>7 DEF TimelineInv

LEMMA FireFaultKeepsTimeline ==
    ASSUME TimelineInv, FireFault
    PROVE  TimelineInv'
<1>. DEFINE E == Events[scenario]
            T == FaultEvents(scenario)
            d == [w \in Names |-> IF w \in Event.hits THEN pods[w].fresh ELSE 0]
            f == [name |-> Event.name, at |-> now, found |-> alive, disrupted |-> d]
<1>1. /\ scenario \in Scenarios /\ Validate(scenario) /\ now \in Nat
      /\ OnTimeline /\ phase = "timeline" /\ next \in 1..Len(E) /\ next <= Len(E)
      /\ Event \in EventType /\ Event.kind = "fault" /\ Event.at <= now /\ next \notin Past
      /\ Past = {n \in 1..Len(E) : n < next}
  BY DueFacts DEF FireFault
<1>2. /\ faults' = Append(faults, f) /\ next' = next + 1 /\ phase' = "timeline"
      /\ SleepUntilEvent(next')
      /\ UNCHANGED <<scenario, deadline, verdicts, alive, now>>
      /\ pods' = [w \in Names |-> IF w \in Event.hits
                                  THEN [pods[w] EXCEPT !.fresh = 0, !.corpses = @ + pods[w].fresh]
                                  ELSE pods[w]]
  BY <1>1 DEF FireFault
<1>3. /\ InPlace' /\ wake' \in Nat /\ next \in DOMAIN E /\ Past' = Past \cup {next}
  BY <1>1, <1>2, AdvanceOnTimeline
<1>4. RunInv'
  BY TimelineKeepsInv DEF TimelineInv
<1>5. pods \in [Names -> PodCounts] /\ faults \in Seq(FaultRecord) /\ alive \subseteq Names
  BY DEF TimelineInv, RunTyped
<1>6. f \in FaultRecord
  <2>1. d \in [Names -> Nat]
    BY <1>5 DEF PodCounts
  <2>2. Names \subseteq STRING
    BY <1>1, ValidScenario DEF Names, WorkloadNames
  <2>3. Event.name \in STRING /\ alive \in SUBSET STRING
    BY <1>1, <1>5, <2>2 DEF EventType
  <2>. HIDE DEF d
  <2>. QED
    BY <1>1, <2>1, <2>3 DEF FaultRecord
<1>7. pods' \in [Names -> PodCounts] /\ \A w \in Names : Pods(w)' = Pods(w)
  <2>1. ASSUME NEW w \in Names
        PROVE  /\ pods'[w] \in PodCounts
               /\ pods'[w].bound + pods'[w].fresh + pods'[w].corpses
                      = pods[w].bound + pods[w].fresh + pods[w].corpses
    <3>1. pods[w] \in PodCounts
      BY <1>5
    <3>2. pods'[w] \in {pods[w], [pods[w] EXCEPT !.fresh = 0, !.corpses = @ + pods[w].fresh]}
      BY <1>2
    <3>. DEFINE p == [pods[w] EXCEPT !.fresh = 0, !.corpses = @ + pods[w].fresh]
    <3>3. p \in PodCounts /\ p.bound + p.fresh + p.corpses = pods[w].bound + pods[w].fresh + pods[w].corpses
      <4>1. \A c \in PodCounts, n \in Nat : LET q == [c EXCEPT !.fresh = 0, !.corpses = n]
                                           IN  /\ q \in PodCounts /\ q.bound = c.bound
                                               /\ q.fresh = 0 /\ q.corpses = n
        BY DEF PodCounts
      <4>2. pods[w].bound \in Nat /\ pods[w].fresh \in Nat /\ pods[w].corpses \in Nat
        BY <3>1 DEF PodCounts
      <4>. DEFINE n == pods[w].corpses + pods[w].fresh
      <4>3. n \in Nat /\ p = [pods[w] EXCEPT !.fresh = 0, !.corpses = n]
        BY <4>2
      <4>. HIDE DEF n, p
      <4>4. p \in PodCounts /\ p.bound = pods[w].bound /\ p.fresh = 0 /\ p.corpses = n
        BY <3>1, <4>1, <4>3, Zenon
      <4>. QED
        BY <4>2, <4>4 DEF n
    <3>. HIDE DEF p
    <3>4. CASE pods'[w] = pods[w]
      BY <3>1, <3>4
    <3>5. CASE pods'[w] = p
      BY <3>1, <3>3, <3>5
    <3>. QED
      BY <3>2, <3>4, <3>5 DEF p
  <2>2. pods' = [w \in Names |-> pods'[w]]
    BY <1>2
  <2>. QED
    BY <2>1, <2>2, Zenon DEF Pods
<1>8. /\ faults' \in Seq(FaultRecord) /\ Len(faults) \in Nat /\ Len(faults') = Len(faults) + 1
      /\ DOMAIN faults = 1..Len(faults) /\ DOMAIN faults' = 1..(Len(faults) + 1)
      /\ \A i \in 1..Len(faults) : faults'[i] = faults[i]
      /\ faults'[Len(faults) + 1] = f
  <2>. HIDE DEF f
  <2>1. /\ faults' \in Seq(FaultRecord) /\ Len(faults') = Len(faults) + 1
        /\ \A i \in 1..Len(faults) : faults'[i] = faults[i]
        /\ faults'[Len(faults) + 1] = f
    <3>1. faults' = Append(faults, f)
      BY <1>2
    <3>2. faults \in Seq(FaultRecord)
      BY <1>5
    <3>. QED
      BY ONLY <1>6, <3>1, <3>2, AppendProperties
  <2>2. Len(faults) \in Nat /\ DOMAIN faults = 1..Len(faults)
    BY FaultsTyped DEF TimelineInv
  <2>. QED
    BY <2>1, <2>2
<1>9. RunTyped'
  <2>1. FaultRecord' = FaultRecord /\ Names' = Names
    BY <1>2 DEF FaultRecord, Names
  <2>. QED
    BY <1>2, <1>3, <1>7, <1>8, <2>1 DEF TimelineInv, RunTyped
<1>10. alive = {w \in Names : /\ Listed("submit", w) \cap Past # {}
                              /\ Listed("retire", w) \cap Past = {}}
  BY <1>1 DEF TimelineInv, WorkloadsAccounted
<1>11. WorkloadsAccounted'
  <2>1. \A w : next \notin Listed("submit", w) /\ next \notin Listed("retire", w)
    BY <1>1 DEF Listed, Event
  <2>2. /\ \A w : Listed("submit", w)' = Listed("submit", w)
        /\ \A w : Listed("retire", w)' = Listed("retire", w)
        /\ Names' = Names
    BY <1>2 DEF Listed, Names
  <2>3. alive' = {w \in Names : /\ Listed("submit", w) \cap Past' # {}
                                /\ Listed("retire", w) \cap Past' = {}}
    <3>1. \A w : /\ Listed("submit", w) \cap Past' = Listed("submit", w) \cap Past
                 /\ Listed("retire", w) \cap Past' = Listed("retire", w) \cap Past
      BY <1>3, <2>1
    <3>. QED
      BY <1>2, <1>10, <3>1
  <2>. QED
    BY <2>2, <2>3 DEF WorkloadsAccounted
<1>12. next \in T /\ E[next] = Event
  BY <1>1, <1>3 DEF FaultEvents, Event
<1>13. Recorded(f, E[next])
  <2>1. /\ ExistAt(Event.at) = {w \in Names : /\ \E m \in Listed("submit", w) : m < next
                                              /\ ~\E m \in Listed("retire", w) : m < next}
        /\ \A r \in Range(scenario.workloads) : \A m \in Listed("submit", r.name) :
               m < next => r.submitAt <= Event.at
    BY <1>1, <1>12, ExistAtFault
  <2>2. \A kind, w : \A m \in Listed(kind, w) : m \in Past <=> m < next
    <3>1. DOMAIN E = 1..Len(E)
      BY <1>1, TimelineFacts
    <3>. QED
      BY <1>1, <3>1 DEF Listed
  <2>3. alive = ExistAt(Event.at)
    BY <1>10, <2>1, <2>2
  <2>4. ASSUME NEW w \in Range(scenario.workloads), f.disrupted[w.name] > 0
        PROVE  w.name \in Event.hits /\ w.submitAt <= Event.at
    <3>1. w.name \in Names
      BY DEF Names, WorkloadNames, Range
    <3>2. f.disrupted[w.name] = IF w.name \in Event.hits THEN pods[w.name].fresh ELSE 0
      BY <3>1
    <3>3. w.name \in Event.hits /\ pods[w.name].fresh > 0
      BY <2>4, <3>2
    <3>4. Pods(w.name) > 0
      <4>1. pods[w.name] \in PodCounts
        BY <1>5, <3>1
      <4>. QED
        BY <3>3, <4>1 DEF Pods, PodCounts
    <3>5. PICK m \in Listed("submit", w.name) : m \in Past
      BY <1>1, <3>1, <3>4 DEF TimelineInv, PodsAccounted
    <3>. QED
      BY <2>1, <2>2, <3>3, <3>5
  <2>5. f.name = Event.name /\ f.at = now /\ f.found = alive
    OBVIOUS
  <2>. HIDE DEF f
  <2>. QED
    BY <1>1, <1>12, <2>3, <2>4, <2>5 DEF Recorded, EventType
<1>14. FaultsAccounted'
  <2>1. /\ Len(faults) = Cardinality(T \cap Past)
        /\ \A k \in DOMAIN faults : \E n \in T \cap Past : Recorded(faults[k], E[n])
        /\ \A k, l \in DOMAIN faults : \A m, n \in T :
               k < l /\ E[m].name = faults[k].name /\ E[n].name = faults[l].name => m < n
    BY <1>1 DEF TimelineInv, FaultsAccounted
  <2>2. T \cap Past' = (T \cap Past) \cup {next} /\ next \notin T \cap Past
    BY <1>1, <1>3, <1>12
  <2>3. IsFiniteSet(T) /\ Cardinality(T) = Len(scenario.faults)
    BY <1>1, TimelineFacts
  <2>4. Cardinality(T \cap Past') = Len(faults) + 1
    <3>1. T \cap Past \in SUBSET T
      OBVIOUS
    <3>2. IsFiniteSet(T \cap Past)
      BY <2>3, <3>1, FS_Subset
    <3>3. Cardinality((T \cap Past) \cup {next}) = Cardinality(T \cap Past) + 1
      BY <2>2, <3>2, FS_AddElement
    <3>. QED
      BY <2>1, <2>2, <3>3
  <2>5. Len(faults) + 1 <= Len(scenario.faults)
    <3>1. T \cap Past' \in SUBSET T
      OBVIOUS
    <3>2. Cardinality(T \cap Past') <= Cardinality(T)
      BY <2>3, <3>1, FS_Subset
    <3>. QED
      BY <2>3, <2>4, <3>2
  <2>. HIDE DEF f
  <2>6. \A k \in DOMAIN faults' : \E n \in T \cap Past' : Recorded(faults'[k], E[n])
    <3>. SUFFICES ASSUME NEW k \in DOMAIN faults'
                  PROVE  \E n \in T \cap Past' : Recorded(faults'[k], E[n])
      OBVIOUS
    <3>1. CASE k \in DOMAIN faults
      BY <1>8, <2>1, <2>2, <3>1
    <3>2. CASE k = Len(faults) + 1
      BY <1>8, <1>13, <2>2, <3>2
    <3>. QED
      BY <1>8, <3>1, <3>2
  <2>7. ASSUME NEW k \in DOMAIN faults', NEW l \in DOMAIN faults', NEW m \in T, NEW n \in T,
               k < l, E[m].name = faults'[k].name, E[n].name = faults'[l].name
        PROVE  m < n
    <3>1. k \in DOMAIN faults /\ faults'[k] = faults[k]
      BY <1>8, <2>7
    <3>2. CASE l \in DOMAIN faults
      BY <1>8, <2>1, <2>7, <3>1, <3>2
    <3>3. CASE l = Len(faults) + 1
      <4>1. PICK h \in T \cap Past : Recorded(faults[k], E[h])
        BY <2>1, <3>1
      <4>2. m = h
        BY <1>1, <2>7, <3>1, <4>1, TimelineFacts DEF Recorded
      <4>3. n = next
        BY <1>1, <1>8, <1>12, <1>13, <2>7, <3>3, TimelineFacts DEF Recorded
      <4>. QED
        BY <1>1, <4>1, <4>2, <4>3
    <3>. QED
      BY <1>8, <3>2, <3>3
  <2>8. /\ FaultEvents(scenario)' = T /\ E' = E /\ scenario' = scenario
        /\ \A r, e : Recorded(r, e)' <=> Recorded(r, e)
    BY <1>2 DEF FaultEvents, Recorded, ExistAt
  <2>9. Len(faults') <= Len(scenario.faults) /\ Len(faults') = Cardinality(T \cap Past')
    BY <1>8, <2>4, <2>5
  <2>. HIDE DEF T
  <2>10. \A k \in DOMAIN faults' : \E n \in FaultEvents(scenario)' :
             n \in Past' /\ Recorded(faults[k], Events[scenario][n])'
    BY <2>6, <2>8
  <2>. QED
    BY <2>7, <2>8, <2>9, <2>10 DEF FaultsAccounted
<1>15. PodsAccounted' /\ AtTheEnd'
  <2>1. PodsAccounted'
    BY <1>1, <1>2, <1>3, <1>7, PodsStayAccounted
  <2>. QED
    BY <1>2, <2>1 DEF AtTheEnd, Judging
<1>. QED
  BY <1>3, <1>4, <1>9, <1>11, <1>14, <1>15 DEF TimelineInv

\* At the end of the timeline all of it is past.
LEMMA EndTimelineKeepsTimeline ==
    ASSUME TimelineInv, EndTimeline
    PROVE  TimelineInv'
<1>. DEFINE E == Events[scenario]
<1>1. /\ phase = "timeline" /\ next = Len(E) + 1 /\ phase' = "evaluate" /\ next' = 1
      /\ UNCHANGED <<scenario, deadline, verdicts, faults, alive, pods, now, wake>>
  BY DEF EndTimeline, cluster
<1>2. scenario \in Scenarios /\ Validate(scenario)
  BY DEF TimelineInv, RunTyped
<1>3. /\ Len(E) \in Nat /\ DOMAIN E = 1..Len(E)
      /\ FaultEvents(scenario) \subseteq 1..Len(E)
      /\ Cardinality(FaultEvents(scenario)) = Len(scenario.faults)
  BY <1>2, TimelineFacts
<1>4. Past = DOMAIN E
  BY <1>1, <1>3 DEF Past
<1>5. RunInv'
  BY TimelineKeepsInv DEF TimelineInv
<1>6. RunTyped'
  BY <1>1 DEF TimelineInv, RunTyped, Names, FaultRecord, Judging
<1>7. InPlace'
  <2>1. 1 \in 1..(Len(E) + Len(scenario.assertions) + 1)
    <3>1. \A a, b \in Nat : 1 \in 1..(a + b + 1)
      OBVIOUS
    <3>. QED
      BY <1>2, <1>3, <3>1, ValidScenario
  <2>. QED
    BY <1>1, <2>1 DEF TimelineInv, InPlace, OnTimeline
<1>8. WorkloadsAccounted' /\ PodsAccounted'
  BY <1>1 DEF WorkloadsAccounted, PodsAccounted, OnTimeline
<1>9. FaultsAccounted'
  <2>1. /\ FaultEvents(scenario)' = FaultEvents(scenario) /\ ~OnTimeline'
        /\ \A r, e : Recorded(r, e)' <=> Recorded(r, e)
    BY <1>1 DEF FaultEvents, Recorded, ExistAt, OnTimeline
  <2>2. /\ Len(faults) <= Len(scenario.faults)
        /\ \A k \in DOMAIN faults : \E n \in FaultEvents(scenario) : Recorded(faults[k], E[n])
        /\ \A k, l \in DOMAIN faults : \A m, n \in FaultEvents(scenario) :
               k < l /\ E[m].name = faults[k].name /\ E[n].name = faults[l].name => m < n
    BY DEF TimelineInv, FaultsAccounted
  <2>3. \A k \in DOMAIN faults' : \E n \in FaultEvents(scenario)' :
            Recorded(faults[k], Events[scenario][n])'
    BY <1>1, <2>1, <2>2
  <2>. QED
    BY <1>1, <2>1, <2>2, <2>3 DEF FaultsAccounted
<1>10. alive = {w.name : w \in {r \in Range(scenario.workloads) : r.retireAt = 0}}
  <2>1. alive = {w \in Names : Listed("submit", w) # {} /\ Listed("retire", w) = {}}
    BY <1>1, <1>4 DEF TimelineInv, WorkloadsAccounted, OnTimeline, Listed
  <2>2. \A r \in Range(scenario.workloads) :
            /\ Listed("submit", r.name) # {}
            /\ r.retireAt # 0 <=> Listed("retire", r.name) # {}
    BY <1>2, WorkloadsTheorem DEF WorkloadsListed, Listed
  <2>3. \A r \in Range(scenario.workloads) : r.name \in Names
    BY DEF Range, Names, WorkloadNames
  <2>4. \A w \in Names : \E r \in Range(scenario.workloads) : r.name = w
    BY DEF Range, Names, WorkloadNames
  <2>5. ASSUME NEW w \in alive
        PROVE  \E r \in Range(scenario.workloads) : r.name = w /\ r.retireAt = 0
    BY <2>1, <2>2, <2>4
  <2>6. ASSUME NEW r \in Range(scenario.workloads), r.retireAt = 0
        PROVE  r.name \in alive
    BY <2>1, <2>2, <2>3, <2>6
  <2>. QED
    BY <2>5, <2>6
<1>11. Len(faults) = Len(scenario.faults)
  <2>1. FaultEvents(scenario) \cap Past = FaultEvents(scenario)
    BY <1>3, <1>4
  <2>. QED
    BY <1>1, <1>3, <2>1 DEF TimelineInv, FaultsAccounted, OnTimeline
<1>12. AtTheEnd'
  BY <1>1, <1>10, <1>11 DEF AtTheEnd
<1>. QED
  BY <1>5, <1>6, <1>7, <1>8, <1>9, <1>12 DEF TimelineInv

LEMMA StepKeepsTimeline == TimelineInv /\ [Next]_vars => TimelineInv'
<1>. SUFFICES ASSUME TimelineInv, [Next]_vars
              PROVE  TimelineInv'
  OBVIOUS
<1>1. CASE Tick \/ Signal
  BY <1>1, TickKeepsTimeline
<1>2. CASE Cluster
  BY <1>2, ClusterKeepsTimeline
<1>3. CASE Submit \/ Retire \/ RetirePoll \/ FireFault \/ EndTimeline
  BY <1>3, SubmitKeepsTimeline, RetireKeepsTimeline, RetirePollKeepsTimeline,
     FireFaultKeepsTimeline, EndTimelineKeepsTimeline
<1>4. CASE \/ BeginAssertion \/ CheckSettled \/ CutSettling \/ Check \/ Decide \/ CutPolling
           \/ Finish
  BY <1>4, JudgingKeepsTimeline
<1>5. CASE Abort \/ Interrupted
  BY <1>5, AbortKeepsTimeline
<1>6. CASE UNCHANGED vars
  <2>1. /\ UNCHANGED timeline /\ UNCHANGED <<pods, now>>
        /\ UNCHANGED <<judged, now, lag, cancelled>>
    BY <1>6 DEF vars, run, cluster, outside, timeline, judged
  <2>2. RunInv'
    BY <2>1, ClusterKeepsInv DEF TimelineInv
  <2>3. RunTyped'
    BY <2>1 DEF TimelineInv, RunTyped, timeline, Names, FaultRecord
  <2>. QED
    BY <2>1, <2>2, <2>3, TimelineUnchanged DEF TimelineInv
<1>. QED
  BY <1>1, <1>2, <1>3, <1>4, <1>5, <1>6 DEF Next, Runner

-----------------------------------------------------------------------------

\* The account of the timeline holds in every behaviour.
THEOREM TimelineInvariant == Spec => []TimelineInv
BY InitTimeline, StepKeepsTimeline, PTL DEF Spec

\* Whatever the scenario declares and whatever the cluster does: the faults on record fired
\* in the order of their offsets and declaration, each no earlier than its offset and among
\* exactly the workloads that belong there; when the scenario is judged, all of it has happened.
THEOREM TimelineIsKept == Spec => []TimelineHappened
<1>1. ASSUME TimelineInv
      PROVE  TimelineHappened
  <2>. DEFINE E == Events[scenario]
              T == FaultEvents(scenario)
              F == scenario.faults
  <2>1. scenario \in Scenarios /\ Validate(scenario)
    BY <1>1 DEF TimelineInv, RunTyped
  <2>2. /\ \A n \in T : \E j \in DOMAIN F :
               E[n].name = F[j].name /\ E[n].at = F[j].at /\ E[n].hits = F[j].hits
        /\ \A m, n \in T : \A i, j \in DOMAIN F :
               E[m].name = F[i].name /\ E[n].name = F[j].name =>
                   (m < n <=> Before(F[i], i, F[j], j))
    BY <2>1, FaultsTheorem DEF FaultsListed
  <2>3. /\ \A k \in DOMAIN faults : \E n \in T : Recorded(faults[k], E[n])
        /\ \A k, l \in DOMAIN faults : \A m, n \in T :
               k < l /\ E[m].name = faults[k].name /\ E[n].name = faults[l].name => m < n
    BY <1>1 DEF TimelineInv, FaultsAccounted
  <2>4. ASSUME NEW k \in DOMAIN faults
        PROVE  \E f \in Range(F) :
                   /\ f.name = faults[k].name
                   /\ f.at <= faults[k].at
                   /\ faults[k].found = ExistAt(f.at)
                   /\ \A w \in Range(scenario.workloads) :
                          faults[k].disrupted[w.name] > 0 => w.name \in f.hits /\ w.submitAt <= f.at
    <3>1. PICK n \in T : Recorded(faults[k], E[n])
      BY <2>3
    <3>2. PICK j \in DOMAIN F : E[n].name = F[j].name /\ E[n].at = F[j].at /\ E[n].hits = F[j].hits
      BY <2>2
    <3>3. F[j] \in Range(F)
      BY DEF Range
    <3>4. F[j].at \in Nat /\ faults[k].at \in Nat
      BY <1>1, <2>1, ValidScenario, FaultsTyped DEF TimelineInv
    <3>5. faults[k].at >= F[j].at
      BY <3>1, <3>2 DEF Recorded
    <3>6. /\ F[j].name = faults[k].name /\ F[j].at <= faults[k].at
          /\ faults[k].found = ExistAt(F[j].at)
          /\ \A w \in Range(scenario.workloads) :
                 faults[k].disrupted[w.name] > 0 => w.name \in F[j].hits /\ w.submitAt <= F[j].at
      BY <3>1, <3>2, <3>4, <3>5 DEF Recorded
    <3>. QED
      BY <3>3, <3>6
  <2>5. ASSUME NEW k \in DOMAIN faults, NEW l \in DOMAIN faults,
               NEW i \in DOMAIN F, NEW j \in DOMAIN F,
               k < l, F[i].name = faults[k].name, F[j].name = faults[l].name
        PROVE  F[i].at < F[j].at \/ (F[i].at = F[j].at /\ i < j)
    <3>1. PICK m \in T : E[m].name = faults[k].name
      BY <2>3 DEF Recorded
    <3>2. PICK n \in T : E[n].name = faults[l].name
      BY <2>3 DEF Recorded
    <3>3. m < n
      BY <2>3, <2>5, <3>1, <3>2
    <3>. QED
      BY <2>2, <2>5, <3>1, <3>2, <3>3 DEF Before
  <2>6. phase \in {"evaluate", "settle", "check", "pause", "decide", "done"} =>
            /\ Len(faults) = Len(scenario.faults)
            /\ alive = {w.name : w \in {r \in Range(scenario.workloads) : r.retireAt = 0}}
    BY <1>1 DEF TimelineInv, AtTheEnd, Judging
  <2>. QED
    BY <2>4, <2>5, <2>6 DEF TimelineHappened
<1>. QED
  BY <1>1, TimelineInvariant, PTL

\* No state leaves its type: no more faults are on record than are declared, no more verdicts
\* than there are assertions, and no pod count goes below 0.
THEOREM RunTypeCorrect == Spec => []TypeOK
<1>1. ASSUME TimelineInv
      PROVE  TypeOK
  <2>1. verdicts \in Seq(VerdictType) /\ cancelled \in BOOLEAN
    BY <1>1 DEF TimelineInv, RunInv, ClockTyped
  <2>2. \A i \in DOMAIN verdicts : verdicts[i] \in VerdictType
    <3>1. DOMAIN verdicts = 1..Len(verdicts)
      BY <2>1
    <3>. QED
      BY <2>1, <3>1, ElementOfSeq
  <2>3. /\ now \in 0..MaxTime /\ lag \in 0..Lag /\ wake \in Nat /\ deadline \in Nat
        /\ alive \subseteq Names
    BY <1>1 DEF TimelineInv, RunInv, ClockTyped, RunTyped
  <2>4. phase \in {"timeline", "retiring", "evaluate", "settle", "check", "pause", "decide",
                   "done", "error"}
    BY <1>1 DEF TimelineInv, RunTyped, Judging
  <2>5. pods \in [Names -> [bound : Nat, fresh : Nat, corpses : Nat]]
    BY <1>1 DEF TimelineInv, RunTyped, PodCounts
  <2>6. /\ next \in 1..(Len(Events[scenario]) + Len(scenario.assertions) + 1)
        /\ Len(verdicts) <= Len(scenario.assertions) /\ Len(faults) <= Len(scenario.faults)
    BY <1>1 DEF TimelineInv, InPlace, FaultsAccounted
  <2>. QED
    BY <2>1, <2>2, <2>3, <2>4, <2>5, <2>6 DEF TypeOK, VerdictType
<1>. QED
  BY <1>1, TimelineInvariant, PTL
=============================================================================
