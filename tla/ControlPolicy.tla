--------------------------- MODULE ControlPolicy ---------------------------
(***************************************************************************)
(* The control loop of the relay v3.  Once per tick AssessHealth turns the *)
(* queue, the dependencies and the policy in force into a health report,   *)
(* and Adapt turns the report into the next policy, which admission, the   *)
(* workers and the next health report obey: the policy feeds back on       *)
(* itself.  The policy is saved after every tick and loaded again by       *)
(* Bootstrap.                                                              *)
(*                                                                         *)
(* Fractions are percentages and durations are multiples of a unit, both   *)
(* rounded the way the code rounds durations; Second is a second in units. *)
(* How a reader may see a policy half written is the subject of PolicyCell.*)
(***************************************************************************)
EXTENDS Integers, Sequences, FiniteSets, FiniteSetsExt

CONSTANTS Situations,        \* what the tick may find: see SituationOK
          Offers,            \* submissions: the slack and the net value of a bundle
          QueueCap,          \* scheduler capacity
          Second,            \* one second, in units of time
          RequestTimeout, MaxQueueAge, MinDeadlineSlack, RetryBackoff,  \* config, in units
          MinNetValue,       \* config
          WorkCost,          \* CostPerTx + CostPerMS * RequestTimeout
          MaxRestarts        \* bound

\* A situation: the ages of the queued items from the best to the worst, whether
\* one of them is past its deadline, whether they are worth more than nothing,
\* the retry debt and the worst latency as percentages of HistoryLimit and of
\* RequestTimeout, whether every dependency answers and recovery is ready, and
\* whether the lease is fresh.
SituationOK(w) ==
    /\ w.ages \in Seq(Nat) /\ Len(w.ages) <= QueueCap
    /\ w.net \in Int /\ w.debt \in Nat /\ w.latency \in Nat
    /\ {w.late, w.deps, w.fresh} \subseteq BOOLEAN

\* The scheduler raises a capacity below one; the durations are positive.
ASSUME PolicyAssumption ==
    /\ \A s \in Situations : SituationOK(s)
    /\ QueueCap \in Nat \ {0} /\ MaxQueueAge \in Nat \ {0}
    /\ {Second, RequestTimeout, MinDeadlineSlack, RetryBackoff, WorkCost, MaxRestarts} \subseteq Nat
    /\ MinNetValue \in Int

VARIABLES w,          \* the situation now
          policy,     \* the values of ControlPolicy
          stored,     \* the policy store: the saved snapshot, if any
          draining,   \* Service.draining and the rollout stage
          report,     \* the state of the health report of the last tick
          answer,     \* the answer to a submission since the last tick
          restarts

vars == <<w, policy, stored, draining, report, answer, restarts>>

clamp(v, lo, hi) == Max({lo, Min({v, hi})})
If(cond, v)      == IF cond THEN v ELSE 0

(***************************************************************************)
(* The values of a fresh policy.                                           *)
(***************************************************************************)
basePct   == 80
baseFloor == 55

NewControlPolicy ==
    [minNet |-> MinNetValue, minSlack |-> MinDeadlineSlack, maxAge |-> MaxQueueAge,
     backoff |-> RetryBackoff, pct |-> basePct, floor |-> baseFloor,
     pressure |-> 0, confidence |-> 100]

HealthStates == {"healthy", "degraded", "draining", "unsafe"}

(***************************************************************************)
(* AssessHealth.                                                           *)
(***************************************************************************)
\* The age of the last item of the sorted queue, whatever the oldest is.
OldestAge(s) == IF s.ages = <<>> THEN 0 ELSE s.ages[Len(s.ages)]

\* Work past its deadline or queued for longer than the configuration allows.
Stale(s) == s.late \/ \E i \in DOMAIN s.ages : s.ages[i] > MaxQueueAge

Unsafe(s, p) ==
    \/ ~s.deps \/ ~s.fresh
    \/ OldestAge(s) > p.maxAge
    \/ 2 * p.confidence < p.floor
    \/ Len(s.ages) >= QueueCap
    \/ Stale(s)

Degraded(s, p) ==
    \/ (Len(s.ages) * 100) \div QueueCap >= p.pct
    \/ Len(s.ages) > 0 /\ s.net <= p.minNet
    \/ s.debt > 0
    \/ p.confidence < p.floor

AssessHealth(s, p) ==
    CASE Unsafe(s, p)   -> "unsafe"
      [] ~Unsafe(s, p) /\ draining -> "draining"
      [] ~Unsafe(s, p) /\ ~draining /\ Degraded(s, p) -> "degraded"
      [] OTHER          -> "healthy"

Ready(s, p) ==
    /\ ~draining
    /\ ~Unsafe(s, p)
    /\ p.confidence >= p.floor

(***************************************************************************)
(* Adapt.                                                                  *)
(***************************************************************************)
estimatePressure == [s \in Situations |-> [state \in HealthStates |->
    clamp((35 * Len(s.ages)) \div QueueCap
          + (25 * clamp((100 * OldestAge(s)) \div MaxQueueAge, 0, 200)) \div 200
          + (15 * clamp(s.debt, 0, 100)) \div 100
          + (15 * clamp(s.latency, 0, 200)) \div 200
          + If(s.net <= 0 /\ Len(s.ages) > 0, 5)
          + If(s.debt > 0, 5)
          + If(state = "degraded", 5) + If(state = "unsafe", 10), 0, 100)]]

Pressure == [s \in Situations |-> [state \in HealthStates |->
    clamp(estimatePressure[s][state]
          + If(~s.fresh, 25)
          + If(state = "degraded", 10) + If(state = "unsafe", 25)
          + If(Stale(s), 15)
          + If(Len(s.ages) > 0 /\ s.net <= 0, 5), 0, 100)]]

\* Faulty variant of Confidence: a degraded report caps it as well.
ConfidenceCapped == [s \in Situations |-> [state \in HealthStates |->
    LET c == IF ~s.fresh THEN 0 ELSE 100 - estimatePressure[s][state]
    IN  IF state = "unsafe" THEN Min({c, 20}) ELSE IF state = "degraded" THEN Min({c, 40}) ELSE c]]

Confidence == [s \in Situations |-> [state \in HealthStates |->
    LET c == IF ~s.fresh THEN 0 ELSE 100 - estimatePressure[s][state]
    IN  IF state = "unsafe" THEN Min({c, 20}) ELSE c]]

\* What the six values would be if the pressure stayed.
Target == [pr \in 0..100 |->
    [minNet   |-> MinNetValue + (pr * WorkCost) \div 100,
     minSlack |-> MinDeadlineSlack + (pr * RequestTimeout) \div 200,
     maxAge   |-> Max({Second, (MaxQueueAge * (1000 - 6 * pr)) \div 1000}),
     backoff  |-> Min({5 * RetryBackoff, Max({Second \div 10, (RetryBackoff * (100 + pr)) \div 100})}),
     pct      |-> clamp(basePct - (20 * pr + 50) \div 100, 60, basePct),
     floor    |-> clamp(baseFloor + (30 * pr) \div 100, 30, 95)]]

\* Faulty variant of smooth: the step is twice the distance.
smoothTwice(current, target) == 2 * target - current

smooth(current, target)    == (65 * current + 35 * target) \div 100
smoothInt(current, target) == (65 * current + 35 * target + 50) \div 100

Adapt(s, state) ==
    LET t == Target[Pressure[s][state]] IN
    [minNet     |-> smooth(policy.minNet, t.minNet),
     minSlack   |-> smooth(policy.minSlack, t.minSlack),
     maxAge     |-> smooth(policy.maxAge, t.maxAge),
     backoff    |-> smooth(policy.backoff, t.backoff),
     pct        |-> smoothInt(policy.pct, t.pct),
     floor      |-> smooth(policy.floor, t.floor),
     pressure   |-> Pressure[s][state],
     confidence |-> Confidence[s][state]]

(***************************************************************************)
(* Admission.                                                              *)
(***************************************************************************)
\* Faulty variant of Admits: the confidence is not looked at.
AdmitsUnsure(o) ==
    /\ ~draining /\ w.fresh
    /\ o.slack > 0 /\ o.slack > policy.minSlack /\ o.service <= o.slack
    /\ o.net >= policy.minNet

Admits(o) ==
    /\ ~draining /\ w.fresh
    /\ 2 * policy.confidence >= policy.floor
    /\ o.slack > 0
    /\ policy.confidence >= policy.floor
    /\ o.slack > policy.minSlack /\ o.service <= o.slack
    /\ o.net >= policy.minNet

(***************************************************************************)
(* The behaviour.                                                          *)
(***************************************************************************)
Init ==
    /\ w \in Situations
    /\ policy   = NewControlPolicy
    /\ stored   = {}
    /\ draining = FALSE
    /\ report   = "healthy"
    /\ answer   = "none"
    /\ restarts = 0

\* The policy loop: assess, adapt, save.
Tick ==
    /\ report' = AssessHealth(w, policy)
    /\ policy' = Adapt(w, report')
    /\ stored' = {policy'}
    /\ answer' = "none"
    /\ UNCHANGED <<w, draining, restarts>>

Submit(o) ==
    /\ answer' = IF Admits(o) THEN "admitted" ELSE "refused"
    /\ UNCHANGED <<w, policy, stored, draining, report, restarts>>

Drain ==
    /\ ~draining
    /\ draining' = TRUE
    /\ UNCHANGED <<w, policy, stored, report, answer, restarts>>

\* ApplySnapshot takes the pressure and the confidence clamped, and each other
\* value if it is positive.
ApplySnapshot(p, snap) ==
    LET Positive(new, old) == IF new > 0 THEN new ELSE old IN
    [minNet     |-> IF snap.minNet >= 0 THEN snap.minNet ELSE p.minNet,
     minSlack   |-> Positive(snap.minSlack, p.minSlack),
     maxAge     |-> Positive(snap.maxAge, p.maxAge),
     backoff    |-> Positive(snap.backoff, p.backoff),
     pct        |-> Positive(snap.pct, p.pct),
     floor      |-> Positive(snap.floor, p.floor),
     pressure   |-> clamp(snap.pressure, 0, 100),
     confidence |-> clamp(snap.confidence, 0, 100)]

\* New and Bootstrap; the saved policy may be gone, with the memory store or
\* after its retention.
Restart ==
    /\ restarts < MaxRestarts
    /\ w.deps
    /\ restarts' = restarts + 1
    /\ draining' = FALSE
    /\ \/ stored' = stored
       \/ stored' = {}
    /\ policy' = IF stored' = {} THEN NewControlPolicy
                 ELSE ApplySnapshot(NewControlPolicy, CHOOSE snap \in stored' : TRUE)
    /\ answer' = "none"
    /\ report' = "healthy"
    /\ UNCHANGED w

\* The load and the dependencies change.
Change ==
    /\ w' \in Situations
    /\ answer' = "none"
    /\ UNCHANGED <<policy, stored, draining, report, restarts>>

Next ==
    \/ Tick
    \/ \E o \in Offers : Submit(o)
    \/ Drain
    \/ Restart
    \/ Change

Spec == Init /\ [][Next]_vars

\* The ticker of the policy loop keeps firing; nothing else has to happen.
LiveSpec == Spec /\ WF_vars(Tick)

------------------------------------------------------------------------------
\* Every value stays within the bounds Adapt computes its targets in, across
\* smoothing, rounding, saving and loading.
WithinBounds(p) ==
    /\ p.minNet \in MinNetValue..(MinNetValue + WorkCost)
    /\ p.minSlack \in MinDeadlineSlack..(MinDeadlineSlack + RequestTimeout)
    /\ p.maxAge \in Min({Second, MaxQueueAge})..Max({Second, MaxQueueAge})
    /\ p.backoff \in RetryBackoff..(5 * RetryBackoff)
    /\ p.pct \in 60..basePct /\ p.floor \in baseFloor..95
    /\ p.pressure \in 0..100 /\ p.confidence \in 0..100

TypeOK ==
    /\ w \in Situations
    /\ WithinBounds(policy) /\ \A p \in stored : WithinBounds(p)
    /\ report \in HealthStates
    /\ draining \in BOOLEAN /\ restarts \in 0..MaxRestarts

\* Work that has waited longer than the configuration allows makes the report
\* unsafe wherever it stands in the queue, although OldestAge looks only at
\* the last place; and a relay whose last report was unsafe admits nothing
\* until a tick reports otherwise: Adapt caps the confidence, and the floor
\* never falls below it.
UnsafeAdmitsNothing ==
    /\ (\E i \in DOMAIN w.ages : w.ages[i] > MaxQueueAge) => AssessHealth(w, policy) = "unsafe"
    /\ report = "unsafe" => answer # "admitted"

\* The loop does not oscillate: when the situation stays, the policy comes to
\* rest, although it acts on its own confidence, age limit and thresholds.
PolicySettles == <>[][w' = w]_w => <>[][policy' = policy]_policy

Calm(s) == s.ages = <<>> /\ s.debt = 0 /\ s.latency = 0 /\ s.deps /\ s.fresh /\ ~s.late

\* A relay that was never worse than degraded becomes ready again once the
\* load is gone.
DegradedRecovers ==
    []~Unsafe(w, policy) /\ <>[](Calm(w) /\ ~draining) => <>[]Ready(w, policy)

\* docs/service-levels.md: MTTR is measured per failure class from first
\* unsafe signal to Ready.  Once every failure is over the relay becomes ready.
UnsafeRecovers == <>[](Calm(w) /\ ~draining) => <>Ready(w, policy)
=============================================================================
