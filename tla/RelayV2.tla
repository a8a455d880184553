------------------------------ MODULE RelayV2 ------------------------------
(***************************************************************************)
(* The bundle path of the relay of version 2, between v1 and v3: handlers, *)
(* workers and a retry loop share a priority queue and the Valkey store.   *)
(* It has v1's lifecycle and most of v3's code.                            *)
(*                                                                         *)
(* A thread is the bundle it serves, the calls on the store it has planned *)
(* and where it goes on when they have succeeded (`then') or one of them   *)
(* has not (`else').  A transition is followed by its event, whose         *)
(* contents are left to Relay: here the emission can only fail.  A failed  *)
(* call may have taken effect.                                             *)
(***************************************************************************)
EXTENDS Naturals, Sequences, FiniteSets

CONSTANTS Bundle,                \* numbers, a larger one has the higher priority
          Worker,
          QueueCap,              \* capacity of the queue
          InFlightCap,           \* MaxInFlightPerClient; there is one client
          RetryCap,              \* MaxRetries
          MaxErrors              \* bound: failing calls

ASSUME RelayV2Assumption ==
    /\ Bundle \subseteq Nat \ {0}
    /\ QueueCap \in Nat \ {0} /\ {InFlightCap, RetryCap, MaxErrors} \subseteq Nat

VARIABLES state,        \* the State field of each record
          terminal,     \* its Terminal field
          retried,      \* its RetryCount field
          sealed,       \* checkpoints stored for each bundle
          inflight,     \* the client's counter in the store
          schedule,     \* the store's schedule of retries
          ready,        \* the queue, best first
          mode,         \* "on", "draining" or "stopped"
          claimed,      \* what drainRetries has claimed and not yet begun
          job,          \* the threads
          errors        \* failed calls so far

relayV2Vars == <<state, terminal, retried, sealed, inflight, schedule, ready, mode,
                 claimed, job, errors>>

(***************************************************************************)
(* The lifecycle: unlike v3's it has no way from queued to dead_letter.    *)
(***************************************************************************)
BundleState == {"received", "validated", "queued", "simulating", "simulated", "scored",
                "forwarded", "rejected", "retry_pending", "dead_letter", "persisted", "completed"}
Decisions == {"forwarded", "rejected", "dead_letter"}

allowedTransitionsV2 ==
    [s \in BundleState |->
        CASE s = "received"      -> {"validated", "rejected"}
          [] s = "validated"     -> {"queued", "rejected"}
          [] s = "queued"        -> {"simulating", "rejected"}
          [] s = "simulating"    -> {"simulated", "retry_pending", "rejected", "dead_letter"}
          [] s = "simulated"     -> {"scored", "rejected"}
          [] s = "scored"        -> {"forwarded", "rejected"}
          [] s = "retry_pending" -> {"queued", "dead_letter"}
          [] s \in Decisions      -> {"persisted"}
          [] s = "persisted"     -> {"completed"}
          [] s = "completed"     -> {}]

ValidateTransition(from, to) == to \in allowedTransitionsV2[from]

(***************************************************************************)
(* Plans.                                                                  *)
(***************************************************************************)
Call(op, b, from, to) == [op |-> op, b |-> b, from |-> from, to |-> to]
Advance(b, from, to)  == Call("move", b, from, to)
Plain(op, b)          == Call(op, b, "none", "none")

finishTerminal(b, decision) ==
    <<Advance(b, decision, "persisted"), Advance(b, "persisted", "completed"),
      Plain("seal", b), Plain("release", b)>>

settleBundle(b, from, decision) == <<Advance(b, from, decision)>> \o finishTerminal(b, decision)

decideBundle(b, decision) ==
    <<Advance(b, "simulating", "simulated"), Advance(b, "simulated", "scored"),
      Advance(b, "scored", decision), Plain("result", b)>> \o finishTerminal(b, decision)

retryLater(b) ==
    <<Advance(b, "simulating", "retry_pending"), Plain("count", b), Plain("schedule", b)>>

Job(b, plan, then, else) == [b |-> b, plan |-> plan, then |-> then, else |-> else]
NoJob  == Job(0, <<>>, "idle", "idle")
Thread == ({"submit"} \X Bundle) \union ({"worker"} \X Worker) \union {<<"retry", 0>>}
Loop   == <<"retry", 0>>

Reached(t, label) == job[t].plan = <<>> /\ job[t].then = label
Become(t, j)      == job' = [job EXCEPT ![t] = j]
End(t)            == IF t = Loop THEN Job(0, <<>>, "next", "next") ELSE NoJob
\* Settle and be done with the bundle.
Settle(t, b, from, decision) ==
    Become(t, [End(t) EXCEPT !.b = b, !.plan = settleBundle(b, from, decision)])

RelayV2Init ==
    /\ state    = [b \in Bundle |-> "none"]
    /\ terminal = [b \in Bundle |-> "none"]
    /\ retried  = [b \in Bundle |-> 0]
    /\ sealed   = [b \in Bundle |-> 0]
    /\ inflight = 0
    /\ schedule = {} /\ claimed = {}
    /\ ready    = <<>>
    /\ mode     = "on"
    /\ job      = [t \in Thread |-> NoJob]
    /\ errors   = 0

(***************************************************************************)
(* The calls on the store.                                                 *)
(***************************************************************************)
\* Faulty variant of StoreAccepts: the state of the record is not compared.
StoreAcceptsAny(c) == c.op = "move" => ValidateTransition(c.from, c.to)

\* TransitionBundle compares the state the caller expects; nothing else does.
StoreAccepts(c) == c.op = "move" => state[c.b] = c.from /\ ValidateTransition(c.from, c.to)

TransitionBundle(c) ==
    /\ state' = [state EXCEPT ![c.b] = IF c.op = "move" THEN c.to ELSE @]
    /\ terminal' = [terminal EXCEPT ![c.b] =
                       IF c.op = "move" /\ c.to \in Decisions THEN c.to ELSE @]

CountRetry(c) == retried' = [retried EXCEPT ![c.b] = IF c.op = "count" THEN @ + 1 ELSE @]

PutCheckpoint(c) == sealed' = [sealed EXCEPT ![c.b] = IF c.op = "seal" THEN @ + 1 ELSE @]

ScheduleRetry(c) == schedule' = IF c.op = "schedule" THEN schedule \union {c.b} ELSE schedule

ReleaseInflight(c) ==
    inflight' = IF c.op = "release" /\ inflight > 0 THEN inflight - 1 ELSE inflight

TakesEffect(c) ==
    /\ TransitionBundle(c) /\ CountRetry(c) /\ PutCheckpoint(c)
    /\ ScheduleRetry(c) /\ ReleaseInflight(c)

HasNoEffect == UNCHANGED <<state, terminal, retried, sealed, inflight, schedule>>

\* The next call of the plan succeeds.
Succeeds(t) ==
    LET c == Head(job[t].plan) IN
    /\ job[t].plan # <<>> /\ StoreAccepts(c)
    /\ TakesEffect(c)
    /\ Become(t, [job[t] EXCEPT !.plan = Tail(@)])
    /\ UNCHANGED <<ready, mode, claimed, errors>>

(***************************************************************************)
(* After an error.  A retry that cannot be scheduled is dead.  Inside      *)
(* finishTerminal the deferred release follows, except when a transition   *)
(* has failed: that overwrites rec, and the release is for nobody.  Other  *)
(* errors end the work, and a submission that was settling the bundle it   *)
(* pushed out goes on with its own.                                        *)
(***************************************************************************)
emitTransition(t) == job[t].plan[1].op = "move"

Deferred(c, emitted) == c.op = "seal" \/ (emitted /\ c.to \in {"persisted", "completed"})

AfterError(t, c, emitted) ==
    Become(t, CASE c.op = "schedule" ->
                     [job[t] EXCEPT !.plan = settleBundle(c.b, "retry_pending", "dead_letter")]
                [] Deferred(c, emitted) ->
                     [job[t] EXCEPT !.plan = <<Plain("release", c.b)>>, !.then = job[t].else]
                [] OTHER -> [job[t] EXCEPT !.plan = <<>>, !.then = job[t].else])

Refused(t) ==
    /\ job[t].plan # <<>> /\ ~StoreAccepts(Head(job[t].plan))
    /\ HasNoEffect
    /\ AfterError(t, Head(job[t].plan), FALSE)
    /\ UNCHANGED <<ready, mode, claimed, errors>>

\* The call fails, its reply is lost, or the transition is made and its event
\* cannot be appended, logged or published.
Fails(t) ==
    LET c == Head(job[t].plan) IN
    /\ job[t].plan # <<>> /\ StoreAccepts(c)
    /\ errors < MaxErrors /\ errors' = errors + 1
    /\ \/ HasNoEffect /\ AfterError(t, c, FALSE)
       \/ TakesEffect(c) /\ AfterError(t, c, FALSE)
       \/ TakesEffect(c) /\ emitTransition(t) /\ AfterError(t, c, TRUE)
    /\ UNCHANGED <<ready, mode, claimed>>

(***************************************************************************)
(* The queue.                                                              *)
(***************************************************************************)
PushAccepts(b) ==
    mode # "stopped" /\ (Len(ready) >= QueueCap => b > ready[Len(ready)])

PushedOut == IF Len(ready) >= QueueCap THEN {ready[Len(ready)]} ELSE {}

Pushed(b) ==
    LET room == IF PushedOut = {} THEN ready ELSE SubSeq(ready, 1, Len(ready) - 1)
        idx  == Cardinality({i \in DOMAIN room : room[i] > b})   \* those before the new one
    IN  SubSeq(room, 1, idx) \o <<b>> \o SubSeq(room, idx + 1, Len(room))

(***************************************************************************)
(* submitWithIdentity.                                                     *)
(***************************************************************************)
CreateBundle(b) ==
    LET t == <<"submit", b>> IN
    /\ mode = "on" /\ job[t] = NoJob /\ state[b] = "none"
    /\ state' = [state EXCEPT ![b] = "received"]
    /\ \/ /\ Become(t, Job(b, <<Advance(b, "received", "validated")>>, "admit", "idle"))
          /\ UNCHANGED errors
       \/ errors < MaxErrors /\ errors' = errors + 1 /\ UNCHANGED job
    /\ UNCHANGED <<terminal, retried, sealed, inflight, schedule, ready, mode, claimed>>

\* scoreAdmission refuses the bundle, or the client's counter is asked.
Admit(t) ==
    /\ Reached(t, "admit")
    /\ \/ Settle(t, job[t].b, "validated", "rejected")
       \/ Become(t, [job[t] EXCEPT !.then = "reserve"])
    /\ UNCHANGED <<state, terminal, retried, sealed, inflight, schedule, ready, mode, claimed, errors>>

ReserveInflight(t) ==
    LET free == inflight < InFlightCap IN
    /\ Reached(t, "reserve")
    /\ \/ /\ free /\ inflight' = inflight + 1
          /\ Become(t, [job[t] EXCEPT !.then = "push"]) /\ UNCHANGED errors
       \/ ~free /\ Settle(t, job[t].b, "validated", "rejected") /\ UNCHANGED <<inflight, errors>>
       \/ /\ errors < MaxErrors /\ errors' = errors + 1
          /\ UNCHANGED inflight \/ (free /\ inflight' = inflight + 1)
          /\ Settle(t, job[t].b, "validated", "rejected")
    /\ UNCHANGED <<state, terminal, retried, sealed, schedule, ready, mode, claimed>>

\* The push, before the record says queued; the deadline may refuse it.
Push(t) ==
    LET b == job[t].b IN
    /\ Reached(t, "push")
    /\ \/ Settle(t, b, "validated", "rejected") /\ UNCHANGED ready
       \/ /\ PushAccepts(b)
          /\ ready' = Pushed(b)
          /\ IF PushedOut = {} THEN Become(t, Job(b, <<>>, "enqueue", "enqueue"))
             ELSE \E v \in PushedOut :
                     Become(t, Job(b, settleBundle(v, "queued", "rejected"), "enqueue", "enqueue"))
    /\ UNCHANGED <<state, terminal, retried, sealed, inflight, schedule, mode, claimed, errors>>

MarkQueued(t) ==
    /\ Reached(t, "enqueue")
    /\ Become(t, Job(job[t].b, <<Advance(job[t].b, "validated", "queued")>>, "idle", "idle"))
    /\ UNCHANGED <<state, terminal, retried, sealed, inflight, schedule, ready, mode, claimed, errors>>

Returns(t) ==
    /\ Reached(t, "idle") /\ job[t] # NoJob
    /\ Become(t, NoJob)
    /\ UNCHANGED <<state, terminal, retried, sealed, inflight, schedule, ready, mode, claimed, errors>>

(***************************************************************************)
(* worker and process.                                                     *)
(***************************************************************************)
\* After Stop the item is dropped.
Pop(t) ==
    /\ t[1] = "worker" /\ job[t] = NoJob /\ ready # <<>>
    /\ ready' = Tail(ready)
    /\ Become(t, IF mode = "stopped" THEN Job(0, <<>>, "done", "done")
                 ELSE Job(Head(ready), <<>>, "check", "check"))
    /\ UNCHANGED <<state, terminal, retried, sealed, inflight, schedule, mode, claimed, errors>>

\* The worker has popped before a stop that it now sees; the record cannot be
\* read; it is late, old or uneconomic; or it is picked.
Check(t) ==
    LET b == job[t].b IN
    /\ Reached(t, "check")
    /\ \/ mode = "stopped" /\ Become(t, Job(0, <<>>, "done", "done")) /\ UNCHANGED errors
       \/ errors < MaxErrors /\ errors' = errors + 1 /\ Become(t, NoJob)
       \/ Settle(t, b, "queued", "rejected") /\ UNCHANGED errors
       \/ /\ Become(t, Job(b, <<Advance(b, "queued", "simulating")>>, "simulate", "idle"))
          /\ UNCHANGED errors
    /\ UNCHANGED <<state, terminal, retried, sealed, inflight, schedule, ready, mode, claimed>>

Process(t) ==
    LET b == job[t].b IN
    /\ Reached(t, "simulate")
    /\ \/ \E d \in {"forwarded", "rejected"} : Become(t, Job(b, decideBundle(b, d), "idle", "idle"))
       \/ retried[b] + 1 <= RetryCap /\ Become(t, Job(b, retryLater(b), "idle", "idle"))
       \/ Settle(t, b, "simulating", "dead_letter")
    /\ UNCHANGED <<state, terminal, retried, sealed, inflight, schedule, ready, mode, claimed, errors>>

(***************************************************************************)
(* retryLoop, drainRetries and processRetry.                               *)
(***************************************************************************)
\* Some are due by now; the reply of the store may be lost.
ClaimDueRetries ==
    /\ Reached(Loop, "idle")
    /\ \E due \in SUBSET schedule \ {{}} :
          /\ schedule' = schedule \ due
          /\ \/ claimed' = due /\ Become(Loop, End(Loop)) /\ UNCHANGED errors
             \/ errors < MaxErrors /\ errors' = errors + 1 /\ UNCHANGED <<claimed, job>>
    /\ UNCHANGED <<state, terminal, retried, sealed, inflight, ready, mode>>

ProcessRetry(b) ==
    /\ Reached(Loop, "next") /\ b \in claimed
    /\ claimed' = claimed \ {b}
    /\ \/ state[b] # "retry_pending" /\ UNCHANGED <<job, errors>>
       \/ /\ state[b] = "retry_pending" /\ UNCHANGED errors
          /\ IF retried[b] >= RetryCap THEN Settle(Loop, b, "retry_pending", "dead_letter")
             ELSE Become(Loop, Job(b, <<Advance(b, "retry_pending", "queued")>>, "repush", "next"))
       \/ errors < MaxErrors /\ errors' = errors + 1 /\ UNCHANGED job
    /\ UNCHANGED <<state, terminal, retried, sealed, inflight, schedule, ready, mode>>

\* The bundle has expired, is uneconomic or finds no room: dead_letter from
\* queued, which the lifecycle refuses.  Else it is pushed.
Repush ==
    LET b == job[Loop].b IN
    /\ Reached(Loop, "repush")
    /\ \/ Settle(Loop, b, "queued", "dead_letter") /\ UNCHANGED ready
       \/ /\ PushAccepts(b)
          /\ ready' = Pushed(b)
          /\ IF PushedOut = {} THEN Become(Loop, End(Loop))
             ELSE \E v \in PushedOut : Settle(Loop, v, "queued", "rejected")
    /\ UNCHANGED <<state, terminal, retried, sealed, inflight, schedule, mode, claimed, errors>>

BatchDone ==
    /\ Reached(Loop, "next") /\ claimed = {}
    /\ Become(Loop, NoJob)
    /\ UNCHANGED <<state, terminal, retried, sealed, inflight, schedule, ready, mode, claimed, errors>>

(***************************************************************************)
(* Drain and Stop; the loops end.                                          *)
(***************************************************************************)
Drain ==
    /\ mode = "on" /\ mode' = "draining"
    /\ UNCHANGED <<state, terminal, retried, sealed, inflight, schedule, ready, claimed, job, errors>>

StopService ==
    /\ mode # "stopped" /\ mode' = "stopped"
    /\ UNCHANGED <<state, terminal, retried, sealed, inflight, schedule, ready, claimed, job, errors>>

LoopEnds(t) ==
    /\ mode = "stopped" /\ job[t] = NoJob
    /\ t = Loop \/ (t[1] = "worker" /\ ready = <<>>)
    /\ Become(t, Job(0, <<>>, "done", "done"))
    /\ UNCHANGED <<state, terminal, retried, sealed, inflight, schedule, ready, mode, claimed, errors>>

RelayV2Next ==
    \/ \E b \in Bundle : CreateBundle(b) \/ ProcessRetry(b)
    \/ \E t \in Thread : \/ Succeeds(t) \/ Refused(t) \/ Fails(t) \/ Returns(t) \/ LoopEnds(t)
                         \/ Admit(t) \/ ReserveInflight(t) \/ Push(t) \/ MarkQueued(t)
                         \/ Pop(t) \/ Check(t) \/ Process(t)
    \/ ClaimDueRetries \/ Repush \/ BatchDone \/ Drain \/ StopService

RelayV2Spec == RelayV2Init /\ [][RelayV2Next]_relayV2Vars

------------------------------------------------------------------------------
\* The relay of version 2 implements the same ledger as that of version 3.
Ledger == INSTANCE BundleLedger
            WITH accepted <- {b \in Bundle : state[b] # "none"},
                 decision <- terminal, Decisions <- Decisions

\* A bundle is in somebody's hands: a thread's, the queue's, or the schedule's.
Owned(b) ==
    \/ \E t \in Thread : job[t].b = b \/ \E i \in DOMAIN job[t].plan : job[t].plan[i].b = b
    \/ \E i \in DOMAIN ready : ready[i] = b
    \/ b \in schedule \union claimed

\* While no call fails and nobody stops the process, a bundle that is not
\* completed can be forgotten only as queued: by the worker that was faster
\* than the submission, or by the retry loop, whose dead_letter is refused.
ForgottenIsQueued ==
    errors = 0 /\ mode # "stopped" =>
        \A b \in Bundle : state[b] \in BundleState \ {"queued", "completed"} => Owned(b)

\* The relay v2 implements the ledger of bundles whatever call fails and whatever
\* the workers, the handlers and the retry loop do between each other's calls; and
\* without failures it forgets a bundle only as queued.
V2KeepsTheLedger == Ledger!Spec /\ []ForgottenIsQueued
=============================================================================
