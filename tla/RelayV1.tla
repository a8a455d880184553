------------------------------ MODULE RelayV1 ------------------------------
(***************************************************************************)
(* The relay of version 1 on its file store.  Every submitted bundle has a *)
(* record in memory; each change of it rewrites the whole snapshot file    *)
(* and then appends one line to the audit file.  Three kinds of thread     *)
(* work on a bundle in turn: the HTTP handler that accepts it, a worker    *)
(* that simulates it, and the timer that queues it again after a transient *)
(* failure.                                                                *)
(*                                                                         *)
(* A thread is the bundle it works on, the store operations it has planned *)
(* and what it does once all of them have succeeded.  The store takes its  *)
(* mutex for one operation at a time, so each is one step here.  The first *)
(* operation that fails ends the thread.                                   *)
(***************************************************************************)
EXTENDS Naturals, Sequences, SequencesExt, FiniteSets

CONSTANTS Bundles,               \* the identifiers bundleID can produce
          Clients,               \* the transport identities
          ClientOf,              \* the client that submits a bundle
          Workers,
          QueueDepth,
          MaxInFlightPerClient,
          MaxRetries,
          MaxFaults,             \* bound: failing file operations
          MaxCrashes,            \* bound: crashes
          NoBundle

ASSUME RelayV1Assumption ==
    /\ ClientOf \in [Bundles -> Clients]
    /\ QueueDepth \in Nat /\ MaxInFlightPerClient \in Nat /\ MaxRetries \in Nat
    /\ MaxFaults \in Nat /\ MaxCrashes \in Nat
    /\ NoBundle \notin Bundles

VARIABLES rec,       \* FileStore.records, in memory
          disk,      \* state.json
          audit,     \* the last line of audit.jsonl about each bundle
          queue,     \* Service.queue
          count,     \* Service.clients
          thread,    \* the handlers, the workers and the timers
          acked,     \* bundles whose submission was answered with 202
          leaked,    \* bundles whose slot was never given back
          givenUp,   \* bundles whose thread ended on an error
          faults, crashes

vars == <<rec, disk, audit, queue, count, thread, acked, leaked, givenUp, faults, crashes>>

(***************************************************************************)
(* The lifecycle.                                                          *)
(***************************************************************************)
States == {"received", "validated", "queued", "simulating", "simulated", "scored",
           "forwarded", "rejected", "retry_pending", "dead_letter", "persisted", "completed"}

allowedTransitions ==
    [s \in States |->
        CASE s = "received"      -> {"validated", "rejected"}
          [] s = "validated"     -> {"queued", "rejected"}
          [] s = "queued"        -> {"simulating", "rejected"}
          [] s = "simulating"    -> {"simulated", "retry_pending", "rejected", "dead_letter"}
          [] s = "simulated"     -> {"scored", "rejected"}
          [] s = "scored"        -> {"forwarded", "rejected"}
          [] s = "retry_pending" -> {"queued", "dead_letter"}
          [] s \in {"forwarded", "rejected", "dead_letter"} -> {"persisted"}
          [] s = "persisted"     -> {"completed"}
          [] s = "completed"     -> {}]

terminalStates == {"forwarded", "rejected", "dead_letter", "completed"}

CanTransition(from, to) == from # to /\ to \in allowedTransitions[from]

(***************************************************************************)
(* What threads plan: a change of state, a new retry count, a result.      *)
(***************************************************************************)
Move(from, to) == [op |-> "move", from |-> from, to |-> to]
Count  == [op |-> "count",  from |-> "retry_pending", to |-> "retry_pending"]
Result(verdict) == [op |-> "result", from |-> verdict, to |-> verdict]

Validate   == <<Move("received", "validated")>>
Refuse     == <<Move("validated", "rejected")>>
Queued     == <<Move("validated", "queued")>>
Overflow   == <<Move("queued", "rejected")>>
Pick       == <<Move("queued", "simulating")>>
RetryLater == <<Move("simulating", "retry_pending"), Count>>
RetryNow   == <<Move("retry_pending", "queued")>>
DeadLetter(from) == <<Move(from, "dead_letter"), Move("dead_letter", "persisted"),
                      Move("persisted", "completed")>>

\* The decision is forwarded or rejected; currentTerminalState reads it back.
Decided(verdict) == <<Move("simulating", "simulated"), Move("simulated", "scored"),
                      Move("scored", verdict), Result(verdict), Move(verdict, "persisted"),
                      Move("persisted", "completed")>>

Plans == {Validate, Refuse, Queued, Overflow, Pick, RetryLater, RetryNow,
          DeadLetter("simulating"), DeadLetter("queued"),
          Decided("forwarded"), Decided("rejected")}

Conts == {"inc", "over", "done", "enqueue", "release", "simulate", "arm", "fire"}

Threads == ({"submit", "timer"} \X Bundles) \union ({"worker"} \X Workers)
Idle    == [on |-> NoBundle, plan |-> <<>>, then |-> "done"]

Busy(t)      == thread[t].on # NoBundle
At(t, label) == Busy(t) /\ thread[t].plan = <<>> /\ thread[t].then = label
Go(t, b, plan, then) == [thread EXCEPT ![t] = [on |-> b, plan |-> plan, then |-> then]]
Stop(t)              == [thread EXCEPT ![t] = Idle]

NoRecord == [state |-> "none", version |-> 0, retries |-> 0]
NoLine   == [state |-> "none", version |-> 0]

Init ==
    /\ rec     = [b \in Bundles |-> NoRecord]
    /\ disk    = rec
    /\ audit   = [b \in Bundles |-> NoLine]
    /\ queue   = <<>>
    /\ count   = [c \in Clients |-> 0]
    /\ thread  = [t \in Threads |-> Idle]
    /\ acked = {} /\ leaked = {} /\ givenUp = {}
    /\ faults = 0 /\ crashes = 0

(***************************************************************************)
(* The file store.  outcome is what becomes of the two file operations:    *)
(* the record in memory is changed before either and stays changed; the    *)
(* snapshot holds every record of the memory; the audit line is written    *)
(* only after the snapshot.                                                *)
(***************************************************************************)
Outcomes == {"ok", "snapshotFails", "auditFails"}

\* Faulty variant of persistLocked: the temporary file is never renamed.
SnapshotLost(r, outcome) == disk' = disk

\* persistLocked: write a temporary file and rename it, or leave the old one.
persistLocked(r, outcome) == disk' = IF outcome = "snapshotFails" THEN disk ELSE r

appendEvent(b, r, outcome) ==
    audit' = IF outcome # "ok" THEN audit
             ELSE [audit EXCEPT ![b] = [state |-> r.state, version |-> r.version]]

Store(b, r, outcome) ==
    /\ rec' = [rec EXCEPT ![b] = r]
    /\ persistLocked(rec', outcome)
    /\ appendEvent(b, r, outcome)
    /\ outcome # "ok" => faults < MaxFaults
    /\ faults' = IF outcome = "ok" THEN faults ELSE faults + 1

\* FileStore.Transition and UpdateResult.
Transition(r, step) == [r EXCEPT !.state = step.to, !.version = @ + 1]
UpdateResult(r)     == [r EXCEPT !.version = @ + 1]
UpdateRetryCount(r) == [r EXCEPT !.retries = @ + 1, !.version = @ + 1]

Applied(r, step) ==
    CASE step.op = "move"   -> Transition(r, step)
      [] step.op = "count"  -> UpdateRetryCount(r)
      [] step.op = "result" -> UpdateResult(r)

\* Transition refuses a record in another state and a step the table lacks.
Accepted(r, step) ==
    /\ r.state # "none"
    /\ step.op = "move" => r.state = step.from /\ CanTransition(step.from, step.to)

(***************************************************************************)
(* The per-client counter.                                                 *)
(***************************************************************************)
Dec(b) == [count EXCEPT ![ClientOf[b]] = @ - 1]

\* A thread that fails gives the client's slot back if it has one; a worker
\* that fails to pick a bundle up returns without doing so.
Releases(then) == then \in {"enqueue", "release", "arm"}

\* Faulty variant of GiveUp: the slot is kept on every error.
GiveUpHolding(t) ==
    LET b == thread[t].on IN
    /\ thread' = Stop(t)
    /\ leaked' = IF thread[t].then = "simulate" THEN leaked \union {b} ELSE leaked
    /\ givenUp' = givenUp \union {b}
    /\ UNCHANGED count

GiveUp(t) ==
    LET b == thread[t].on IN
    /\ thread' = Stop(t)
    /\ count' = IF Releases(thread[t].then) THEN Dec(b) ELSE count
    /\ leaked' = IF thread[t].then = "simulate" THEN leaked \union {b} ELSE leaked
    /\ givenUp' = givenUp \union {b}

(***************************************************************************)
(* One planned store operation of a thread.                                *)
(***************************************************************************)
StepOf(t) == Head(thread[t].plan)

StepSucceeds(t) ==
    LET b == thread[t].on IN
    /\ Busy(t) /\ thread[t].plan # <<>>
    /\ Accepted(rec[b], StepOf(t))
    /\ Store(b, Applied(rec[b], StepOf(t)), "ok")
    /\ thread' = [thread EXCEPT ![t].plan = Tail(@)]
    /\ UNCHANGED <<queue, count, acked, leaked, givenUp, crashes>>

\* A file operation fails: the caller gets an error.
StepFails(t) ==
    LET b == thread[t].on IN
    /\ Busy(t) /\ thread[t].plan # <<>>
    /\ Accepted(rec[b], StepOf(t))
    /\ \E outcome \in Outcomes \ {"ok"} : Store(b, Applied(rec[b], StepOf(t)), outcome)
    /\ GiveUp(t)
    /\ UNCHANGED <<queue, acked, crashes>>

\* The store refuses the operation and changes nothing.
StepRefused(t) ==
    /\ Busy(t) /\ thread[t].plan # <<>>
    /\ ~Accepted(rec[thread[t].on], StepOf(t))
    /\ GiveUp(t)
    /\ UNCHANGED <<rec, disk, audit, queue, acked, faults, crashes>>

(***************************************************************************)
(* The handler: create, validate, count, queue.                            *)
(***************************************************************************)
Create(b) ==
    LET t == <<"submit", b>>
        r == [state |-> "received", version |-> 1, retries |-> 0]
    IN  /\ ~Busy(t)
        /\ rec[b].state = "none"
        /\ \E outcome \in Outcomes :
              /\ Store(b, r, outcome)
              /\ thread' = IF outcome = "ok" THEN Go(t, b, Validate, "inc") ELSE thread
              /\ givenUp' = IF outcome = "ok" THEN givenUp ELSE givenUp \union {b}
        /\ UNCHANGED <<queue, count, acked, leaked, crashes>>

\* Inc: add one, and look at the sum.
Inc(t) ==
    LET b == thread[t].on
        n == count[ClientOf[b]] + 1
    IN  /\ At(t, "inc")
        /\ count' = [count EXCEPT ![ClientOf[b]] = n]
        /\ thread' = IF n > MaxInFlightPerClient THEN Go(t, b, <<>>, "over")
                                                 ELSE Go(t, b, Queued, "enqueue")
        /\ UNCHANGED <<rec, disk, audit, queue, acked, leaked, givenUp, faults, crashes>>

\* Inc, over the limit: take it back and reject the bundle.
Over(t) ==
    /\ At(t, "over")
    /\ count' = Dec(thread[t].on)
    /\ thread' = Go(t, thread[t].on, Refuse, "done")
    /\ UNCHANGED <<rec, disk, audit, queue, acked, leaked, givenUp, faults, crashes>>

Done(t) ==
    /\ At(t, "done")
    /\ thread' = Stop(t)
    /\ UNCHANGED <<rec, disk, audit, queue, count, acked, leaked, givenUp, faults, crashes>>

\* The non-blocking send of a handler or of a timer.
Enqueue(t) ==
    LET b == thread[t].on IN
    /\ At(t, "enqueue")
    /\ Len(queue) < QueueDepth
    /\ queue' = Append(queue, b)
    /\ thread' = Stop(t)
    /\ acked' = IF t[1] = "submit" THEN acked \union {b} ELSE acked
    /\ UNCHANGED <<rec, disk, audit, count, leaked, givenUp, faults, crashes>>

\* Faulty variant of QueueFull: a timer that finds the queue full just ends.
QueueFullSilent(t) ==
    LET b == thread[t].on IN
    /\ At(t, "enqueue")
    /\ Len(queue) >= QueueDepth
    /\ IF t[1] = "submit"
       THEN thread' = Go(t, b, Overflow, "release") /\ UNCHANGED count
       ELSE thread' = Stop(t) /\ count' = Dec(b)
    /\ UNCHANGED <<rec, disk, audit, queue, acked, leaked, givenUp, faults, crashes>>

\* The default branch: reject a new bundle, dead-letter a retried one.
QueueFull(t) ==
    LET b == thread[t].on IN
    /\ At(t, "enqueue")
    /\ Len(queue) >= QueueDepth
    /\ thread' = Go(t, b, IF t[1] = "submit" THEN Overflow ELSE DeadLetter("queued"), "release")
    /\ UNCHANGED <<rec, disk, audit, queue, count, acked, leaked, givenUp, faults, crashes>>

Release(t) ==
    /\ At(t, "release")
    /\ count' = Dec(thread[t].on)
    /\ thread' = Stop(t)
    /\ UNCHANGED <<rec, disk, audit, queue, acked, leaked, givenUp, faults, crashes>>

(***************************************************************************)
(* The worker: receive, pick up, simulate, decide.                         *)
(***************************************************************************)
Receive(w) ==
    LET t == <<"worker", w>> IN
    /\ ~Busy(t) /\ queue # <<>>
    /\ queue' = Tail(queue)
    /\ thread' = Go(t, Head(queue), Pick, "simulate")
    /\ UNCHANGED <<rec, disk, audit, count, acked, leaked, givenUp, faults, crashes>>

MayRetry(r) == r.retries < MaxRetries

\* Simulate, as its caller sees it: a profitable result, another result, an
\* error that is retryable, an error that is not.
Simulate(t) ==
    LET b == thread[t].on IN
    /\ At(t, "simulate")
    /\ \E answer \in {"profit", "none", "transient", "hard"} :
          thread' = CASE answer = "profit" -> Go(t, b, Decided("forwarded"), "release")
                      [] answer = "none"   -> Go(t, b, Decided("rejected"), "release")
                      [] answer = "transient" /\ MayRetry(rec[b]) -> Go(t, b, RetryLater, "arm")
                      [] OTHER             -> Go(t, b, DeadLetter("simulating"), "release")
    /\ UNCHANGED <<rec, disk, audit, queue, count, acked, leaked, givenUp, faults, crashes>>

\* scheduleRetry: the slot goes with the timer.
ArmTimer(t) ==
    LET b == thread[t].on IN
    /\ At(t, "arm")
    /\ thread' = [thread EXCEPT ![<<"timer", b>>] = [on |-> b, plan |-> <<>>, then |-> "fire"],
                                ![t] = Idle]
    /\ UNCHANGED <<rec, disk, audit, queue, count, acked, leaked, givenUp, faults, crashes>>

\* The timer's function.  Its branch for an exhausted budget is never taken:
\* a timer is armed only within the budget.
Fire(t) ==
    LET b == thread[t].on IN
    /\ At(t, "fire")
    /\ thread' = IF rec[b].state = "retry_pending" THEN Go(t, b, RetryNow, "enqueue") ELSE Stop(t)
    /\ UNCHANGED <<rec, disk, audit, queue, count, acked, leaked, givenUp, faults, crashes>>

(***************************************************************************)
(* A crash and the restart: NewFileStore loads the snapshot; the queue, the*)
(* threads and the counters are gone, and nothing queues a record again.   *)
(***************************************************************************)
Crash ==
    /\ crashes < MaxCrashes
    /\ crashes' = crashes + 1
    /\ rec'    = disk
    /\ queue'  = <<>>
    /\ count'  = [c \in Clients |-> 0]
    /\ thread' = [t \in Threads |-> Idle]
    /\ leaked' = {}
    /\ givenUp' = {b \in Bundles : disk[b].state # "none"}
    /\ UNCHANGED <<disk, audit, acked, faults>>

ThreadStep(t) ==
    \/ StepSucceeds(t) \/ StepRefused(t)
    \/ Inc(t) \/ Over(t) \/ Done(t) \/ Enqueue(t) \/ QueueFull(t) \/ Release(t)
    \/ Simulate(t) \/ ArmTimer(t) \/ Fire(t)

Next ==
    \/ \E b \in Bundles : Create(b)
    \/ \E w \in Workers : Receive(w)
    \/ \E t \in Threads : ThreadStep(t) \/ StepFails(t)
    \/ Crash

Spec == Init /\ [][Next]_vars

------------------------------------------------------------------------------
TypeOK ==
    /\ \A b \in Bundles : /\ rec[b].state \in States \union {"none"}
                          /\ disk[b].version <= rec[b].version
                          /\ rec[b].retries \in Nat
    /\ queue \in Seq(Bundles) /\ Len(queue) <= QueueDepth
    /\ count \in [Clients -> Nat]
    /\ \A t \in Threads : /\ thread[t].on \in Bundles \union {NoBundle}
                          /\ \E p \in Plans \union {<<>>} : IsSuffix(thread[t].plan, p)
                          /\ thread[t].then \in Conts
    /\ acked \subseteq Bundles /\ leaked \subseteq Bundles /\ givenUp \subseteq Bundles
    /\ faults \in 0..MaxFaults /\ crashes \in 0..MaxCrashes

\* The threads of one bundle that own its slot, and the bundles that do.
Queues(b)  == Cardinality({i \in DOMAIN queue : queue[i] = b})
Owners(b)  == Queues(b) + Cardinality({t \in Threads : thread[t].on = b})
Holding(t) == Busy(t) /\ thread[t].then \in {"enqueue", "release", "simulate", "arm", "fire"}
Holds(b)   == Queues(b) > 0 \/ \E t \in Threads : thread[t].on = b /\ Holding(t)

\* The client counter is exact: it counts the bundles of the client that
\* hold a slot, the handlers that are about to take their excess back, and
\* the slots a failed pick-up has lost; and no client has more bundles in
\* flight than its limit, although Inc adds first and looks afterwards.
SlotsBalance ==
    \A c \in Clients :
        LET own == {b \in Bundles : ClientOf[b] = c} IN
        /\ count[c] = Cardinality({b \in own : Holds(b) \/ b \in leaked})
                      + Cardinality({t \in Threads : Busy(t) /\ thread[t].then = "over"
                                                     /\ thread[t].on \in own})
        /\ Cardinality({b \in own : Holds(b)}) <= MaxInFlightPerClient

\* A bundle whose submission was answered with 202 is in the snapshot, and
\* was queued there: no failed write and no crash takes it back.  The audit
\* file never runs ahead of the snapshot: its last line about a bundle is
\* about a version the snapshot holds or has passed.
AckedIsDurable ==
    /\ \A b \in acked : disk[b].state \notin {"none", "received", "validated"}
    /\ \A b \in Bundles :
        /\ audit[b].version <= disk[b].version
        /\ audit[b].version = disk[b].version => audit[b].state = disk[b].state

\* Handler, queue, worker and timer hand a bundle on: it is never in two of
\* these places, nor twice in the queue, and while its record is not terminal
\* it is in one, unless its thread ended on an error or the process died.
WorkHasOwner ==
    \A b \in Bundles :
        /\ Owners(b) <= 1
        /\ rec[b].state \notin terminalStates \union {"none"} => Owners(b) > 0 \/ b \in givenUp
=============================================================================
