-------------------------------- MODULE Relay --------------------------------
(***************************************************************************)
(* The bundle path of the MEV relay v3 (relay/v3/internal/relay): request  *)
(* handlers that admit bundles, workers that simulate and decide them, the *)
(* retry loop, and the terminalisation that all three share.  They run     *)
(* concurrently and meet in the state store, which checks every change of  *)
(* a record's state against the state the caller expects, and in the       *)
(* admission queue.                                                        *)
(*                                                                         *)
(* A step is one call on a shared component (store, queue, event emission, *)
(* checkpoint), so that calls of different goroutines interleave.  What    *)
(* depends on values or on the clock (admission score, deadlines, queue    *)
(* age, the backend's answer) is a nondeterministic choice.                *)
(*                                                                         *)
(* Any call on the store, the log, the broker or the checkpoint store may  *)
(* fail (stale lease, network, full disk), MaxFaults times in a behaviour. *)
(* With LostReplies a failed call on the store may have taken effect, as   *)
(* happens with a networked store whose reply is lost.                     *)
(***************************************************************************)
EXTENDS Lifecycle, Sequences, FiniteSets

CONSTANTS
    Bundle,         \* bundles, positive integers (bundle IDs)
    Client,         \* clients
    ClientOf,       \* the client that submits a bundle
    Priority,       \* the admission priority of a bundle
    Handlers,       \* goroutines of the HTTP server
    Workers,        \* the worker pool
    RetryLoop,      \* the goroutine of the retry loop
    QueueDepth,     \* capacity of the queue
    MaxRetries,
    MaxInFlightPerClient,
    MaxFaults,      \* bound on failing calls
    LostReplies,    \* TRUE when a failed store call may have taken effect
    MayStop         \* TRUE when the operator may drain and stop the process

Threads == Handlers \cup Workers \cup {RetryLoop}

ASSUME RelayAssumption ==
    /\ Bundle \subseteq Nat \ {0}
    /\ ClientOf \in [Bundle -> Client]
    /\ Priority \in [Bundle -> Int]
    /\ \A a, b \in Bundle : Priority[a] = Priority[b] => a = b
    /\ QueueDepth \in Nat \ {0}
    /\ MaxRetries \in Nat /\ MaxInFlightPerClient \in Nat /\ MaxFaults \in Nat
    /\ LostReplies \in BOOLEAN /\ MayStop \in BOOLEAN
    /\ Handlers \cap Workers = {} /\ RetryLoop \notin Handlers \cup Workers

NoBundle == 0

(***************************************************************************)
(* The queue between the threads.  Scheduler shows that Push and Pop       *)
(* behave as atomic operations on an ordered slice.  Priorities differ, so *)
(* the later keys of the order never decide.                               *)
(***************************************************************************)
ItemOf(b) == [ID |-> b, Priority |-> Priority[b], DeadlineAt |-> 1, EnqueuedAt |-> 0]
Q == INSTANCE PriorityQueue WITH Item <- {ItemOf(b) : b \in Bundle}, Cap <- QueueDepth

VARIABLES
    rec,          \* the bundle records of the store
    events,       \* the store's event list of each bundle: the states entered
    checkpoints,  \* how many checkpoints were stored for each bundle
    inflight,     \* the store's in-flight counter of each client
    retries,      \* the store's schedule of retries
    queue,        \* the admission queue, best item first
    draining,     \* Drain was called
    stopped,      \* Stop was called: stopCh and the queue are closed
    batch,        \* the retries that the loop has claimed and not yet begun
    th,           \* program counter and local variables of each thread
    faults        \* number of failed calls so far

store == <<rec, events, checkpoints, inflight, retries>>
control == <<draining, stopped>>
vars == <<store, queue, control, batch, th, faults>>

NoRecord == [State |-> "none", RetryCount |-> 0, Terminal |-> "none"]

(***************************************************************************)
(* A thread's locals: b is the bundle it serves; cur, from, to and k       *)
(* belong to a terminalisation: the bundle settled, its transition, and    *)
(* where to go on afterwards.                                              *)
(***************************************************************************)
Resting(l) == [pc |-> l, b |-> NoBundle, cur |-> NoBundle,
               from |-> "none", to |-> "none", k |-> "none"]

HandlerPC == {"idle", "validate", "emitValidated", "admit", "reserve",
              "push", "enqueue", "emitQueued"}
WorkerPC == {"idle", "check", "pick", "emitPicked", "simulate", "retry", "emitRetry",
             "count", "schedule", "simulated", "emitSimulated", "scored", "emitScored",
             "result", "done"}
RetryPC == {"idle", "next", "requeue", "emitRequeued", "repush", "done"}
SettlePC == {"settle", "emitTerminal", "persist", "emitPersisted", "complete",
             "emitCompleted", "seal", "deleteEvents", "release"}

TypeOK ==
    /\ rec \in [Bundle -> [State : BundleState \cup {"none"},
                           RetryCount : 0..MaxRetries,
                           Terminal : Decisions \cup {"none"}]]
    /\ \A b \in Bundle : events[b] \in Seq(BundleState)
    /\ checkpoints \in [Bundle -> Nat]
    /\ inflight \in [Client -> 0..MaxInFlightPerClient]
    /\ retries \subseteq Bundle
    /\ queue \in Seq(Bundle) /\ Len(queue) <= QueueDepth
    /\ draining \in BOOLEAN /\ stopped \in BOOLEAN
    /\ batch \subseteq Bundle
    /\ th \in [Threads -> [pc : HandlerPC \cup WorkerPC \cup RetryPC \cup SettlePC,
                           b : Bundle \cup {NoBundle}, cur : Bundle \cup {NoBundle},
                           from : BundleState \cup {"none"}, to : Decisions \cup {"none"},
                           k : {"none", "idle", "enqueue", "next"}]]
    /\ faults \in 0..MaxFaults

Init ==
    /\ rec = [b \in Bundle |-> NoRecord]
    /\ events = [b \in Bundle |-> << >>]
    /\ checkpoints = [b \in Bundle |-> 0]
    /\ inflight = [c \in Client |-> 0]
    /\ retries = {}
    /\ queue = << >>
    /\ draining = FALSE /\ stopped = FALSE
    /\ batch = {}
    /\ th = [t \in Threads |-> Resting("idle")]
    /\ faults = 0

-----------------------------------------------------------------------------
(* Control flow of a thread. *)

(***************************************************************************)
(* Go to l.  At "idle" and "next" the thread is done with its bundle; at   *)
(* "enqueue" a submission goes on after it settled another bundle.         *)
(***************************************************************************)
Goto(t, l) ==
    th' = [th EXCEPT ![t] = CASE l \in {"idle", "next", "done"} -> Resting(l)
                              [] l = "enqueue" -> [Resting(l) EXCEPT !.b = th[t].b]
                              [] OTHER -> [th[t] EXCEPT !.pc = l]]

(***************************************************************************)
(* Call settleBundle(b, from, to) and go on at k when it returns.          *)
(***************************************************************************)
Settle(t, b, from, to, k) ==
    th' = [th EXCEPT ![t] = [pc |-> "settle",
                             b |-> IF k = "enqueue" THEN th[t].b ELSE NoBundle,
                             cur |-> b, from |-> from, to |-> to, k |-> k]]

Fault == faults < MaxFaults /\ faults' = faults + 1

-----------------------------------------------------------------------------
(* The calls on shared components. *)

\* Faulty variant of CanApply: the stored state is not compared.
CanApplyUnchecked(b, from, to) == rec[b].State # "none" /\ CanTransition(from, to)

(***************************************************************************)
(* TransitionBundle: compare the state, then set it.                       *)
(***************************************************************************)
CanApply(b, from, to) == rec[b].State = from /\ CanTransition(from, to)

Moved(b, to) ==
    [rec EXCEPT ![b].State = to,
                ![b].Terminal = IF to \in Decisions THEN to ELSE @]

(***************************************************************************)
(* A thread's call of TransitionBundle, going on at ok or, after any       *)
(* error, leaving for fail.                                                *)
(***************************************************************************)
Transition(t, b, from, to, ok, fail) ==
    /\ \/ /\ CanApply(b, from, to)
          /\ rec' = Moved(b, to)
          /\ Goto(t, ok)
          /\ UNCHANGED faults
       \/ /\ ~CanApply(b, from, to)
          /\ Goto(t, fail)
          /\ UNCHANGED <<rec, faults>>
       \/ /\ Fault
          /\ \/ UNCHANGED rec
             \/ LostReplies /\ CanApply(b, from, to) /\ rec' = Moved(b, to)
          /\ Goto(t, fail)
    /\ UNCHANGED <<events, checkpoints, inflight, retries, queue, control, batch>>

(***************************************************************************)
(* emitTransition: append to the store's event list, then to the log, then *)
(* publish.  A failure of the first leaves no event, one of the others     *)
(* leaves the event and reports an error.                                  *)
(***************************************************************************)
Emit(t, b, to, ok, fail) ==
    /\ \/ /\ events' = [events EXCEPT ![b] = Append(@, to)]
          /\ Goto(t, ok)
          /\ UNCHANGED faults
       \/ /\ Fault
          /\ \/ UNCHANGED events
             \/ events' = [events EXCEPT ![b] = Append(@, to)]
          /\ Goto(t, fail)
    /\ UNCHANGED <<rec, checkpoints, inflight, retries, queue, control, batch>>

(***************************************************************************)
(* Queue.Push(b), which the deadline may refuse at any time.  An item that *)
(* is pushed out of a full queue is handed to the caller.                  *)
(***************************************************************************)
Items == [i \in 1..Len(queue) |-> ItemOf(queue[i])]

PushAccepts(b) == ~stopped /\ ~Q!Overflows(Items, ItemOf(b))

PushedOut == IF Len(queue) >= QueueDepth THEN {queue[Len(queue)]} ELSE {}

Pushed(b) ==
    LET room == SubSeq(queue, 1, Len(Q!MakeRoom(Items)))
        i == CHOOSE i \in 1..Len(room) + 1 : Q!IsInsertIndex(Q!MakeRoom(Items), ItemOf(b), i)
    IN  Q!InsertAt(room, i, b)

-----------------------------------------------------------------------------
(* Request handlers: submitWithIdentity. *)

(***************************************************************************)
(* The gate and CreateBundle.  A bundle whose hash is known is a duplicate *)
(* and the call returns.  (Between the two the code touches nothing that   *)
(* is shared.)                                                             *)
(***************************************************************************)
Submit(h, b) ==
    /\ th[h].pc = "idle"
    /\ ~draining
    /\ rec[b].State = "none"
    /\ \/ /\ rec' = [rec EXCEPT ![b].State = "received"]
          /\ th' = [th EXCEPT ![h] = [Resting("validate") EXCEPT !.b = b]]
          /\ UNCHANGED faults
       \/ /\ Fault /\ LostReplies
          /\ rec' = [rec EXCEPT ![b].State = "received"]
          /\ UNCHANGED th
    /\ UNCHANGED <<events, checkpoints, inflight, retries, queue, control, batch>>

Validate(h) ==
    /\ th[h].pc = "validate"
    /\ Transition(h, th[h].b, "received", "validated", "emitValidated", "idle")

EmitValidated(h) ==
    /\ th[h].pc = "emitValidated"
    /\ Emit(h, th[h].b, "validated", "admit", "idle")

(***************************************************************************)
(* The admission decision, taken from the bundle's score.                  *)
(***************************************************************************)
Admit(h) ==
    /\ th[h].pc = "admit"
    /\ \/ Settle(h, th[h].b, "validated", "rejected", "idle")
       \/ Goto(h, "reserve")
    /\ UNCHANGED <<store, queue, control, batch, faults>>

(***************************************************************************)
(* ReserveInflight; any error rejects the bundle.                          *)
(***************************************************************************)
Reserve(h) ==
    LET b == th[h].b
        c == ClientOf[b]
        taken == [inflight EXCEPT ![c] = @ + 1]
        free == inflight[c] < MaxInFlightPerClient
    IN  /\ th[h].pc = "reserve"
        /\ \/ free /\ inflight' = taken /\ Goto(h, "push") /\ UNCHANGED faults
           \/ /\ ~free
              /\ Settle(h, b, "validated", "rejected", "idle")
              /\ UNCHANGED <<inflight, faults>>
           \/ /\ Fault
              /\ UNCHANGED inflight \/ (LostReplies /\ free /\ inflight' = taken)
              /\ Settle(h, b, "validated", "rejected", "idle")
        /\ UNCHANGED <<rec, events, checkpoints, retries, queue, control, batch>>

(***************************************************************************)
(* The push comes BEFORE the record becomes queued.  A bundle pushed out   *)
(* by this one is rejected first, provided its record is queued.           *)
(***************************************************************************)
Push(h) ==
    LET b == th[h].b
    IN  /\ th[h].pc = "push"
        /\ \/ /\ Settle(h, b, "validated", "rejected", "idle")
              /\ UNCHANGED queue
           \/ /\ PushAccepts(b)
              /\ queue' = Pushed(b)
              /\ IF PushedOut = {}
                   THEN Goto(h, "enqueue")
                   ELSE \E v \in PushedOut : Settle(h, v, "queued", "rejected", "enqueue")
        /\ UNCHANGED <<store, control, batch, faults>>

Enqueue(h) ==
    /\ th[h].pc = "enqueue"
    /\ Transition(h, th[h].b, "validated", "queued", "emitQueued", "idle")

EmitQueued(h) ==
    /\ th[h].pc = "emitQueued"
    /\ Emit(h, th[h].b, "queued", "idle", "idle")

HandlerStep(h) ==
    \/ \E b \in Bundle : Submit(h, b)
    \/ Validate(h) \/ EmitValidated(h) \/ Admit(h) \/ Reserve(h)
    \/ Push(h) \/ Enqueue(h) \/ EmitQueued(h)

-----------------------------------------------------------------------------
(* Terminalisation: settleBundle and finishTerminal, run by any thread. *)

SettleTransition(t) ==
    /\ th[t].pc = "settle"
    /\ Transition(t, th[t].cur, th[t].from, th[t].to, "emitTerminal", th[t].k)

\* Faulty variant of EmitTerminal: finishTerminal is not called.
EmitTerminalReturns(t) ==
    /\ th[t].pc = "emitTerminal"
    /\ Emit(t, th[t].cur, th[t].to, th[t].k, th[t].k)

(***************************************************************************)
(* The worker's own decision, taken from scored, goes through UpdateResult *)
(* before finishTerminal.                                                  *)
(***************************************************************************)
EmitTerminal(t) ==
    /\ th[t].pc = "emitTerminal"
    /\ Emit(t, th[t].cur, th[t].to,
            IF th[t].from = "scored" THEN "result" ELSE "persist", th[t].k)

(***************************************************************************)
(* finishTerminal.  Its deferred release uses the variable rec, which the  *)
(* two transitions overwrite with an empty record when they fail: then     *)
(* the release is for the empty client name and nobody's counter changes.  *)
(***************************************************************************)
Persist(t) ==
    /\ th[t].pc = "persist"
    /\ Transition(t, th[t].cur, th[t].to, "persisted", "emitPersisted", th[t].k)

EmitPersisted(t) ==
    /\ th[t].pc = "emitPersisted"
    /\ Emit(t, th[t].cur, "persisted", "complete", "release")

\* Faulty variant of Complete: no event is emitted before the checkpoint.
CompleteSilently(t) ==
    /\ th[t].pc = "complete"
    /\ Transition(t, th[t].cur, "persisted", "completed", "seal", th[t].k)

Complete(t) ==
    /\ th[t].pc = "complete"
    /\ Transition(t, th[t].cur, "persisted", "completed", "emitCompleted", th[t].k)

EmitCompleted(t) ==
    /\ th[t].pc = "emitCompleted"
    /\ Emit(t, th[t].cur, "completed", "seal", "release")

(***************************************************************************)
(* The checkpoint over the bundle's event list: Merkle root, checkpoint    *)
(* store, state store, log, broker.  An error may come before or after the *)
(* checkpoint is stored.                                                   *)
(***************************************************************************)
Seal(t) ==
    LET b == th[t].cur
        sealed == [checkpoints EXCEPT ![b] = @ + 1]
    IN  /\ th[t].pc = "seal"
        /\ \/ checkpoints' = sealed /\ Goto(t, "deleteEvents") /\ UNCHANGED faults
           \/ Fault /\ checkpoints' \in {checkpoints, sealed} /\ Goto(t, "release")
        /\ UNCHANGED <<rec, events, inflight, retries, queue, control, batch>>

DeleteEvents(t) ==
    /\ th[t].pc = "deleteEvents"
    /\ \/ events' = [events EXCEPT ![th[t].cur] = << >>] /\ UNCHANGED faults
       \/ Fault /\ UNCHANGED events
    /\ Goto(t, "release")
    /\ UNCHANGED <<rec, checkpoints, inflight, retries, queue, control, batch>>

(***************************************************************************)
(* The deferred ReleaseInflight: the counter stops at zero.                *)
(***************************************************************************)
Release(t) ==
    LET c == ClientOf[th[t].cur]
    IN  /\ th[t].pc = "release"
        /\ \/ /\ inflight' = [inflight EXCEPT ![c] = IF @ > 0 THEN @ - 1 ELSE 0]
              /\ UNCHANGED faults
           \/ Fault /\ UNCHANGED inflight
        /\ Goto(t, th[t].k)
        /\ UNCHANGED <<rec, events, checkpoints, retries, queue, control, batch>>

SettleStep(t) ==
    \/ SettleTransition(t) \/ EmitTerminal(t) \/ Persist(t) \/ EmitPersisted(t)
    \/ Complete(t) \/ EmitCompleted(t) \/ Seal(t) \/ DeleteEvents(t) \/ Release(t)

-----------------------------------------------------------------------------
(* Workers: worker and process. *)

(***************************************************************************)
(* Pop; an item popped after Stop is dropped and the worker ends.          *)
(***************************************************************************)
Pop(w) ==
    /\ th[w].pc = "idle"
    /\ queue # << >>
    /\ queue' = Tail(queue)
    /\ IF stopped
         THEN Goto(w, "done")
         ELSE th' = [th EXCEPT ![w] = [Resting("check") EXCEPT !.b = Head(queue)]]
    /\ UNCHANGED <<store, control, batch, faults>>

\* Faulty variant of WorkerEnds: Stop does not close the queue.
WorkerNeverEnds(w) ==
    /\ th[w].pc = "idle"
    /\ stopped /\ queue = << >>
    /\ UNCHANGED vars

WorkerEnds(w) ==
    /\ th[w].pc = "idle"
    /\ stopped /\ queue = << >>
    /\ Goto(w, "done")
    /\ UNCHANGED <<store, queue, control, batch, faults>>

(***************************************************************************)
(* The tests before a simulation: a stale lease or a failed read drops the *)
(* item; a late, old, uneconomic or too slow bundle is rejected.           *)
(***************************************************************************)
Check(w) ==
    /\ th[w].pc = "check"
    /\ \/ Fault /\ Goto(w, "idle")
       \/ Settle(w, th[w].b, "queued", "rejected", "idle") /\ UNCHANGED faults
       \/ Goto(w, "pick") /\ UNCHANGED faults
    /\ UNCHANGED <<store, queue, control, batch>>

Pick(w) ==
    /\ th[w].pc = "pick"
    /\ Transition(w, th[w].b, "queued", "simulating", "emitPicked", "idle")

EmitPicked(w) ==
    /\ th[w].pc = "emitPicked"
    /\ Emit(w, th[w].b, "simulating", "simulate", "idle")

(***************************************************************************)
(* The backend's answer: a score above or below the threshold, an error    *)
(* worth a retry while the budget lasts, or any other error.               *)
(***************************************************************************)
Simulate(w) ==
    LET b == th[w].b
    IN  /\ th[w].pc = "simulate"
        /\ \/ \E verdict \in {"forwarded", "rejected"} :
                th' = [th EXCEPT ![w].pc = "simulated", ![w].to = verdict]
           \/ rec[b].RetryCount + 1 <= MaxRetries /\ Goto(w, "retry")
           \/ Settle(w, b, "simulating", "dead_letter", "idle")
        /\ UNCHANGED <<store, queue, control, batch, faults>>

Retry(w) ==
    /\ th[w].pc = "retry"
    /\ Transition(w, th[w].b, "simulating", "retry_pending", "emitRetry", "idle")

EmitRetry(w) ==
    /\ th[w].pc = "emitRetry"
    /\ Emit(w, th[w].b, "retry_pending", "count", "idle")

(***************************************************************************)
(* UpdateRetryCount and ScheduleRetry.                                     *)
(***************************************************************************)
Count(w) ==
    LET counted == [rec EXCEPT ![th[w].b].RetryCount = @ + 1]
    IN  /\ th[w].pc = "count"
        /\ \/ rec' = counted /\ Goto(w, "schedule") /\ UNCHANGED faults
           \/ /\ Fault /\ Goto(w, "idle")
              /\ UNCHANGED rec \/ (LostReplies /\ rec' = counted)
        /\ UNCHANGED <<events, checkpoints, inflight, retries, queue, control, batch>>

\* Faulty variant of Schedule: the retry is counted but not scheduled.
ScheduleForgets(w) ==
    /\ th[w].pc = "schedule"
    /\ Goto(w, "idle")
    /\ UNCHANGED <<store, queue, control, batch, faults>>

Schedule(w) ==
    LET b == th[w].b
        scheduled == retries \cup {b}
    IN  /\ th[w].pc = "schedule"
        /\ \/ retries' = scheduled /\ Goto(w, "idle") /\ UNCHANGED faults
           \/ /\ Fault
              /\ UNCHANGED retries \/ (LostReplies /\ retries' = scheduled)
              /\ Settle(w, b, "retry_pending", "dead_letter", "idle")
        /\ UNCHANGED <<rec, events, checkpoints, inflight, queue, control, batch>>

Simulated(w) ==
    /\ th[w].pc = "simulated"
    /\ Transition(w, th[w].b, "simulating", "simulated", "emitSimulated", "idle")

EmitSimulated(w) ==
    /\ th[w].pc = "emitSimulated"
    /\ Emit(w, th[w].b, "simulated", "scored", "idle")

Scored(w) ==
    /\ th[w].pc = "scored"
    /\ Transition(w, th[w].b, "simulated", "scored", "emitScored", "idle")

(***************************************************************************)
(* The event, and then the decision by the score: its transition, event    *)
(* and terminalisation follow the same calls as settleBundle.              *)
(***************************************************************************)
EmitScored(w) ==
    LET b == th[w].b
    IN  /\ th[w].pc = "emitScored"
        /\ \/ /\ events' = [events EXCEPT ![b] = Append(@, "scored")]
              /\ Settle(w, b, "scored", th[w].to, "idle")
              /\ UNCHANGED faults
           \/ /\ Fault /\ Goto(w, "idle")
              /\ events' \in {events, [events EXCEPT ![b] = Append(@, "scored")]}
        /\ UNCHANGED <<rec, checkpoints, inflight, retries, queue, control, batch>>

(***************************************************************************)
(* UpdateResult changes score and profit only; its failure ends the work   *)
(* on a bundle that is already decided.                                    *)
(***************************************************************************)
Result(w) ==
    /\ th[w].pc = "result"
    /\ \/ Goto(w, "persist") /\ UNCHANGED faults
       \/ Fault /\ Goto(w, "idle")
    /\ UNCHANGED <<store, queue, control, batch>>

WorkerStep(w) ==
    \/ Pop(w) \/ WorkerEnds(w) \/ Check(w) \/ Pick(w) \/ EmitPicked(w) \/ Simulate(w)
    \/ Retry(w) \/ EmitRetry(w) \/ Count(w) \/ Schedule(w)
    \/ Simulated(w) \/ EmitSimulated(w) \/ Scored(w) \/ EmitScored(w) \/ Result(w)

-----------------------------------------------------------------------------
(* The retry loop: drainRetries and processRetry. *)

\* Faulty variant of Claim: the entries stay in the schedule.
ClaimKeeps(due) ==
    /\ th[RetryLoop].pc = "idle"
    /\ due # {}
    /\ batch' = due
    /\ Goto(RetryLoop, "next")
    /\ UNCHANGED <<store, queue, control, faults>>

(***************************************************************************)
(* ClaimDueRetries takes the due entries, whichever they are by now, out   *)
(* of the schedule.  drainRetries repeats it until nothing is due, and     *)
(* looks at stopCh only afterwards.                                        *)
(***************************************************************************)
Claim(due) ==
    /\ th[RetryLoop].pc = "idle"
    /\ due # {}
    /\ retries' = retries \ due
    /\ batch' = due
    /\ Goto(RetryLoop, "next")
    /\ UNCHANGED <<rec, events, checkpoints, inflight, queue, control, faults>>

(***************************************************************************)
(* The reply to a claim is lost: the entries are gone.                     *)
(***************************************************************************)
ClaimLost(due) ==
    /\ th[RetryLoop].pc = "idle"
    /\ due # {}
    /\ Fault /\ LostReplies
    /\ retries' = retries \ due
    /\ UNCHANGED <<rec, events, checkpoints, inflight, queue, control, batch, th>>

LoopEnds ==
    /\ th[RetryLoop].pc = "idle"
    /\ stopped
    /\ Goto(RetryLoop, "done")
    /\ UNCHANGED <<store, queue, control, batch, faults>>

(***************************************************************************)
(* The claimed bundles one after the other; then the loop looks for more.  *)
(***************************************************************************)
BatchDone ==
    /\ th[RetryLoop].pc = "next"
    /\ batch = {}
    /\ Goto(RetryLoop, "idle")
    /\ UNCHANGED <<store, queue, control, batch, faults>>

ProcessRetry(b) ==
    /\ th[RetryLoop].pc = "next"
    /\ batch' = batch \ {b}
    /\ \/ /\ rec[b].State # "retry_pending"
          /\ UNCHANGED <<th, faults>>
       \/ /\ rec[b].State = "retry_pending"
          /\ IF rec[b].RetryCount >= MaxRetries
               THEN Settle(RetryLoop, b, "retry_pending", "dead_letter", "next")
               ELSE th' = [th EXCEPT ![RetryLoop] = [Resting("requeue") EXCEPT !.b = b]]
          /\ UNCHANGED faults
       \/ Fault /\ UNCHANGED th
    /\ UNCHANGED <<store, queue, control>>

Requeue ==
    /\ th[RetryLoop].pc = "requeue"
    /\ Transition(RetryLoop, th[RetryLoop].b, "retry_pending", "queued", "emitRequeued", "next")

EmitRequeued ==
    /\ th[RetryLoop].pc = "emitRequeued"
    /\ Emit(RetryLoop, th[RetryLoop].b, "queued", "repush", "next")

(***************************************************************************)
(* An expired, uneconomic or refused bundle is dead; a bundle pushed out   *)
(* by this one is rejected.                                                *)
(***************************************************************************)
Repush ==
    LET b == th[RetryLoop].b
    IN  /\ th[RetryLoop].pc = "repush"
        /\ \/ Settle(RetryLoop, b, "queued", "dead_letter", "next") /\ UNCHANGED queue
           \/ /\ PushAccepts(b)
              /\ queue' = Pushed(b)
              /\ IF PushedOut = {}
                   THEN Goto(RetryLoop, "next")
                   ELSE \E v \in PushedOut : Settle(RetryLoop, v, "queued", "rejected", "next")
        /\ UNCHANGED <<store, control, batch, faults>>

RetryStep ==
    \/ \E due \in SUBSET retries : Claim(due) \/ ClaimLost(due)
    \/ LoopEnds \/ BatchDone
    \/ \E b \in batch : ProcessRetry(b)
    \/ Requeue \/ EmitRequeued \/ Repush

-----------------------------------------------------------------------------
(* The operator: Drain refuses new submissions, Stop also ends the loops. *)

Drain ==
    /\ MayStop /\ ~draining
    /\ draining' = TRUE
    /\ UNCHANGED <<store, queue, stopped, batch, th, faults>>

Stop ==
    /\ MayStop /\ ~stopped
    /\ draining' = TRUE /\ stopped' = TRUE
    /\ UNCHANGED <<store, queue, batch, th, faults>>

ThreadStep(t) ==
    \/ SettleStep(t)
    \/ t \in Handlers /\ HandlerStep(t)
    \/ t \in Workers /\ WorkerStep(t)
    \/ t = RetryLoop /\ RetryStep

Next == (\E t \in Threads : ThreadStep(t)) \/ Drain \/ Stop

(***************************************************************************)
(* Every goroutine that can run goes on: calls return, a simulation ends   *)
(* by its timeout, the retry ticker fires.  Nobody is obliged to submit.   *)
(***************************************************************************)
Fairness ==
    /\ \A h \in Handlers : WF_vars(SettleStep(h) \/ (th[h].pc # "idle" /\ HandlerStep(h)))
    /\ \A t \in Workers \cup {RetryLoop} : WF_vars(ThreadStep(t))

Spec == Init /\ [][Next]_vars /\ Fairness

-----------------------------------------------------------------------------
(* Properties. *)

(***************************************************************************)
(* The threads that are responsible for a bundle.  A submission is until   *)
(* it has pushed its bundle, a worker or the retry loop while it serves    *)
(* it, and anybody while it settles it.                                    *)
(***************************************************************************)
Holds(t, b) ==
    \/ th[t].cur = b
    \/ /\ th[t].b = b
       /\ th[t].pc \notin {"enqueue", "emitQueued"} /\ th[t].k # "enqueue"

Owners(b) ==
    Cardinality({t \in Threads : Holds(t, b)})
    + Cardinality({i \in 1..Len(queue) : queue[i] = b})
    + (IF b \in retries THEN 1 ELSE 0) + (IF b \in batch THEN 1 ELSE 0)

(***************************************************************************)
(* "one owner per shard or bundle" (v3/README.md): a bundle is never in    *)
(* two places at once, be it a thread, the queue (twice), the schedule of  *)
(* retries or the batch the retry loop claimed.  (A lost reply of          *)
(* ScheduleRetry breaks this: the worker settles a bundle that is          *)
(* scheduled, while another may work on it.  The ledger holds              *)
(* nevertheless.)                                                          *)
(***************************************************************************)
OneOwner == faults = 0 => \A b \in Bundle : Owners(b) <= 1

(***************************************************************************)
(* The state that a thread's last successful transition left, while it is  *)
(* between two of its transitions.                                         *)
(***************************************************************************)
LeftIn(x) ==
    CASE x.pc \in {"emitPicked", "simulate", "retry", "simulated"} -> "simulating"
      [] x.pc \in {"emitRetry", "count", "schedule"}               -> "retry_pending"
      [] x.pc \in {"emitSimulated", "scored"}                      -> "simulated"
      [] x.pc = "emitScored"                                       -> "scored"
      [] x.pc \in {"emitRequeued", "repush"}                       -> "queued"
      [] x.pc \in {"emitTerminal", "result", "persist"}            -> x.to
      [] x.pc \in {"emitPersisted", "complete"}                    -> "persisted"
      [] x.pc \in {"emitCompleted", "seal", "deleteEvents"}        -> "completed"
      [] OTHER                                                     -> "any"

(***************************************************************************)
(* "state transitions reuse returned records instead of rereading after    *)
(* each hop" (v3/docs/architecture.md): this is safe because no other      *)
(* thread moves a bundle while one works on it, as long as no call fails.  *)
(***************************************************************************)
RecordStaysPut ==
    faults = 0 => \A t \in Threads :
        LET x == th[t]
            b == IF x.cur # NoBundle THEN x.cur ELSE x.b
        IN  LeftIn(x) # "any" => rec[b].State = LeftIn(x)

(***************************************************************************)
(* The relay implements the ledger: a decision is the record's Terminal    *)
(* field, evidence is a stored checkpoint.                                 *)
(***************************************************************************)
Ledger == INSTANCE BundleLedger
            WITH accepted <- {b \in Bundle : rec[b].State # "none"},
                 decision <- [b \in Bundle |-> rec[b].Terminal],
                 sealed <- checkpoints

ImplementsLedger == Ledger!Spec

(***************************************************************************)
(* "audit trails reconstruct the same terminal truth" (v3/README.md): when *)
(* no call failed, a checkpoint is taken over events that are the bundle's *)
(* path through the lifecycle, from validation to completion.  The         *)
(* queued events are left out: a submission emits its own after the push,  *)
(* so it may come too late, behind the worker's or behind the checkpoint.  *)
(***************************************************************************)
Follows(x, y) ==
    CanTransition(x, y) \/ (CanTransition(x, "queued") /\ CanTransition("queued", y))

\* The events that tell the path, and the last of them.
Path(s) == {i \in DOMAIN s : s[i] # "queued"}
IsLast(s, i) == i \in Path(s) /\ \A j \in Path(s) : j <= i

\* Each event on the path is the first one, or follows on the one before it.
Chained(s) ==
    \A j \in Path(s) :
        \/ s[j] = "validated" /\ \A i \in Path(s) : j <= i
        \/ \E i \in Path(s) : /\ i < j /\ Follows(s[i], s[j])
                              /\ \A k \in Path(s) : k <= i \/ j <= k

Tells(s) == Chained(s) /\ \E i \in Path(s) : IsLast(s, i) /\ s[i] = "completed"

TrailsTell ==
    [][\A b \in Bundle :
          (checkpoints'[b] # checkpoints[b] /\ faults = 0) => Tells(events[b])]_vars

(***************************************************************************)
(* Without failing calls, a decided bundle gets its checkpoint: whichever  *)
(* thread won the transition also runs finishTerminal to its end.          *)
(***************************************************************************)
DecidedIsSealed ==
    \A b \in Bundle : rec[b].Terminal # "none" ~> (checkpoints[b] > 0 \/ faults > 0)

(***************************************************************************)
(* Without failing calls, and until Stop, a bundle that waits for a retry  *)
(* does not wait for ever: it was scheduled, the loop claims it, and a     *)
(* claimed bundle is requeued or dead.                                     *)
(***************************************************************************)
RetryResolves ==
    \A b \in Bundle :
        rec[b].State = "retry_pending" ~> (rec[b].State # "retry_pending" \/ faults > 0 \/ stopped)

(***************************************************************************)
(* Stop, which waits for the workers and the retry loop, returns: each of  *)
(* them ends, wherever it was.                                             *)
(***************************************************************************)
StopEnds == stopped ~> \A t \in Workers \cup {RetryLoop} : th[t].pc = "done"

(***************************************************************************)
(* "one owner per shard or bundle" (v3/README.md): a bundle whose record   *)
(* says queued is in the hands of the queue or of a thread.                *)
(***************************************************************************)
QueuedHasOwner == \A b \in Bundle : rec[b].State = "queued" => Owners(b) >= 1
=============================================================================
