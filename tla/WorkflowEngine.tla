--------------------------- MODULE WorkflowEngine ---------------------------
(***************************************************************************)
(* One workflow of the workflow engine on its Postgres store:              *)
(* workflow-engine/src/v2/runtime/engine.ts (handle, drainPendingWork) on  *)
(* workflow-engine/src/v3/workflowStorePg.ts.                              *)
(*                                                                         *)
(* Every HTTP request builds a sequencer of its own (v3/runtime.ts), so    *)
(* nothing but the database keeps two requests for one workflow apart.  A  *)
(* step is one statement on the database, with the code around it; the     *)
(* upsert and the commit of a transaction are one step, since what another *)
(* transaction sees in between is what it sees before.                     *)
(*                                                                         *)
(* An instance is the sequence of the events committed to it: its version  *)
(* is the length, its state and context are functions of it.               *)
(***************************************************************************)
EXTENDS Integers, Sequences, FiniteSets, SequencesExt

CONSTANTS
    Events,     \* events of the clients; a client may send one again
    Working,    \* those whose transition has an effect and a next input
    Requests,   \* concurrent calls of handle
    Drainers,   \* concurrent calls of drainPendingWork
    MaxFaults,  \* bound on failures, crashes and lost replies
    None        \* no thread

ASSUME WorkflowAssumption ==
    /\ Working \subseteq Events
    /\ Requests \cap Drainers = {} /\ None \notin Requests \cup Drainers
    /\ MaxFaults \in Nat

Threads == Requests \cup Drainers

(***************************************************************************)
(* Event ids: those of the clients, and those of the tasks.  The commit of *)
(* a client's event may queue an effect, known by the event's id, and a    *)
(* task that is due at once; a task's own commit queues nothing.           *)
(***************************************************************************)
Ids == (Events \X {"in"}) \cup (Working \X {"next"})
HasWork(id) == id[2] = "in" /\ id[1] \in Working
EffectsOf(id) == IF HasWork(id) THEN {id} ELSE {}
TasksOf(id) == IF HasWork(id) THEN {<<id[1], "next">>} ELSE {}

VARIABLES
    row,        \* the workflow's row of workflow_state
    journal,    \* workflow_journal in the order of its ids; txn is the open
                \* transaction of a record, None once it is committed
    lock,       \* the transaction that locks the row
    th,         \* the threads
    executed,   \* effects that the executor has run
    reply,      \* what handle returned in the last step
    faults      \* faults so far

vars == <<row, journal, lock, th, executed, reply, faults>>

Kinds == {"commit", "rejection", "effect-acked", "task-acked"}
Handles(rec) == rec.kind \in {"commit", "rejection"}

NoRow == [applied |-> << >>, seen |-> {}, effects |-> {}, tasks |-> {}, exists |-> FALSE]
NoRec == [kind |-> "none", id |-> << >>, next |-> << >>]
NoReply == [id |-> << >>, outcome |-> "none"]
Idle == [pc |-> "idle", rec |-> NoRec, effects |-> {}, tasks |-> {}]

TypeOK ==
    /\ row \in [applied : Seq(Ids), seen : SUBSET Ids, effects : SUBSET Ids,
                tasks : SUBSET Ids, exists : BOOLEAN]
    /\ journal \in Seq([kind : Kinds, id : Ids, next : Seq(Ids), txn : Threads \cup {None}])
    /\ lock \in Threads \cup {None}
    /\ DOMAIN th = Threads
    /\ \A t \in Threads :
         /\ th[t].pc \in {"idle", "replay", "begin", "insert", "upsert", "drain"}
         /\ th[t].rec \in [kind : Kinds \cup {"none"}, id : Ids \cup {<< >>}, next : Seq(Ids)]
         /\ th[t].effects \subseteq Ids /\ th[t].tasks \subseteq Ids
    /\ executed \subseteq Ids
    /\ reply.outcome \in {"none", "committed", "rejected", "deduped", "store-append-failed"}
    /\ faults \in 0..MaxFaults

Init ==
    /\ row = NoRow
    /\ journal = << >>
    /\ lock = None
    /\ th = [t \in Threads |-> Idle]
    /\ executed = {}
    /\ reply = NoReply
    /\ faults = 0

-----------------------------------------------------------------------------
(* The store. *)

(***************************************************************************)
(* applyRecordToProjection, which replayJournal repeats line by line.      *)
(***************************************************************************)
ApplyRecord(proj, rec) ==
    [proj EXCEPT
       !.exists  = TRUE,
       !.applied = IF Handles(rec) THEN rec.next ELSE @,
       !.seen    = IF Handles(rec) THEN @ \cup {rec.id} ELSE @,
       !.effects = (@ \cup IF rec.kind = "commit" THEN EffectsOf(rec.id) ELSE {})
                      \ IF rec.kind = "effect-acked" THEN {rec.id} ELSE {},
       !.tasks   = (@ \cup IF rec.kind = "commit" THEN TasksOf(rec.id) ELSE {})
                      \ IF rec.kind = "task-acked" THEN {rec.id} ELSE {}]

\* The records of ended transactions, by their places in the journal.
Committed == {i \in DOMAIN journal : journal[i].txn = None}

\* Ids of the committed records of these kinds.
Durable(kinds) == {journal[i].id : i \in {j \in Committed : journal[j].kind \in kinds}}

replayJournal ==
    LET upTo[n \in 0..Len(journal)] ==
          IF n = 0 THEN NoRow
          ELSE IF n \in Committed THEN ApplyRecord(upTo[n - 1], journal[n]) ELSE upTo[n - 1]
    IN  upTo[Len(journal)]

Unlocked(t) == IF lock = t THEN None ELSE lock

(***************************************************************************)
(* The version a handled record expects: that of the instance its decision *)
(* was made on.                                                            *)
(***************************************************************************)
Expected(rec) == Len(rec.next) - IF rec.kind = "commit" THEN 1 ELSE 0

-----------------------------------------------------------------------------
(* What a thread does next. *)

(***************************************************************************)
(* The end of handleLocked.  A drain goes on to acknowledge the task,      *)
(* unless the append failed: then it leaves the task to a later drain.     *)
(***************************************************************************)
HandleReturns(t, id, outcome) ==
    /\ reply' = [id |-> id, outcome |-> outcome]
    /\ th' = [th EXCEPT ![t] =
                IF t \in Requests THEN Idle
                ELSE IF outcome = "store-append-failed"
                     THEN [@ EXCEPT !.pc = "drain", !.rec = NoRec, !.tasks = th[t].tasks \ {id}]
                     ELSE [@ EXCEPT !.pc = "begin",
                                    !.rec = [kind |-> "task-acked", id |-> id, next |-> << >>]]]

(***************************************************************************)
(* The end of the append of an acknowledgement: the drain goes to the next *)
(* item, or an error ends it.                                              *)
(***************************************************************************)
AckReturns(t, outcome) ==
    /\ reply' = NoReply
    /\ th' = [th EXCEPT ![t] =
                IF outcome = "store-append-failed" THEN Idle
                ELSE [@ EXCEPT !.pc = "drain", !.rec = NoRec,
                               !.effects = th[t].effects \ IF th[t].rec.kind = "effect-acked"
                                                           THEN {th[t].rec.id} ELSE {},
                               !.tasks = th[t].tasks \ IF th[t].rec.kind = "task-acked"
                                                       THEN {th[t].rec.id} ELSE {}]]

AppendReturns(t, outcome) ==
    IF Handles(th[t].rec) THEN HandleReturns(t, th[t].rec.id, outcome) ELSE AckReturns(t, outcome)

\* What handle answers once its record is in the journal; the append of an
\* acknowledgement only does not fail.
Success(rec) == IF rec.kind = "commit" THEN "committed" ELSE "rejected"

(***************************************************************************)
(* handleLocked from the loaded projection to the append.  An event seen   *)
(* within the time to live is a duplicate.  Any other is committed on the  *)
(* loaded instance or rejected (spec mismatch, limits, quota, decide).     *)
(***************************************************************************)
Decide(t, id, proj) ==
    \E fresh \in BOOLEAN :
      IF id \in proj.seen /\ fresh
        THEN HandleReturns(t, id, "deduped")
        ELSE /\ reply' = NoReply
             /\ \E kind \in {"commit", "rejection"} :
                  th' = [th EXCEPT ![t].pc = "begin",
                                   ![t].rec = [kind |-> kind, id |-> id,
                                               next |-> IF kind = "commit" THEN Append(proj.applied, id)
                                                                           ELSE proj.applied]]

(***************************************************************************)
(* load reads the row; if there is none it reads the journal in a second   *)
(* statement, and replays what has been committed by then.                 *)
(***************************************************************************)
Handle(t, id) ==
    IF row.exists
      THEN Decide(t, id, row)
      ELSE /\ th' = [th EXCEPT ![t].pc = "replay", ![t].rec = [NoRec EXCEPT !.id = id]]
           /\ reply' = NoReply

Receive(r, e) ==
    /\ th[r].pc = "idle"
    /\ Handle(r, <<e, "in">>)
    /\ UNCHANGED <<row, journal, lock, executed, faults>>

LoadJournal(t) ==
    /\ th[t].pc = "replay"
    /\ Decide(t, th[t].rec.id, replayJournal)
    /\ UNCHANGED <<row, journal, lock, executed, faults>>

-----------------------------------------------------------------------------
(* append. *)

\* Faulty variant of SelectForUpdate: a conflict is taken for a duplicate.
SelectForUpdateDeduped(t) ==
    /\ th[t].pc = "begin"
    /\ row.exists => lock = None
    /\ IF Handles(th[t].rec) /\ Len(row.applied) # Expected(th[t].rec)
         THEN /\ AppendReturns(t, "deduped")
              /\ lock' = lock
         ELSE /\ lock' = IF row.exists THEN t ELSE lock
              /\ th' = [th EXCEPT ![t].pc = "insert"]
              /\ reply' = NoReply
    /\ UNCHANGED <<row, journal, executed, faults>>

\* Faulty variant of SelectForUpdate: a conflict is tried again as it is.
SelectForUpdateRetries(t) ==
    /\ th[t].pc = "begin"
    /\ row.exists => lock = None
    /\ reply' = NoReply
    /\ IF Handles(th[t].rec) /\ Len(row.applied) # Expected(th[t].rec)
         THEN UNCHANGED <<th, lock>>
         ELSE /\ lock' = IF row.exists THEN t ELSE lock
              /\ th' = [th EXCEPT ![t].pc = "insert"]
    /\ UNCHANGED <<row, journal, executed, faults>>

(***************************************************************************)
(* begin; select ... for update: it waits for the lock of the row, but     *)
(* where there is no row there is nothing to lock.                         *)
(***************************************************************************)
SelectForUpdate(t) ==
    /\ th[t].pc = "begin"
    /\ row.exists => lock = None
    /\ IF Handles(th[t].rec) /\ Len(row.applied) # Expected(th[t].rec)
         THEN /\ AppendReturns(t, "store-append-failed")
              /\ lock' = lock
         ELSE /\ lock' = IF row.exists THEN t ELSE lock
              /\ th' = [th EXCEPT ![t].pc = "insert"]
              /\ reply' = NoReply
    /\ UNCHANGED <<row, journal, executed, faults>>

\* Uncommitted records of other transactions with the same event.
Rivals(t) ==
    {i \in DOMAIN journal : /\ Handles(th[t].rec) /\ Handles(journal[i])
                            /\ journal[i].id = th[t].rec.id
                            /\ journal[i].txn \notin {None, t}}

(***************************************************************************)
(* insert into workflow_journal.  The unique index on the event waits for  *)
(* an open transaction with the same event and refuses a second record of  *)
(* it; acknowledgements have no event.                                     *)
(***************************************************************************)
InsertJournal(t) ==
    /\ th[t].pc = "insert"
    /\ Rivals(t) = {}
    /\ IF Handles(th[t].rec) /\ th[t].rec.id \in Durable({"commit", "rejection"})
         THEN /\ AppendReturns(t, "deduped")
              /\ lock' = Unlocked(t)
              /\ journal' = journal
         ELSE /\ journal' = Append(journal, [kind |-> th[t].rec.kind, id |-> th[t].rec.id,
                                             next |-> th[t].rec.next, txn |-> t])
              /\ th' = [th EXCEPT ![t].pc = "upsert"]
              /\ reply' = NoReply
              /\ lock' = lock
    /\ UNCHANGED <<row, executed, faults>>

\* The projection that the transaction read: nothing where it has no lock.
Base(t) == IF lock = t THEN row ELSE NoRow

\* Faulty variant of VersionHolds: the upsert overwrites whatever is there.
VersionHoldsAlways(t) == TRUE

\* The upsert's condition: for a handled record an existing row must have
\* the expected version.
VersionHolds(t) ==
    row.exists /\ Handles(th[t].rec) => Len(row.applied) = Expected(th[t].rec)

\* A transaction has inserted at most one record.
Rollback(t) ==
    /\ \/ \E i \in DOMAIN journal : journal[i].txn = t /\ journal' = RemoveAt(journal, i)
       \/ (\A i \in DOMAIN journal : journal[i].txn # t) /\ journal' = journal
    /\ lock' = Unlocked(t)
    /\ row' = row

CommitTxn(t) ==
    /\ row' = ApplyRecord(Base(t), th[t].rec)
    /\ journal' = [i \in DOMAIN journal |->
                     IF journal[i].txn = t THEN [journal[i] EXCEPT !.txn = None] ELSE journal[i]]
    /\ lock' = Unlocked(t)

\* Faulty variant of UpsertState: the number of rows written is not looked at.
UpsertStateUnchecked(t) ==
    /\ th[t].pc = "upsert"
    /\ lock \in {None, t}
    /\ journal' = [i \in DOMAIN journal |->
                     IF journal[i].txn = t THEN [journal[i] EXCEPT !.txn = None] ELSE journal[i]]
    /\ row' = IF VersionHolds(t) THEN ApplyRecord(Base(t), th[t].rec) ELSE row
    /\ lock' = Unlocked(t)
    /\ AppendReturns(t, Success(th[t].rec))
    /\ UNCHANGED <<executed, faults>>

(***************************************************************************)
(* The upsert of workflow_state and the commit; where the version does not *)
(* hold no row is written, which is a conflict.                            *)
(***************************************************************************)
UpsertState(t) ==
    /\ th[t].pc = "upsert"
    /\ lock \in {None, t}
    /\ IF VersionHolds(t)
         THEN CommitTxn(t) /\ AppendReturns(t, Success(th[t].rec))
         ELSE Rollback(t) /\ AppendReturns(t, "store-append-failed")
    /\ UNCHANGED <<executed, faults>>

(***************************************************************************)
(* Postgres ends one of two transactions that wait for each other: the     *)
(* first holds the row and waits for the event, the second has inserted    *)
(* the event and waits for the row.                                        *)
(***************************************************************************)
DbDeadlock(t, u) ==
    /\ lock = t /\ th[t].pc = "insert"
    /\ \E i \in Rivals(t) : journal[i].txn = u
    /\ th[u].pc = "upsert"
    /\ \E victim \in {t, u} : Rollback(victim) /\ AppendReturns(victim, "store-append-failed")
    /\ UNCHANGED <<executed, faults>>

-----------------------------------------------------------------------------
(* drainPendingWork. *)

\* The workflow is listed once it has a row or a record, which come together.
DrainLoad(d) ==
    /\ th[d].pc = "idle"
    /\ row.exists
    /\ row.effects \cup row.tasks # {}
    /\ th' = [th EXCEPT ![d] = [Idle EXCEPT !.pc = "drain", !.effects = row.effects,
                                            !.tasks = row.tasks]]
    /\ reply' = NoReply
    /\ UNCHANGED <<row, journal, lock, executed, faults>>

(***************************************************************************)
(* Execute a pending effect, then acknowledge it.                          *)
(***************************************************************************)
DrainEffect(d) ==
    /\ th[d].pc = "drain"
    /\ \E id \in th[d].effects :
         /\ executed' = executed \cup {id}
         /\ th' = [th EXCEPT ![d].pc = "begin",
                             ![d].rec = [kind |-> "effect-acked", id |-> id, next |-> << >>]]
    /\ reply' = NoReply
    /\ UNCHANGED <<row, journal, lock, faults>>

\* The executor reports a failure: the effect stays pending.
EffectFails(d) ==
    /\ th[d].pc = "drain" /\ faults < MaxFaults
    /\ \E id \in th[d].effects : th' = [th EXCEPT ![d].effects = @ \ {id}]
    /\ reply' = NoReply
    /\ faults' = faults + 1
    /\ UNCHANGED <<row, journal, lock, executed>>

DrainTask(d) ==
    /\ th[d].pc = "drain" /\ th[d].effects = {}
    /\ \E id \in th[d].tasks : Handle(d, id)
    /\ UNCHANGED <<row, journal, lock, executed, faults>>

DrainEnds(d) ==
    /\ th[d].pc = "drain" /\ th[d].effects = {} /\ th[d].tasks = {}
    /\ th' = [th EXCEPT ![d] = Idle]
    /\ reply' = NoReply
    /\ UNCHANGED <<row, journal, lock, executed, faults>>

-----------------------------------------------------------------------------
(* Faults. *)

\* A statement fails: the transaction is rolled back and append throws.
StatementFails(t) ==
    /\ th[t].pc \in {"begin", "insert", "upsert"} /\ faults < MaxFaults
    /\ Rollback(t)
    /\ AppendReturns(t, "store-append-failed")
    /\ faults' = faults + 1
    /\ UNCHANGED executed

\* The commit takes effect and its reply is lost: append throws all the same.
CommitReplyLost(t) ==
    /\ th[t].pc = "upsert" /\ faults < MaxFaults
    /\ lock \in {None, t}
    /\ VersionHolds(t)
    /\ CommitTxn(t)
    /\ AppendReturns(t, "store-append-failed")
    /\ faults' = faults + 1
    /\ UNCHANGED executed

\* The process ends, or a load throws: nothing is returned.
Crash(t) ==
    /\ th[t].pc # "idle" /\ faults < MaxFaults
    /\ Rollback(t)
    /\ th' = [th EXCEPT ![t] = Idle]
    /\ reply' = NoReply
    /\ faults' = faults + 1
    /\ UNCHANGED executed

-----------------------------------------------------------------------------
Proceed(t) == LoadJournal(t) \/ SelectForUpdate(t) \/ InsertJournal(t) \/ UpsertState(t)

Next ==
    \/ \E r \in Requests, e \in Events : Receive(r, e)
    \/ \E t \in Threads : \/ LoadJournal(t) \/ SelectForUpdate(t) \/ InsertJournal(t) \/ UpsertState(t)
                          \/ StatementFails(t) \/ CommitReplyLost(t) \/ Crash(t)
    \/ \E t \in Threads, u \in Threads : DbDeadlock(t, u)
    \/ \E d \in Drainers : \/ DrainLoad(d) \/ DrainEffect(d) \/ DrainTask(d) \/ DrainEnds(d)
                           \/ EffectFails(d)

(***************************************************************************)
(* A call runs on.  Postgres queues those who wait for a lock, so a thread *)
(* that can go on again and again does.  Nothing in the repository calls   *)
(* drainPendingWork on this store, so that a drain need not be run; one    *)
(* under way does not stay inside a transaction.                           *)
(***************************************************************************)
Fairness ==
    /\ \A t \in Threads : SF_vars(Proceed(t))
    /\ WF_vars(\E t \in Threads, u \in Threads : DbDeadlock(t, u))

Spec == Init /\ [][Next]_vars /\ Fairness

-----------------------------------------------------------------------------
(* Properties. *)

(***************************************************************************)
(* The commits form one chain: each was decided on the instance the one    *)
(* before it left, no event is in it twice, and the row holds the end of   *)
(* it.  This is what the version checks are for: no request's stale view   *)
(* is merged, although nothing locks a workflow that has no row yet.       *)
(***************************************************************************)
CommitsChain ==
    /\ IsInjective(row.applied)
    /\ ToSet(row.applied) = Durable({"commit"})
    /\ \A i \in DOMAIN journal :
         journal[i].txn = None /\ journal[i].kind = "commit" =>
            /\ IsPrefix(journal[i].next, row.applied)
            /\ journal[i].next[Len(journal[i].next)] = journal[i].id

(***************************************************************************)
(* An answer tells what the journal holds: committed and rejected ones     *)
(* have their record, a duplicate has a record of an earlier call.         *)
(***************************************************************************)
AnswersHold ==
    /\ reply.outcome = "committed" => reply.id \in Durable({"commit"})
    /\ reply.outcome = "rejected" => reply.id \in Durable({"rejection"})
    /\ reply.outcome = "deduped" => reply.id \in Durable({"commit", "rejection"})

(***************************************************************************)
(* No work is lost: the effect and the task of every commit are pending in *)
(* the row until they are acknowledged, an acknowledged effect has been    *)
(* run and an acknowledged task has a record of its own.  A transaction    *)
(* that saw no row and overwrites one must not wipe out pending work.      *)
(***************************************************************************)
WorkKept ==
    /\ \A id \in Durable({"commit"}) :
         /\ EffectsOf(id) \subseteq row.effects \cup Durable({"effect-acked"})
         /\ TasksOf(id) \subseteq row.tasks \cup Durable({"task-acked"})
    /\ Durable({"effect-acked"}) \subseteq executed
    /\ Durable({"task-acked"}) \subseteq Durable({"commit", "rejection"})

(***************************************************************************)
(* Every call of handle returns: no two transactions wait for each other   *)
(* for ever.                                                               *)
(***************************************************************************)
RequestsReturn == \A r \in Requests : th[r].pc # "idle" ~> th[r].pc = "idle"
=============================================================================
