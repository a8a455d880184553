---------------------------- MODULE BuildService ----------------------------
(***************************************************************************)
(* The build service of the txpool builder v2 (internal/service): HTTP     *)
(* handlers admit jobs by idempotency key under one mutex and hand them to *)
(* a bounded channel after the mutex is released, workers build candidates *)
(* on the snapshot a job was admitted with, and one loop refreshes the     *)
(* snapshot from a node whose head moves meanwhile.  What a build selects  *)
(* from a snapshot is the subject of SelectionV2.                          *)
(*                                                                         *)
(* A job's ID is a digest of its key and its snapshot's ID, so it is that  *)
(* pair here (priority class and policy version belong to the key).  The   *)
(* digest of a snapshot covers its times: every refresh makes a new ID.    *)
(* Counters, responses and the text of reasons are left out.               *)
(***************************************************************************)
EXTENDS Naturals, FiniteSets, SequencesExt

CONSTANTS
    Key,             \* idempotency keys
    Client,          \* requests served at the same time
    Worker,          \* cfg.WorkerCount goroutines
    QueueSize,       \* cfg.QueueSize, capacity of the channel
    MaxRetainedJobs, \* cfg.MaxRetainedJobs
    MaxRetainedSnap, \* cfg.MaxRetainedSnap
    MaxSnapshots,    \* bound: snapshots captured
    MaxHead,         \* bound: blocks of the chain
    MaxSubmits,      \* bound: jobs admitted
    MaxExpiries      \* bound: idempotency records that reach their 30 minutes

ASSUME BuildServiceAssumption ==
    /\ {QueueSize, MaxRetainedJobs, MaxRetainedSnap, MaxSnapshots} \subseteq Nat \ {0}
    /\ {MaxHead, MaxSubmits, MaxExpiries} \subseteq Nat

JobID == Key \X (1..MaxSnapshots)
KeyOf(j) == j[1]
SnapshotOf(j) == j[2]
Terminal == {"completed", "failed", "shed"}
Live == {"queued", "running"}
NoJob == <<>>
NoRecord == [job |-> NoJob, expired |-> FALSE]

VARIABLES
    jobs,        \* s.jobs: state of a job, "none" when there is no record
    done,        \* jobs in the order of CompletedAt
    results,     \* s.results: the jobs that have a result
    idempotency, \* s.idempotency: the job of a key, and whether 30 minutes have passed
    queue,       \* s.queue
    snapshots,   \* s.snapshots: ID, block of the header and block of the pool
    fresh,       \* whether the current snapshot is younger than MaxSnapshotAge
    captured,    \* number of snapshots recorded
    artifacts,   \* directories under results/, in the order of modification
    doomed,      \* of a worker: the directories it has found to be too many
    strays,      \* directories a failing call has left since the last listing (history)
    head,        \* the node's block number
    refresher,   \* the refresh loop: pc, headBefore, block of the pool
    client,      \* of a request: the job it is about to send to the queue
    worker,      \* of a worker: pc and job
    stopped,     \* s.ctx is cancelled
    submits, expiries,
    again        \* jobs admitted while their record was still there (history)

tables == <<jobs, done, results, idempotency>>
epochs == <<snapshots, fresh, captured>>
bounds == <<submits, expiries, again>>
disk == <<artifacts, doomed, strays>>
vars == <<tables, queue, epochs, disk, head, refresher, client, worker, stopped, bounds>>

Steps == {"idle", "taken", "lookup", "build", "candidate", "trace", "list", "remove",
          "record", "complete", "fail", "gone"}
Idle == [pc |-> "idle", before |-> 0, pool |-> 0]

TypeOK ==
    /\ jobs \in [JobID -> Terminal \cup {"none", "queued", "running"}]
    /\ done \in Seq(JobID) /\ IsInjective(done)
    /\ results \subseteq JobID
    /\ idempotency \in [Key -> [job : JobID \cup {NoJob}, expired : BOOLEAN]]
    /\ queue \in Seq(JobID) /\ Len(queue) <= QueueSize
    /\ snapshots \in Seq([id : 1..MaxSnapshots, header : Nat, pool : Nat])
    /\ Len(snapshots) <= MaxRetainedSnap
    /\ artifacts \in Seq(JobID) /\ IsInjective(artifacts)
    /\ doomed \in [Worker -> Seq(JobID)] /\ strays \subseteq JobID
    /\ client \in [Client -> JobID \cup {NoJob}]
    /\ worker \in [Worker -> [pc : Steps, job : JobID \cup {NoJob}]]
    /\ refresher.pc \in {"idle", "headed", "pooled", "gone"}

(***************************************************************************)
(* New and Start: nothing is admitted before the first snapshot.           *)
(***************************************************************************)
Init ==
    /\ jobs = [j \in JobID |-> "none"] /\ done = <<>> /\ results = {}
    /\ idempotency = [k \in Key |-> NoRecord]
    /\ queue = <<>>
    /\ artifacts = <<>> /\ doomed = [w \in Worker |-> <<>>] /\ strays = {}
    /\ head = 0 /\ captured = 1 /\ fresh = TRUE
    /\ snapshots = <<[id |-> 1, header |-> 0, pool |-> 0]>>
    /\ refresher = Idle
    /\ client = [c \in Client |-> NoJob]
    /\ worker = [w \in Worker |-> [pc |-> "idle", job |-> NoJob]]
    /\ stopped = FALSE /\ submits = 0 /\ expiries = 0 /\ again = {}

-----------------------------------------------------------------------------
(* Records: the helpers that run under s.mu. *)

Recorded(js) == {j \in JobID : js[j] # "none"}

\* A list of different jobs without this one.
Without(s, j) == IF j \in Range(s) THEN RemoveAt(s, CHOOSE i \in DOMAIN s : s[i] = j) ELSE s

\* recordSnapshot: the n newest entries.
Newest(s, n) == IF Len(s) <= n THEN s ELSE SubSeq(s, Len(s) - n + 1, Len(s))

\* completeJob, failJob and the shed branch of Submit: they mark a job that
\* is still recorded, and its time of completion with it.
Finish(j, state) ==
    IF jobs[j] = "none" THEN UNCHANGED <<jobs, done>>
    ELSE /\ jobs' = [jobs EXCEPT ![j] = state]
         /\ done' = Append(Without(done, j), j)

(***************************************************************************)
(* pruneLocked and sortJobsByTime: the finished jobs that leave, those     *)
(* that finished first, until no more than MaxRetainedJobs remain.         *)
(***************************************************************************)
Victims(js) ==
    LET ended == {i \in DOMAIN done : js[done[i]] \in Terminal}
        n == Cardinality(Recorded(js)) - MaxRetainedJobs
    IN  {done[i] : i \in {i \in ended : Cardinality({k \in ended : k <= i}) <= n}}

(***************************************************************************)
(* The rest of pruneLocked, and pruneIdempotencyLocked.  The record of a   *)
(* pruned job's KEY is deleted, whatever job it points at by then.         *)
(***************************************************************************)
Prune(js, idem) ==
    LET gone == Victims(js)
    IN  /\ jobs' = [j \in JobID |-> IF j \in gone THEN "none" ELSE js[j]]
        /\ done' = SelectSeq(done, LAMBDA j : jobs'[j] \notin {"none", "queued"})
        /\ results' = results \ gone
        /\ idempotency' = [k \in Key |->
             IF idem[k].expired \/ \E j \in gone : KeyOf(j) = k THEN NoRecord ELSE idem[k]]

-----------------------------------------------------------------------------
(* Admission. *)

\* A key that resolves: its record is not expired and its job is retained.
Resolves(k) ==
    /\ idempotency[k].job # NoJob
    /\ ~idempotency[k].expired
    /\ jobs[idempotency[k].job] # "none"

(***************************************************************************)
(* Submit up to its unlock.  A key that resolves is answered with its job, *)
(* a missing or old snapshot and a full channel are errors, and none of    *)
(* them changes the state.                                                 *)
(***************************************************************************)
Submit(c, k) ==
    /\ client[c] = NoJob
    /\ submits < MaxSubmits
    /\ ~Resolves(k)
    /\ snapshots # <<>> /\ fresh
    /\ Len(queue) < QueueSize
    /\ LET j == <<k, Last(snapshots).id>>
       IN  /\ Prune([jobs EXCEPT ![j] = "queued"],
                    [idempotency EXCEPT ![k] = [job |-> j, expired |-> FALSE]])
           /\ client' = [client EXCEPT ![c] = j]
           /\ again' = IF jobs[j] = "none" THEN again ELSE again \cup {j}
    /\ submits' = submits + 1
    /\ UNCHANGED <<queue, epochs, disk, head, refresher, worker, stopped, expiries>>

\* Faulty variant of Send: a full channel is reported to the client only.
SendForgets(c) ==
    /\ client[c] # NoJob
    /\ IF Len(queue) < QueueSize
       THEN queue' = Append(queue, client[c]) /\ UNCHANGED <<jobs, done>>
       ELSE UNCHANGED <<queue, jobs, done>>
    /\ client' = [client EXCEPT ![c] = NoJob]
    /\ UNCHANGED <<results, idempotency, epochs, disk, head, refresher, worker, stopped, bounds>>

(***************************************************************************)
(* The rest of Submit: a send that does not wait; when other requests have *)
(* filled the channel since the check, the job is marked as shed.          *)
(***************************************************************************)
Send(c) ==
    /\ client[c] # NoJob
    /\ IF Len(queue) < QueueSize
       THEN queue' = Append(queue, client[c]) /\ UNCHANGED <<jobs, done>>
       ELSE Finish(client[c], "shed") /\ UNCHANGED queue
    /\ client' = [client EXCEPT ![c] = NoJob]
    /\ UNCHANGED <<results, idempotency, epochs, disk, head, refresher, worker, stopped, bounds>>

(***************************************************************************)
(* Time: 30 minutes after its admission a key's record is expired.  By     *)
(* then a snapshot as old as that is no longer fresh (15 s by default).    *)
(***************************************************************************)
KeyExpires(k) ==
    /\ expiries < MaxExpiries
    /\ idempotency[k].job # NoJob /\ ~idempotency[k].expired
    /\ idempotency' = [idempotency EXCEPT ![k].expired = TRUE]
    /\ fresh' = (fresh /\ SnapshotOf(idempotency[k].job) # Last(snapshots).id)
    /\ expiries' = expiries + 1
    /\ UNCHANGED <<jobs, done, results, queue, snapshots, captured, disk, head, refresher, client, worker, stopped, submits, again>>

SnapshotAges ==
    /\ fresh
    /\ fresh' = FALSE
    /\ UNCHANGED <<tables, queue, snapshots, captured, disk, head, refresher, client, worker, stopped, bounds>>

-----------------------------------------------------------------------------
(* Workers: workerLoop and processJob. *)

Rest == <<queue, epochs, head, refresher, client, stopped, bounds>>
Goto(w, pc) == worker' = [worker EXCEPT ![w].pc = pc]
Free(w) == worker' = [worker EXCEPT ![w] = [pc |-> "idle", job |-> NoJob]]

Take(w) ==
    /\ worker[w].pc = "idle"
    /\ queue # <<>>
    /\ queue' = Tail(queue)
    /\ worker' = [worker EXCEPT ![w] = [pc |-> "taken", job |-> Head(queue)]]
    /\ UNCHANGED <<tables, epochs, disk, head, refresher, client, stopped, bounds>>

\* select takes any case that is ready, so a worker may still take jobs
\* after the context has ended.
WorkerReturns(w) ==
    /\ worker[w].pc = "idle"
    /\ stopped
    /\ Goto(w, "gone")
    /\ UNCHANGED <<tables, disk, Rest>>

StartJob(w) ==
    /\ worker[w].pc = "taken"
    /\ IF jobs[worker[w].job] = "none"
       THEN Free(w) /\ UNCHANGED jobs
       ELSE Goto(w, "lookup") /\ jobs' = [jobs EXCEPT ![worker[w].job] = "running"]
    /\ UNCHANGED <<done, results, idempotency, disk, Rest>>

\* snapshotRecordByID, after the mutex is released.
Lookup(w) ==
    /\ worker[w].pc = "lookup"
    /\ Goto(w, IF \E i \in 1..Len(snapshots) : snapshots[i].id = SnapshotOf(worker[w].job)
               THEN "build" ELSE "fail")
    /\ UNCHANGED <<tables, disk, Rest>>

(***************************************************************************)
(* persistBuildArtifacts, after buildCandidate, which reads nothing but    *)
(* the snapshot.  The directory has the name of the candidate, a digest of *)
(* the key, the snapshot and what is selected from it, so that it is the   *)
(* job's.  No lock covers these steps: other workers write, list and       *)
(* remove directories in between, and each call may fail.  What is in a    *)
(* directory is left out.                                                  *)
(***************************************************************************)
\* Writing into a directory makes it the newest, and makes it if need be.
Written(j) == Append(Without(artifacts, j), j)

\* The call fails, and the worker goes on to failJob.
GiveUp(w) == Goto(w, "fail") /\ UNCHANGED doomed

MakeDir(w) ==
    /\ worker[w].pc = "build"
    /\ LET j == worker[w].job
       IN  \/ artifacts' = (IF j \in Range(artifacts) THEN artifacts ELSE Written(j))
              /\ Goto(w, "candidate") /\ UNCHANGED doomed
           \/ GiveUp(w) /\ UNCHANGED artifacts
    /\ UNCHANGED <<strays, tables, Rest>>

\* writeJSONAtomic of the candidate and of the trace: MkdirAll again, a
\* temporary file and a rename.
WriteFile(w) ==
    /\ worker[w].pc \in {"candidate", "trace"}
    /\ LET j == worker[w].job
       IN  \/ artifacts' = Written(j)
              /\ Goto(w, IF worker[w].pc = "candidate" THEN "trace" ELSE "list")
              /\ UNCHANGED <<doomed, strays>>
           \/ artifacts' \in {artifacts, Written(j)} /\ GiveUp(w) /\ strays' = strays \cup {j}
    /\ UNCHANGED <<tables, Rest>>

\* Faulty variant of Oldest: one too many is kept.
OldestButOne(s, n) == SubSeq(s, 1, Len(s) - n - 1)

\* All but the n newest entries.
Oldest(s, n) == IF Len(s) <= n THEN <<>> ELSE SubSeq(s, 1, Len(s) - n)

\* pruneDir reads the directory and the times of its entries, in one step
\* here: one that is gone or written in between is removed in vain or was
\* among the listed all the same.  An error of it is ignored.
ListDirs(w) ==
    /\ worker[w].pc = "list"
    /\ \/ /\ doomed' = [doomed EXCEPT ![w] = Oldest(artifacts, MaxRetainedJobs)]
          /\ strays' = {}
          /\ Goto(w, IF doomed'[w] = <<>> THEN "record" ELSE "remove")
       \/ strays' = strays \cup {worker[w].job} /\ Goto(w, "record") /\ UNCHANGED doomed
    /\ UNCHANGED <<artifacts, tables, Rest>>

\* RemoveAll of the next one; it may be gone by now, and an error of it is
\* ignored.
RemoveDir(w) ==
    /\ worker[w].pc = "remove"
    /\ LET j == Head(doomed[w])
       IN  \/ artifacts' = Without(artifacts, j) /\ UNCHANGED strays
           \/ j \in Range(artifacts) /\ strays' = strays \cup {j} /\ UNCHANGED artifacts
    /\ doomed' = [doomed EXCEPT ![w] = Tail(@)]
    /\ Goto(w, IF doomed'[w] = <<>> THEN "record" ELSE "remove")
    /\ UNCHANGED <<tables, Rest>>

RecordResult(w) ==
    /\ worker[w].pc = "record"
    /\ results' = results \cup {worker[w].job}
    /\ Goto(w, "complete")
    /\ UNCHANGED <<jobs, done, idempotency, disk, Rest>>

\* Faulty variant of CompleteJob: the job is marked before its result is stored.
CompleteJobFirst(w) ==
    /\ worker[w].pc \in {"record", "complete"}
    /\ Finish(worker[w].job, "completed")
    /\ IF worker[w].pc = "record" THEN UNCHANGED worker ELSE Free(w)
    /\ UNCHANGED <<results, idempotency, disk, Rest>>

CompleteJob(w) ==
    /\ worker[w].pc = "complete"
    /\ Finish(worker[w].job, "completed")
    /\ Free(w)
    /\ UNCHANGED <<results, idempotency, disk, Rest>>

\* Faulty variant of FailJob: the worker returns without the mark.
FailJobForgets(w) ==
    /\ worker[w].pc = "fail"
    /\ Free(w)
    /\ UNCHANGED <<tables, disk, Rest>>

FailJob(w) ==
    /\ worker[w].pc = "fail"
    /\ Finish(worker[w].job, "failed")
    /\ Free(w)
    /\ UNCHANGED <<results, idempotency, disk, Rest>>

-----------------------------------------------------------------------------
(* The refresh loop and the node. *)

RefreshRest == <<tables, queue, disk, head, client, worker, stopped, bounds>>

HeadMoves ==
    /\ head < MaxHead
    /\ head' = head + 1
    /\ UNCHANGED <<tables, queue, epochs, disk, refresher, client, worker, stopped, bounds>>

\* refreshSnapshot up to the header of the block it starts at.
ReadHead ==
    /\ refresher.pc = "idle" /\ ~stopped /\ captured < MaxSnapshots
    /\ refresher' = [pc |-> "headed", before |-> head, pool |-> 0]
    /\ UNCHANGED <<epochs, RefreshRest>>

\* txpool_content
ReadPool ==
    /\ refresher.pc = "headed"
    /\ refresher' = [refresher EXCEPT !.pc = "pooled", !.pool = head]
    /\ UNCHANGED <<epochs, RefreshRest>>

\* Any of the calls may fail or time out, the node may be syncing, and the
\* answers may not decode; a cancelled context ends them too.
RefreshFails ==
    /\ refresher.pc \in {"headed", "pooled"}
    /\ refresher' = Idle
    /\ UNCHANGED <<epochs, RefreshRest>>

(***************************************************************************)
(* The second block number must be the first one (strict mode); then       *)
(* recordSnapshot keeps the MaxRetainedSnap newest.  persistSnapshot comes *)
(* after it: its failure is reported, and leaves the snapshot in use.      *)
(***************************************************************************)
RecordSnapshot ==
    /\ refresher.pc = "pooled"
    /\ head = refresher.before
    /\ captured' = captured + 1 /\ fresh' = TRUE
    /\ snapshots' = Newest(Append(snapshots,
           [id |-> captured + 1, header |-> refresher.before, pool |-> refresher.pool]), MaxRetainedSnap)
    /\ refresher' = Idle
    /\ UNCHANGED RefreshRest

RefresherReturns ==
    /\ refresher.pc = "idle" /\ stopped
    /\ refresher' = [Idle EXCEPT !.pc = "gone"]
    /\ UNCHANGED <<epochs, RefreshRest>>

\* main: the HTTP server ends first, so no request is under way.
Shutdown ==
    /\ ~stopped
    /\ \A c \in Client : client[c] = NoJob
    /\ stopped' = TRUE
    /\ submits' = MaxSubmits
    /\ UNCHANGED <<tables, queue, epochs, disk, head, refresher, client, worker, expiries, again>>

-----------------------------------------------------------------------------
Work(w) ==
    \/ Take(w) \/ StartJob(w) \/ Lookup(w)
    \/ MakeDir(w) \/ WriteFile(w) \/ ListDirs(w) \/ RemoveDir(w)
    \/ RecordResult(w) \/ CompleteJob(w) \/ FailJob(w)

Refresh == ReadHead \/ ReadPool \/ RefreshFails \/ RecordSnapshot

Next ==
    \/ \E c \in Client : Send(c) \/ \E k \in Key : Submit(c, k)
    \/ \E w \in Worker : Work(w) \/ WorkerReturns(w)
    \/ Refresh \/ RefresherReturns \/ HeadMoves
    \/ SnapshotAges \/ (\E k \in Key : KeyExpires(k))
    \/ Shutdown

(***************************************************************************)
(* Goroutines that can run do; RPC calls end by their timeout.             *)
(***************************************************************************)
Fairness ==
    /\ \A c \in Client : WF_vars(Send(c))
    /\ \A w \in Worker : WF_vars(Work(w)) /\ WF_vars(WorkerReturns(w))
    /\ WF_vars(ReadPool \/ RefreshFails \/ RecordSnapshot) /\ WF_vars(RefresherReturns)

Spec == Init /\ [][Next]_vars /\ Fairness

-----------------------------------------------------------------------------
(* Properties. *)

Holds(w, j) == worker[w].job = j

(***************************************************************************)
(* LiveJobIsHeld: a queued job is in the channel, with the request that    *)
(* still has to send it, or with a worker about to start it, and a running *)
(* one is with a worker: none is lost between the mutex and the channel.   *)
(***************************************************************************)
LiveJobIsHeld ==
    \A j \in JobID :
        /\ jobs[j] = "queued" =>
               \/ j \in Range(queue)
               \/ \E c \in Client : client[c] = j
               \/ \E w \in Worker : Holds(w, j)
        /\ jobs[j] = "running" => \E w \in Worker : Holds(w, j)

(***************************************************************************)
(* ResultsAreSound: whoever reads a completed job finds its result, though *)
(* recordResult and completeJob are two critical sections and requests     *)
(* prune in between.  This takes that no second worker builds the job: one *)
(* that was admitted again while it was there may be completed by its      *)
(* first worker and pruned, and completed once more without a result.  And *)
(* the pool of a snapshot was read at the block whose header gives its     *)
(* base fee and gas limit.                                                 *)
(***************************************************************************)
ResultsAreSound ==
    /\ \A j \in JobID : jobs[j] = "completed" => j \in results \cup again
    /\ \A i \in 1..Len(snapshots) : snapshots[i].header = snapshots[i].pool

\* A worker has begun a directory and has not yet looked for old ones.
Persisting(w) == worker[w].pc \in {"candidate", "trace", "list"}

\* Directories that are not a result's for good: those that are about to be
\* removed, that are being written, or that a failing call has left.
Passing ==
    strays \cup {worker[w].job : w \in {w \in Worker : Persisting(w)}}
           \cup UNION {Range(doomed[w]) : w \in Worker}

(***************************************************************************)
(* ArtifactsBounded: "pruneDir keeps history bounded so disk usage does    *)
(* not grow with request volume" (persistence.go).  No lock makes the      *)
(* workers' writes, listings and removals one step, and they work from     *)
(* listings that are out of date: still no more than MaxRetainedJobs       *)
(* directories stay, besides those of builds under way and those that a    *)
(* failing call has left since the last listing.  (They need not be those  *)
(* of the results: two workers may remove each other's.)                   *)
(***************************************************************************)
ArtifactsBounded == Cardinality(Range(artifacts) \ Passing) <= MaxRetainedJobs

(***************************************************************************)
(* JobsAreDecided: when no more requests come, every admitted job ends up  *)
(* completed, failed or shed, unless the service is shut down first.       *)
(***************************************************************************)
JobsAreDecided == <>[](stopped \/ \A j \in JobID : jobs[j] \notin Live)
=============================================================================
