# TLA+ models of the swe-projects monorepo

The repository holds several independent programs. The largest and most
concurrent of them is the MEV relay v3 (`blockchain/eth/mev/relay/v3`, Go), and
most of the models are about it: its admission queue, the path of a bundle, its
event log, stores, NATS client and control policy, and the authority over a shard
that several processes share. The earlier relays v1 and v2, the two txpool
builders and the workflow engine (TypeScript) on its Postgres store follow.
Section 1 is the inventory of everything, section 2 the plan, sections 3 to 6
describe what exists: modules, runs, fairness, proofs; section 7 what is left out.

Run a model with `tlc -config <cfg> <module>` and check the proofs with
`tlapm <module>` for each of the eight modules whose name ends in `Proofs`.

## 1. Inventory

### 1.1 MEV relay v3

| Component | State | Operations | Used by |
|---|---|---|---|
| Admission queue (`scheduler/scheduler.go`) | sorted slice, mutex, channel with one token per item, closed flag | `Push` (refuse, insert, evict), `Pop`, `Close`, `OldestAge` | handlers and retry loop push, workers pop, health and policy read the age |
| Lifecycle (`lifecycle/state.go`) | none: a table of transitions | `CanTransition` | the stores |
| State store (`state/memory`, `state/valkey`) | bundle records, event lists, in-flight counters, retry schedule, checkpoints, shard authority | `CreateBundle`, `TransitionBundle` (compare and set), `AppendEvent`, `ReserveInflight`, `ReleaseInflight`, `UpdateRetryCount`, `ScheduleRetry`, `ClaimDueRetries`, `SetAuthority`, ... | all goroutines of all processes of a shard |
| Bundle path (`relay/service.go`, `processing.go`, `persistence.go`, `terminal.go`) | goroutines: HTTP handlers, worker pool, retry loop, renewal loop, policy loop | `Submit`, `process`, `processRetry`, `settleBundle`, `finishTerminal`, `Drain`, `Stop` | `cmd/relay` |
| Event log (`eventlog/wal.go`) | file, buffer, write counter | `AppendEncoded`, `ReadAll`, `compactLocked`, `Open`, `Close` | `emitTransition`, `finishTerminal`, `Recover` |
| Authority and recovery (`graph.Authority`, `relay/recovery_controller.go`) | local lease, the store's lease, stage of recovery | `Bootstrap`, `renewAuthority`, `validateAuthority`, `Recover` | bundle path |
| Policy, health, rollout (`relay/policy*.go`, `health.go`, `rollout_controller.go`) | nine atomics, revision, rollout stage | `AssessHealth`, `Adapt`, `Snapshot`, `Apply`, rollout steps | admission, workers |
| Routing and graph algorithms (`graph/graph.go`, `relay/routing.go`) | none (pure) | reachability, topological order, components, flow, cut, route | routing (the others by tests only) |
| Brokers and checkpoint stores (`broker/*`, `checkpoint/*`) | NATS connection, subscriptions, ping waiters; buckets | `Publish`, `Subscribe`, `Ping`, `Close`, `Put` | `emitTransition`, `finishTerminal`, health |
| HTTP, config, telemetry, measurement | counters | - | - |

How they interact. A request handler creates the record, moves it to
`validated`, decides admission, reserves a place for the client, **pushes the
item and only then moves the record to `queued`**. Workers pop, compare and set
the record from state to state, emit an event for each, and decide. Whoever
decides a bundle (handler, worker, retry loop) runs `finishTerminal`: two more
transitions, a Merkle root over the bundle's events, the checkpoint, the deletion
of the events, the release of the reservation. The retry loop claims what is due
from the store's schedule, requeues it, and pushes it again. There is no lock
over a bundle: mutual exclusion rests on the compare-and-set of the record's
state and on each bundle being in one place at a time. The policy loop turns a
health report into a policy once per tick; the policy decides admission and enters
the next health report.

What is hard: handlers, workers and the retry loop interleave at every store
call; every call may fail after its effect; the queue sends on a channel while
it holds its mutex; the log is compacted in place, and each of its calls on the file may
fail while the process goes on; two processes may run for one
shard; the policy loop feeds on its own output; the NATS reader sends to channels
that others close. What makes the parts correct:

- queue: a token per item, no blocking send under the mutex, an item leaves only
  by right, `Close` drains;
- bundle path: one owner, decided once, sealed once and after the decision, trails
  that tell the path, retries resolved, loops end;
- log: synced evidence survives crashes and failing calls, in order; bounded lag and size;
- authority: one holder of a bundle across processes, records of a dead lease
  are frozen, a lone process gets the authority back;
- policy: an unsafe relay admits nothing, the loop settles, a degraded relay recovers;
- stores: the two implementations agree until one of them drops something, and
  their indexes, events and counters match their records;
- NATS client: a successful ping was answered, no panic without a `Close`.

### 1.2 The other programs

| Program | State and behaviour | What makes it correct |
|---|---|---|
| relay v2 | same shape as v3, without graph, leases and policy; a lifecycle without `queued` to `dead_letter` | as v3 |
| relay v1 | channel queue, per-client counter, `time.AfterFunc` retries, file store rewritten as a whole plus audit file | slots given back exactly once, acknowledged states on disk, no bundle without an owner |
| relay v0 | gRPC prototype, stateless | - |
| txpool builder v2 service | jobs by ID and by idempotency key, bounded channel, snapshot with freshness, workers, pruning, artifact directories | live jobs held, results complete and of one head, directories bounded, every job decided |
| txpool builder v1, v0 | sequential pipeline over files that are replaced one by one; selection under a gas limit | runs reproduce, selection greedy and gapless |
| workflow engine v2 (TypeScript) | per-workflow lock, journal, dedupe with TTL, pending effects and tasks | an event is applied once, effects at least once, versions increase by one |
| workflow engine v3 | Postgres store (`FOR UPDATE`, version check, unique event ID), a sequencer per request | the same, across requests |
| Solana orchestrator (Scala) | dedupe cache with TTL, decision table, outbox, reconciliation | one decision per request, each published at least once |
| Solana compute (Rust) | pure | - |
| multiwrite, practice, erlang, ai | exercises and configuration | - |

## 2. Plan

Modelled: the relays v1, v2 and v3, both txpool builders, the workflow engine on
Postgres. Left, in this order:

1. The engine's pure core (`decide`, guards with their budget, `validateSpec`) as
   operators.
2. `RequestWorkflow` of the Solana orchestrator: claim with TTL, compute, record
   with outbox, publish, mark, reconcile.

Every invariant, action property and refinement of the runs is proved, but for the
algorithms on graphs and a part of the selection (section 6).

The runs stay few: small parts share a run in which every behaviour is about one of
them, and a disagreement that another run's property already points at is told in
section 4 only.

## 3. Modules

| Module | Models | State and actions |
|---|---|---|
| `PriorityQueue` | the order and the slice operations of `scheduler.go` | no state; `betterThan`, `Overflows`, `MakeRoom`, `IsInsertIndex` |
| `Scheduler` | `scheduler.go` with its threads | `items`, `notify` (tokens in the channel), `mu`, `closed`, program counters. `Push` is two actions because it sends on the channel with the mutex held; `Pop` is the receive, made without the mutex, and the critical section |
| `Lifecycle` | `lifecycle/state.go` | no state |
| `Relay` | the bundle path of one v3 process, with the store it writes to | the store's `rec`, `events`, `checkpoints`, `inflight`, `retries`; `queue`; one record `th[t]` per goroutine with its program counter and locals. One action per call on a shared component; `settleBundle`/`finishTerminal` are a subroutine that any thread runs |
| `BundleLedger` | what the relays v2 and v3 promise | accepted, decided at most once, sealed at most once and after the decision |
| `ShardAuthority` | leases of several processes on one store | `authority`, `rec`, `retries` of the store; `auth`, `held`, `stage` of each process |
| `ControlPolicy` | `policy.go`, `health.go`, `admission.go` | the situation `w` (queue, dependencies, authority), the policy in force and the stored one, the last report; a tick, a submission, drain, restart, change of the situation |
| `PolicyCell` | how the policy's nine atomics are stored and loaded | one action per atomic store and load |
| `EventLog` | `eventlog/wal.go` | `log` (file and buffer), `flushed`, `synced`, `writes`; one action per stretch between two effects on the file, one for each place where a call on it fails; crashes of process and machine; `owed`, `failed`, `gutted` are history |
| `NatsBroker` | `broker/nats/nats.go` | subscriptions and their channels, waiters for a PONG, the reader goroutine between unlock and send, and the server as environment |
| `StateStores` | `state/memory/memory.go` and `state/valkey/valkey.go` side by side on the same calls | `mem` and `val`; retention in one, expiry in the other |
| `GraphAlgorithms` | `graph.go`, `routing.go` and `merkle.go` of v2 and v3 | operators |
| `RelayV1` | relay v1 on its file store | records in memory, snapshot file, audit file, slots, the channel; a thread is the bundle, the store operations it has planned and what it does after them |
| `RelayV2` | relay v2's bundle path on Valkey | the same form as `RelayV1`; the queue of v3 in one step |
| `BuildService` | `txpool-builder/v2/internal/service` | jobs, keys, channel, snapshots, results; the directories under `results/` and what each worker is about to remove; clients between unlock and send, workers, the refresher. Persisting a result is `MakeDir`, `WriteFile` twice, `ListDirs` and a `RemoveDir` for each old one |
| `SelectionV2`, `SelectionV1` | decoding, normalising, scoring, merging and selecting of the two builders | operators |
| `GreedySelection` | what both selections promise, given an order within the chains and an order of preference | `IsGreedy` |
| `BuilderV1` | `txpool-builder/v1` runs of `Execute` | the chain's head, the run under way, the files of the output directory |
| `WorkflowEngine` | one workflow: `handle` and `drainPendingWork` of `v2/runtime/engine.ts` on `v3/workflowStorePg.ts` | `row` (of `workflow_state`), `journal` with the open transaction of each record, `lock` of the row; threads `th` (requests and drains); `executed` and `reply` are history. One action per SQL statement; upsert and commit are one |
| `MCScheduler`, `MCRelay`, `MCControlPolicy` | values for the constants | - |
| `MCWorkflow` | requests only, or a request and two drains | `crew` says which threads and events a behaviour is about |
| `MCParts` | event log, policy cell, NATS client and stores, one at a time | `part` says which one moves |
| `MCAlgorithms`, `MCEarlier` | all small inputs of the pure algorithms, with the reference definitions; the earlier versions, one at a time | `input` and `out`; `focus` |
| `SchedulerProofs`, `RelayProofs`, `ShardAuthorityProofs`, `EventLogProofs`, `WorkflowEngineProofs` | theorems about the module in their name | - |
| `BuildServiceProofs` | theorems about `BuildService` and about the selections, `SelectionV1` and `SelectionV2` | - |
| `PartsProofs` | theorems about `PolicyCell`, `NatsBroker`, `ControlPolicy` and `StateStores` | - |
| `EarlierProofs` | theorems about `RelayV1`, `RelayV2` and `BuilderV1` | - |

Abstractions. In `Relay` the score, deadlines, economics, queue age and health are free
choices at the places where the code tests them, which covers every value of the policy,
torn ones included; `ControlPolicy` has the values. Priorities differ, so that only the
first key of the queue's order matters there; `Scheduler` has all keys. `Relay` uses the
queue as an atomic object with the operators of `PriorityQueue`. A failing call is a
disjunct with `Fault`; with `LostReplies` it may have taken effect. The number of
checkpoints stands for the checkpoint; that it was taken over the right events is said
when it is taken (`TrailsTell`). In `ShardAuthority` a process makes any transition the
lifecycle allows on a bundle it holds, and a start number stands for the lease's
nanosecond timestamp. In `EventLog` an entry is its number and `0` is a torn line; a
`bufio.Writer` that has failed keeps failing, so nothing but `Close` is left to such a
log (`broken`); and a `Sync` that succeeds is taken to cover what an earlier one that
failed has left, as POSIX has it and as not every file system does. In `ControlPolicy`
fractions are percentages and durations tenths of a second, rounded like the code's. In
`PolicyCell` a value is the revision it belongs to. In `NatsBroker` topics and payloads
are left out. In `StateStores` hashes are shared by some ids, and the limit of 256 is 2.

`RelayV1` and `RelayV2` keep a thread's planned calls as a sequence. In `RelayV1` an
operation that changes no state (`Count`, `Result`) carries the state it finds. In `RelayV2` an
event only fails or not (`Relay` has the trails), a larger bundle number has the
higher priority, and admission, deadlines and simulations are free choices.

In `BuildService` a job's ID is its key and its snapshot, and building is a choice of
success and failure; `again` is history: the jobs that were admitted while their record
was still there. A directory has its job's name, since a candidate is a function of
both; what is in it is left out. `os.ReadDir` and the times of its entries are read in
one step: a directory that another worker removes or writes in between is removed in
vain or not at all, and is then that worker's to bound. `SelectionV1` and `SelectionV2`
work on entries whose absent or unreadable fields are `None`, with hashes and senders as
numbers in the order of the strings; an entry knows whether it has a field of EIP-1559,
readable or not, because a legacy price is not looked at then (`dynamic`). `BuilderV1`
composes `SelectionV1` with a node that moves.

In `WorkflowEngine` an instance is the sequence of its committed events: the version
is the length, state and context are functions of it. Whether `decide`, the limits, the
quota and the specification check commit or reject is a free choice; so is whether the
mark of a seen event is within its time to live. Each request has a sequencer of its own
(`buildV2Deps`), so no lock but the database's is modelled. Postgres (read committed) is
modelled by what the code relies on: row locks, the unique index that waits for open
transactions, and deadlock detection. Tasks are due at once, since a drain before the due
time is like no drain. The repository calls `drainPendingWork` only from the
CLI's `tick`, once, on the file store; the model has it on the Postgres store, whose `append`
handles the acknowledgements. What it shows of drains is safety: nothing schedules them, so
nothing says that pending work is done in the end.

Definitions called "Faulty variant of ..." are not part of the models. Each changes one
action or helper the way a plausible bug would; substituting it makes the property named
in `PROJECT.json` fail, which shows that the property has teeth. Type invariants are
kept in the modules as documentation of their variables; those of `Scheduler`,
`ShardAuthority`, `EventLog` and `ControlPolicy` are proved, the others are restated
where a proof needs them.

## 4. Runs

| Run | Configuration | Checks | Result |
|---|---|---|---|
| `scheduler` | 2 pushers, 2 poppers, capacity 2, 5 items, clock 0..2 | tokens and items stay balanced, items leave by right, a close drains and ends the poppers, a token is redeemed | passes: 82 thousand states |
| `relay_faults` | 2 bundles, 2 handlers, 2 workers, retry loop, queue of 1, 2 retries, 1 failing call with or without effect | refinement of `BundleLedger`; without a failure one owner, true trails, and records stay where their owner left them | passes: 1.5 million |
| `relay_liveness` | 1 bundle, 1 handler, 2 workers, 2 retries, 1 failing call, drain or stop at any time | decided bundles sealed, retries resolved, loops end | passes: 62 thousand |
| `relay_stranded` | 1 bundle, 1 handler, 1 worker, no failures | `QueuedHasOwner` | **fails** |
| `authority` | 2 processes, 1 bundle, 3 starts, leases that expire | one holder, frozen orphans, a lone process gets the authority | passes: 369 thousand |
| `workflow` | 2 requests and 2 events, one with work, or 1 request and 2 drains with that one; 2 faults | commits form a chain, answers stay true, work kept, requests return | passes: 85 thousand |
| `build_service` | 2 keys, 2 clients, 2 workers, channel of 1, 1 job and 1 snapshot retained, 2 submits, 1 new head, any call on the disk may fail | live jobs held, results sound, directories bounded, jobs decided | passes: 699 thousand |
| `control_policy` | the defaults of the configuration, queue of 4, six kinds of load and failure, 1 restart | unsafe admits nothing, the policy settles, degraded recovers | passes: 113 thousand |
| `control_policy_recovery` | the same | `UnsafeRecovers` | **fails** |
| `parts` | event log: `flushEvery` 3, `maxEntries` 2, 8 appends, 1 crash, 2 failing calls; policy: 1 reader, 4 revisions; NATS: 1 consumer, 2 pingers, 3 pings; stores: 4 ids, limit 2 | one or two invariants of each part | passes: 2.8 million |
| `event_log_durable` | the event log alone, 6 appends, 1 crash, 1 failing call | `EvidenceIsDurable` | **fails** |
| `earlier_versions` | relay v1: 3 bundles, 2 slots, queue of 1, 1 failing write, 1 crash; relay v2: 2 bundles, queue of 1, 1 failing call; builder v1: 3 runs, 2 heads; graphs of 3 nodes, capacities up to 2, up to 5 leaves, pools of 3 transactions | three invariants of v1, the refinement of `BundleLedger` and who may be forgotten in v2, reproducible runs, the algorithms against their definitions | passes: 975 thousand |

Why the bounds are enough. Two pushers and two poppers give every pair of threads
in `Scheduler`, and with capacity 2 a full queue still has an order; the five items
make each key of `betterThan` decide. In the runs of `Relay` a queue of one place makes
the second bundle overflow or evict, two handlers let it evict a bundle that is pushed
but not yet `queued`, and two retries let a requeued bundle evict as well (with a
budget of one the retry loop only dead-letters). One failing call already reaches every
error path, including those inside the terminalisation of an evicted bundle. Eight
appends with `maxEntries` 2 give several compactions before and after a crash or a failing
call, and `flushEvery` 3 does not divide the counter that compaction leaves; two failing
calls let a compaction fail twice in a row. Three starts let
both processes start and one restart. Two requests give every race for the first row,
the deadlock of row and event included; two faults let the repetition of a failed call
fail as well; two drains give every race for one effect and its acknowledgement. Two
submits with one job and one snapshot retained let a request prune the other's job and
let both workers write, list and remove directories at the same time. Three submits, where a
key comes back after its job was pruned, make 7.4 million states; the invariants hold
there as well, and for any number by the theorems. Two pingers and three
pings let a late PONG meet a later ping. Four ids with a limit of two let the memory
store prune twice and a pruned bundle come back. Three runs of the builder are one
that writes, one that dies half-way and one that replays. Three bundles with two slots
make v1 refuse by the cap and by the queue. Every digraph of three nodes with doubled
edges has all shapes the algorithms distinguish: cycles, self loops, nodes that occur
as successors only, flows that must be undone.

In `relay_faults` states that differ only in the events are identified once a call
has failed (`FaultView`): no action reads the events, and the properties ask about them
only while nothing has failed. Threads there and bundles of v1 are interchangeable (symmetry; the
properties there are invariants and refinements, no liveness). Deadlock is checked for
`WorkflowEngine`, where a request can always come again. It is not checked elsewhere: those
systems may come to rest, when nothing is submitted any more, after `Stop`, after a
panic, or at a bound.

### What the failing runs show

- `relay_stranded`: a worker pops the item between the push and the transition to
  `queued`, fails on the state and drops it. The handler then makes the record
  `queued`, and nobody has it (`v3/README.md:94`: one owner per bundle).
- `control_policy_recovery`: an unsafe report caps the confidence at 0.2
  (`policy.go:144`); the floor never falls below 0.55, and a confidence below half the
  floor makes the report unsafe. The next report is unsafe for this reason alone, and so
  is every later one, also after a restart, because the policy is stored. The
  documentation measures the time from the first unsafe signal to Ready
  (`v3/docs/service-levels.md:39`), which has no end. A relay that was at most degraded
  does recover (`DegradedRecovers`).

- `event_log_durable`: `compactLocked` truncates the only copy of the log and then writes
  it back from memory (`wal.go:152`). A crash in between loses entries that were synced,
  and so does a `Seek`, `Encode` or `Flush` that fails there, after which the process goes
  on with a log without them (`v3/README.md:114`: append-only event log for durable
  evidence). Eight steps suffice. `EvidenceSurvives` makes this one exception (`gutted`) and
  holds.

### Disagreements that have no run

They were found while modelling and are visible in the models.

Relay v3:

- `finishTerminal` releases a reservation for every settled bundle, also for one that
  was rejected because there was none left (`persistence.go:89`), so the cap per client
  of `README.md:38` does not hold; when its first transition fails the release is made
  for the empty client and the reservation leaks.
- A torn last line of the log is never repaired: `ReadAll` returns an error and no entry
  at all while it is there, and every later compaction fails, so that the file grows past
  the bound of `v3/README.md`; so it does while compactions fail for another reason, since
  `writes` stays raised. The counter restarts from zero at `Open`, so that entries of earlier
  processes are not counted. After a failed `Flush` every later write of the log fails
  (the error stays with the `bufio.Writer`), and after a failed `Sync` more than `flushEvery`
  entries are not on disk until one succeeds. `LogBounded` makes these exceptions and no
  others.
- The store compares the record's lease, never the writer's, and `ScheduleRetry`,
  `ClaimDueRetries` and `PutCheckpoint` check nothing (`valkey.go:617`), although stale
  writers are to be rejected on every write path (`README.md:200`). Two processes of one
  shard write their leases over each other's and both take theirs for valid.
- Items popped after `Stop` are dropped and scheduled retries stay. The `queued` event
  of a submission may come behind the worker's events or behind the checkpoint
  (`TrailsTell` leaves these events out). `Recover`, which nothing calls, leads from
  quarantine back without a fresh lease.
- A record does move under its owner when the reply of `ScheduleRetry` is lost: the
  worker dead-letters a bundle that the retry loop may claim. `RecordStaysPut` is
  therefore about behaviours without a failure; `BundleLedger` holds with failures.
- The memory store prunes the oldest record although it may be in flight, `AppendEvent`
  after that brings its events back, and a full retry schedule drops the most urgent
  retry. In Valkey members of the sorted sets are never removed, so expired ids count
  against the limits of a list.
- NATS client: `Close` of the broker and then of the consumer closes a channel twice,
  the reader's send races a close, and an end of file stops the reader without closing
  anything (`PanicNeedsClose` says that all of this takes a `Close`). Nothing in the
  repository subscribes outside tests.
- The policy's smoothing changes the revision for several ticks after the pressure has
  stopped changing (`service-levels.md:35`), and integer rounding leaves durations up to
  two units short of their target. `OldestAge` looks at the worst item; that an old
  item of a high priority is noticed all the same is the work of the stale count
  (`UnsafeAdmitsNothing`).
- The Merkle root has no domain separation between leaves and nodes. Of the graph
  algorithms only routing is used outside tests.

Relay v2: its lifecycle has no way from `queued` to `dead_letter`, so the retry loop's
dead-letter of an expired, uneconomic or overflowing retry (`processing.go:85`, `:89`,
`:104`) is refused, the refusal is ignored, and the bundle stays `queued` for ever,
although a retry that cannot go on must dead-letter (`v2/README.md:288`). v3 has the
edge. `ForgottenIsQueued` says that this and the race of `relay_stranded` are the only
ways to lose a bundle without a failure.

Relay v1: a retry that meets a full queue tries `queued` to `dead_letter`, which its
lifecycle refuses as well (`service.go:315`); nothing is queued again after a restart; a
failed pick-up leaks the client's slot; a failed write leaves memory ahead of the disk;
a failed `Create` blocks the resubmission; `retryCount > MaxRetries` is dead code.

Txpool builder v2: the key of a pruned job is deleted although a newer job may hold it
(`service.go:265`), so that a key can be built twice; a merged chain may have a gap that
selection does not look for (`docs/test-plan.md:63`). `persistBuildArtifacts` "writes the
candidate and trace together so they stay aligned" (`persistence.go:30`), but nothing keeps
the workers apart: one may remove the directory between the other's two writes, so that
the second file is alone in a new one, or after them, so that a result that is recorded
points at nothing. A build that fails after `MkdirAll` does not prune, so failing builds
leave a directory each until one gets as far as `pruneDir`, against "disk usage does not grow
with request volume" (`persistence.go:74`); `ArtifactsBounded` counts them apart (`strays`).
For the same reason as above a job can be
admitted again while a worker has it. When the first of its two workers has completed it,
its record and its result can be pruned, the job be submitted a third time, and the
second worker then completes the new record, which has no result: five submits, more than
the run has. It came out in the proof: without an exception for such jobs
`ResultsAreSound` is not inductive, and a run with five submits violates it. The property
now excepts them by `again` and the theorem says that nothing else has this effect.

Txpool builder v1: a replay with `--compare` differs in the digest of the settings
(`io.go:58`); reasons are dropped after a nonce gap, and a conflict's loser may have two
(`docs/spec.md:58`); an undecodable transaction fails the whole pool unless
`RejectOnPartialDecode` is set; a snapshot without a transaction cannot be replayed;
`IncludeQueued` changes the snapshot and its identity and not the selection.

Workflow engine: two drains that have loaded the same work execute its effect twice, and the
duplicate acknowledgement is swallowed (`engine.ts:87`), against "`0%` duplicate effect
execution for acked work" (`docs/v3.md:42`); only the sequencer of one process keeps drains
apart. No run is about it, since nothing drains on the Postgres store. The journal of a
workflow replayed in the order of its ids may differ
from its row (two first requests insert in one order and commit in the other), which is
harmless only because replay is the fallback of a load that found no row and the version
check refuses what is decided on it.

## 5. Fairness

- `Scheduler`: weak fairness for a popper that can receive or learn of the close,
  and for the send; strong fairness for the section behind the mutex, because
  `sync.Mutex` has a starvation mode that serves a waiter after finitely many
  others. Nobody has to push, close or cancel.
- `Relay`: weak fairness for each goroutine that is under way: calls return (they
  have timeouts), a simulation ends by its timeout, the retry ticker fires. Nobody
  has to submit, drain or stop, and no call has to succeed or fail.
- `ShardAuthority`: weak fairness for the renewal ticker, and strong fairness for
  the store's answer to a renewal that is tried for ever.
- `ControlPolicy`: weak fairness for the tick of the policy loop. Neither load nor
  submissions have to come.
- `BuildService`: weak fairness for a client between mutex and channel, for each
  worker and for the refresher: goroutines that can run do, and RPC calls end by their
  timeout. No client has to submit.
- `WorkflowEngine`: strong fairness for the next statement of a call, because Postgres
  queues those who wait for a lock; weak fairness for its deadlock detection. A drain's
  transaction goes on, but none has to start: nothing in the repository schedules one. No
  client has to send anything.
- The other modules have none and only safety is checked.

## 6. Proofs

Everything here holds for every value of the constants that the assumptions allow: any
number of threads, bundles, keys, events, failures and crashes. The bounds on counters are
constants as well, so a theorem covers every behaviour of the uncapped program.

| Module | Theorem | States | Also checked by TLC |
|---|---|---|---|
| `SchedulerProofs` | `TypeCorrect`, `TokensBalance`, `CloseDrains`, `LeavesOnlyByRight` | `TypeOK`, `TokenBalance`, `ClosedMeansDrained`, `OnlyBestOrWorstLeave` | `scheduler` (all but `TypeOK`) |
| | `SendDoesNotBlock`, `WakeupFindsItem`, `AlwaysInOrder` | `SendNeverBlocks`, `NoEmptyWakeup`, `QueueInOrder` | no (the first two follow from the balance) |
| `RelayProofs` | `RelayImplementsLedger` | `ImplementsLedger`: the refinement of `BundleLedger`, failures and lost replies included | `relay_faults` |
| | `BundlesHaveOneOwner`, `RecordsStayPut` | `OneOwner`, `RecordStaysPut` | `relay_faults` |
| | `TrailsAlwaysTell` | `TrailsTell`: a checkpoint's events are the bundle's path through the lifecycle | `relay_faults` |
| `ShardAuthorityProofs` | `OneHolderAlways`, `OrphansAreFrozen` | `OneHolder`, `OrphansStayFrozen` | `authority` |
| `EventLogProofs` | `EvidenceSurvivesAlways`, `LogIsBounded` | `EvidenceSurvives`, `LogBounded` | `parts` |
| `PartsProofs` | `SnapshotParamsNotOlder`, `PingsHeardSomething`, `PanicsNeedClose` | `ParamsNotOlder`, `PingHeardSomething`, `PanicNeedsClose` | `parts` |
| | `PolicyStaysBounded`, `UnsafeNeverAdmits` | `PolicyInv` (with the bounds of `TypeOK`), `UnsafeAdmitsNothing` | `control_policy` (the second) |
| | `StoresStayConsistent`, `StoresAlwaysAgree` | `StoresConsistent`, `StoresAgree` | `parts` |
| `EarlierProofs` | `AcceptedIsDurable`, `SlotsAlwaysBalance`, `WorkAlwaysHasOwner` | `AckedIsDurable`, `SlotsBalance`, `WorkHasOwner` (relay v1) | `earlier_versions` |
| | `V2AlwaysKeepsTheLedger` | `V2KeepsTheLedger`: the refinement of `BundleLedger`, failures included, and who may be forgotten (relay v2) | `earlier_versions` |
| | `RunsAlwaysReproduce` | `RunsReproduce` (builder v1) | `earlier_versions` |
| `BuildServiceProofs` | `NoJobIsLost`, `ResultsStaySound`, `ArtifactsStayBounded` | `LiveJobIsHeld`, `ResultsAreSound`, `ArtifactsBounded` | `build_service` |
| | `SelectionV1AlwaysGreedy`, `SelectionV2AlwaysGreedy`, `PoolsAreSelectedGreedily` | `IsGreedy` of what `greedySelect` (builder v1) and `selectTransactions` (builder v2) return; the last for any pool | in `SelectionIsGreedy` |
| `WorkflowEngineProofs` | `CommitsFormOneChain`, `AnswersAreTrue`, `NoWorkIsLost` | `CommitsChain`, `AnswersHold`, `WorkKept` | `workflow` |

Assumptions, each in the module that declares the constants and evaluated by TLC:
`ItemAssumption`, `CapAssumption` (`New` raises a capacity below one), `ThreadAssumption`,
`TimeAssumption`, `RelayAssumption` (priorities differ, the kinds of threads are
disjoint), `AuthorityAssumption`, `EventLogAssumption` (`Open` raises the two limits to at
least one), `PolicyAssumption` (the durations of the configuration are not negative, the
age limit is positive), `StoreAssumption` (finitely many ids; a larger one is newer),
`RelayV1Assumption`, `RelayV2Assumption` (a larger bundle has the higher priority, and `New`
raises the queue's capacity to at least one), `BuilderAssumption` (the switches of a
configuration are Booleans; about fees, pools and limits it says nothing),
`BuildServiceAssumption` (the limits are positive), `WorkflowAssumption`.

### The arguments

**Queue.** The inductive invariant is
`IInv == TypeOK /\ MutexInv /\ TokenBalance /\ QueueInOrder /\ CloseInv`.
`TokenBalance` says that the queue's length is the number of tokens in the channel, plus
the poppers between token and mutex, plus one if a pusher holds the mutex. `TypeOK` alone
is not inductive (a send could overfill the channel); with the balance and the bound on
the length it is, and the send finds room because the pusher's own item is among the at
most `Cap` items and has no token in the buffer yet. `QueueInOrder` needs that "not
better" is transitive and what the insertion does position by position. `CloseInv` says
that a closed queue has no pusher inside and that a popper was told of the close only when
the buffer was empty. `LeavesOnlyByRight` is an action property: in a sorted slice the
first item is the best and the last the worst.

**Bundle path.** Every action is first shown to be a step of one of ten kinds (a quiet
move, a change of the record, an acceptance, a seal, the moves between queue, schedule,
batch and threads): `StepKinds`. The invariants are then kept by each kind instead of by
each of the many actions. `LedgerInv` says that the locals of a thread fit its program
counter, that a record has a decision exactly from its terminal transition on, and that the
thread that completed a bundle, and no other, is about to seal it. The compare-and-set
makes this hold with any failures, and each step then maps to a step of the ledger or to a
stutter. For `OneOwner` the invariant `OnePlace` adds that a bundle is served by one
thread, or queued once, or scheduled, or in the claimed batch. A settling thread counts as
a place only while no call has failed: after a failure two threads may settle one bundle
and only the compare-and-set keeps them apart. `RecordStaysPut` follows from `OnePlace`,
since whoever changes a record has the bundle.

`TrailsTell` needs what the events said before the checkpoint, so the steps are classified
once more, by the events that they append: `TrailKinds`. The invariant `OnTrails` holds
while no call has failed. It says that until its checkpoint a bundle's events are a chain
that has told of the record's state, or that leads to it while a thread is about to tell
(`Trail`); that this thread's next event is the record's state (`OnTrail`); and that one
submission at most is under way for a bundle (`OneSubmission`). The last is needed for the
one transition that `OnePlace` does not guard: a submission that has pushed its bundle moves
it from validated although a worker may have it already. Events are deleted only after the
checkpoint, and the sealer is the bundle's one place, so nobody is about to tell when the
checkpoint is taken.

**Shard authority.** A lease is known to be no younger than the number of starts
(`LeasesKnown`), so the lease of a new start is fresh. `OneHolder` then holds because a
process takes a bundle only by creating it or by claiming it from the schedule, and both
take it from where nobody else has it.

**Event log.** `Shaped` orders the entries and says what a compaction in progress holds in
memory. The evidence for an entry (`Evident`) is the entry, or `maxEntries` later ones at
the front of the file, which is what a compaction that dropped it has left; this form,
unlike the property, is kept by appends, by flushes and by the next compaction. `Counted`
relates the entries of this process to the counter of writes, modulo `flushEvery`. Both
follow a failing call to the state it leaves: a broken writer, a `Sync` that is owed, a
raised counter or a file that lost its entries.

**Policy cell and NATS client.** For a reader in the middle of `Snapshot` the invariant
says which values the writer can have stored since the reader loaded the revision: the
parameters are stored first and loaded last. For a ping it says that an answer in a
pinger's channel was read after the pinger registered, since the channel is new; for the
panic that, until somebody closes, the channels are open and the reader never sends to a
closed one.

**Control policy.** Each value is smoothed towards a target, and a smoothed value lies
between its old value and the target, rounding included; so the bounds of the targets are
those of the policy (`WithinBounds`), across saving and `ApplySnapshot` too, which may skip
values. The floor is therefore never below 55, while an unsafe report leaves a confidence
of at most 20 until the next tick, and admission asks for the floor.

**State stores.** `StoresInv` has a part for each kind of data, and a step disturbs one or
two of them. A hash leads to its record and back (`Indexed`), which creating keeps because a
known hash is refused. What the memory store keeps of a list is all of it or its newest
(`KeptOf`), and pruning keeps that form (`PruneKeeps`); it is stronger than the property, which
compares the answers (`KeptIsNewest`), and is needed because a later insertion prunes what is
left and not what ever was. The events of a bundle are a run of consecutive numbers that ends
with the last one appended (`Recent`). A bundle waits for one time only (`Single`), so the due
times of a store are no more than its ids, and a claim that is not cut off by the limit takes
the same bundles from both.

**Relay v1.** `Written` orders memory, snapshot and audit file by version and keeps what
was accepted out of the early states in both; it needs that no planned operation leads
back there (`Leads`: the operations of a plan follow on each other from the state the
record is in). `Worked` says that a thread at work has a record no write of which has
failed, and that each bundle is with one thread or queued once. `Balanced` is the account:
the counter of a client is the number of its bundles with a slot or with a lost one plus
the handlers about to take their excess back. The limit is inductive because a slot is kept
only after the raised counter was found within it.

**Relay v2.** A thread is a plan of calls and a place to go on, so the invariant is about
plans. `V2Types` says that a plan puts a checkpoint only after its own move to `completed`
(`SealsLast`) and that after each of its moves the bundle may rest or the rest of the plan
takes it on (`Linked`); both are proved of the few plans the code makes, and the tail of a
plan inherits them. `V2Evidence` ties the decision to the state of the record and says that a
thread about to seal is the only one, failures included: the compare-and-set lets one move to
`completed` through. Each step then is one of the ledger or a stutter. For who may be
forgotten, `V2Driven` says that, while no call has failed and nobody has stopped the process, a
bundle that does not rest is driven by a thread or waits for its retry. It is inductive only
together with the retry loop's half: the loop looks at all it has claimed before it claims
again.

**Txpool builder v1.** `BuilderInv` follows the run under way: what it carries is a snapshot
and the candidate built from it (`RunCarries`), the files it has written are its own and newer
than those it has not (`WrittenInOrder`), and a replay that writes nothing still has the
snapshot on disk in hand (`ReplayInHand`). `ContentsFit` is stronger than `FilesBelong`: a
candidate of the same run as the snapshot beside it is what `buildCandidate` makes of that
snapshot under the limits in its digest. Reproducing follows since selection is a function of
the pending transactions, the limits and nothing else, and the identity of a snapshot includes
the transactions. What selection computes is not used there.

**Selection.** What the two builders select is said once, in `GreedySelection`, for an order
within the chains and an order of preference; TLC evaluates it on every small pool
(`SelectionIsGreedy`), and `SelectionV1AlwaysGreedy` and `SelectionV2AlwaysGreedy` prove it of
`greedySelect` and `selectTransactions`. Both rest on lemmas about one greedy turn, whatever
the orders. The invariant of the turns (`GreedySoFar`) needs one part more than the result: a
transaction that is neither left nor selected belongs to a sender that is out, whose next
transaction does not fit, and since the sum only grows it never will. Each turn leaves fewer,
so after as many turns as there are transactions the loop has stopped.

Builder v1 keeps what is left as a set. Builder v2 keeps a position in every chain and the gas
that remains: the proof has to show that the positions are a way to write the same set
(`HeadsAreLeft`), that the gas is the budget less the sum of what was selected, and that the
lengths of the chains add up to enough turns (`EnoughTurns`). The loops are recursive
functions; that there is one and what it keeps is proved with `UpTo`. That the sum of the gas
does not depend on the order in which `MapThenSumSet` takes the transactions is proved by
`SubsetInduction`; that the best of the heads exists rests on `FiniteLeast`.

Both theorems take what their `IsChains` says. In v1 it is one transaction of each nonce of a
sender, and `NormalisedAreChains` proves it of what `normalizePool` leaves of a pool in which
no two transactions have the same hash. In v2 it is a sequence for every sender in the order
of the nonces. A set with one transaction of each nonce has exactly one such sequence
(`SortedIs`, by `SubsetInduction` with the largest nonce taken out), so `normalizePool` makes
chains, and chains without a gap (`NormalisedV2AreChains`, `ChainIsGapless`), and merging
chains gives chains (`BuiltAreChains`), which may have gaps. `PoolsAreSelectedGreedily` puts
these together: its only hypothesis about the data is that hashes tell the transactions apart.

**Build service.** `OneBuild` says that a job that was not admitted again is in one
place (channel, request, worker) with a live record, so that no request prunes it; hence
its result is there when it is completed. `Dirs` bounds the directories that stay: every
step but one only takes away from them, since what a worker writes counts as its own
until it lists, and what a failing call leaves is counted apart (`NoMoreStay`); the one
step is a listing, after which no more stay than the newest that it spares
(`OldestEntries`). `Snaps` uses that the chain's head does not go back between the two
headers.

**Workflow engine.** `Inv` relates the open transactions to their records in the journal
(`OpenRecords`), the lock to the version it found (`Locked`), and the committed records
to the row (`Chain`: each handled record's instance is the beginning of the row's). A
transaction without the lock found no row and expects version 0, so that of two first
requests the one that comes to the upsert second fails on the version. What a replay of
the journal yields is needed for the fall-back of `load`; `replayJournal` is a recursive
function over the length, and what it keeps is proved with `UpTo`, an induction for a
set of numbers that rests on the well-foundedness of the naturals instead of on an
induction theorem with an operator parameter.

### Only model-checked

- All liveness properties: fairness and `ENABLED` are out of the prover's reach.
- `AlgorithmsMeetDefinitions`: the graph algorithms need a recursive operator, for which the
  prover has no SMT backend. Of its part about normalising, that chains have no gap and hold
  the best of each nonce is proved (`ChainHoldsTheBest`, `ChainIsGapless`).
- Of `SelectionIsGreedy`, that nothing selected has a decision against it.

## 7. Not modelled

- Relay v3: configuration, HTTP, metrics and the measurement runner (input, output and
  wiring); the rollout controller, which nothing outside its tests drives; the memory
  broker and the checkpoint stores beyond "a call that may fail".
- Relay v2: its event log, NATS client, memory store and health, which v3 took over
  with small changes. Relay v0, a prototype without state.
- Txpool builders: flags and configuration files, the RPC clients, v0.
- Workflow engine: v1, the file stores (which check no versions and serve one process),
  the HTTP edge and its rate limit, and the pure core (`decide` is a free choice).
- The Solana orchestrator and the compute service; multiwrite and the practice code.
