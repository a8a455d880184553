----------------------------- MODULE BuilderV1 -----------------------------
(***************************************************************************)
(* Runs of the txpool builder v1: Execute captures a snapshot of a node's  *)
(* pool while the node moves on, or replays the one on disk, builds the    *)
(* candidate, and writes snapshot, candidate and trace one after another.  *)
(* Runs follow each other in one output directory; a run may die or be     *)
(* refused at every step.                                                  *)
(***************************************************************************)
EXTENDS SelectionV1

CONSTANTS
    Pools,        \* what txpool_content may answer: pending and queued, sequences of entries
    BaseFee,      \* BaseFee[h]: of the header of block h
    BlockGas,     \* the gas limit of every header
    Configs,      \* the settings that runs are started with: replay, noWrite, strict,
                  \* rejectOnPartial, includeQueued, compare, and the limits MaxTransactions and MaxGas
    MaxHead,      \* bound: the last block
    MaxRuns       \* bound: the runs

ASSUME BuilderAssumption ==
    /\ MaxHead \in Nat \ {0} /\ MaxRuns \in Nat
    /\ \A cfg \in Configs : {cfg.replay, cfg.noWrite, cfg.strict, cfg.compare, cfg.includeQueued} \subseteq BOOLEAN

VARIABLES
    head,         \* the node's block number
    run,          \* the run under way, or the last one
    files,        \* the files: snapshot, candidate, trace
    runs,         \* number of runs started
    stamp,        \* ghost: stamp[f] is the run that wrote file f
    built         \* ghost: what every run built

builderVars == <<head, run, files, runs, stamp, built>>

\* config.Digest: of all settings, the modes and paths of the run too.
Digest(cfg) == cfg

Absent == [absent |-> TRUE]
NoRun == [pc |-> "idle"]

\* Faulty variant of fingerprint: only the raw payload counts.
fingerprintRaw(s) == [before |-> 0, after |-> 0, raw |-> s.raw, pending |-> {}, queued |-> {}]

\* snapshotFingerprintFrom: the fields of the snapshot that make its identity.
fingerprint(s) ==
    [before |-> s.before, after |-> s.after, raw |-> s.raw, pending |-> s.pending, queued |-> s.queued]

BuilderInit ==
    /\ head = 1
    /\ run = NoRun
    /\ files = [snapshot |-> Absent, candidate |-> Absent, trace |-> Absent]
    /\ runs = 0
    /\ stamp = [snapshot |-> 0, candidate |-> 0, trace |-> 0]
    /\ built = {}

-----------------------------------------------------------------------------
\* Validate and ensureWritable have passed.
Start(cfg) ==
    /\ run.pc \in {"idle", "done", "failed"}
    /\ runs < MaxRuns
    /\ runs' = runs + 1
    /\ run' = [pc |-> IF cfg.replay THEN "load" ELSE "startup", cfg |-> cfg]
    /\ UNCHANGED <<head, files, stamp, built>>

\* A refused call, a check that fails, the deadline, or the end of the process.
Fail ==
    /\ run.pc \notin {"idle", "done", "failed"}
    /\ run' = [run EXCEPT !.pc = "failed"]
    /\ UNCHANGED <<head, files, runs, stamp, built>>

\* startupChecks: the block number is the last that it asks for.
StartupChecks ==
    /\ run.pc = "startup"
    /\ run' = [pc |-> "header", cfg |-> run.cfg, before |-> head]
    /\ UNCHANGED <<head, files, runs, stamp, built>>

\* captureSnapshot: the header of that block.
FetchHeader ==
    /\ run.pc = "header"
    /\ run' = [pc |-> "pool", cfg |-> run.cfg, before |-> run.before, base |-> BaseFee[run.before]]
    /\ UNCHANGED <<head, files, runs, stamp, built>>

\* txpool_content, as it is now; ghost: the block the node is at.
FetchPool ==
    /\ run.pc = "pool"
    /\ \E p \in Pools :
        run' = [pc |-> "recheck", cfg |-> run.cfg, before |-> run.before, base |-> run.base,
                raw |-> p, at |-> head]
    /\ UNCHANGED <<head, files, runs, stamp, built>>

\* A strict run does not take a pool during whose fetch the head changed.
DriftRefused(after) == run.cfg.strict /\ after # run.before

\* The block number again; normalizePool of pending and, when asked for, of
\* queued transactions; the snapshot and its identity.
Capture ==
    /\ run.pc = "recheck"
    /\ LET chains(entries) == normalizePool(entries, run.base, BlockGas, run.cfg.rejectOnPartial)
           pending == chains(run.raw.pending)
           queued == chains(IF run.cfg.includeQueued THEN run.raw.queued ELSE <<>>)
           snap == [before |-> run.before, after |-> head, raw |-> run.raw, pending |-> pending.txs,
                    queued |-> queued.txs, at |-> run.at, base |-> run.base]
       IN  run' = IF DriftRefused(head) \/ ~pending.ok \/ ~queued.ok
                  THEN [run EXCEPT !.pc = "failed"]
                  ELSE [pc |-> "build", cfg |-> run.cfg, snap |-> snap]
    /\ UNCHANGED <<head, files, runs, stamp, built>>

\* loadSnapshot and validateLoadedSnapshot: there is one, and it is not empty.
Load ==
    /\ run.pc = "load"
    /\ run' = IF files.snapshot = Absent \/ files.snapshot.pending \cup files.snapshot.queued = {}
              THEN [run EXCEPT !.pc = "failed"]
              ELSE [pc |-> "build", cfg |-> run.cfg, snap |-> files.snapshot]
    /\ UNCHANGED <<head, files, runs, stamp, built>>

\* buildCandidate.  It looks at the pending transactions only.
Build ==
    /\ run.pc = "build"
    /\ LET c == buildCandidate(run.snap.pending, run.cfg.limits[1], run.cfg.limits[2])
           cand == [snapshot |-> fingerprint(run.snap), digest |-> Digest(run.cfg),
                    order |-> c.order, gas |-> c.gas, revenue |-> c.revenue, stop |-> c.stop]
       IN  /\ run' = [pc |-> IF run.cfg.noWrite THEN "compare" ELSE "snapshot", cfg |-> run.cfg,
                      snap |-> run.snap, cand |-> cand]
           /\ built' = built \cup {[snap |-> run.snap, cand |-> cand]}
    /\ UNCHANGED <<head, files, runs, stamp>>

\* The order of the files in Execute.
NextFile(f) == [snapshot |-> "candidate", candidate |-> "trace", trace |-> "compare"][f]

Content(f) ==
    CASE f = "snapshot"  -> run.snap
      [] f = "candidate" -> run.cand
      [] f = "trace"     -> [of |-> run.cand]

\* writeAtomic: the file is replaced as a whole.
Write(f) ==
    /\ run.pc = f
    /\ files' = [files EXCEPT ![f] = Content(f)]
    /\ stamp' = [stamp EXCEPT ![f] = runs]
    /\ run' = [run EXCEPT !.pc = NextFile(f)]
    /\ UNCHANGED <<head, runs, built>>

\* compareCandidates: the fields that the candidates differ in.
Differences(a, b) ==
    {f \in {"snapshot", "digest", "order", "gas", "revenue", "stop"} : a[f] # b[f]}

\* main: CompareCandidateArtifact with the candidate on disk, when asked for.
Compare ==
    /\ run.pc = "compare"
    /\ run' = [run EXCEPT !.pc = IF run.cfg.compare /\ (files.candidate = Absent
                                        \/ Differences(files.candidate, run.cand) # {})
                                 THEN "failed" ELSE "done"]
    /\ UNCHANGED <<head, files, runs, stamp, built>>

\* The chain goes on.
NewBlock ==
    /\ head < MaxHead
    /\ head' = head + 1
    /\ UNCHANGED <<run, files, runs, stamp, built>>

Execute ==
    \/ StartupChecks \/ FetchHeader \/ FetchPool \/ Capture \/ Load \/ Build \/ Compare
    \/ \E f \in {"snapshot", "candidate", "trace"} : Write(f)

BuilderNext ==
    \/ \E cfg \in Configs : Start(cfg)
    \/ Execute
    \/ Fail
    \/ NewBlock

BuilderSpec == BuilderInit /\ [][BuilderNext]_builderVars

-----------------------------------------------------------------------------
(***************************************************************************)
(* The types of the run's place and of the files.                          *)
(***************************************************************************)
BuilderTypeOK ==
    /\ head \in 1..MaxHead /\ runs \in 0..MaxRuns
    /\ run.pc \in {"idle", "startup", "header", "pool", "recheck", "load", "build", "snapshot",
                    "candidate", "trace", "compare", "done", "failed"}
    /\ run.pc # "idle" => run.cfg \in Configs
    /\ \A f \in DOMAIN stamp : stamp[f] \in 0..runs /\ (stamp[f] = 0 <=> files[f] = Absent)

(***************************************************************************)
(* However runs die between the writes of Execute, the files are of runs   *)
(* in the order snapshot, candidate, trace, the first the newest, and two  *)
(* files of one run belong together: the candidate names the snapshot next *)
(* to it, the trace the candidate.                                         *)
(***************************************************************************)
FilesBelong ==
    /\ stamp.snapshot >= stamp.candidate /\ stamp.candidate >= stamp.trace
    /\ stamp.candidate > 0 /\ stamp.candidate = stamp.snapshot =>
          files.candidate.snapshot = fingerprint(files.snapshot)
    /\ stamp.trace > 0 /\ stamp.trace = stamp.candidate => files.trace.of = files.candidate

(***************************************************************************)
(* SnapshotID is an identity: builds from equal identities with equal      *)
(* limits select the same transactions in the same order.                  *)
(***************************************************************************)
IdentityDecides ==
    \A a, b \in built :
        a.cand.snapshot = b.cand.snapshot /\ a.cand.digest.limits = b.cand.digest.limits
            => a.cand.order = b.cand.order

(***************************************************************************)
(* In a strict live run, the scores of the candidate were computed with    *)
(* the base fee of the block at which the node stood when it answered with *)
(* the pool, however blocks arrive during the capture.                     *)
(***************************************************************************)
StrictMeansOneHead ==
    \A b \in built :
        b.cand.digest.strict /\ ~b.cand.digest.replay => b.snap.base = BaseFee[b.snap.at]

\* A replay is compared with the candidate of the run whose snapshot it read.
ReplayUnderComparison ==
    /\ run.pc = "compare" /\ run.cfg.replay /\ run.cfg.noWrite /\ run.cfg.compare
    /\ stamp.candidate = stamp.snapshot
    /\ files.candidate.digest.limits = run.cfg.limits

(***************************************************************************)
(* Replaying the snapshot of a run with its limits gives the same selected *)
(* order, gas, revenue and stop reason as the candidate beside it.         *)
(***************************************************************************)
ReplayReproduces ==
    ReplayUnderComparison => Differences(files.candidate, run.cand) \subseteq {"digest"}

(***************************************************************************)
(* Runs are reproducible (docs/spec.md): files that are found together       *)
(* belong together however runs died, a snapshot's identity decides what   *)
(* is selected, a strict run used one head, and a replay reproduces its    *)
(* candidate up to the digest of the settings.                             *)
(***************************************************************************)
RunsReproduce == FilesBelong /\ IdentityDecides /\ StrictMeansOneHead /\ ReplayReproduces
=============================================================================
