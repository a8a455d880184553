------------------------------ MODULE EventLog ------------------------------
(***************************************************************************)
(* The relay's write-ahead log, relay/v3/internal/eventlog/wal.go: one     *)
(* JSON line per entry, written through a buffer, flushed and synced with  *)
(* every checkpoint and every flushEvery-th write, and compacted IN PLACE  *)
(* (truncate, rewrite, sync) once it is well past its bound.               *)
(*                                                                         *)
(* Appends hold the log's mutex from start to end, so they do not          *)
(* interleave; what interleaves with them is the end of the process or of  *)
(* the machine.  A step is a stretch between two effects on the file, and  *)
(* any of its calls on the file may fail while the process goes on.        *)
(***************************************************************************)
EXTENDS Integers, Sequences, FiniteSets

CONSTANTS
    flushEvery,         \* sync at least every so many writes
    maxEntries,         \* what compaction keeps
    MaxAppends,         \* bound on the entries appended
    MaxCrashes,         \* bound on crashes and restarts
    MaxErrors           \* bound on calls on the file that fail

ASSUME EventLogAssumption ==
    /\ flushEvery \in Nat \ {0} /\ maxEntries \in Nat \ {0}
    /\ MaxAppends \in Nat /\ MaxCrashes \in Nat /\ MaxErrors \in Nat

Kind == {"event", "checkpoint"}

(***************************************************************************)
(* Entries are numbered in the order of their appends.  0 is a torn line:  *)
(* the beginning of an entry whose end never reached the file.             *)
(***************************************************************************)
Torn == 0

VARIABLES
    log,        \* the entries of the file followed by those in the buffer
    flushed,    \* how many of them are in the file
    synced,     \* how many of them are on disk for certain
    writes,     \* the counter of this process
    pc,         \* "open", "broken", a place inside compaction, or "down"
    keep,       \* what compaction has read and will write back
    next,       \* number of the next entry
    born,       \* number of this process's first entry
    promised,   \* entries that an append has synced
    crashes,    \* crashes and restarts so far
    errors,     \* calls on the file that have failed so far
    owed,       \* ghost: what the next Sync that succeeds has to make up for
    failed,     \* ghost: the last append has returned an error
    gutted      \* ghost: what compaction had truncated did not get back

fileVars == <<log, flushed, synced>>
procVars == <<writes, pc, keep, born>>
ghosts == <<promised, owed, failed, gutted>>
vars == <<fileVars, procVars, next, crashes, errors, ghosts>>

TypeOK ==
    /\ log \in Seq(0..MaxAppends)
    /\ synced \in 0..flushed /\ flushed \in 0..Len(log)
    /\ writes \in 0..2 * maxEntries + MaxAppends
    /\ pc \in {"open", "compact", "rewrite", "sync", "broken", "down"}
    /\ keep \in Seq(0..MaxAppends)
    /\ next \in 1..MaxAppends + 1 /\ born \in 1..next
    /\ promised \subseteq 1..next - 1
    /\ crashes \in 0..MaxCrashes /\ errors \in 0..MaxErrors
    /\ owed \in {"none", "appends", "file"}
    /\ failed \in BOOLEAN /\ gutted \in BOOLEAN

(***************************************************************************)
(* Open on a new file.                                                     *)
(***************************************************************************)
Init ==
    /\ log = << >> /\ flushed = 0 /\ synced = 0 /\ writes = 0
    /\ pc = "open"
    /\ keep = << >>
    /\ next = 1 /\ born = 1
    /\ promised = {}
    /\ crashes = 0 /\ errors = 0
    /\ owed = "none" /\ failed = FALSE /\ gutted = FALSE

Numbers(q) == {q[i] : i \in 1..Len(q)} \ {Torn}

\* Faulty variant of LastOf: the first n entries.
LastOfFirst(q, n) == IF Len(q) <= n THEN q ELSE SubSeq(q, 1, n)

LastOf(q, n) == IF Len(q) <= n THEN q ELSE SubSeq(q, Len(q) - n + 1, Len(q))

-----------------------------------------------------------------------------
\* Faulty variant of MustSync: one write late.
MustSyncLate(kind, n) == kind = "checkpoint" \/ n % (flushEvery + 1) = 0

MustSync(kind, n) == kind = "checkpoint" \/ n % flushEvery = 0

Fault == errors < MaxErrors /\ errors' = errors + 1

(***************************************************************************)
(* The first n entries of q remain, and possibly a piece of the next one.  *)
(***************************************************************************)
Remains(q, n) == {SubSeq(q, 1, n)}
                 \cup (IF n < Len(q) THEN {Append(SubSeq(q, 1, n), Torn)} ELSE {})

\* The file is left with some beginning of q.
LeftWith(q, least, most) ==
    /\ \E n \in least..most : log' \in Remains(q, n)
    /\ flushed' = Len(log')

(***************************************************************************)
(* A Write or Flush of the buffered writer fails when the file has some of *)
(* the entries of q.  The writer keeps the error: nothing of the rest ever *)
(* gets to the file, and every later Write and Flush fails.                *)
(***************************************************************************)
WriteFails(q) ==
    /\ Fault
    /\ flushed < Len(q)
    /\ LeftWith(q, flushed, Len(q))
    /\ UNCHANGED synced

(***************************************************************************)
(* A Sync puts on disk what is in the file, also what an earlier Sync that *)
(* failed has left.                                                        *)
(***************************************************************************)
Synced(q) ==
    /\ log' = q
    /\ flushed' = Len(q) /\ synced' = Len(q)
    /\ promised' = promised \cup Numbers(q)
    /\ owed' = "none"

-----------------------------------------------------------------------------
(***************************************************************************)
(* AppendEncoded up to the test for compaction: a checkpoint or a full     *)
(* group of writes is flushed and synced.                                  *)
(***************************************************************************)
AppendEncoded(kind) ==
    /\ pc = "open"
    /\ next <= MaxAppends
    /\ next' = next + 1
    /\ writes' = writes + 1
    /\ IF MustSync(kind, writes')
         THEN Synced(Append(log, next))
         ELSE log' = Append(log, next) /\ UNCHANGED <<flushed, synced, promised, owed>>
    /\ pc' = IF writes' > 2 * maxEntries THEN "compact" ELSE "open"
    /\ failed' = FALSE
    /\ UNCHANGED <<keep, born, crashes, errors, gutted>>

(***************************************************************************)
(* The append's Encode fails, or the Flush after it, when writes counts    *)
(* the entry already.                                                      *)
(***************************************************************************)
AppendWriteFails(kind) ==
    /\ pc = "open"
    /\ next <= MaxAppends
    /\ next' = next + 1
    /\ WriteFails(Append(log, next))
    /\ \/ writes' = writes
       \/ writes' = writes + 1 /\ MustSync(kind, writes')
    /\ pc' = "broken"
    /\ failed' = TRUE
    /\ UNCHANGED <<keep, born, crashes, promised, owed, gutted>>

(***************************************************************************)
(* The append's Sync fails: it returns before the test for compaction.     *)
(***************************************************************************)
AppendSyncFails(kind) ==
    /\ pc = "open"
    /\ next <= MaxAppends
    /\ Fault
    /\ next' = next + 1
    /\ writes' = writes + 1
    /\ MustSync(kind, writes')
    /\ log' = Append(log, next) /\ flushed' = Len(log')
    /\ owed' = IF owed = "file" THEN "file" ELSE "appends"
    /\ failed' = TRUE
    /\ UNCHANGED <<synced, pc, keep, born, crashes, promised, gutted>>

(***************************************************************************)
(* The first part of compactLocked: flush, read the file, keep its last    *)
(* entries, truncate.                                                      *)
(***************************************************************************)
CompactTruncate ==
    /\ pc = "compact"
    /\ Torn \notin {log[i] : i \in 1..Len(log)}
    /\ keep' = LastOf(log, maxEntries)
    /\ log' = << >> /\ flushed' = 0 /\ synced' = 0
    /\ pc' = "rewrite"
    /\ owed' = "file"
    /\ UNCHANGED <<writes, next, born, promised, crashes, errors, failed, gutted>>

(***************************************************************************)
(* It fails with the file as it was: a torn line cannot be decoded, or the *)
(* Seek, the reading or the Truncate fails, or the flush does.  writes     *)
(* stays above the bound, so that the next append compacts again.          *)
(***************************************************************************)
CompactGivesUp ==
    /\ pc = "compact"
    /\ \/ /\ \/ Torn \in {log[i] : i \in 1..Len(log)} /\ UNCHANGED errors
             \/ Fault
          /\ flushed' = Len(log)
          /\ pc' = "open"
          /\ UNCHANGED <<log, synced>>
       \/ WriteFails(log) /\ pc' = "broken"
    /\ failed' = TRUE
    /\ UNCHANGED <<writes, keep, next, born, promised, crashes, owed, gutted>>

(***************************************************************************)
(* Encode the kept entries into a new buffer, flush it ...                 *)
(***************************************************************************)
CompactRewrite ==
    /\ pc = "rewrite"
    /\ log' = keep /\ flushed' = Len(keep)
    /\ pc' = "sync"
    /\ UNCHANGED <<synced, writes, keep, next, born, promised, crashes, errors, owed, failed,
                   gutted>>

(***************************************************************************)
(* ... unless the Seek after the Truncate fails, or an Encode or the Flush *)
(* does: the append returns an error, and what was kept is lost ...        *)
(***************************************************************************)
CompactRewriteFails ==
    /\ pc = "rewrite"
    /\ \/ Fault /\ pc' = "open" /\ UNCHANGED fileVars
       \/ WriteFails(keep) /\ pc' = "broken"
    /\ keep' = << >>
    /\ failed' = TRUE /\ gutted' = TRUE
    /\ UNCHANGED <<writes, next, born, promised, crashes, owed>>

(***************************************************************************)
(* ... and sync the file.                                                  *)
(***************************************************************************)
CompactSync ==
    /\ pc = "sync"
    /\ Synced(log)
    /\ writes' = Len(keep)
    /\ keep' = << >>
    /\ pc' = "open"
    /\ UNCHANGED <<next, born, crashes, errors, failed, gutted>>

(***************************************************************************)
(* The Sync fails: the file is rewritten, but not on disk, and writes is   *)
(* not reset.                                                              *)
(***************************************************************************)
CompactSyncFails ==
    /\ pc = "sync"
    /\ Fault
    /\ keep' = << >>
    /\ pc' = "open"
    /\ failed' = TRUE
    /\ UNCHANGED <<fileVars, writes, next, born, promised, crashes, owed, gutted>>

(***************************************************************************)
(* The buffer empties itself when it is full, and ReadAll flushes it.      *)
(***************************************************************************)
Flush ==
    /\ pc = "open"
    /\ flushed < Len(log)
    /\ flushed' \in flushed + 1..Len(log)
    /\ UNCHANGED <<log, synced, procVars, next, crashes, errors, ghosts>>

(***************************************************************************)
(* ReadAll's flush fails.                                                  *)
(***************************************************************************)
FlushFails ==
    /\ pc = "open"
    /\ WriteFails(log)
    /\ pc' = "broken"
    /\ UNCHANGED <<writes, keep, born, next, crashes, ghosts>>

(***************************************************************************)
(* Close flushes and does not sync.  With a broken writer nothing is left  *)
(* to be done but this: appends and ReadAll fail at their first call.      *)
(***************************************************************************)
Close ==
    /\ \/ pc = "open" /\ flushed' = Len(log) /\ UNCHANGED <<log, synced, errors>>
       \/ pc = "open" /\ WriteFails(log)
       \/ pc = "broken" /\ UNCHANGED <<fileVars, errors>>
    /\ pc' = "down"
    /\ UNCHANGED <<writes, keep, born, next, crashes, ghosts>>

(***************************************************************************)
(* Of what compaction writes back, a crash leaves no more than a beginning.*)
(***************************************************************************)
MayCrash ==
    /\ crashes < MaxCrashes
    /\ crashes' = crashes + 1
    /\ pc # "down"
    /\ pc' = "down"
    /\ keep' = << >>

(***************************************************************************)
(* The process dies: the buffer is lost, the file is not.                  *)
(***************************************************************************)
ProcessCrash ==
    /\ MayCrash
    /\ IF pc = "rewrite" THEN LeftWith(keep, 0, Len(keep)) ELSE LeftWith(log, flushed, flushed)
    /\ gutted' = (gutted \/ pc = "rewrite")
    /\ UNCHANGED <<synced, writes, next, born, promised, errors, owed, failed>>

(***************************************************************************)
(* The machine dies: of the file, what was synced remains for certain.     *)
(***************************************************************************)
PowerLoss ==
    /\ MayCrash
    /\ IF pc = "rewrite" THEN LeftWith(keep, 0, Len(keep)) ELSE LeftWith(log, synced, flushed)
    /\ synced' = Len(log')
    /\ owed' = "none"
    /\ gutted' = (gutted \/ owed = "file")
    /\ UNCHANGED <<writes, next, born, promised, errors, failed>>

(***************************************************************************)
(* Open on an existing file: the counter starts from zero.                 *)
(***************************************************************************)
Open ==
    /\ pc = "down"
    /\ crashes < MaxCrashes \/ next <= MaxAppends
    /\ pc' = "open"
    /\ writes' = 0
    /\ born' = next
    /\ owed' = IF owed = "file" THEN "file" ELSE "none"
    /\ failed' = FALSE
    /\ UNCHANGED <<fileVars, keep, next, promised, crashes, errors, gutted>>

Next ==
    \/ \E kind \in Kind :
         AppendEncoded(kind) \/ AppendWriteFails(kind) \/ AppendSyncFails(kind)
    \/ CompactTruncate \/ CompactGivesUp \/ CompactRewrite \/ CompactRewriteFails
    \/ CompactSync \/ CompactSyncFails
    \/ Flush \/ FlushFails \/ Close \/ ProcessCrash \/ PowerLoss \/ Open

Spec == Init /\ [][Next]_vars

-----------------------------------------------------------------------------
\* The entry is in the file or the buffer, or has given way to later ones.
Kept(n) == n \in Numbers(log) \/ Cardinality({m \in Numbers(log) : m > n}) >= maxEntries

(***************************************************************************)
(* "append-only event log for durable evidence" (v3/README.md): an entry   *)
(* that an append synced is in the log after any crash, restart or failing *)
(* call, also while a compaction is at work, unless compaction dropped it  *)
(* for maxEntries later ones; the entries are in the order of their        *)
(* appends, none twice.  The exception is what EvidenceIsDurable below is  *)
(* about: a truncated file that did not get its entries back.  (An entry   *)
(* is found by its bytes: while a torn line is in the file, ReadAll        *)
(* returns an error and no entry at all.)                                  *)
(***************************************************************************)
EvidenceSurvives ==
    /\ pc # "rewrite" /\ ~gutted => \A n \in promised : Kept(n)
    /\ \A i, j \in 1..Len(log) : (i < j /\ log[i] # Torn /\ log[j] # Torn) => log[i] < log[j]

(***************************************************************************)
(* The same words of the README without the exception, outside of a        *)
(* running compaction.  compactLocked truncates the only copy before it    *)
(* writes it back: a crash in between, or a call that fails there and lets *)
(* the process go on, leaves a log without entries that were synced.       *)
(***************************************************************************)
EvidenceIsDurable ==
    pc \in {"open", "broken", "down"} => \A n \in promised : Kept(n)

(***************************************************************************)
(* "bounded flush" and "WAL compaction bound" (v3/README.md): when an      *)
(* append has returned, less than flushEvery entries of this process are   *)
(* not on disk, wherever compaction reset the counter that decides about   *)
(* the next sync, unless a Sync failed and none has succeeded since; and   *)
(* if it returned no error, the log holds at most 2 * maxEntries entries   *)
(* of this process.  (A compaction that keeps failing lets the log grow;   *)
(* entries of earlier processes come on top, for Open does not count them.)*)
(***************************************************************************)
LogBounded ==
    pc = "open" =>
        /\ owed = "none" =>
               Cardinality({i \in synced + 1..Len(log) : log[i] >= born}) < flushEvery
        /\ ~failed => Cardinality({i \in 1..Len(log) : log[i] >= born}) <= 2 * maxEntries
=============================================================================
