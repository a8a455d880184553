---------------------------- MODULE PriorityQueue ----------------------------
(***************************************************************************)
(* The order and the contents of the relay's admission queue               *)
(* (relay/v3/internal/scheduler): what one critical section of Push or Pop *)
(* does to the slice of items.  The module has no variables; Scheduler     *)
(* adds the mutex, the notification channel and the threads, and Relay     *)
(* uses the same operators for the queue between its goroutines.           *)
(***************************************************************************)
EXTENDS Integers, Sequences, SequencesExt

CONSTANTS
    Item,   \* the work items that callers push
    Cap     \* the configured capacity, at least 1 (scheduler.New raises it)

(***************************************************************************)
(* Times are naturals and 0 is Go's zero time.  Priorities are integers:   *)
(* only their order is used.                                               *)
(***************************************************************************)
ASSUME ItemAssumption ==
    Item \subseteq [ID : Int, Priority : Int, DeadlineAt : Nat, EnqueuedAt : Nat]

ASSUME CapAssumption == Cap \in Nat \ {0}

(***************************************************************************)
(* The deadline part of the order: an item without a deadline comes last.  *)
(***************************************************************************)
earlierDeadline(a, b) ==
    /\ a.DeadlineAt # 0
    /\ b.DeadlineAt = 0 \/ a.DeadlineAt < b.DeadlineAt

(***************************************************************************)
(* The lexicographic order: higher priority, then earlier deadline, then   *)
(* earlier arrival, then smaller identifier.                               *)
(***************************************************************************)
betterThan(a, b) ==
    \/ a.Priority > b.Priority
    \/ /\ a.Priority = b.Priority
       /\ \/ a.DeadlineAt # b.DeadlineAt /\ earlierDeadline(a, b)
          \/ /\ a.DeadlineAt = b.DeadlineAt
             /\ \/ a.EnqueuedAt < b.EnqueuedAt
                \/ a.EnqueuedAt = b.EnqueuedAt /\ a.ID < b.ID

(***************************************************************************)
(* A deadline that is missing or over.                                     *)
(***************************************************************************)
Stale(x, t) == x.DeadlineAt = 0 \/ t > x.DeadlineAt

(***************************************************************************)
(* A full queue refuses an item that does not beat its worst one.          *)
(***************************************************************************)
Overflows(q, x) == Len(q) >= Cap /\ ~betterThan(x, q[Len(q)])

\* Faulty variant of MakeRoom: the best item makes room instead of the worst.
MakeRoomAtHead(q) == IF Len(q) >= Cap THEN Tail(q) ELSE q

(***************************************************************************)
(* What remains of a queue once room is made for one more item: a full one *)
(* gives up its last item.                                                 *)
(***************************************************************************)
MakeRoom(q) == IF Len(q) >= Cap THEN SubSeq(q, 1, Len(q) - 1) ELSE q

(***************************************************************************)
(* The index sort.Search returns: the first item that the new one is to    *)
(* precede.                                                                *)
(***************************************************************************)
IsInsertIndex(q, x, i) ==
    /\ i \in 1..Len(q) + 1
    /\ \A j \in 1..i - 1 : betterThan(q[j], x)
    /\ i <= Len(q) => ~betterThan(q[i], x)

(***************************************************************************)
(* The queue in order: no item is better than one before it.               *)
(***************************************************************************)
Sorted(q) == \A i, j \in 1..Len(q) : i < j => ~betterThan(q[j], q[i])
=============================================================================
