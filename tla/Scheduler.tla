------------------------------ MODULE Scheduler ------------------------------
(***************************************************************************)
(* The bounded priority queue of the relay, relay/v3/internal/scheduler,   *)
(* with the concurrency of its code: a mutex mu over the sorted slice      *)
(* items, and a buffered channel notify that carries one token per queued  *)
(* item.  Push inserts and then SENDS ON THE CHANNEL WHILE IT HOLDS mu;    *)
(* Pop first receives a token, without mu, and only then takes mu and the  *)
(* first item.  Between the two, other threads push, evict and close.      *)
(*                                                                         *)
(* The critical sections of Pop and Close, and the part of Push before its *)
(* send, run under mu and touch nothing but state that mu protects, so     *)
(* each is one action, guarded by mu being free.                           *)
(***************************************************************************)
EXTENDS PriorityQueue, FiniteSets

CONSTANTS
    Pushers,    \* goroutines that call Push (request handlers, the retry loop)
    Poppers,    \* goroutines that call Pop in a loop (the relay's workers)
    Nobody,     \* the holder of a free mutex
    MaxTime     \* bound of the clock

ASSUME ThreadAssumption ==
    /\ IsFiniteSet(Poppers)
    /\ Nobody \notin Pushers
    /\ Pushers \cap Poppers = {}

ASSUME TimeAssumption == MaxTime \in Nat

VARIABLES
    items,      \* the slice, best item first
    notify,     \* number of tokens in the channel's buffer
    closed,     \* the queue, and with it the channel, is closed
    mu,         \* the pusher inside Push's critical section, or Nobody
    pc,         \* where each thread is
    got,        \* the item that a popper's last successful Pop returned
    cancelled,  \* the context of the poppers is done
    now         \* the clock

vars == <<items, notify, closed, mu, pc, got, cancelled, now>>

PusherPC == {"idle", "send"}
PopperPC == {"select", "take", "out", "done"}
NoItem == [ID |-> -1, Priority |-> 0, DeadlineAt |-> 0, EnqueuedAt |-> 0]

TypeOK ==
    /\ items \in Seq(Item)
    /\ notify \in 0..Cap
    /\ closed \in BOOLEAN
    /\ mu \in Pushers \cup {Nobody}
    /\ pc \in [Pushers \cup Poppers -> PusherPC \cup PopperPC]
    /\ \A p \in Pushers : pc[p] \in PusherPC
    /\ \A w \in Poppers : pc[w] \in PopperPC
    /\ got \in [Poppers -> Item \cup {NoItem}]
    /\ cancelled \in BOOLEAN
    /\ now \in 0..MaxTime

(***************************************************************************)
(* New: an empty queue; the poppers are inside their first Pop.            *)
(***************************************************************************)
Init ==
    /\ items = << >>
    /\ notify = 0
    /\ closed = FALSE
    /\ mu = Nobody
    /\ pc = [t \in Pushers \cup Poppers |-> IF t \in Pushers THEN "idle" ELSE "select"]
    /\ got = [w \in Poppers |-> NoItem]
    /\ cancelled = FALSE
    /\ now = 0

-----------------------------------------------------------------------------
(***************************************************************************)
(* Push refuses in a fixed order: closed, stale, overflow.  (A capacity of *)
(* zero, which the code tests too, cannot come out of New.)                *)
(***************************************************************************)
PushRefused(x) == closed \/ Stale(x, now) \/ Overflows(items, x)

\* Faulty variant of PushInsert: a token is sent even if an item was evicted.
PushInsertAlwaysSends(p, x) ==
    /\ pc[p] = "idle"
    /\ mu = Nobody
    /\ x.EnqueuedAt <= now
    /\ ~PushRefused(x)
    /\ LET room == MakeRoom(items)
       IN  \E i \in 1..Len(room) + 1 :
             /\ IsInsertIndex(room, x, i)
             /\ items' = InsertAt(room, i, x)
    /\ mu' = p
    /\ pc' = [pc EXCEPT ![p] = "send"]
    /\ UNCHANGED <<notify, closed, got, cancelled, now>>

(***************************************************************************)
(* The part of Push before the send.  A refused call leaves no trace.  An  *)
(* accepted item is inserted in order, after the worst one is evicted if   *)
(* the queue is full; only when the queue grew does the thread go on, with *)
(* mu held, to send a token.  Callers stamp an item just before the call.  *)
(***************************************************************************)
PushInsert(p, x) ==
    /\ pc[p] = "idle"
    /\ mu = Nobody
    /\ x.EnqueuedAt <= now
    /\ ~PushRefused(x)
    /\ LET room == MakeRoom(items)
       IN  \E i \in 1..Len(room) + 1 :
             /\ IsInsertIndex(room, x, i)
             /\ items' = InsertAt(room, i, x)
    /\ IF Len(items') > Len(items)
         THEN mu' = p /\ pc' = [pc EXCEPT ![p] = "send"]
         ELSE UNCHANGED <<mu, pc>>
    /\ UNCHANGED <<notify, closed, got, cancelled, now>>

\* Faulty variant of PushSend: the mutex stays locked.
PushSendKeepsLock(p) ==
    /\ pc[p] = "send"
    /\ notify < Cap
    /\ notify' = notify + 1
    /\ pc' = [pc EXCEPT ![p] = "idle"]
    /\ UNCHANGED <<items, closed, mu, got, cancelled, now>>

(***************************************************************************)
(* The send on the buffered channel, blocking while the buffer is full,    *)
(* and the deferred unlock.                                                *)
(***************************************************************************)
PushSend(p) ==
    /\ pc[p] = "send"
    /\ notify < Cap
    /\ notify' = notify + 1
    /\ mu' = Nobody
    /\ pc' = [pc EXCEPT ![p] = "idle"]
    /\ UNCHANGED <<items, closed, got, cancelled, now>>

(***************************************************************************)
(* The three ways out of Pop's select.  When several are ready Go picks    *)
(* any of them.  A closed channel still delivers what is in its buffer.    *)
(***************************************************************************)
PopReceive(w) ==
    /\ pc[w] = "select"
    /\ notify > 0
    /\ notify' = notify - 1
    /\ pc' = [pc EXCEPT ![w] = "take"]
    /\ UNCHANGED <<items, closed, mu, got, cancelled, now>>

\* Faulty variant of PopClosed: a closed queue returns with tokens left.
PopClosedEarly(w) ==
    /\ pc[w] = "select"
    /\ closed
    /\ pc' = [pc EXCEPT ![w] = "done"]
    /\ UNCHANGED <<items, notify, closed, mu, got, cancelled, now>>

\* Faulty variant of PopClosed: Pop goes round its loop on a closed channel.
PopClosedLoops(w) ==
    /\ pc[w] = "select"
    /\ closed /\ notify = 0
    /\ UNCHANGED vars

PopClosed(w) ==
    /\ pc[w] = "select"
    /\ closed /\ notify = 0
    /\ pc' = [pc EXCEPT ![w] = "done"]
    /\ UNCHANGED <<items, notify, closed, mu, got, cancelled, now>>

PopCancelled(w) ==
    /\ pc[w] = "select"
    /\ cancelled
    /\ pc' = [pc EXCEPT ![w] = "done"]
    /\ UNCHANGED <<items, notify, closed, mu, got, cancelled, now>>

(***************************************************************************)
(* Pop's critical section: return the first item, or go round the loop     *)
(* when there is none.                                                     *)
(***************************************************************************)
PopTake(w) ==
    /\ pc[w] = "take"
    /\ mu = Nobody
    /\ IF items # << >>
         THEN /\ got' = [got EXCEPT ![w] = Head(items)]
              /\ items' = Tail(items)
              /\ pc' = [pc EXCEPT ![w] = "out"]
         ELSE /\ pc' = [pc EXCEPT ![w] = "select"]
              /\ UNCHANGED <<items, got>>
    /\ UNCHANGED <<notify, closed, mu, cancelled, now>>

(***************************************************************************)
(* The caller of Pop has dealt with the item and calls Pop again.          *)
(***************************************************************************)
PopAgain(w) ==
    /\ pc[w] = "out"
    /\ pc' = [pc EXCEPT ![w] = "select"]
    /\ UNCHANGED <<items, notify, closed, mu, got, cancelled, now>>

(***************************************************************************)
(* Close; a second call returns at once.                                   *)
(***************************************************************************)
Close ==
    /\ mu = Nobody
    /\ ~closed
    /\ closed' = TRUE
    /\ UNCHANGED <<items, notify, mu, pc, got, cancelled, now>>

(***************************************************************************)
(* The environment: the context is cancelled, time passes.                 *)
(***************************************************************************)
Cancel ==
    /\ ~cancelled
    /\ cancelled' = TRUE
    /\ UNCHANGED <<items, notify, closed, mu, pc, got, now>>

Tick ==
    /\ now < MaxTime
    /\ now' = now + 1
    /\ UNCHANGED <<items, notify, closed, mu, pc, got, cancelled>>

-----------------------------------------------------------------------------
Pop(w) == PopReceive(w) \/ PopClosed(w) \/ PopCancelled(w) \/ PopTake(w)

Next ==
    \/ \E p \in Pushers : PushSend(p) \/ \E x \in Item : PushInsert(p, x)
    \/ \E w \in Poppers : Pop(w) \/ PopAgain(w)
    \/ Close \/ Cancel \/ Tick

(***************************************************************************)
(* The Go runtime lets every runnable goroutine go on, and sync.Mutex has  *)
(* a starvation mode: a waiter gets it after finitely many other holders,  *)
(* which is strong fairness for the section that waits for mu.  Nobody is  *)
(* obliged to push, to close or to cancel.                                 *)
(***************************************************************************)
Fairness ==
    /\ \A p \in Pushers : WF_vars(PushSend(p))
    /\ \A w \in Poppers :
         /\ WF_vars(PopReceive(w) \/ PopClosed(w))
         /\ SF_vars(PopTake(w))
         /\ WF_vars(PopAgain(w))

Spec == Init /\ [][Next]_vars /\ Fairness

-----------------------------------------------------------------------------
Holding == {w \in Poppers : pc[w] = "take"}
Sending == {p \in Pushers : pc[p] = "send"}

(***************************************************************************)
(* One token per item: every queued item has its token in the channel, in  *)
(* the hands of a popper that is on its way to mu, or about to be sent by  *)
(* the pusher that holds mu.                                               *)
(***************************************************************************)
TokenBalance ==
    Len(items) = notify + Cardinality(Holding) + (IF mu = Nobody THEN 0 ELSE 1)

(***************************************************************************)
(* Push holds mu while it sends on notify.  If the buffer could be full at *)
(* that moment, the pusher would keep mu until a popper receives, and a    *)
(* popper that holds a token waits for mu.  The send never has to wait.    *)
(***************************************************************************)
SendNeverBlocks == \A p \in Pushers : pc[p] = "send" => mu = p /\ notify < Cap

(***************************************************************************)
(* A popper that has received a token finds an item for it, whatever was   *)
(* evicted, popped or closed since: the retry branch of Pop's loop is only *)
(* a precaution.  Two poppers never share one.                             *)
(***************************************************************************)
NoEmptyWakeup == Cardinality(Holding) <= Len(items)

(***************************************************************************)
(* The slice stays within the capacity and in order, whatever sequence of  *)
(* pushes, evictions and pops made it.                                     *)
(***************************************************************************)
QueueInOrder == Len(items) <= Cap /\ Sorted(items)

(***************************************************************************)
(* Once a popper was told that the queue is closed (and not cancelled),    *)
(* nothing is left behind but what other poppers already hold a token for. *)
(***************************************************************************)
ClosedMeansDrained ==
    (~cancelled /\ \E w \in Poppers : pc[w] = "done") =>
        closed /\ Len(items) = Cardinality(Holding)

(***************************************************************************)
(* What a step may do to the contents: an item leaves the queue only as    *)
(* the best one, to a popper, or as the worst one, evicted for a better    *)
(* item.                                                                   *)
(***************************************************************************)
Leaves(x) == \E i \in 1..Len(items) : /\ items[i] = x
                                      /\ \A j \in 1..Len(items') : items'[j] # x

TakenAsBest(x) ==
    /\ \A j \in 1..Len(items) : ~betterThan(items[j], x)
    /\ \E w \in Poppers : got'[w] = x /\ pc'[w] = "out"

EvictedAsWorst(x) ==
    /\ Len(items) = Cap /\ Len(items') = Cap
    /\ \A j \in 1..Len(items) : ~betterThan(x, items[j])
    /\ \E j \in 1..Cap : betterThan(items'[j], x)

LeavesByRight == \A x \in Item : Leaves(x) => TakenAsBest(x) \/ EvictedAsWorst(x)

OnlyBestOrWorstLeave == [][LeavesByRight]_vars

(***************************************************************************)
(* A popper that received a token gets its item, although it competes with *)
(* every pusher for mu.                                                    *)
(***************************************************************************)
TokenIsRedeemed == \A w \in Poppers : pc[w] = "take" ~> pc[w] = "out"

(***************************************************************************)
(* Close ends every popper's loop, after the queue is empty.               *)
(***************************************************************************)
CloseEndsPoppers == closed ~> (\A w \in Poppers : pc[w] = "done")
=============================================================================
