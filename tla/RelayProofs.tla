----------------------------- MODULE RelayProofs -----------------------------
(***************************************************************************)
(* Proofs about the bundle path, for any number of bundles, clients,       *)
(* handlers and workers, any depth of the queue, any retry budget and any  *)
(* number of failing calls, with or without lost replies.                  *)
(***************************************************************************)
EXTENDS Relay, FiniteSetTheorems, SequenceTheorems, WellFoundedInduction, TLAPS

-----------------------------------------------------------------------------
(* The inductive invariant, part by part. *)

RestPC == {"idle", "next", "done"}
AfterPush == {"enqueue", "emitQueued"}
VerdictPC == {"simulated", "emitSimulated", "scored", "emitScored"}

(***************************************************************************)
(* Where a thread serves a bundle that nobody else may have.               *)
(***************************************************************************)
ServePC == (HandlerPC \cup WorkerPC \cup RetryPC) \ (RestPC \cup AfterPush \cup {"result"})

AllPC == HandlerPC \cup WorkerPC \cup RetryPC \cup SettlePC

Thread == [pc : AllPC, b : Bundle \cup {NoBundle}, cur : Bundle \cup {NoBundle},
           from : BundleState \cup {"none"}, to : Decisions \cup {"none"},
           k : {"none", "idle", "enqueue", "next"}]

(***************************************************************************)
(* The local variables of a thread fit its program counter.                *)
(***************************************************************************)
Fit(x) ==
    /\ x \in Thread
    /\ x.pc \in RestPC => x = Resting(x.pc)
    /\ x.pc \in ServePC \cup AfterPush => x.b \in Bundle /\ x.cur = NoBundle /\ x.k = "none"
    /\ x.pc \in VerdictPC => x.to \in Decisions
    /\ x.pc \in SettlePC \cup {"result"} =>
          /\ x.cur \in Bundle /\ x.to \in Decisions
          /\ \/ x.k \in {"idle", "next"} /\ x.b = NoBundle
             \/ x.k = "enqueue" /\ x.b \in Bundle

Record == [State : BundleState \cup {"none"}, RetryCount : Nat, Terminal : Decisions \cup {"none"}]

Shape ==
    /\ rec \in [Bundle -> Record]
    /\ checkpoints \in [Bundle -> Nat]
    /\ retries \subseteq Bundle /\ batch \subseteq Bundle
    /\ queue \in Seq(Bundle) /\ Len(queue) <= QueueDepth
    /\ th \in [Threads -> Thread]
    /\ \A t \in Threads : Fit(th[t])
    /\ faults \in Nat

(***************************************************************************)
(* A record has a decision exactly from its terminal transition on.        *)
(***************************************************************************)
DecidedStates == Decisions \cup {"persisted", "completed"}
DecisionsTold == \A b \in Bundle : rec[b].Terminal # "none" <=> rec[b].State \in DecidedStates

(***************************************************************************)
(* The thread that completed a bundle, and no other, is about to seal it.  *)
(***************************************************************************)
Sealing(x) == x.pc \in {"emitCompleted", "seal"}

OneSealer ==
    /\ \A t \in Threads : Sealing(th[t]) => /\ rec[th[t].cur].State = "completed"
                                            /\ checkpoints[th[t].cur] = 0
    /\ \A t, u \in Threads : Sealing(th[t]) /\ Sealing(th[u]) /\ th[t].cur = th[u].cur => t = u
    /\ \A b \in Bundle : checkpoints[b] = 0 \/ (rec[b].State = "completed" /\ checkpoints[b] = 1)

(***************************************************************************)
(* A bundle is in one place.  A thread that settles a bundle counts as a   *)
(* place of it as long as no call has failed.                              *)
(***************************************************************************)
Has(t, b) ==
    \/ th[t].b = b /\ th[t].pc \in ServePC
    \/ faults = 0 /\ th[t].cur = b

Queued(b) == \E i \in 1..Len(queue) : queue[i] = b

OnePlace ==
    /\ \A i, j \in 1..Len(queue) : queue[i] = queue[j] => i = j
    /\ \A b \in Bundle :
          /\ \A t, u \in Threads : Has(t, b) /\ Has(u, b) => t = u
          /\ \A t \in Threads : Has(t, b) => ~Queued(b) /\ b \notin retries /\ b \notin batch
          /\ Queued(b) => b \notin retries /\ b \notin batch
          /\ b \in retries => b \notin batch
          /\ rec[b].State = "none" => /\ ~Queued(b) /\ b \notin retries /\ b \notin batch
                                      /\ \A t \in Threads : ~Has(t, b)

-----------------------------------------------------------------------------
(* The queue. *)

(***************************************************************************)
(* The search for a place in the queue has a result: the first item that   *)
(* is not better, or the end.                                              *)
(***************************************************************************)
LEMMA InsertIndexExists ==
    ASSUME NEW q, NEW x, Len(q) \in Nat
    PROVE  \E i \in 1..Len(q) + 1 : Q!IsInsertIndex(q, x, i)
  <1> DEFINE T == {i \in 1..Len(q) + 1 : i <= Len(q) => ~Q!betterThan(q[i], x)}
             less == OpToRel(<, Nat)
  <1>1. Len(q) + 1 \in T /\ T \subseteq Nat
    OBVIOUS
  <1>2. PICK i \in T : \A j \in T : ~(<<j, i>> \in less)
    <2>1. IsWellFoundedOn(less, Nat)
      BY NatLessThanWellFounded
    <2> HIDE DEF T, less
    <2> QED
      BY <1>1, <2>1, WFMin
  <1>3. \A j \in 1..i - 1 : j \notin T
    <2> SUFFICES ASSUME NEW j \in 1..i - 1, j \in T PROVE FALSE
      OBVIOUS
    <2>1. <<j, i>> \in Nat \X Nat /\ j < i
      BY <1>1
    <2>2. <<j, i>> \in less
      BY <2>1 DEF OpToRel
    <2> HIDE DEF T, less
    <2> QED
      BY <2>2, <1>2
  <1>4. \A j \in 1..i - 1 : Q!betterThan(q[j], x)
    BY <1>3
  <1> QED
    BY <1>4 DEF Q!IsInsertIndex

(***************************************************************************)
(* What Push leaves, position by position: the queue, without its last     *)
(* item when it was full, and the new bundle at its place.                 *)
(***************************************************************************)
LEMMA PushedPositions ==
    ASSUME Shape, NEW b \in Bundle
    PROVE  \E m \in Nat, i \in Nat :
              /\ m = (IF Len(queue) >= QueueDepth THEN Len(queue) - 1 ELSE Len(queue))
              /\ i \in 1..m + 1
              /\ Pushed(b) \in Seq(Bundle) /\ Len(Pushed(b)) = m + 1
              /\ \A j \in 1..m + 1 :
                   Pushed(b)[j] = IF j < i THEN queue[j] ELSE IF j = i THEN b ELSE queue[j - 1]
  <1> DEFINE m == IF Len(queue) >= QueueDepth THEN Len(queue) - 1 ELSE Len(queue)
             room == SubSeq(queue, 1, m)
             free == Q!MakeRoom(Items)
             i == CHOOSE i \in 1..m + 1 : Q!IsInsertIndex(free, ItemOf(b), i)
  <1>1. m \in 0..Len(queue) /\ Len(queue) \in Nat
    BY RelayAssumption DEF Shape
  <1>2. Len(free) = m
    <2>1. Items \in Seq({ItemOf(c) : c \in Bundle}) /\ Len(Items) = Len(queue)
      BY DEF Items, Shape
    <2> QED
      BY <2>1, <1>1 DEF Q!MakeRoom
  <1>3. Pushed(b) = Q!InsertAt(room, i, b)
    <2>1. Len(room) = m
      BY <1>1 DEF Shape
    <2> QED
      BY <1>2, <2>1 DEF Pushed
  <1> HIDE DEF free
  <1>4. i \in 1..m + 1
    <2>1. \E j \in 1..m + 1 : Q!IsInsertIndex(free, ItemOf(b), j)
      BY <1>1, <1>2, InsertIndexExists
    <2> QED
      BY <2>1
  <1>5. room \in Seq(Bundle) /\ Len(room) = m /\ \A j \in 1..m : room[j] = queue[j]
    BY <1>1 DEF Shape
  <1> HIDE DEF room, i, m
  <1> DEFINE l == SubSeq(room, 1, i - 1)
             r == SubSeq(room, i, m)
  <1>6. l \in Seq(Bundle) /\ Len(l) = i - 1 /\ \A j \in 1..i - 1 : l[j] = queue[j]
    BY <1>1, <1>4, <1>5
  <1>7. r \in Seq(Bundle) /\ Len(r) = m + 1 - i /\ \A j \in 1..m + 1 - i : r[j] = queue[j + i - 1]
    BY <1>1, <1>4, <1>5
  <1>8. Pushed(b) = (l \o <<b>>) \o r
    BY <1>3, <1>5 DEF Q!InsertAt
  <1> HIDE DEF l, r
  <1> DEFINE f == l \o <<b>>
  <1>9. f \in Seq(Bundle) /\ Len(f) = i /\ \A j \in 1..i : f[j] = IF j < i THEN queue[j] ELSE b
    BY <1>1, <1>4, <1>6
  <1> HIDE DEF f
  <1>10. f \o r \in Seq(Bundle) /\ Len(f \o r) = m + 1
    <2>1. f \o r \in Seq(Bundle) /\ Len(f \o r) = Len(f) + Len(r)
      BY <1>7, <1>9, ConcatProperties
    <2> QED
      BY <2>1, <1>1, <1>4, <1>7, <1>9
  <1>11. \A j \in 1..i : (f \o r)[j] = f[j]
    BY <1>7, <1>9
  <1>12. \A j \in i + 1..m + 1 : (f \o r)[j] = queue[j - 1]
    <2> TAKE j \in i + 1..m + 1
    <2>1. (f \o r)[j] = r[j - i] /\ j - i \in 1..m + 1 - i /\ (j - i) + i - 1 = j - 1
      BY SMTT(30), <1>1, <1>4, <1>7, <1>9
    <2> QED
      BY <2>1, <1>7
  <1>13. \A j \in 1..m + 1 :
           Pushed(b)[j] = IF j < i THEN queue[j] ELSE IF j = i THEN b ELSE queue[j - 1]
    <2> TAKE j \in 1..m + 1
    <2>1. Pushed(b)[j] = (f \o r)[j]
      BY <1>8 DEF f
    <2>2. CASE j <= i
      BY <2>1, <2>2, <1>4, <1>9, <1>11
    <2>3. CASE j > i
      <3>1. j \in i + 1..m + 1 /\ ~(j < i) /\ j # i
        BY <2>3, <1>1, <1>4
      <3>2. (f \o r)[j] = queue[j - 1]
        BY <3>1, <1>12
      <3> QED
        BY <2>1, <3>1, <3>2
    <2> QED
      BY <2>2, <2>3, <1>1, <1>4
  <1>14. Pushed(b) \in Seq(Bundle) /\ Len(Pushed(b)) = m + 1
    BY <1>8, <1>10 DEF f
  <1>15. m \in Nat /\ i \in Nat
    BY <1>1, <1>4
  <1> QED
    BY <1>4, <1>13, <1>14, <1>15 DEF m

-----------------------------------------------------------------------------
(* How a thread moves. *)

(***************************************************************************)
(* The bundle that a thread works on.                                      *)
(***************************************************************************)
Of(x) == IF x.cur # NoBundle THEN x.cur ELSE x.b

(***************************************************************************)
(* The thread x becomes y and has no bundle that it did not have.          *)
(***************************************************************************)
Narrows(x, y) ==
    /\ Fit(y)
    /\ y.pc \in ServePC => x.pc \in ServePC /\ y.b = x.b
    /\ y.cur \in Bundle => y.cur = x.cur \/ (x.pc \in ServePC /\ y.cur = x.b)

(***************************************************************************)
(* It also leaves the record as it is: it does not begin to seal, and it   *)
(* stays in the phase that its last transition began, or ends it.          *)
(***************************************************************************)
QuietMove(x, y) ==
    /\ Narrows(x, y)
    /\ Sealing(y) => Sealing(x) /\ y.cur = x.cur
    /\ LeftIn(y) # "any" => LeftIn(y) = LeftIn(x) /\ Of(y) = Of(x)

(***************************************************************************)
(* What Goto and Settle make of a thread.                                  *)
(***************************************************************************)
Going(x, l) == CASE l \in {"idle", "next", "done"} -> Resting(l)
                 [] l = "enqueue" -> [Resting(l) EXCEPT !.b = x.b]
                 [] OTHER -> [x EXCEPT !.pc = l]

Settling(x, b, from, to, k) ==
    [pc |-> "settle", b |-> IF k = "enqueue" THEN x.b ELSE NoBundle,
     cur |-> b, from |-> from, to |-> to, k |-> k]

(***************************************************************************)
(* A thread that is done with its bundle.                                  *)
(***************************************************************************)
LEMMA GoingToRest ==
    ASSUME NEW x, Fit(x), NEW l \in RestPC
    PROVE  QuietMove(x, Going(x, l)) /\ LeftIn(Going(x, l)) = "any"
  <1>1. Going(x, l) = Resting(l)
    BY DEF Going, RestPC
  <1> DEFINE y == Resting(l)
  <1>2. y \in Thread
    BY DEF Resting, Thread, AllPC, HandlerPC, WorkerPC, RetryPC, RestPC
  <1>3. /\ y.pc = l /\ y.cur = NoBundle
        /\ l \notin ServePC \cup AfterPush \cup VerdictPC \cup SettlePC \cup {"result"}
    BY DEF Resting, RestPC, ServePC, AfterPush, VerdictPC, SettlePC
  <1>4. LeftIn(y) = "any"
    BY <1>3 DEF LeftIn, RestPC
  <1>5. NoBundle \notin Bundle
    BY RelayAssumption DEF NoBundle
  <1>6. ~Sealing(y)
    BY <1>3 DEF Sealing, SettlePC
  <1> QED
    BY <1>1, <1>2, <1>3, <1>4, <1>5, <1>6 DEF QuietMove, Narrows, Fit

(***************************************************************************)
(* A terminalisation returns to its caller, at most to a submission that   *)
(* has pushed its bundle already.                                          *)
(***************************************************************************)
LEMMA GoingBack ==
    ASSUME NEW x, Fit(x), x.pc \in SettlePC \cup {"result"}
    PROVE  QuietMove(x, Going(x, x.k)) /\ LeftIn(Going(x, x.k)) = "any"
  <1>1. CASE x.k \in RestPC
    BY <1>1, GoingToRest
  <1>2. CASE x.k = "enqueue"
    <2> DEFINE y == [Resting("enqueue") EXCEPT !.b = x.b]
    <2>1. Going(x, x.k) = y /\ x.b \in Bundle
      BY <1>2 DEF Going, Fit, RestPC
    <2>2. y = [pc |-> "enqueue", b |-> x.b, cur |-> NoBundle, from |-> "none", to |-> "none", k |-> "none"]
      BY DEF Resting
    <2>3. y \in Thread
      BY <2>1, <2>2 DEF Thread, AllPC, HandlerPC
    <2>4. NoBundle \notin Bundle
      BY RelayAssumption DEF NoBundle
    <2> QED
      BY <2>1, <2>2, <2>3, <2>4
         DEF QuietMove, Narrows, Fit, Sealing, LeftIn, RestPC, ServePC, AfterPush, VerdictPC, SettlePC
  <1> QED
    BY <1>1, <1>2 DEF Fit, RestPC

(***************************************************************************)
(* A thread that begins to settle a bundle.                                *)
(***************************************************************************)
LEMMA SettlingFits ==
    ASSUME NEW x, NEW v \in Bundle, NEW from \in BundleState, NEW to \in Decisions, NEW k,
           k \in {"idle", "next"} \/ (k = "enqueue" /\ x.b \in Bundle)
    PROVE  LET y == Settling(x, v, from, to, k)
           IN  Fit(y) /\ LeftIn(y) = "any" /\ ~Sealing(y) /\ y.pc \notin ServePC /\ y.cur = v
  <1> DEFINE y == Settling(x, v, from, to, k)
             c == IF k = "enqueue" THEN x.b ELSE NoBundle
  <1>1. y = [pc |-> "settle", b |-> c, cur |-> v, from |-> from, to |-> to, k |-> k]
    BY DEF Settling
  <1>2. c \in Bundle \cup {NoBundle} /\ k \in {"idle", "enqueue", "next"}
    OBVIOUS
  <1>3. y \in Thread
    BY <1>1, <1>2 DEF Thread, AllPC, SettlePC
  <1>4. /\ y.pc = "settle" /\ y.b = c /\ y.cur = v /\ y.to = to /\ y.k = k
    BY <1>1
  <1> HIDE DEF y
  <1>5. /\ y.pc \notin RestPC /\ y.pc \notin AfterPush /\ y.pc \notin VerdictPC
        /\ y.pc \notin ServePC
    BY <1>4 DEF RestPC, AfterPush, VerdictPC, ServePC, HandlerPC, WorkerPC, RetryPC
  <1>6. Fit(y)
    BY <1>3, <1>4, <1>5 DEF Fit
  <1>7. LeftIn(y) = "any" /\ ~Sealing(y)
    BY <1>4 DEF LeftIn, Sealing
  <1> QED
    BY <1>4, <1>5, <1>6, <1>7 DEF y

(***************************************************************************)
(* A thread settles the bundle that it serves.                             *)
(***************************************************************************)
LEMMA SettlingOwn ==
    ASSUME NEW x, Fit(x), x.pc \in ServePC, NEW from \in BundleState, NEW to \in Decisions,
           NEW k \in {"idle", "next"}
    PROVE  QuietMove(x, Settling(x, x.b, from, to, k))
  <1> DEFINE y == Settling(x, x.b, from, to, k)
  <1>1. x.b \in Bundle
    BY DEF Fit
  <1>2. Fit(y) /\ LeftIn(y) = "any" /\ ~Sealing(y) /\ y.pc \notin ServePC /\ y.cur = x.b
    BY <1>1, SettlingFits
  <1> QED
    BY <1>2 DEF QuietMove, Narrows

(***************************************************************************)
(* A thread that begins to serve a bundle.                                 *)
(***************************************************************************)
LEMMA ServingFits ==
    ASSUME NEW l \in {"validate", "check", "requeue", "enqueue"}, NEW b \in Bundle
    PROVE  LET y == [Resting(l) EXCEPT !.b = b]
           IN  Fit(y) /\ LeftIn(y) = "any" /\ ~Sealing(y) /\ y.pc = l /\ y.b = b /\ y.cur = NoBundle
  <1> DEFINE y == [Resting(l) EXCEPT !.b = b]
  <1>1. y = [pc |-> l, b |-> b, cur |-> NoBundle, from |-> "none", to |-> "none", k |-> "none"]
    BY DEF Resting
  <1>2. y \in Thread
    BY <1>1 DEF Thread, AllPC, HandlerPC, WorkerPC, RetryPC
  <1>3. y.pc = l /\ y.b = b /\ y.cur = NoBundle /\ y.k = "none"
    BY <1>1
  <1> HIDE DEF y
  <1>4. l \notin RestPC /\ l \notin VerdictPC /\ l \notin SettlePC \cup {"result"}
    BY DEF RestPC, VerdictPC, SettlePC
  <1>5. Fit(y)
    BY <1>2, <1>3, <1>4 DEF Fit
  <1>6. LeftIn(y) = "any" /\ ~Sealing(y)
    BY <1>3 DEF LeftIn, Sealing
  <1> QED
    BY <1>3, <1>5, <1>6 DEF y

(***************************************************************************)
(* The steps from one place of the code to the next that leave the state   *)
(* of the record alone.                                                    *)
(***************************************************************************)
Onward == {<<"emitValidated", "admit">>, <<"admit", "reserve">>, <<"reserve", "push">>,
           <<"check", "pick">>, <<"emitPicked", "simulate">>, <<"simulate", "retry">>,
           <<"emitRetry", "count">>, <<"count", "schedule">>, <<"emitSimulated", "scored">>,
           <<"emitRequeued", "repush">>,
           <<"emitTerminal", "result">>, <<"emitTerminal", "persist">>, <<"result", "persist">>,
           <<"emitPersisted", "complete">>, <<"emitPersisted", "release">>,
           <<"emitCompleted", "seal">>, <<"emitCompleted", "release">>,
           <<"seal", "deleteEvents">>, <<"seal", "release">>, <<"deleteEvents", "release">>}

(***************************************************************************)
(* Such a step keeps the bundle, and the phase that the last transition    *)
(* began, or ends it.                                                      *)
(***************************************************************************)
LEMMA GoingOn ==
    ASSUME NEW x, Fit(x), NEW l, <<x.pc, l>> \in Onward
    PROVE  QuietMove(x, Going(x, l))
  <1> DEFINE y == [x EXCEPT !.pc = l]
  <1>1. Going(x, l) = y
    BY DEF Going, Onward
  <1>2. l \in AllPC /\ x \in Thread
    BY DEF Onward, AllPC, HandlerPC, WorkerPC, RetryPC, SettlePC, Fit
  <1>3. /\ y \in Thread /\ y.pc = l /\ y.b = x.b /\ y.cur = x.cur /\ y.to = x.to /\ y.k = x.k
    BY <1>2 DEF Thread
  <1>4. LeftIn(y) # "any" => LeftIn(y) = LeftIn(x)
    BY <1>3 DEF Onward, LeftIn
  <1>5. Sealing(y) => Sealing(x)
    BY <1>3 DEF Onward, Sealing
  <1>6. /\ l \notin RestPC /\ l \notin AfterPush
        /\ l \in ServePC => x.pc \in ServePC
        /\ l \in VerdictPC => x.pc \in VerdictPC
        /\ l \in SettlePC \cup {"result"} => x.pc \in SettlePC \cup {"result"}
    BY DEF Onward, RestPC, AfterPush, ServePC, VerdictPC, SettlePC, HandlerPC, WorkerPC, RetryPC
  <1>7. Fit(y)
    BY <1>3, <1>6 DEF Fit
  <1> QED
    BY <1>1, <1>3, <1>4, <1>5, <1>6, <1>7 DEF QuietMove, Narrows, Of

(***************************************************************************)
(* The steps that follow a transition of the record.                       *)
(***************************************************************************)
Advance == {<<"validate", "emitValidated">>, <<"enqueue", "emitQueued">>,
            <<"pick", "emitPicked">>, <<"retry", "emitRetry">>,
            <<"simulated", "emitSimulated">>, <<"scored", "emitScored">>,
            <<"requeue", "emitRequeued">>,
            <<"settle", "emitTerminal">>, <<"persist", "emitPersisted">>,
            <<"complete", "emitCompleted">>}

(***************************************************************************)
(* Such a step keeps the bundle too.                                       *)
(***************************************************************************)
LEMMA Advancing ==
    ASSUME NEW x, Fit(x), NEW l, <<x.pc, l>> \in Advance
    PROVE  /\ Narrows(x, Going(x, l)) /\ Of(Going(x, l)) = Of(x)
           /\ Going(x, l).pc = l /\ Going(x, l).to = x.to
  <1> DEFINE y == [x EXCEPT !.pc = l]
  <1>1. Going(x, l) = y
    BY DEF Going, Advance
  <1>2. l \in AllPC /\ x \in Thread
    BY DEF Advance, AllPC, HandlerPC, WorkerPC, RetryPC, SettlePC, Fit
  <1>3. /\ y \in Thread /\ y.pc = l /\ y.b = x.b /\ y.cur = x.cur /\ y.to = x.to /\ y.k = x.k
    BY <1>2 DEF Thread
  <1>4. /\ l \notin RestPC
        /\ l \in AfterPush => x.pc \in AfterPush
        /\ l \in ServePC => x.pc \in ServePC
        /\ l \in VerdictPC => x.pc \in VerdictPC
        /\ l \in SettlePC \cup {"result"} => x.pc \in SettlePC \cup {"result"}
    BY DEF Advance, RestPC, AfterPush, ServePC, VerdictPC, SettlePC, HandlerPC, WorkerPC, RetryPC
  <1>5. Fit(y)
    BY <1>3, <1>4 DEF Fit
  <1> QED
    BY <1>1, <1>3, <1>4, <1>5 DEF Narrows, Of

-----------------------------------------------------------------------------
(* What a step does to the shared state. *)

(***************************************************************************)
(* No record changes its state or its decision.                            *)
(***************************************************************************)
RecordsStay ==
    /\ rec' \in [Bundle -> Record]
    /\ \A b \in Bundle : rec'[b].State = rec[b].State /\ rec'[b].Terminal = rec[b].Terminal

Counts == faults' \in {faults, faults + 1}

(***************************************************************************)
(* Thread t becomes y; no record moves, and nobody begins to seal.         *)
(***************************************************************************)
Calm(t, y) ==
    /\ th' = [th EXCEPT ![t] = y]
    /\ Fit(y)
    /\ Sealing(y) => Sealing(th[t]) /\ y.cur = th[t].cur
    /\ LeftIn(y) # "any" => LeftIn(y) = LeftIn(th[t]) /\ Of(y) = Of(th[t])
    /\ RecordsStay /\ UNCHANGED checkpoints /\ Counts

Quiet(t) ==
    \E y : Calm(t, y) /\ Narrows(th[t], y) /\ UNCHANGED <<retries, queue, batch>>

(***************************************************************************)
(* A transition of the bundle that the thread works on, or the one of a    *)
(* submission from validated to queued after its push.                     *)
(***************************************************************************)
Changes(t) ==
    \E y, from, to : \E b \in Bundle :
        /\ th' = [th EXCEPT ![t] = y]
        /\ Narrows(th[t], y)
        /\ CanApply(b, from, to) /\ rec' = Moved(b, to)
        /\ LeftIn(y) # "any" => LeftIn(y) = to /\ Of(y) = b
        /\ (th[t].pc \in ServePC /\ th[t].b = b) \/ th[t].cur = b \/ from = "validated"
        /\ UNCHANGED <<checkpoints, retries, queue, batch>> /\ Counts

(***************************************************************************)
(* CreateBundle.                                                           *)
(***************************************************************************)
Accepts(t) ==
    \E y : \E b \in Bundle :
        /\ th' = [th EXCEPT ![t] = y]
        /\ Fit(y) /\ LeftIn(y) = "any" /\ y.cur = NoBundle /\ (y.pc \in ServePC => y.b = b)
        /\ rec[b].State = "none" /\ rec' = [rec EXCEPT ![b].State = "received"]
        /\ UNCHANGED <<checkpoints, retries, queue, batch>> /\ Counts

(***************************************************************************)
(* The checkpoint.                                                         *)
(***************************************************************************)
Seals(t) ==
    \E y :
        /\ th' = [th EXCEPT ![t] = y]
        /\ QuietMove(th[t], y) /\ Sealing(th[t]) /\ ~Sealing(y)
        /\ checkpoints' \in {checkpoints,
                             [checkpoints EXCEPT ![th[t].cur] = checkpoints[th[t].cur] + 1]}
        /\ UNCHANGED <<rec, retries, queue, batch>> /\ Counts

(***************************************************************************)
(* The steps that move a bundle from one place to another.                 *)
(***************************************************************************)
Schedules(t) ==
    \E y : /\ Calm(t, y)
           /\ th[t].pc \in ServePC /\ y.pc \notin ServePC
           /\ y.cur # NoBundle => faults' # 0
           /\ retries' = retries \cup {th[t].b} /\ UNCHANGED <<queue, batch>>

Pops(t) ==
    \E y : /\ Calm(t, y)
           /\ queue # << >> /\ queue' = Tail(queue)
           /\ y.cur = NoBundle /\ (y.pc \in ServePC => y.b = Head(queue))
           /\ UNCHANGED <<retries, batch>>

Pushes(t) ==
    \E y : /\ Calm(t, y)
           /\ th[t].pc \in ServePC /\ y.pc \notin ServePC
           /\ queue' = Pushed(th[t].b)
           /\ y.cur # NoBundle => Len(queue) >= QueueDepth /\ y.cur = queue[Len(queue)]
           /\ UNCHANGED <<retries, batch>>

Claims(t) ==
    \E y : \E due \in SUBSET retries :
           /\ Calm(t, y)
           /\ y.pc \notin ServePC /\ y.cur = NoBundle
           /\ retries' = retries \ due /\ batch' \in {batch, due}
           /\ UNCHANGED queue

Takes(t) ==
    \E y : \E b \in batch :
           /\ Calm(t, y)
           /\ y.pc \in ServePC => y.b = b
           /\ y.cur # NoBundle => y.cur = b
           /\ batch' = batch \ {b} /\ UNCHANGED <<retries, queue>>

(***************************************************************************)
(* A step that makes a quiet move of its thread and touches neither        *)
(* records nor places.                                                     *)
(***************************************************************************)
LEMMA QuietStep ==
    ASSUME Shape, NEW t \in Threads, NEW y, th' = [th EXCEPT ![t] = y], QuietMove(th[t], y),
           Counts, UNCHANGED <<rec, checkpoints, retries, queue, batch>>
    PROVE  Quiet(t)
  <1>1. RecordsStay
    BY DEF Shape, RecordsStay
  <1>2. Calm(t, y) /\ Narrows(th[t], y)
    BY <1>1 DEF Calm, QuietMove, Narrows
  <1> QED
    BY <1>2 DEF Quiet

(***************************************************************************)
(* A call of TransitionBundle, with or without success.                    *)
(***************************************************************************)
LEMMA TransitionStep ==
    ASSUME Shape, NEW t \in Threads, NEW b \in Bundle, NEW from, NEW to, NEW ok, NEW fail,
           Transition(t, b, from, to, ok, fail),
           QuietMove(th[t], Going(th[t], fail)), LeftIn(Going(th[t], fail)) = "any",
           Narrows(th[t], Going(th[t], ok)),
           LeftIn(Going(th[t], ok)) # "any" => LeftIn(Going(th[t], ok)) = to /\ Of(Going(th[t], ok)) = b,
           (th[t].pc \in ServePC /\ th[t].b = b) \/ th[t].cur = b \/ from = "validated"
    PROVE  Quiet(t) \/ Changes(t)
  <1>1. faults \in Nat
    BY DEF Shape
  <1>2. /\ Goto(t, ok) => th' = [th EXCEPT ![t] = Going(th[t], ok)]
        /\ Goto(t, fail) => th' = [th EXCEPT ![t] = Going(th[t], fail)]
    BY DEF Goto, Going
  <1>3. Counts /\ UNCHANGED <<checkpoints, retries, queue, batch>>
    BY DEF Transition, Fault, Counts
  <1>4. Narrows(th[t], Going(th[t], fail))
    BY DEF QuietMove
  <1>5. CASE CanApply(b, from, to) /\ rec' = Moved(b, to) /\ Goto(t, ok)
    BY <1>2, <1>3, <1>5 DEF Changes
  <1>6. CASE CanApply(b, from, to) /\ rec' = Moved(b, to) /\ Goto(t, fail)
    BY <1>2, <1>3, <1>4, <1>6 DEF Changes
  <1>7. CASE UNCHANGED rec /\ Goto(t, fail)
    BY <1>2, <1>3, <1>7, QuietStep
  <1> QED
    BY <1>5, <1>6, <1>7 DEF Transition

(***************************************************************************)
(* A call of emitTransition: both ways on are quiet.                       *)
(***************************************************************************)
LEMMA EmitStep ==
    ASSUME Shape, NEW t \in Threads, NEW b, NEW to, NEW ok, NEW fail, Emit(t, b, to, ok, fail),
           QuietMove(th[t], Going(th[t], ok)), QuietMove(th[t], Going(th[t], fail))
    PROVE  Quiet(t)
  <1>1. /\ Goto(t, ok) => th' = [th EXCEPT ![t] = Going(th[t], ok)]
        /\ Goto(t, fail) => th' = [th EXCEPT ![t] = Going(th[t], fail)]
    BY DEF Goto, Going
  <1>2. Counts /\ UNCHANGED <<rec, checkpoints, retries, queue, batch>>
    BY DEF Emit, Fault, Counts
  <1>3. CASE Goto(t, ok)
    BY <1>1, <1>2, <1>3, QuietStep
  <1>4. CASE Goto(t, fail)
    BY <1>1, <1>2, <1>4, QuietStep
  <1> QED
    BY <1>3, <1>4 DEF Emit

(***************************************************************************)
(* The places of the code where a thread serves a bundle.                  *)
(***************************************************************************)
LEMMA Serving ==
    ServePC = {"validate", "emitValidated", "admit", "reserve", "push",
               "check", "pick", "emitPicked", "simulate", "retry", "emitRetry", "count",
               "schedule", "simulated", "emitSimulated", "scored", "emitScored",
               "requeue", "emitRequeued", "repush"}
  BY DEF ServePC, HandlerPC, WorkerPC, RetryPC, RestPC, AfterPush

(***************************************************************************)
(* The steps of a terminalisation.                                         *)
(***************************************************************************)
LEMMA SettleSteps ==
    ASSUME Shape, NEW t \in Threads, SettleStep(t)
    PROVE  Quiet(t) \/ Changes(t) \/ Seals(t)
  <1> DEFINE x == th[t]
  <1>1. Fit(x)
    BY DEF Shape
  <1> USE <1>1
  <1>2. /\ x.pc \in SettlePC
        /\ QuietMove(x, Going(x, x.k)) /\ LeftIn(Going(x, x.k)) = "any"
        /\ x.cur \in Bundle /\ x.to \in Decisions
    <2>1. x.pc \in SettlePC
      BY DEF SettleStep, SettleTransition, EmitTerminal, Persist, EmitPersisted, Complete,
             EmitCompleted, Seal, DeleteEvents, Release, SettlePC
    <2>2. x.cur \in Bundle /\ x.to \in Decisions
      BY <2>1 DEF Fit
    <2>3. QuietMove(x, Going(x, x.k)) /\ LeftIn(Going(x, x.k)) = "any"
      BY <2>1, GoingBack
    <2> QED
      BY <2>1, <2>2, <2>3
  <1>3. Of(x) = x.cur
    <2>1. NoBundle \notin Bundle
      BY RelayAssumption DEF NoBundle
    <2> QED
      BY <1>2, <2>1 DEF Of
  <1>4. \A l : Goto(t, l) => th' = [th EXCEPT ![t] = Going(x, l)]
    BY DEF Goto, Going
  <1>5. CASE SettleTransition(t)
    <2>1. x.pc = "settle" /\ Transition(t, x.cur, x.from, x.to, "emitTerminal", x.k)
      BY <1>5 DEF SettleTransition
    <2> DEFINE y == Going(x, "emitTerminal")
    <2>2. Narrows(x, y) /\ Of(y) = x.cur /\ y.pc = "emitTerminal" /\ y.to = x.to
      BY <2>1, <1>3, Advancing DEF Advance
    <2>3. LeftIn(y) = x.to
      BY <2>2 DEF LeftIn
    <2> QED
      BY <2>1, <2>2, <2>3, <1>2, TransitionStep
  <1>6. CASE EmitTerminal(t)
    <2> DEFINE l == IF x.from = "scored" THEN "result" ELSE "persist"
    <2>1. x.pc = "emitTerminal" /\ Emit(t, x.cur, x.to, l, x.k)
      BY <1>6 DEF EmitTerminal
    <2>2. <<x.pc, l>> \in Onward
      BY <2>1 DEF Onward
    <2>3. QuietMove(x, Going(x, l))
      BY <2>2, GoingOn
    <2> QED
      BY <2>1, <2>3, <1>2, EmitStep
  <1>7. CASE Persist(t)
    <2>1. x.pc = "persist" /\ Transition(t, x.cur, x.to, "persisted", "emitPersisted", x.k)
      BY <1>7 DEF Persist
    <2> DEFINE y == Going(x, "emitPersisted")
    <2>2. Narrows(x, y) /\ Of(y) = x.cur /\ y.pc = "emitPersisted"
      BY <2>1, <1>3, Advancing DEF Advance
    <2>3. LeftIn(y) = "persisted"
      BY <2>2 DEF LeftIn
    <2> QED
      BY <2>1, <2>2, <2>3, <1>2, TransitionStep
  <1>8. CASE EmitPersisted(t)
    <2>1. x.pc = "emitPersisted" /\ Emit(t, x.cur, "persisted", "complete", "release")
      BY <1>8 DEF EmitPersisted
    <2>2. QuietMove(x, Going(x, "complete")) /\ QuietMove(x, Going(x, "release"))
      BY <2>1, GoingOn DEF Onward
    <2> QED
      BY <2>1, <2>2, EmitStep
  <1>9. CASE Complete(t)
    <2>1. x.pc = "complete" /\ Transition(t, x.cur, "persisted", "completed", "emitCompleted", x.k)
      BY <1>9 DEF Complete
    <2> DEFINE y == Going(x, "emitCompleted")
    <2>2. Narrows(x, y) /\ Of(y) = x.cur /\ y.pc = "emitCompleted"
      BY <2>1, <1>3, Advancing DEF Advance
    <2>3. LeftIn(y) = "completed"
      BY <2>2 DEF LeftIn
    <2> QED
      BY <2>1, <2>2, <2>3, <1>2, TransitionStep
  <1>10. CASE EmitCompleted(t)
    <2>1. x.pc = "emitCompleted" /\ Emit(t, x.cur, "completed", "seal", "release")
      BY <1>10 DEF EmitCompleted
    <2>2. QuietMove(x, Going(x, "seal")) /\ QuietMove(x, Going(x, "release"))
      BY <2>1, GoingOn DEF Onward
    <2> QED
      BY <2>1, <2>2, EmitStep
  <1>11. CASE Seal(t)
    <2>1. /\ x.pc = "seal"
          /\ Goto(t, "deleteEvents") \/ Goto(t, "release")
          /\ checkpoints' \in {checkpoints, [checkpoints EXCEPT ![x.cur] = checkpoints[x.cur] + 1]}
          /\ Counts /\ UNCHANGED <<rec, retries, queue, batch>>
      BY <1>11 DEF Seal, Fault, Counts
    <2>2. \A l \in {"deleteEvents", "release"} :
            QuietMove(x, Going(x, l)) /\ ~Sealing(Going(x, l))
      <3> TAKE l \in {"deleteEvents", "release"}
      <3>1. <<x.pc, l>> \in Onward
        BY <2>1 DEF Onward
      <3>2. QuietMove(x, Going(x, l))
        BY <3>1, GoingOn
      <3>3. Going(x, l).pc = l
        BY DEF Going, Fit, Thread
      <3> QED
        BY <3>2, <3>3 DEF Sealing
    <2>3. Sealing(x)
      BY <2>1 DEF Sealing
    <2>4. PICK l \in {"deleteEvents", "release"} : Goto(t, l)
      BY <2>1
    <2>5. th' = [th EXCEPT ![t] = Going(x, l)]
      BY <1>4, <2>4
    <2> QED
      BY <2>1, <2>2, <2>3, <2>5 DEF Seals
  <1>12. CASE DeleteEvents(t)
    <2>1. /\ x.pc = "deleteEvents" /\ th' = [th EXCEPT ![t] = Going(x, "release")]
          /\ Counts /\ UNCHANGED <<rec, checkpoints, retries, queue, batch>>
      BY <1>12, <1>4 DEF DeleteEvents, Fault, Counts
    <2>2. QuietMove(x, Going(x, "release"))
      BY <2>1, GoingOn DEF Onward
    <2> QED
      BY <2>1, <2>2, QuietStep
  <1>13. CASE Release(t)
    <2>1. /\ th' = [th EXCEPT ![t] = Going(x, x.k)]
          /\ Counts /\ UNCHANGED <<rec, checkpoints, retries, queue, batch>>
      BY <1>13, <1>4 DEF Release, Fault, Counts
    <2> QED
      BY <2>1, <1>2, QuietStep
  <1> QED
    BY <1>5, <1>6, <1>7, <1>8, <1>9, <1>10, <1>11, <1>12, <1>13 DEF SettleStep

(***************************************************************************)
(* A thread pushes the bundle that it serves: it goes on as y, at rest     *)
(* after the push or settling the bundle that was pushed out.              *)
(***************************************************************************)
LEMMA PushStep ==
    ASSUME Shape, NEW t \in Threads, th[t].pc \in ServePC, NEW l \in {"enqueue", "next"},
           queue' = Pushed(th[t].b),
           IF PushedOut = {} THEN Goto(t, l)
                             ELSE \E v \in PushedOut : Settle(t, v, "queued", "rejected", l),
           UNCHANGED <<rec, checkpoints, retries, batch, faults>>
    PROVE  Pushes(t)
  <1> DEFINE x == th[t]
  <1>1. Fit(x) /\ x.b \in Bundle
    BY DEF Shape, Fit
  <1>2. RecordsStay /\ Counts
    BY DEF Shape, RecordsStay, Counts
  <1>3. CASE PushedOut = {}
    <2> DEFINE y == Going(x, l)
    <2>1. th' = [th EXCEPT ![t] = y]
      BY <1>3 DEF Goto, Going
    <2>2. Fit(y) /\ LeftIn(y) = "any" /\ ~Sealing(y) /\ y.cur = NoBundle /\ y.pc = l
      <3>1. CASE l = "enqueue"
        <4>1. y = [Resting("enqueue") EXCEPT !.b = x.b]
          BY <3>1 DEF Going
        <4> DEFINE z == [Resting("enqueue") EXCEPT !.b = x.b]
        <4>2. Fit(z) /\ LeftIn(z) = "any" /\ ~Sealing(z) /\ z.pc = "enqueue" /\ z.cur = NoBundle
          BY <1>1, ServingFits
        <4> HIDE DEF z
        <4> QED
          BY <3>1, <4>1, <4>2 DEF z
      <3>2. CASE l = "next"
        <4>1. y = Resting("next") /\ QuietMove(x, y) /\ LeftIn(y) = "any"
          BY <3>2, <1>1, GoingToRest DEF Going, RestPC
        <4>2. y.pc = "next" /\ y.cur = NoBundle
          BY <4>1 DEF Resting
        <4> QED
          BY <3>2, <4>1, <4>2 DEF QuietMove, Narrows, Sealing
      <3> QED
        BY <3>1, <3>2
    <2>3. y.pc \notin ServePC
      BY <2>2, Serving
    <2> HIDE DEF y
    <2>4. Calm(t, y)
      BY <2>1, <2>2, <1>2 DEF Calm
    <2> QED
      BY <2>2, <2>3, <2>4 DEF Pushes
  <1>4. CASE PushedOut # {}
    <2>1. PICK v \in PushedOut : Settle(t, v, "queued", "rejected", l)
      BY <1>4
    <2>2. Len(queue) >= QueueDepth /\ v = queue[Len(queue)]
      BY <1>4 DEF PushedOut
    <2>3. v \in Bundle
      BY <2>2, RelayAssumption DEF Shape
    <2> DEFINE y == Settling(x, v, "queued", "rejected", l)
    <2>4. th' = [th EXCEPT ![t] = y]
      BY <2>1 DEF Settle, Settling
    <2>5. Fit(y) /\ LeftIn(y) = "any" /\ ~Sealing(y) /\ y.pc \notin ServePC /\ y.cur = v
      <3>1. "queued" \in BundleState /\ "rejected" \in Decisions
        BY DEF BundleState, Decisions
      <3> QED
        BY <2>3, <3>1, <1>1, SettlingFits
    <2> HIDE DEF y
    <2>6. Calm(t, y)
      BY <2>4, <2>5, <1>2 DEF Calm
    <2> QED
      BY <2>2, <2>5, <2>6 DEF Pushes
  <1> QED
    BY <1>3, <1>4

(***************************************************************************)
(* The steps of a request handler.                                         *)
(***************************************************************************)
LEMMA HandlerSteps ==
    ASSUME Shape, NEW t \in Threads, HandlerStep(t)
    PROVE  Quiet(t) \/ Changes(t) \/ Accepts(t) \/ Pushes(t)
  <1> DEFINE x == th[t]
  <1>1. Fit(x)
    BY DEF Shape
  <1> USE <1>1
  <1>2. /\ QuietMove(x, Going(x, "idle")) /\ LeftIn(Going(x, "idle")) = "any"
    BY GoingToRest DEF RestPC
  <1>3. \A l : Goto(t, l) => th' = [th EXCEPT ![t] = Going(x, l)]
    BY DEF Goto, Going
  <1>4. ASSUME NEW b \in Bundle, Submit(t, b)
        PROVE  Accepts(t)
    <2>1. /\ x.pc = "idle" /\ rec[b].State = "none"
          /\ rec' = [rec EXCEPT ![b].State = "received"]
          /\ Counts /\ UNCHANGED <<checkpoints, retries, queue, batch>>
      BY <1>4 DEF Submit, Fault, Counts
    <2>2. CASE th' = [th EXCEPT ![t] = [Resting("validate") EXCEPT !.b = b]]
      <3> DEFINE y == [Resting("validate") EXCEPT !.b = b]
      <3>1. Fit(y) /\ LeftIn(y) = "any" /\ y.b = b /\ y.cur = NoBundle
        BY ServingFits
      <3> HIDE DEF y
      <3> QED
        BY <2>1, <2>2, <3>1 DEF Accepts, y
    <2>3. CASE UNCHANGED th
      <3>1. th' = [th EXCEPT ![t] = x]
        BY <2>3 DEF Shape
      <3>2. x.cur = NoBundle /\ x.pc \notin ServePC /\ LeftIn(x) = "any"
        <4>1. x = Resting("idle")
          BY <2>1 DEF Fit, RestPC
        <4>2. x.cur = NoBundle
          BY <4>1 DEF Resting
        <4> QED
          BY <2>1, <4>2, Serving DEF LeftIn
      <3> QED
        BY <2>1, <3>1, <3>2 DEF Accepts
    <2> QED
      BY <1>4, <2>2, <2>3 DEF Submit
  <1>5. CASE Validate(t)
    <2>1. x.pc = "validate" /\ Transition(t, x.b, "received", "validated", "emitValidated", "idle")
      BY <1>5 DEF Validate
    <2> DEFINE y == Going(x, "emitValidated")
    <2>2. Narrows(x, y) /\ y.pc = "emitValidated"
      BY <2>1, Advancing DEF Advance
    <2>3. LeftIn(y) = "any"
      BY <2>2 DEF LeftIn
    <2>4. x.pc \in ServePC /\ x.b \in Bundle
      BY <2>1, Serving DEF Fit
    <2> QED
      BY <2>1, <2>2, <2>3, <2>4, <1>2, TransitionStep
  <1>6. CASE EmitValidated(t)
    <2>1. x.pc = "emitValidated" /\ Emit(t, x.b, "validated", "admit", "idle")
      BY <1>6 DEF EmitValidated
    <2>2. QuietMove(x, Going(x, "admit"))
      BY <2>1, GoingOn DEF Onward
    <2> QED
      BY <2>1, <2>2, <1>2, EmitStep
  <1>7. ASSUME x.pc \in {"admit", "reserve", "push"},
               Settle(t, x.b, "validated", "rejected", "idle"), Counts,
               UNCHANGED <<rec, checkpoints, retries, queue, batch>>
        PROVE  Quiet(t)
    <2>1. x.pc \in ServePC /\ "validated" \in BundleState /\ "rejected" \in Decisions
      BY <1>7, Serving DEF BundleState, Decisions
    <2>2. QuietMove(x, Settling(x, x.b, "validated", "rejected", "idle"))
      BY <2>1, SettlingOwn
    <2>3. th' = [th EXCEPT ![t] = Settling(x, x.b, "validated", "rejected", "idle")]
      BY <1>7 DEF Settle, Settling
    <2> QED
      BY <1>7, <2>2, <2>3, QuietStep
  <1>8. CASE Admit(t)
    <2>1. /\ x.pc = "admit" /\ Counts /\ UNCHANGED <<rec, checkpoints, retries, queue, batch>>
          /\ Settle(t, x.b, "validated", "rejected", "idle") \/ Goto(t, "reserve")
      BY <1>8 DEF Admit, Counts, store
    <2>2. QuietMove(x, Going(x, "reserve"))
      BY <2>1, GoingOn DEF Onward
    <2>3. CASE Goto(t, "reserve")
      BY <2>1, <2>2, <2>3, <1>3, QuietStep
    <2> QED
      BY <2>1, <2>3, <1>7
  <1>9. CASE Reserve(t)
    <2>1. /\ x.pc = "reserve" /\ Counts /\ UNCHANGED <<rec, checkpoints, retries, queue, batch>>
          /\ Settle(t, x.b, "validated", "rejected", "idle") \/ Goto(t, "push")
      BY <1>9 DEF Reserve, Counts, Fault
    <2>2. QuietMove(x, Going(x, "push"))
      BY <2>1, GoingOn DEF Onward
    <2>3. CASE Goto(t, "push")
      BY <2>1, <2>2, <2>3, <1>3, QuietStep
    <2> QED
      BY <2>1, <2>3, <1>7
  <1>10. CASE Push(t)
    <2>1. /\ x.pc = "push" /\ Counts /\ UNCHANGED <<rec, checkpoints, retries, batch, faults>>
      BY <1>10 DEF Push, Counts, store
    <2>2. CASE Settle(t, x.b, "validated", "rejected", "idle") /\ UNCHANGED queue
      BY <2>1, <2>2, <1>7
    <2>3. CASE /\ queue' = Pushed(x.b)
               /\ IF PushedOut = {}
                    THEN Goto(t, "enqueue")
                    ELSE \E v \in PushedOut : Settle(t, v, "queued", "rejected", "enqueue")
      <3>1. x.pc \in ServePC
        BY <2>1, Serving
      <3> QED
        BY <2>1, <2>3, <3>1, PushStep
    <2> QED
      BY <1>10, <2>2, <2>3 DEF Push
  <1>11. CASE Enqueue(t)
    <2>1. x.pc = "enqueue" /\ Transition(t, x.b, "validated", "queued", "emitQueued", "idle")
      BY <1>11 DEF Enqueue
    <2> DEFINE y == Going(x, "emitQueued")
    <2>2. Narrows(x, y) /\ y.pc = "emitQueued"
      BY <2>1, Advancing DEF Advance
    <2>3. LeftIn(y) = "any"
      BY <2>2 DEF LeftIn
    <2>4. x.b \in Bundle
      BY <2>1 DEF Fit, AfterPush
    <2> QED
      BY <2>1, <2>2, <2>3, <2>4, <1>2, TransitionStep
  <1>12. CASE EmitQueued(t)
    BY <1>2, <1>12, EmitStep DEF EmitQueued
  <1> QED
    BY <1>4, <1>5, <1>6, <1>8, <1>9, <1>10, <1>11, <1>12 DEF HandlerStep

(***************************************************************************)
(* A transition that a thread makes of the bundle that it serves.          *)
(***************************************************************************)
LEMMA OwnTransition ==
    ASSUME Shape, NEW t \in Threads, th[t].pc \in ServePC, NEW from, NEW to, NEW ok,
           NEW fail \in {"idle", "next"}, <<th[t].pc, ok>> \in Advance,
           Transition(t, th[t].b, from, to, ok, fail),
           LeftIn(Going(th[t], ok)) = to
    PROVE  Quiet(t) \/ Changes(t)
  <1> DEFINE x == th[t]
             y == Going(x, ok)
  <1>1. Fit(x) /\ x.b \in Bundle /\ x.cur = NoBundle
    BY DEF Shape, Fit
  <1>2. Narrows(x, y) /\ Of(y) = Of(x)
    BY <1>1, Advancing
  <1>3. Of(x) = x.b
    BY <1>1 DEF Of
  <1>4. QuietMove(x, Going(x, fail)) /\ LeftIn(Going(x, fail)) = "any"
    BY <1>1, GoingToRest DEF RestPC
  <1> HIDE DEF y
  <1> QED
    BY <1>1, <1>2, <1>3, <1>4, TransitionStep DEF y

(***************************************************************************)
(* The steps of a worker.                                                  *)
(***************************************************************************)
LEMMA WorkerSteps ==
    ASSUME Shape, NEW t \in Threads, WorkerStep(t)
    PROVE  Quiet(t) \/ Changes(t) \/ Pops(t) \/ Schedules(t)
  <1> DEFINE x == th[t]
  <1>1. Fit(x)
    BY DEF Shape
  <1> USE <1>1
  <1>2. \A l \in {"idle", "done"} : QuietMove(x, Going(x, l)) /\ LeftIn(Going(x, l)) = "any"
    BY GoingToRest DEF RestPC
  <1>3. \A l : Goto(t, l) => th' = [th EXCEPT ![t] = Going(x, l)]
    BY DEF Goto, Going
  <1>4. CASE Pop(t)
    <2>1. /\ x.pc = "idle" /\ queue # << >> /\ queue' = Tail(queue)
          /\ RecordsStay /\ Counts /\ UNCHANGED <<checkpoints, retries, batch>>
      BY <1>4 DEF Pop, Counts, store, Shape, RecordsStay
    <2>2. CASE Goto(t, "done")
      <3> DEFINE y == Resting("done")
      <3>1. th' = [th EXCEPT ![t] = y] /\ QuietMove(x, y) /\ LeftIn(y) = "any"
        BY <2>2, <1>2, <1>3 DEF Going
      <3>2. y.cur = NoBundle /\ y.pc = "done"
        BY DEF Resting
      <3> HIDE DEF y
      <3>3. Calm(t, y)
        BY <2>1, <3>1 DEF Calm, QuietMove, Narrows
      <3> QED
        BY <2>1, <3>2, <3>3, Serving DEF Pops
    <2>3. CASE th' = [th EXCEPT ![t] = [Resting("check") EXCEPT !.b = Head(queue)]]
      <3> DEFINE y == [Resting("check") EXCEPT !.b = Head(queue)]
      <3>1. Head(queue) \in Bundle
        BY <2>1 DEF Shape
      <3>2. Fit(y) /\ LeftIn(y) = "any" /\ ~Sealing(y) /\ y.b = Head(queue) /\ y.cur = NoBundle
        BY <3>1, ServingFits
      <3> HIDE DEF y
      <3>3. Calm(t, y)
        BY <2>1, <2>3, <3>2 DEF Calm, y
      <3> QED
        BY <2>1, <3>2, <3>3 DEF Pops
    <2> QED
      BY <1>4, <2>2, <2>3 DEF Pop
  <1>5. CASE WorkerEnds(t)
    <2>1. /\ Goto(t, "done") /\ Counts /\ UNCHANGED <<rec, checkpoints, retries, queue, batch>>
      BY <1>5 DEF WorkerEnds, Counts, store
    <2> QED
      BY <2>1, <1>2, <1>3, QuietStep
  <1>6. ASSUME NEW from \in BundleState, NEW to \in Decisions, x.pc \in ServePC,
               Settle(t, x.b, from, to, "idle"), Counts,
               UNCHANGED <<rec, checkpoints, retries, queue, batch>>
        PROVE  Quiet(t)
    <2>1. QuietMove(x, Settling(x, x.b, from, to, "idle"))
      BY <1>6, SettlingOwn
    <2>2. th' = [th EXCEPT ![t] = Settling(x, x.b, from, to, "idle")]
      BY <1>6 DEF Settle, Settling
    <2> QED
      BY <1>6, <2>1, <2>2, QuietStep
  <1>7. /\ {"queued", "simulating", "scored", "retry_pending"} \subseteq BundleState
        /\ {"rejected", "dead_letter"} \subseteq Decisions
    BY DEF BundleState, Decisions
  <1>8. CASE Check(t)
    <2>1. /\ x.pc = "check" /\ Counts /\ UNCHANGED <<rec, checkpoints, retries, queue, batch>>
          /\ Goto(t, "idle") \/ Settle(t, x.b, "queued", "rejected", "idle") \/ Goto(t, "pick")
      BY <1>8 DEF Check, Counts, Fault, store
    <2>2. QuietMove(x, Going(x, "pick")) /\ x.pc \in ServePC
      BY <2>1, GoingOn, Serving DEF Onward
    <2>3. CASE Goto(t, "idle")
      BY <2>1, <2>3, <1>2, <1>3, QuietStep
    <2>4. CASE Goto(t, "pick")
      BY <2>1, <2>2, <2>4, <1>3, QuietStep
    <2>5. CASE Settle(t, x.b, "queued", "rejected", "idle")
      BY <2>1, <2>2, <2>5, <1>6, <1>7
    <2> QED
      BY <2>1, <2>3, <2>4, <2>5
  <1>9. ASSUME NEW from, NEW to, NEW ok, <<x.pc, ok>> \in Advance, x.pc \in ServePC,
               Transition(t, x.b, from, to, ok, "idle"),
               \A y : y.pc = ok => LeftIn(y) = to
        PROVE  Quiet(t) \/ Changes(t)
    <2>1. Going(x, ok).pc = ok
      BY <1>9, Advancing
    <2> QED
      BY <1>9, <2>1, OwnTransition
  <1>10. CASE Pick(t)
    <2>1. x.pc = "pick" /\ Transition(t, x.b, "queued", "simulating", "emitPicked", "idle")
      BY <1>10 DEF Pick
    <2>2. \A y : y.pc = "emitPicked" => LeftIn(y) = "simulating"
      BY DEF LeftIn
    <2>3. x.pc \in ServePC /\ <<x.pc, "emitPicked">> \in Advance
      BY <2>1, Serving DEF Advance
    <2> QED
      BY <2>1, <2>2, <2>3, <1>9
  <1>11. CASE EmitPicked(t)
    <2>1. x.pc = "emitPicked" /\ Emit(t, x.b, "simulating", "simulate", "idle")
      BY <1>11 DEF EmitPicked
    <2>2. QuietMove(x, Going(x, "simulate"))
      BY <2>1, GoingOn DEF Onward
    <2> QED
      BY <2>1, <2>2, <1>2, EmitStep
  <1>12. CASE Simulate(t)
    <2>1. /\ x.pc = "simulate" /\ Counts /\ UNCHANGED <<rec, checkpoints, retries, queue, batch>>
          /\ x.pc \in ServePC
      BY <1>12, Serving DEF Simulate, Counts, store
    <2>2. CASE Goto(t, "retry")
      <3>1. QuietMove(x, Going(x, "retry"))
        BY <2>1, GoingOn DEF Onward
      <3> QED
        BY <2>1, <2>2, <3>1, <1>3, QuietStep
    <2>3. CASE Settle(t, x.b, "simulating", "dead_letter", "idle")
      BY <2>1, <2>3, <1>6, <1>7
    <2>4. ASSUME NEW verdict \in {"forwarded", "rejected"},
                 th' = [th EXCEPT ![t].pc = "simulated", ![t].to = verdict]
          PROVE  Quiet(t)
      <3> DEFINE y == [x EXCEPT !.pc = "simulated", !.to = verdict]
      <3>1. th' = [th EXCEPT ![t] = y]
        BY <2>4 DEF Shape
      <3>2. x \in Thread /\ x.b \in Bundle /\ x.cur = NoBundle /\ x.k = "none"
        BY <2>1 DEF Fit
      <3>3. /\ y \in Thread /\ y.pc = "simulated" /\ y.to = verdict
            /\ y.b = x.b /\ y.cur = NoBundle /\ y.k = "none"
        BY <3>2 DEF Thread, AllPC, WorkerPC, Decisions
      <3> HIDE DEF y
      <3>4. y.pc \notin RestPC \cup SettlePC \cup {"result"} /\ y.to \in Decisions
        BY <3>3 DEF RestPC, SettlePC, Decisions
      <3>5. Fit(y)
        BY <3>2, <3>3, <3>4 DEF Fit
      <3>6. ~Sealing(y) /\ LeftIn(y) = "simulating" /\ LeftIn(x) = "simulating" /\ Of(y) = Of(x)
        BY <2>1, <3>2, <3>3 DEF Sealing, LeftIn, Of
      <3>7. QuietMove(x, y)
        BY <2>1, <3>2, <3>3, <3>5, <3>6, RelayAssumption DEF QuietMove, Narrows, NoBundle
      <3> QED
        BY <2>1, <3>1, <3>7, QuietStep
    <2> QED
      BY <1>12, <2>2, <2>3, <2>4 DEF Simulate
  <1>13. CASE Retry(t)
    <2>1. x.pc = "retry" /\ Transition(t, x.b, "simulating", "retry_pending", "emitRetry", "idle")
      BY <1>13 DEF Retry
    <2>2. \A y : y.pc = "emitRetry" => LeftIn(y) = "retry_pending"
      BY DEF LeftIn
    <2>3. x.pc \in ServePC /\ <<x.pc, "emitRetry">> \in Advance
      BY <2>1, Serving DEF Advance
    <2> QED
      BY <2>1, <2>2, <2>3, <1>9
  <1>14. CASE EmitRetry(t)
    <2>1. x.pc = "emitRetry" /\ Emit(t, x.b, "retry_pending", "count", "idle")
      BY <1>14 DEF EmitRetry
    <2>2. QuietMove(x, Going(x, "count"))
      BY <2>1, GoingOn DEF Onward
    <2> QED
      BY <2>1, <2>2, <1>2, EmitStep
  <1>15. CASE Count(t)
    <2>1. /\ x.pc = "count" /\ Counts /\ UNCHANGED <<checkpoints, retries, queue, batch>>
          /\ rec' \in {rec, [rec EXCEPT ![x.b].RetryCount = @ + 1]}
          /\ Goto(t, "schedule") \/ Goto(t, "idle")
      BY <1>15 DEF Count, Counts, Fault
    <2>2. x.b \in Bundle
      BY <2>1, Serving DEF Fit
    <2>3. RecordsStay
      <3>1. CASE rec' = rec
        BY <3>1 DEF RecordsStay, Shape
      <3>2. CASE rec' = [rec EXCEPT ![x.b].RetryCount = @ + 1]
        <4> DEFINE r == [rec[x.b] EXCEPT !.RetryCount = @ + 1]
        <4>1. rec' = [rec EXCEPT ![x.b] = r] /\ rec[x.b] \in Record
          BY <2>2, <3>2 DEF Shape
        <4>2. r \in Record /\ r.State = rec[x.b].State /\ r.Terminal = rec[x.b].Terminal
          BY <4>1 DEF Record
        <4> HIDE DEF r
        <4> QED
          BY <2>2, <4>1, <4>2 DEF RecordsStay, Shape
      <3> QED
        BY <2>1, <3>1, <3>2
    <2>4. QuietMove(x, Going(x, "schedule"))
      BY <2>1, GoingOn DEF Onward
    <2>5. PICK l \in {"schedule", "idle"} : Goto(t, l)
      BY <2>1
    <2>6. QuietMove(x, Going(x, l)) /\ th' = [th EXCEPT ![t] = Going(x, l)]
      BY <2>4, <2>5, <1>2, <1>3
    <2>7. Calm(t, Going(x, l)) /\ Narrows(x, Going(x, l))
      BY <2>1, <2>3, <2>6 DEF Calm, QuietMove, Narrows
    <2> QED
      BY <2>1, <2>7 DEF Quiet
  <1>16. CASE Schedule(t)
    <2>1. /\ x.pc = "schedule" /\ Counts /\ UNCHANGED <<rec, checkpoints, queue, batch>>
          /\ retries' \in {retries, retries \cup {x.b}}
          /\ \/ Goto(t, "idle") /\ retries' = retries \cup {x.b}
             \/ Settle(t, x.b, "retry_pending", "dead_letter", "idle") /\ faults' = faults + 1
      BY <1>16 DEF Schedule, Counts, Fault
    <2>2. x.pc \in ServePC /\ x.b \in Bundle
      BY <2>1, Serving DEF Fit
    <2>3. CASE UNCHANGED retries /\ Settle(t, x.b, "retry_pending", "dead_letter", "idle")
      BY <2>1, <2>2, <2>3, <1>6, <1>7
    <2>4. RecordsStay
      BY <2>1 DEF RecordsStay, Shape
    <2>5. CASE Goto(t, "idle") /\ retries' = retries \cup {x.b}
      <3> DEFINE y == Resting("idle")
      <3>1. th' = [th EXCEPT ![t] = y] /\ QuietMove(x, y)
        BY <2>5, <1>2, <1>3 DEF Going
      <3>2. y.cur = NoBundle /\ y.pc = "idle"
        BY DEF Resting
      <3> HIDE DEF y
      <3>3. Calm(t, y)
        BY <2>1, <2>4, <3>1 DEF Calm, QuietMove, Narrows
      <3>4. y.pc \notin ServePC
        BY <3>2, Serving
      <3> QED
        BY <2>1, <2>2, <2>5, <3>2, <3>3, <3>4 DEF Schedules
    <2>6. CASE /\ Settle(t, x.b, "retry_pending", "dead_letter", "idle")
               /\ retries' = retries \cup {x.b} /\ faults' = faults + 1
      <3> DEFINE y == Settling(x, x.b, "retry_pending", "dead_letter", "idle")
      <3>1. th' = [th EXCEPT ![t] = y]
        BY <2>6 DEF Settle, Settling
      <3>2. Fit(y) /\ LeftIn(y) = "any" /\ ~Sealing(y) /\ y.pc \notin ServePC
        BY <2>2, <1>7, SettlingFits
      <3> HIDE DEF y
      <3>3. Calm(t, y)
        BY <2>1, <2>4, <3>1, <3>2 DEF Calm
      <3>4. faults' # 0
        BY <2>6 DEF Shape
      <3> QED
        BY <2>1, <2>2, <2>6, <3>2, <3>3, <3>4 DEF Schedules
    <2> QED
      BY <2>1, <2>3, <2>5, <2>6
  <1>17. CASE Simulated(t)
    <2>1. x.pc = "simulated" /\ Transition(t, x.b, "simulating", "simulated", "emitSimulated", "idle")
      BY <1>17 DEF Simulated
    <2>2. \A y : y.pc = "emitSimulated" => LeftIn(y) = "simulated"
      BY DEF LeftIn
    <2>3. x.pc \in ServePC /\ <<x.pc, "emitSimulated">> \in Advance
      BY <2>1, Serving DEF Advance
    <2> QED
      BY <2>1, <2>2, <2>3, <1>9
  <1>18. CASE EmitSimulated(t)
    <2>1. x.pc = "emitSimulated" /\ Emit(t, x.b, "simulated", "scored", "idle")
      BY <1>18 DEF EmitSimulated
    <2>2. QuietMove(x, Going(x, "scored"))
      BY <2>1, GoingOn DEF Onward
    <2> QED
      BY <2>1, <2>2, <1>2, EmitStep
  <1>19. CASE Scored(t)
    <2>1. x.pc = "scored" /\ Transition(t, x.b, "simulated", "scored", "emitScored", "idle")
      BY <1>19 DEF Scored
    <2>2. \A y : y.pc = "emitScored" => LeftIn(y) = "scored"
      BY DEF LeftIn
    <2>3. x.pc \in ServePC /\ <<x.pc, "emitScored">> \in Advance
      BY <2>1, Serving DEF Advance
    <2> QED
      BY <2>1, <2>2, <2>3, <1>9
  <1>20. CASE EmitScored(t)
    <2>1. /\ x.pc = "emitScored" /\ Counts /\ UNCHANGED <<rec, checkpoints, retries, queue, batch>>
          /\ Settle(t, x.b, "scored", x.to, "idle") \/ Goto(t, "idle")
      BY <1>20 DEF EmitScored, Counts, Fault
    <2>2. x.pc \in ServePC /\ x.to \in Decisions
      BY <2>1, Serving DEF Fit, VerdictPC
    <2>3. CASE Settle(t, x.b, "scored", x.to, "idle")
      BY <2>1, <2>2, <2>3, <1>6, <1>7
    <2>4. CASE Goto(t, "idle")
      BY <2>1, <2>4, <1>2, <1>3, QuietStep
    <2> QED
      BY <2>1, <2>3, <2>4
  <1>21. CASE Result(t)
    <2>1. /\ x.pc = "result" /\ Counts /\ UNCHANGED <<rec, checkpoints, retries, queue, batch>>
          /\ Goto(t, "persist") \/ Goto(t, "idle")
      BY <1>21 DEF Result, Counts, Fault, store
    <2>2. QuietMove(x, Going(x, "persist"))
      BY <2>1, GoingOn DEF Onward
    <2>3. CASE Goto(t, "persist")
      BY <2>1, <2>2, <2>3, <1>3, QuietStep
    <2>4. CASE Goto(t, "idle")
      BY <2>1, <2>4, <1>2, <1>3, QuietStep
    <2> QED
      BY <2>1, <2>3, <2>4
  <1> QED
    BY <1>4, <1>5, <1>8, <1>10, <1>11, <1>12, <1>13, <1>14, <1>15, <1>16, <1>17, <1>18, <1>19,
       <1>20, <1>21 DEF WorkerStep

(***************************************************************************)
(* The steps of the retry loop.                                            *)
(***************************************************************************)
LEMMA RetrySteps ==
    ASSUME Shape, NEW t \in Threads, t = RetryLoop, RetryStep
    PROVE  Quiet(t) \/ Changes(t) \/ Claims(t) \/ Takes(t) \/ Pushes(t)
  <1> DEFINE x == th[t]
  <1>1. Fit(x)
    BY DEF Shape
  <1> USE <1>1
  <1>2. \A l \in {"idle", "next", "done"} :
          QuietMove(x, Going(x, l)) /\ LeftIn(Going(x, l)) = "any" /\ Going(x, l) = Resting(l)
    BY GoingToRest DEF RestPC, Going
  <1>3. \A l : Goto(t, l) => th' = [th EXCEPT ![t] = Going(x, l)]
    BY DEF Goto, Going
  <1>4. /\ {"queued", "retry_pending"} \subseteq BundleState
        /\ {"rejected", "dead_letter"} \subseteq Decisions
    BY DEF BundleState, Decisions
  <1>5. x.pc \in {"idle", "next"} => /\ x = Resting(x.pc) /\ x.cur = NoBundle
                                     /\ x.pc \notin ServePC /\ LeftIn(x) = "any" /\ ~Sealing(x)
    <2> SUFFICES ASSUME x.pc \in {"idle", "next"}
                 PROVE  /\ x = Resting(x.pc) /\ x.cur = NoBundle
                        /\ x.pc \notin ServePC /\ LeftIn(x) = "any" /\ ~Sealing(x)
      OBVIOUS
    <2>1. x = Resting(x.pc)
      BY DEF Fit, RestPC
    <2>2. x.cur = NoBundle
      BY <2>1 DEF Resting
    <2> QED
      BY <2>1, <2>2, Serving DEF LeftIn, Sealing
  <1>6. ASSUME UNCHANGED th
        PROVE  th' = [th EXCEPT ![t] = x]
    BY <1>6 DEF Shape
  <1>7. ASSUME NEW due \in SUBSET retries, Claim(due) \/ ClaimLost(due)
        PROVE  Claims(t)
    <2>1. /\ x.pc = "idle" /\ retries' = retries \ due /\ batch' \in {batch, due}
          /\ RecordsStay /\ Counts /\ UNCHANGED <<checkpoints, queue>>
          /\ UNCHANGED th \/ Goto(t, "next")
      BY <1>7 DEF Claim, ClaimLost, Counts, Fault, RecordsStay, Shape
    <2>2. CASE UNCHANGED th
      <3>1. Calm(t, x)
        BY <2>1, <2>2, <1>5, <1>6 DEF Calm
      <3> QED
        BY <2>1, <3>1, <1>5 DEF Claims
    <2>3. CASE Goto(t, "next")
      <3> DEFINE y == Resting("next")
      <3>1. th' = [th EXCEPT ![t] = y] /\ QuietMove(x, y)
        BY <2>3, <1>2, <1>3
      <3>2. y.cur = NoBundle /\ y.pc = "next"
        BY DEF Resting
      <3> HIDE DEF y
      <3>3. Calm(t, y)
        BY <2>1, <3>1 DEF Calm, QuietMove, Narrows
      <3>4. y.pc \notin ServePC
        BY <3>2, Serving
      <3> QED
        BY <2>1, <3>2, <3>3, <3>4 DEF Claims
    <2> QED
      BY <2>1, <2>2, <2>3
  <1>8. CASE LoopEnds \/ BatchDone
    <2>1. /\ Goto(t, "done") \/ Goto(t, "idle")
          /\ Counts /\ UNCHANGED <<rec, checkpoints, retries, queue, batch>>
      BY <1>8 DEF LoopEnds, BatchDone, Counts, store
    <2>2. PICK l \in {"done", "idle"} : Goto(t, l)
      BY <2>1
    <2> QED
      BY <2>1, <2>2, <1>2, <1>3, QuietStep
  <1>9. ASSUME NEW b \in batch, ProcessRetry(b)
        PROVE  Takes(t)
    <2>1. /\ x.pc = "next" /\ batch' = batch \ {b} /\ b \in Bundle
          /\ RecordsStay /\ Counts /\ UNCHANGED <<checkpoints, retries, queue>>
      BY <1>9 DEF ProcessRetry, Counts, Fault, store, RecordsStay, Shape
    <2>2. CASE UNCHANGED th
      <3>1. Calm(t, x)
        BY <2>1, <2>2, <1>5, <1>6 DEF Calm
      <3> QED
        BY <2>1, <3>1, <1>5 DEF Takes
    <2>3. CASE Settle(t, b, "retry_pending", "dead_letter", "next")
      <3> DEFINE y == Settling(x, b, "retry_pending", "dead_letter", "next")
      <3>1. th' = [th EXCEPT ![t] = y]
        BY <2>3 DEF Settle, Settling
      <3>2. Fit(y) /\ LeftIn(y) = "any" /\ ~Sealing(y) /\ y.pc \notin ServePC /\ y.cur = b
        BY <2>1, <1>4, SettlingFits
      <3> HIDE DEF y
      <3>3. Calm(t, y)
        BY <2>1, <3>1, <3>2 DEF Calm
      <3> QED
        BY <2>1, <3>2, <3>3 DEF Takes
    <2>4. CASE th' = [th EXCEPT ![t] = [Resting("requeue") EXCEPT !.b = b]]
      <3> DEFINE y == [Resting("requeue") EXCEPT !.b = b]
      <3>1. Fit(y) /\ LeftIn(y) = "any" /\ ~Sealing(y) /\ y.b = b /\ y.cur = NoBundle
        BY <2>1, ServingFits
      <3> HIDE DEF y
      <3>2. Calm(t, y)
        BY <2>1, <2>4, <3>1 DEF Calm, y
      <3> QED
        BY <2>1, <3>1, <3>2 DEF Takes
    <2> QED
      BY <1>9, <2>2, <2>3, <2>4 DEF ProcessRetry
  <1>10. CASE Requeue
    <2>1. x.pc = "requeue" /\ Transition(t, x.b, "retry_pending", "queued", "emitRequeued", "next")
      BY <1>10 DEF Requeue
    <2>2. x.pc \in ServePC /\ <<x.pc, "emitRequeued">> \in Advance
      BY <2>1, Serving DEF Advance
    <2>3. Going(x, "emitRequeued").pc = "emitRequeued"
      BY <2>2, Advancing
    <2>4. LeftIn(Going(x, "emitRequeued")) = "queued"
      BY <2>3 DEF LeftIn
    <2> QED
      BY <2>1, <2>2, <2>4, OwnTransition
  <1>11. CASE EmitRequeued
    <2>1. x.pc = "emitRequeued" /\ Emit(t, x.b, "queued", "repush", "next")
      BY <1>11 DEF EmitRequeued
    <2>2. QuietMove(x, Going(x, "repush"))
      BY <2>1, GoingOn DEF Onward
    <2> QED
      BY <2>1, <2>2, <1>2, EmitStep
  <1>12. CASE Repush
    <2>1. /\ x.pc = "repush" /\ Counts /\ UNCHANGED <<rec, checkpoints, retries, batch, faults>>
          /\ x.pc \in ServePC
      BY <1>12, Serving DEF Repush, Counts, store
    <2>2. CASE Settle(t, x.b, "queued", "dead_letter", "next") /\ UNCHANGED queue
      <3>1. QuietMove(x, Settling(x, x.b, "queued", "dead_letter", "next"))
        BY <2>1, <1>4, SettlingOwn
      <3>2. th' = [th EXCEPT ![t] = Settling(x, x.b, "queued", "dead_letter", "next")]
        BY <2>2 DEF Settle, Settling
      <3> QED
        BY <2>1, <2>2, <3>1, <3>2, QuietStep
    <2>3. CASE /\ queue' = Pushed(x.b)
               /\ IF PushedOut = {}
                    THEN Goto(t, "next")
                    ELSE \E v \in PushedOut : Settle(t, v, "queued", "rejected", "next")
      BY <2>1, <2>3, PushStep
    <2> QED
      BY <1>12, <2>2, <2>3 DEF Repush
  <1> QED
    BY <1>7, <1>8, <1>9, <1>10, <1>11, <1>12 DEF RetryStep

(***************************************************************************)
(* What a step of the relay is: every action falls under one of the kinds  *)
(* above, or leaves threads, records and places alone.                     *)
(***************************************************************************)
Mover(t) == Schedules(t) \/ Pops(t) \/ Pushes(t) \/ Claims(t) \/ Takes(t)

Idle == UNCHANGED <<rec, checkpoints, retries, queue, batch, th, faults>>

(***************************************************************************)
(* There is no other kind of step.                                         *)
(***************************************************************************)
LEMMA StepKinds ==
    ASSUME Shape, [Next]_vars
    PROVE  \/ Idle
           \/ \E t \in Threads : Quiet(t) \/ Changes(t) \/ Accepts(t) \/ Seals(t) \/ Mover(t)
  <1>1. CASE UNCHANGED vars
    BY <1>1 DEF vars, store, Idle
  <1>2. CASE Drain \/ Stop
    BY <1>2 DEF Drain, Stop, store, Idle
  <1>3. ASSUME NEW t \in Threads, ThreadStep(t)
        PROVE  Quiet(t) \/ Changes(t) \/ Accepts(t) \/ Seals(t) \/ Mover(t)
    BY <1>3, SettleSteps, HandlerSteps, WorkerSteps, RetrySteps DEF ThreadStep, Mover
  <1> QED
    BY <1>1, <1>2, <1>3 DEF Next

-----------------------------------------------------------------------------
(* The ledger. *)

(***************************************************************************)
(* The lifecycle decides once: a decision is entered from states without   *)
(* one, and nothing leads out of the decided states or out of completed.   *)
(***************************************************************************)
LEMMA LifecycleDecidesOnce ==
    ASSUME NEW from, NEW to, CanTransition(from, to)
    PROVE  /\ to \in BundleState /\ from # "none" /\ from # "completed"
           /\ to \in Decisions => from \notin DecidedStates
           /\ to \notin Decisions => (to \in DecidedStates <=> from \in DecidedStates)
  BY DEF CanTransition, AllowedNext, BundleState, DecidedStates, Decisions

(***************************************************************************)
(* What TransitionBundle leaves in the store.                              *)
(***************************************************************************)
LEMMA MovedRecord ==
    ASSUME Shape, NEW b \in Bundle, NEW from, NEW to, CanApply(b, from, to)
    PROVE  /\ Moved(b, to) \in [Bundle -> Record]
           /\ Moved(b, to)[b].State = to
           /\ Moved(b, to)[b].Terminal = IF to \in Decisions THEN to ELSE rec[b].Terminal
           /\ \A c \in Bundle : c # b => Moved(b, to)[c] = rec[c]
  <1> DEFINE d == IF to \in Decisions THEN to ELSE rec[b].Terminal
             r == [rec[b] EXCEPT !.State = to, !.Terminal = d]
  <1>1. to \in BundleState
    BY LifecycleDecidesOnce DEF CanApply
  <1>2. rec[b] \in Record /\ d \in Decisions \cup {"none"}
    BY DEF Shape, Record
  <1>3. Moved(b, to) = [rec EXCEPT ![b] = r]
    BY DEF Moved, Shape
  <1>4. r \in Record /\ r.State = to /\ r.Terminal = d
    BY <1>1, <1>2 DEF Record
  <1> HIDE DEF r, d
  <1>5. rec \in [Bundle -> Record]
    BY DEF Shape
  <1> QED
    BY <1>3, <1>4, <1>5 DEF d

(***************************************************************************)
(* What CreateBundle leaves in the store.                                  *)
(***************************************************************************)
LEMMA AcceptedRecord ==
    ASSUME Shape, NEW b \in Bundle
    PROVE  LET new == [rec EXCEPT ![b].State = "received"]
           IN  /\ new \in [Bundle -> Record]
               /\ new[b].State = "received" /\ new[b].Terminal = rec[b].Terminal
               /\ \A c \in Bundle : c # b => new[c] = rec[c]
  <1> DEFINE r == [rec[b] EXCEPT !.State = "received"]
  <1>1. rec \in [Bundle -> Record] /\ rec[b] \in Record
    BY DEF Shape
  <1>2. [rec EXCEPT ![b].State = "received"] = [rec EXCEPT ![b] = r]
    BY <1>1
  <1>3. r \in Record /\ r.State = "received" /\ r.Terminal = rec[b].Terminal
    BY <1>1 DEF Record, BundleState
  <1> HIDE DEF r
  <1> QED
    BY <1>1, <1>2, <1>3

(***************************************************************************)
(* The steps that leave the records alone, and what they leave in the      *)
(* queue, in the schedule and in the batch.                                *)
(***************************************************************************)
LEMMA CalmSteps ==
    ASSUME Shape, NEW t \in Threads, Quiet(t) \/ Mover(t)
    PROVE  /\ \E y : Calm(t, y)
           /\ retries' \subseteq Bundle /\ batch' \subseteq Bundle
           /\ queue' \in Seq(Bundle) /\ Len(queue') <= QueueDepth
  <1>1. /\ retries \subseteq Bundle /\ batch \subseteq Bundle
        /\ queue \in Seq(Bundle) /\ Len(queue) <= QueueDepth /\ QueueDepth \in Nat
    BY RelayAssumption DEF Shape
  <1>2. CASE Quiet(t)
    BY <1>1, <1>2 DEF Quiet
  <1>3. CASE Schedules(t)
    <2>1. th[t].pc \in ServePC /\ retries' = retries \cup {th[t].b} /\ UNCHANGED <<queue, batch>>
      BY <1>3 DEF Schedules
    <2>2. th[t].b \in Bundle
      BY <2>1 DEF Shape, Fit
    <2>3. \E y : Calm(t, y)
      BY <1>3 DEF Schedules
    <2> QED
      BY <1>1, <2>1, <2>2, <2>3
  <1>4. CASE Pops(t)
    <2>1. queue # << >> /\ queue' = Tail(queue) /\ UNCHANGED <<retries, batch>> /\ \E y : Calm(t, y)
      BY <1>4 DEF Pops
    <2> QED
      BY <1>1, <2>1
  <1>5. CASE Pushes(t)
    <2>1. th[t].pc \in ServePC /\ queue' = Pushed(th[t].b) /\ UNCHANGED <<retries, batch>>
      BY <1>5 DEF Pushes
    <2>2. th[t].b \in Bundle
      BY <2>1 DEF Shape, Fit
    <2>3. PICK m \in Nat, i \in Nat :
            /\ m = (IF Len(queue) >= QueueDepth THEN Len(queue) - 1 ELSE Len(queue))
            /\ Pushed(th[t].b) \in Seq(Bundle) /\ Len(Pushed(th[t].b)) = m + 1
      BY <2>2, PushedPositions
    <2>4. Len(queue) \in Nat
      BY <1>1
    <2>5. m + 1 <= QueueDepth
      BY <1>1, <2>3, <2>4
    <2>6. \E y : Calm(t, y)
      BY <1>5 DEF Pushes
    <2> QED
      BY <1>1, <2>1, <2>3, <2>5, <2>6
  <1>6. CASE Claims(t)
    BY <1>1, <1>6 DEF Claims
  <1>7. CASE Takes(t)
    BY <1>1, <1>7 DEF Takes
  <1> QED
    BY <1>2, <1>3, <1>4, <1>5, <1>6, <1>7 DEF Mover

(***************************************************************************)
(* Shape holds initially.                                                  *)
(***************************************************************************)
LEMMA InitShaped ==
    ASSUME Init
    PROVE  Shape
  <1>1. NoRecord \in Record
    BY DEF NoRecord, Record
  <1>2. Fit(Resting("idle"))
    <2>1. Resting("idle") \in Thread /\ Resting("idle").pc = "idle"
      BY DEF Resting, Thread, AllPC, HandlerPC
    <2>2. "idle" \notin ServePC \cup AfterPush \cup VerdictPC \cup SettlePC \cup {"result"}
      BY DEF ServePC, RestPC, AfterPush, VerdictPC, SettlePC
    <2> QED
      BY <2>1, <2>2 DEF Fit
  <1>3. th \in [Threads -> Thread] /\ \A t \in Threads : Fit(th[t])
    BY <1>2 DEF Init, Fit
  <1>4. queue \in Seq(Bundle) /\ Len(queue) <= QueueDepth
    BY RelayAssumption DEF Init
  <1> QED
    BY <1>1, <1>3, <1>4 DEF Init, Shape

(***************************************************************************)
(* Every step keeps Shape.                                                 *)
(***************************************************************************)
LEMMA NextShaped ==
    ASSUME Shape, [Next]_vars
    PROVE  Shape'
  <1>1. ASSUME NEW t \in Threads, NEW y, th' = [th EXCEPT ![t] = y], Fit(y)
        PROVE  th' \in [Threads -> Thread] /\ \A u \in Threads : Fit(th'[u])
    <2>1. y \in Thread /\ th \in [Threads -> Thread]
      BY <1>1 DEF Fit, Shape
    <2> QED
      BY <1>1, <2>1 DEF Shape
  <1>2. Counts => faults' \in Nat
    BY DEF Counts, Shape
  <1>3. CASE Idle
    BY <1>3 DEF Idle, Shape
  <1>4. ASSUME NEW t \in Threads, Quiet(t) \/ Mover(t)
        PROVE  Shape'
    <2>1. PICK y : Calm(t, y)
      BY <1>4, CalmSteps
    <2>2. th' \in [Threads -> Thread] /\ \A u \in Threads : Fit(th'[u])
      BY <2>1, <1>1 DEF Calm
    <2>3. rec' \in [Bundle -> Record] /\ checkpoints' \in [Bundle -> Nat] /\ faults' \in Nat
      BY <2>1, <1>2 DEF Calm, RecordsStay, Shape
    <2>4. /\ retries' \subseteq Bundle /\ batch' \subseteq Bundle
          /\ queue' \in Seq(Bundle) /\ Len(queue') <= QueueDepth
      BY <1>4, CalmSteps
    <2> QED
      BY <2>2, <2>3, <2>4 DEF Shape
  <1>5. ASSUME NEW t \in Threads, Changes(t)
        PROVE  Shape'
    <2>1. PICK y, from, to : \E b \in Bundle :
            /\ th' = [th EXCEPT ![t] = y] /\ Fit(y)
            /\ CanApply(b, from, to) /\ rec' = Moved(b, to)
            /\ UNCHANGED <<checkpoints, retries, queue, batch>> /\ Counts
      BY <1>5 DEF Changes, Narrows
    <2>2. rec' \in [Bundle -> Record]
      BY <2>1, MovedRecord
    <2>3. th' \in [Threads -> Thread] /\ \A u \in Threads : Fit(th'[u])
      BY <2>1, <1>1
    <2> QED
      BY <2>1, <2>2, <2>3, <1>2 DEF Shape
  <1>6. ASSUME NEW t \in Threads, Accepts(t)
        PROVE  Shape'
    <2>1. PICK y : \E b \in Bundle :
            /\ th' = [th EXCEPT ![t] = y] /\ Fit(y)
            /\ rec' = [rec EXCEPT ![b].State = "received"]
            /\ UNCHANGED <<checkpoints, retries, queue, batch>> /\ Counts
      BY <1>6 DEF Accepts
    <2>2. rec' \in [Bundle -> Record]
      BY <2>1, AcceptedRecord
    <2>3. th' \in [Threads -> Thread] /\ \A u \in Threads : Fit(th'[u])
      BY <2>1, <1>1
    <2> QED
      BY <2>1, <2>2, <2>3, <1>2 DEF Shape
  <1>7. ASSUME NEW t \in Threads, Seals(t)
        PROVE  Shape'
    <2>1. PICK y :
            /\ th' = [th EXCEPT ![t] = y] /\ Fit(y)
            /\ checkpoints' \in {checkpoints,
                                 [checkpoints EXCEPT ![th[t].cur] = checkpoints[th[t].cur] + 1]}
            /\ UNCHANGED <<rec, retries, queue, batch>> /\ Counts
      BY <1>7 DEF Seals, QuietMove, Narrows
    <2>2. checkpoints' \in [Bundle -> Nat]
      BY <2>1 DEF Shape
    <2>3. th' \in [Threads -> Thread] /\ \A u \in Threads : Fit(th'[u])
      BY <2>1, <1>1
    <2> QED
      BY <2>1, <2>2, <2>3, <1>2 DEF Shape
  <1> QED
    BY <1>3, <1>4, <1>5, <1>6, <1>7, StepKinds

LedgerInv == Shape /\ DecisionsTold /\ OneSealer

(***************************************************************************)
(* Nothing is decided or sealed initially.                                 *)
(***************************************************************************)
LEMMA InitLedgerInv ==
    ASSUME Init
    PROVE  LedgerInv
  <1>1. Shape
    BY InitShaped
  <1>2. \A b \in Bundle : rec[b].State = "none" /\ rec[b].Terminal = "none" /\ checkpoints[b] = 0
    BY DEF Init, NoRecord
  <1>3. \A t \in Threads : ~Sealing(th[t])
    BY DEF Init, Resting, Sealing
  <1>4. DecisionsTold /\ OneSealer
    BY <1>2, <1>3 DEF DecisionsTold, DecidedStates, Decisions, OneSealer
  <1> QED
    BY <1>1, <1>4 DEF LedgerInv

(***************************************************************************)
(* The thread about to seal is in the phase that the transition to         *)
(* completed began.                                                        *)
(***************************************************************************)
LEMMA SealersCompleted ==
    ASSUME NEW x, Fit(x), Sealing(x)
    PROVE  LeftIn(x) = "completed" /\ x.cur \in Bundle /\ Of(x) = x.cur
  <1>1. LeftIn(x) = "completed" /\ x.pc \in SettlePC
    BY DEF Sealing, LeftIn, SettlePC
  <1>2. x.cur \in Bundle /\ NoBundle \notin Bundle
    BY <1>1, RelayAssumption DEF Fit, NoBundle
  <1> QED
    BY <1>1, <1>2 DEF Of

(***************************************************************************)
(* Every step keeps the invariant of the ledger.  The transition to        *)
(* completed is taken once, so it makes one sealer of a bundle that has no *)
(* checkpoint yet.                                                         *)
(***************************************************************************)
LEMMA NextLedgerInv ==
    ASSUME LedgerInv, [Next]_vars
    PROVE  LedgerInv'
  <1>1. Shape /\ Shape' /\ DecisionsTold /\ OneSealer
    BY NextShaped DEF LedgerInv
  <1>2. th \in [Threads -> Thread] /\ checkpoints \in [Bundle -> Nat]
    BY <1>1 DEF Shape
  <1>3. /\ \A u \in Threads : Sealing(th[u]) => th[u].cur \in Bundle
        /\ \A u \in Threads : Sealing(th'[u]) => th'[u].cur \in Bundle
    <2>1. \A u \in Threads : Fit(th[u]) /\ Fit(th'[u])
      BY <1>1 DEF Shape
    <2> QED
      BY <2>1, SealersCompleted
  <1>4. CASE Idle
    <2>1. DecisionsTold' /\ OneSealer'
      BY <1>1, <1>4 DEF Idle, DecisionsTold, OneSealer
    <2> QED
      BY <1>1, <2>1 DEF LedgerInv
  <1>5. ASSUME NEW t \in Threads, Quiet(t) \/ Mover(t)
        PROVE  LedgerInv'
    <2>1. PICK y : Calm(t, y)
      BY <1>1, <1>5, CalmSteps
    <2>2. /\ th' = [th EXCEPT ![t] = y] /\ (Sealing(y) => Sealing(th[t]) /\ y.cur = th[t].cur)
          /\ checkpoints' = checkpoints
          /\ \A b \in Bundle : rec'[b].State = rec[b].State /\ rec'[b].Terminal = rec[b].Terminal
      BY <2>1 DEF Calm, RecordsStay
    <2>3. \A u \in Threads : Sealing(th'[u]) => Sealing(th[u]) /\ th'[u].cur = th[u].cur
      BY <2>2, <1>2
    <2>4. DecisionsTold'
      BY <1>1, <2>2 DEF DecisionsTold
    <2>5. OneSealer'
      BY <1>1, <1>3, <2>2, <2>3 DEF OneSealer
    <2> QED
      BY <1>1, <2>4, <2>5 DEF LedgerInv
  <1>6. ASSUME NEW t \in Threads, Changes(t)
        PROVE  LedgerInv'
    <2>1. PICK y, from, to : \E b \in Bundle :
            /\ th' = [th EXCEPT ![t] = y] /\ Fit(y)
            /\ CanApply(b, from, to) /\ rec' = Moved(b, to)
            /\ LeftIn(y) # "any" => LeftIn(y) = to /\ Of(y) = b
            /\ UNCHANGED checkpoints
      BY <1>6 DEF Changes, Narrows
    <2>2. PICK b \in Bundle :
            /\ CanApply(b, from, to) /\ rec' = Moved(b, to)
            /\ LeftIn(y) # "any" => LeftIn(y) = to /\ Of(y) = b
      BY <2>1
    <2>3. /\ rec[b].State = from /\ from # "completed"
          /\ to \in Decisions => from \notin DecidedStates
          /\ to \notin Decisions => (to \in DecidedStates <=> from \in DecidedStates)
      BY <2>2, LifecycleDecidesOnce DEF CanApply
    <2>4. /\ rec'[b].State = to
          /\ rec'[b].Terminal = IF to \in Decisions THEN to ELSE rec[b].Terminal
          /\ \A c \in Bundle : c # b => rec'[c] = rec[c]
      BY <1>1, <2>2, MovedRecord
    <2>5. DecisionsTold'
      <3> SUFFICES ASSUME NEW c \in Bundle
                   PROVE  rec'[c].Terminal # "none" <=> rec'[c].State \in DecidedStates
        BY DEF DecisionsTold
      <3>1. rec[c].Terminal # "none" <=> rec[c].State \in DecidedStates
        BY <1>1 DEF DecisionsTold
      <3>2. Decisions \subseteq DecidedStates /\ "none" \notin Decisions
        BY DEF Decisions, DecidedStates
      <3>3. CASE c # b
        BY <2>4, <3>1, <3>3
      <3>4. CASE c = b
        BY <2>3, <2>4, <3>1, <3>2, <3>4
      <3> QED
        BY <3>3, <3>4
    <2>6. Sealing(y) => to = "completed" /\ y.cur = b
      BY <2>1, <2>2, SealersCompleted
    <2>7. \A u \in Threads : Sealing(th[u]) => th[u].cur # b
      BY <1>1, <2>3 DEF OneSealer
    <2>8. checkpoints[b] = 0
      BY <1>1, <2>3 DEF OneSealer
    <2>9. \A u \in Threads : th'[u] = IF u = t THEN y ELSE th[u]
      BY <2>1, <1>2
    <2>10. /\ \A u \in Threads : Sealing(th'[u]) => /\ rec'[th'[u].cur].State = "completed"
                                                    /\ checkpoints'[th'[u].cur] = 0
      <3> SUFFICES ASSUME NEW u \in Threads, Sealing(th'[u])
                   PROVE  rec'[th'[u].cur].State = "completed" /\ checkpoints'[th'[u].cur] = 0
        OBVIOUS
      <3>1. CASE u = t
        BY <2>1, <2>4, <2>6, <2>8, <2>9, <3>1
      <3>2. CASE u # t
        <4>1. th'[u] = th[u] /\ th[u].cur # b /\ th[u].cur \in Bundle /\ Sealing(th[u])
          BY <2>7, <2>9, <1>3, <3>2
        <4> QED
          BY <1>1, <2>1, <2>4, <4>1 DEF OneSealer
      <3> QED
        BY <3>1, <3>2
    <2>11. \A u, v \in Threads :
             Sealing(th'[u]) /\ Sealing(th'[v]) /\ th'[u].cur = th'[v].cur => u = v
      BY <1>1, <2>6, <2>7, <2>9 DEF OneSealer
    <2>12. \A c \in Bundle :
             checkpoints'[c] = 0 \/ (rec'[c].State = "completed" /\ checkpoints'[c] = 1)
      BY <1>1, <2>1, <2>4, <2>8 DEF OneSealer
    <2>13. OneSealer'
      BY <2>10, <2>11, <2>12 DEF OneSealer
    <2> QED
      BY <1>1, <2>5, <2>13 DEF LedgerInv
  <1>7. ASSUME NEW t \in Threads, Accepts(t)
        PROVE  LedgerInv'
    <2>1. PICK y : \E b \in Bundle :
            /\ th' = [th EXCEPT ![t] = y] /\ LeftIn(y) = "any" /\ Fit(y)
            /\ rec[b].State = "none" /\ rec' = [rec EXCEPT ![b].State = "received"]
            /\ UNCHANGED checkpoints
      BY <1>7 DEF Accepts
    <2>2. PICK b \in Bundle : rec[b].State = "none" /\ rec' = [rec EXCEPT ![b].State = "received"]
      BY <2>1
    <2>3. /\ rec'[b].State = "received" /\ rec'[b].Terminal = rec[b].Terminal
          /\ \A c \in Bundle : c # b => rec'[c] = rec[c]
      BY <1>1, <2>2, AcceptedRecord
    <2>4. DecisionsTold'
      <3>1. "received" \notin DecidedStates /\ "none" \notin DecidedStates
        BY DEF DecidedStates, Decisions
      <3> QED
        BY <1>1, <2>2, <2>3, <3>1 DEF DecisionsTold
    <2>5. ~Sealing(y)
      BY <2>1, SealersCompleted
    <2>6. \A u \in Threads : Sealing(th'[u]) =>
            Sealing(th[u]) /\ th'[u].cur = th[u].cur /\ th[u].cur # b /\ th[u].cur \in Bundle
      BY <1>1, <1>2, <1>3, <2>1, <2>2, <2>5 DEF OneSealer
    <2>7. \A c \in Bundle :
            checkpoints'[c] = 0 \/ (rec'[c].State = "completed" /\ checkpoints'[c] = 1)
      BY <1>1, <2>1, <2>2, <2>3 DEF OneSealer
    <2>8. OneSealer'
      BY <1>1, <2>1, <2>3, <2>6, <2>7 DEF OneSealer
    <2> QED
      BY <1>1, <2>4, <2>8 DEF LedgerInv
  <1>8. ASSUME NEW t \in Threads, Seals(t)
        PROVE  LedgerInv'
    <2> DEFINE b == th[t].cur
    <2>1. PICK y :
            /\ th' = [th EXCEPT ![t] = y] /\ Sealing(th[t]) /\ ~Sealing(y)
            /\ checkpoints' \in {checkpoints, [checkpoints EXCEPT ![b] = checkpoints[b] + 1]}
            /\ UNCHANGED rec
      BY <1>8 DEF Seals
    <2>2. b \in Bundle /\ rec[b].State = "completed" /\ checkpoints[b] = 0
      BY <1>1, <1>3, <2>1 DEF OneSealer
    <2>3. /\ checkpoints'[b] \in {0, 1}
          /\ \A c \in Bundle : c # b => checkpoints'[c] = checkpoints[c]
      BY <1>2, <2>1, <2>2
    <2>4. \A u \in Threads : Sealing(th'[u]) =>
            Sealing(th[u]) /\ th'[u] = th[u] /\ th[u].cur # b /\ th[u].cur \in Bundle
      BY <1>1, <1>2, <1>3, <2>1 DEF OneSealer
    <2> HIDE DEF b
    <2>5. OneSealer'
      BY <1>1, <2>1, <2>2, <2>3, <2>4 DEF OneSealer
    <2>6. DecisionsTold'
      BY <1>1, <2>1 DEF DecisionsTold
    <2> QED
      BY <1>1, <2>5, <2>6 DEF LedgerInv
  <1> QED
    BY <1>1, <1>4, <1>5, <1>6, <1>7, <1>8, StepKinds

(***************************************************************************)
(* A step of the relay is one of the ledger, or none.                      *)
(***************************************************************************)
LEMMA LedgerStep ==
    ASSUME LedgerInv, [Next]_vars
    PROVE  Ledger!Next \/ UNCHANGED Ledger!vars
  <1> DEFINE A == {b \in Bundle : rec[b].State # "none"}
             D == [b \in Bundle |-> rec[b].Terminal]
  <1>1. Shape /\ DecisionsTold /\ OneSealer /\ checkpoints \in [Bundle -> Nat]
    BY DEF LedgerInv, Shape
  <1>2. ASSUME \A b \in Bundle : rec'[b].State = rec[b].State /\ rec'[b].Terminal = rec[b].Terminal
        PROVE  A' = A /\ D' = D
    BY <1>2
  <1>3. CASE Idle
    BY <1>3 DEF Idle, Ledger!vars
  <1>4. ASSUME NEW t \in Threads, Quiet(t) \/ Mover(t)
        PROVE  UNCHANGED Ledger!vars
    <2>1. checkpoints' = checkpoints /\ RecordsStay
      BY <1>1, <1>4, CalmSteps DEF Calm
    <2>2. A' = A /\ D' = D
      BY <2>1, <1>2 DEF RecordsStay
    <2> QED
      BY <2>1, <2>2 DEF Ledger!vars
  <1>5. ASSUME NEW t \in Threads, Changes(t)
        PROVE  Ledger!Next \/ UNCHANGED Ledger!vars
    <2>1. PICK from, to : \E b \in Bundle :
            CanApply(b, from, to) /\ rec' = Moved(b, to) /\ UNCHANGED checkpoints
      BY <1>5 DEF Changes
    <2>2. PICK b \in Bundle : CanApply(b, from, to) /\ rec' = Moved(b, to) /\ UNCHANGED checkpoints
      BY <2>1
    <2>3. /\ rec[b].State = from /\ from # "none" /\ to # "none"
          /\ to \in Decisions => from \notin DecidedStates
      <3>1. "none" \notin BundleState
        BY DEF BundleState, Decisions
      <3> QED
        BY <2>2, <3>1, LifecycleDecidesOnce DEF CanApply
    <2>4. /\ rec'[b].State = to
          /\ rec'[b].Terminal = IF to \in Decisions THEN to ELSE rec[b].Terminal
          /\ \A c \in Bundle : c # b => rec'[c] = rec[c]
      BY <1>1, <2>2, MovedRecord
    <2>5. A' = A /\ b \in A
      BY <2>3, <2>4
    <2>6. CASE to \in Decisions
      <3>1. D[b] = "none"
        BY <1>1, <2>3, <2>6 DEF DecisionsTold
      <3>2. D' = [D EXCEPT ![b] = to]
        BY <2>4, <2>6
      <3>3. Ledger!Decide(b, to)
        BY <2>2, <2>5, <3>1, <3>2 DEF Ledger!Decide
      <3> QED
        BY <2>6, <3>3 DEF Ledger!Next
    <2>7. CASE to \notin Decisions
      <3>1. D' = D
        BY <2>4, <2>7
      <3> QED
        BY <2>2, <2>5, <3>1 DEF Ledger!vars
    <2> QED
      BY <2>6, <2>7
  <1>6. ASSUME NEW t \in Threads, Accepts(t)
        PROVE  Ledger!Next
    <2>1. PICK b \in Bundle :
            /\ rec[b].State = "none" /\ rec' = [rec EXCEPT ![b].State = "received"]
            /\ UNCHANGED checkpoints
      BY <1>6 DEF Accepts
    <2>2. /\ rec'[b].State = "received" /\ rec'[b].Terminal = rec[b].Terminal
          /\ \A c \in Bundle : c # b => rec'[c] = rec[c]
      BY <1>1, <2>1, AcceptedRecord
    <2>3. A' = A \cup {b} /\ b \notin A
      BY <2>1, <2>2
    <2>4. D' = D
      BY <2>2
    <2>5. Ledger!Accept(b)
      BY <2>1, <2>3, <2>4 DEF Ledger!Accept
    <2> QED
      BY <2>5 DEF Ledger!Next
  <1>7. ASSUME NEW t \in Threads, Seals(t)
        PROVE  Ledger!Next \/ UNCHANGED Ledger!vars
    <2> DEFINE b == th[t].cur
    <2>1. /\ Sealing(th[t]) /\ UNCHANGED rec
          /\ checkpoints' \in {checkpoints, [checkpoints EXCEPT ![b] = checkpoints[b] + 1]}
      BY <1>7 DEF Seals
    <2>2. b \in Bundle /\ rec[b].State = "completed" /\ checkpoints[b] = 0
      <3>1. Fit(th[t])
        BY <1>1 DEF Shape
      <3> QED
        BY <1>1, <2>1, <3>1, SealersCompleted DEF OneSealer
    <2>3. D[b] # "none"
      BY <1>1, <2>2 DEF DecisionsTold, DecidedStates
    <2>4. A' = A /\ D' = D
      BY <2>1
    <2>5. CASE checkpoints' = checkpoints
      BY <2>4, <2>5 DEF Ledger!vars
    <2>6. CASE checkpoints' = [checkpoints EXCEPT ![b] = checkpoints[b] + 1]
      <3>1. checkpoints' = [checkpoints EXCEPT ![b] = 1]
        BY <2>2, <2>6
      <3>2. Ledger!Seal(b)
        BY <2>2, <2>3, <2>4, <3>1 DEF Ledger!Seal
      <3> QED
        BY <2>2, <3>2 DEF Ledger!Next
    <2> QED
      BY <2>1, <2>5, <2>6
  <1> QED
    BY <1>1, <1>3, <1>4, <1>5, <1>6, <1>7, StepKinds

(***************************************************************************)
(* The relay implements the ledger, whatever calls fail and whatever       *)
(* replies are lost: a bundle is accepted once, decided at most once, and  *)
(* sealed at most once and after its decision.                             *)
(***************************************************************************)
THEOREM RelayImplementsLedger == Spec => ImplementsLedger
  <1>1. Init => LedgerInv /\ Ledger!Init
    <2> SUFFICES ASSUME Init PROVE LedgerInv /\ Ledger!Init
      OBVIOUS
    <2>1. LedgerInv
      BY InitLedgerInv
    <2>2. \A b \in Bundle : rec[b].State = "none" /\ rec[b].Terminal = "none" /\ checkpoints[b] = 0
      BY DEF Init, NoRecord
    <2>3. Ledger!Init
      BY <2>2 DEF Init, NoRecord, Ledger!Init
    <2> QED
      BY <2>1, <2>3
  <1>2. LedgerInv /\ [Next]_vars => LedgerInv'
    BY NextLedgerInv
  <1>3. LedgerInv /\ [Next]_vars => [Ledger!Next]_(Ledger!vars)
    BY LedgerStep
  <1> QED
    BY <1>1, <1>2, <1>3, PTL DEF Spec, ImplementsLedger, Ledger!Spec

-----------------------------------------------------------------------------
(* One place. *)

(***************************************************************************)
(* A thread that a step leaves alone has no bundle that it did not have;   *)
(* the one that moves has what its new locals say.                         *)
(***************************************************************************)
LEMMA HasAfter ==
    ASSUME Shape, NEW t \in Threads, NEW y, th' = [th EXCEPT ![t] = y], Counts
    PROVE  /\ faults' = 0 => faults = 0
           /\ \A u \in Threads, c \in Bundle : u # t /\ Has(u, c)' => Has(u, c)
           /\ \A c \in Bundle : Has(t, c)' =>
                 (y.pc \in ServePC /\ y.b = c) \/ (faults' = 0 /\ y.cur = c)
  <1>1. faults' = 0 => faults = 0
    BY DEF Counts, Shape
  <1>2. \A u \in Threads : th'[u] = IF u = t THEN y ELSE th[u]
    BY DEF Shape
  <1> QED
    BY <1>1, <1>2 DEF Has

(***************************************************************************)
(* A step after which no thread has a bundle that it did not have before,  *)
(* and that leaves the other places alone, keeps OnePlace.                 *)
(***************************************************************************)
LEMMA NarrowingKeepsPlaces ==
    ASSUME Shape, OnePlace, NEW t \in Threads, NEW y, th' = [th EXCEPT ![t] = y],
           Narrows(th[t], y), Counts, UNCHANGED <<retries, queue, batch>>,
           \A b \in Bundle : rec'[b].State = "none" => rec[b].State = "none"
    PROVE  OnePlace'
  <1>1. /\ faults' = 0 => faults = 0
        /\ \A u \in Threads, c \in Bundle : u # t /\ Has(u, c)' => Has(u, c)
        /\ \A c \in Bundle : Has(t, c)' =>
              (y.pc \in ServePC /\ y.b = c) \/ (faults' = 0 /\ y.cur = c)
    BY HasAfter
  <1>2. \A c \in Bundle : Has(t, c)' => Has(t, c)
    BY <1>1 DEF Narrows, Has
  <1>3. \A u \in Threads, c \in Bundle : Has(u, c)' => Has(u, c)
    BY <1>1, <1>2
  <1>4. \A c \in Bundle : Queued(c)' <=> Queued(c)
    BY DEF Queued
  <1> QED
    BY <1>3, <1>4 DEF OnePlace

(***************************************************************************)
(* The queue after a push holds each bundle once, and the bundle that was  *)
(* pushed out no longer.                                                   *)
(***************************************************************************)
LEMMA PushedOnce ==
    ASSUME Shape, \A i, j \in 1..Len(queue) : queue[i] = queue[j] => i = j,
           NEW b \in Bundle, ~Queued(b), queue' = Pushed(b)
    PROVE  /\ \A i, j \in 1..Len(queue') : queue'[i] = queue'[j] => i = j
           /\ \A c \in Bundle : Queued(c)' => c = b \/ Queued(c)
           /\ \A c \in Bundle : Len(queue) >= QueueDepth /\ c = queue[Len(queue)] => ~Queued(c)'
  <1>1. Len(queue) \in Nat /\ QueueDepth \in Nat \ {0}
    BY RelayAssumption DEF Shape
  <1>2. PICK m \in Nat, n \in Nat :
          /\ m = (IF Len(queue) >= QueueDepth THEN Len(queue) - 1 ELSE Len(queue))
          /\ n \in 1..m + 1
          /\ Len(queue') = m + 1
          /\ \A j \in 1..m + 1 :
               queue'[j] = IF j < n THEN queue[j] ELSE IF j = n THEN b ELSE queue[j - 1]
    <2>1. \E m \in Nat, n \in Nat :
            /\ m = (IF Len(queue) >= QueueDepth THEN Len(queue) - 1 ELSE Len(queue))
            /\ n \in 1..m + 1
            /\ Pushed(b) \in Seq(Bundle) /\ Len(Pushed(b)) = m + 1
            /\ \A j \in 1..m + 1 :
                 Pushed(b)[j] = IF j < n THEN queue[j] ELSE IF j = n THEN b ELSE queue[j - 1]
      BY PushedPositions
    <2> QED
      BY <2>1, Zenon
  <1>3. m <= Len(queue) /\ (Len(queue) >= QueueDepth => m + 1 = Len(queue))
    BY <1>1, <1>2
  <1> DEFINE old(j) == IF j < n THEN j ELSE j - 1
  <1>4. \A j \in 1..m + 1 : j # n => old(j) \in 1..m /\ queue'[j] = queue[old(j)]
    BY <1>2
  <1>5. \A j \in 1..m : j \in 1..Len(queue) /\ queue[j] # b
    BY <1>1, <1>3 DEF Queued
  <1>6. \A i, j \in 1..m + 1 : i # n /\ j # n /\ old(i) = old(j) => i = j
    BY <1>2
  <1> HIDE DEF old
  <1>7. queue'[n] = b
    BY <1>2
  <1>8. \A i, j \in 1..m + 1 : queue'[i] = queue'[j] => i = j
    <2> SUFFICES ASSUME NEW i \in 1..m + 1, NEW j \in 1..m + 1, queue'[i] = queue'[j]
                 PROVE  i = j
      OBVIOUS
    <2>1. \A k \in 1..m + 1 : k # n => queue'[k] # b
      <3> SUFFICES ASSUME NEW k \in 1..m + 1, k # n
                   PROVE  queue'[k] # b
        OBVIOUS
      <3>1. old(k) \in 1..m /\ queue'[k] = queue[old(k)]
        BY <1>4
      <3> QED
        BY <1>5, <3>1
    <2>2. CASE i = n \/ j = n
      BY <1>7, <2>1, <2>2
    <2>3. CASE i # n /\ j # n
      <3>1. /\ old(i) \in 1..m /\ queue'[i] = queue[old(i)]
            /\ old(j) \in 1..m /\ queue'[j] = queue[old(j)]
        BY <1>4, <2>3
      <3>2. old(i) \in 1..Len(queue) /\ old(j) \in 1..Len(queue)
        BY <1>5, <3>1
      <3>3. old(i) = old(j)
        BY <3>1, <3>2
      <3> QED
        BY <1>6, <2>3, <3>3
    <2> QED
      BY <2>2, <2>3
  <1>9. \A c \in Bundle : Queued(c)' => c = b \/ \E k \in 1..m : queue[k] = c
    BY <1>2, <1>4, <1>7 DEF Queued
  <1>10. \A c \in Bundle : Queued(c)' => c = b \/ Queued(c)
    BY <1>5, <1>9 DEF Queued
  <1>11. ASSUME NEW c \in Bundle, Len(queue) >= QueueDepth, c = queue[Len(queue)], Queued(c)'
         PROVE  FALSE
    <2> DEFINE l == Len(queue)
    <2>1. l \in 1..l /\ l = m + 1 /\ queue[l] = c
      BY <1>1, <1>3, <1>11
    <2>2. c # b
      BY <2>1 DEF Queued
    <2>3. PICK k \in 1..m : queue[k] = c
      BY <1>9, <1>11, <2>2
    <2>4. k = l
      BY <1>5, <2>1, <2>3
    <2> QED
      BY <2>1, <2>4
  <1> QED
    BY <1>2, <1>8, <1>10, <1>11

(***************************************************************************)
(* OnePlace without its quantifier over bundles: c is in one place.        *)
(***************************************************************************)
InOnePlace(c) ==
    /\ \A t, u \in Threads : Has(t, c) /\ Has(u, c) => t = u
    /\ \A t \in Threads : Has(t, c) => ~Queued(c) /\ c \notin retries /\ c \notin batch
    /\ Queued(c) => c \notin retries /\ c \notin batch
    /\ c \in retries => c \notin batch
    /\ rec[c].State = "none" => /\ ~Queued(c) /\ c \notin retries /\ c \notin batch
                                /\ \A t \in Threads : ~Has(t, c)

(***************************************************************************)
(* The steps that move a bundle keep OnePlace: each takes it out of the    *)
(* place where it was.                                                     *)
(***************************************************************************)
LEMMA MoversKeepPlaces ==
    ASSUME Shape, OnePlace, NEW t \in Threads, Mover(t)
    PROVE  OnePlace'
  <1> DEFINE x == th[t]
             Distinct == \A i, j \in 1..Len(queue) : queue[i] = queue[j] => i = j
             Kept(y) == /\ faults' = 0 => faults = 0
                        /\ \A u \in Threads, c \in Bundle : u # t /\ Has(u, c)' => Has(u, c)
                        /\ \A c \in Bundle : Has(t, c)' =>
                              (y.pc \in ServePC /\ y.b = c) \/ (faults' = 0 /\ y.cur = c)
                        /\ \A c \in Bundle : rec'[c].State = rec[c].State
  <1>1. Distinct /\ \A c \in Bundle : InOnePlace(c)
    BY DEF OnePlace, InOnePlace
  <1>2. Distinct' /\ (\A c \in Bundle : InOnePlace(c)') => OnePlace'
    BY DEF OnePlace, InOnePlace
  <1>3. ASSUME NEW y, Calm(t, y)
        PROVE  Kept(y)
    BY <1>3, HasAfter DEF Calm, RecordsStay
  <1>4. NoBundle \notin Bundle
    BY RelayAssumption DEF NoBundle
  <1>5. x.pc \in ServePC => x.b \in Bundle /\ Has(t, x.b)
    BY DEF Shape, Fit, Has
  <1>6. UNCHANGED queue => Distinct' /\ \A c \in Bundle : Queued(c)' <=> Queued(c)
    BY <1>1 DEF Queued
  <1> HIDE DEF Distinct
  <1>7. CASE Schedules(t)
    <2>1. PICK y : /\ Calm(t, y)
                   /\ x.pc \in ServePC /\ y.pc \notin ServePC
                   /\ y.cur # NoBundle => faults' # 0
                   /\ retries' = retries \cup {x.b} /\ UNCHANGED <<queue, batch>>
      BY <1>7 DEF Schedules
    <2>2. Kept(y)
      BY <2>1, <1>3
    <2>3. \A c \in Bundle : ~Has(t, c)'
      BY <2>1, <2>2, <1>4
    <2>4. ASSUME NEW c \in Bundle
          PROVE  InOnePlace(c)'
      <3>1. InOnePlace(c) /\ (Queued(c)' <=> Queued(c))
        BY <1>1, <1>6, <2>1
      <3>2. \A u \in Threads : Has(u, c)' => Has(u, c) /\ u # t
        BY <2>2, <2>3
      <3>3. Has(t, x.b) /\ x.b \in Bundle /\ InOnePlace(x.b)
        BY <1>1, <1>5, <2>1
      <3> QED
        BY <2>1, <2>2, <3>1, <3>2, <3>3 DEF InOnePlace
    <2> QED
      BY <1>2, <1>6, <2>1, <2>4
  <1>8. CASE Pops(t)
    <2>1. PICK y : /\ Calm(t, y)
                   /\ queue # << >> /\ queue' = Tail(queue)
                   /\ y.cur = NoBundle /\ (y.pc \in ServePC => y.b = Head(queue))
                   /\ UNCHANGED <<retries, batch>>
      BY <1>8 DEF Pops
    <2>2. Kept(y)
      BY <2>1, <1>3
    <2> DEFINE h == Head(queue)
    <2>3. /\ queue \in Seq(Bundle) /\ Len(queue) \in Nat \ {0} /\ h = queue[1] /\ h \in Bundle
          /\ Len(queue') = Len(queue) - 1 /\ \A i \in 1..Len(queue') : queue'[i] = queue[i + 1]
      BY <2>1 DEF Shape
    <2>4. \A c \in Bundle : Has(t, c)' => c = h
      BY <2>1, <2>2, <1>4
    <2>5. Distinct'
      BY <1>1, <2>3 DEF Distinct
    <2>6. \A c \in Bundle : Queued(c)' => Queued(c) /\ c # h
      BY <1>1, <2>3 DEF Queued, Distinct
    <2>7. Queued(h)
      BY <2>3 DEF Queued
    <2> HIDE DEF h
    <2>8. ASSUME NEW c \in Bundle
          PROVE  InOnePlace(c)'
      <3>1. InOnePlace(c) /\ InOnePlace(h)
        BY <1>1, <2>3
      <3>2. \A u \in Threads : Has(u, c)' => Has(u, c) \/ (u = t /\ c = h)
        BY <2>2, <2>4
      <3> QED
        BY <2>1, <2>2, <2>6, <2>7, <3>1, <3>2 DEF InOnePlace
    <2> QED
      BY <1>2, <2>5, <2>8
  <1>9. CASE Pushes(t)
    <2>1. PICK y : /\ Calm(t, y)
                   /\ x.pc \in ServePC /\ y.pc \notin ServePC
                   /\ queue' = Pushed(x.b)
                   /\ y.cur # NoBundle => Len(queue) >= QueueDepth /\ y.cur = queue[Len(queue)]
                   /\ UNCHANGED <<retries, batch>>
      BY <1>9 DEF Pushes
    <2>2. Kept(y)
      BY <2>1, <1>3
    <2>3. Has(t, x.b) /\ x.b \in Bundle /\ InOnePlace(x.b)
      BY <1>1, <1>5, <2>1
    <2>4. ~Queued(x.b)
      BY <2>3 DEF InOnePlace
    <2>5. /\ Distinct'
          /\ \A c \in Bundle : Queued(c)' => c = x.b \/ Queued(c)
          /\ \A c \in Bundle : Len(queue) >= QueueDepth /\ c = queue[Len(queue)] => ~Queued(c)'
      BY <1>1, <2>1, <2>3, <2>4, PushedOnce DEF Distinct
    <2>6. \A c \in Bundle : Has(t, c)' => ~Queued(c)' /\ Queued(c)
      <3> SUFFICES ASSUME NEW c \in Bundle, Has(t, c)'
                   PROVE  ~Queued(c)' /\ Queued(c)
        OBVIOUS
      <3>1. y.cur = c /\ Len(queue) >= QueueDepth /\ c = queue[Len(queue)]
        BY <2>1, <2>2, <1>4
      <3>2. Len(queue) \in 1..Len(queue)
        BY <3>1, RelayAssumption DEF Shape
      <3> QED
        BY <2>5, <3>1, <3>2 DEF Queued
    <2>7. ASSUME NEW c \in Bundle
          PROVE  InOnePlace(c)'
      <3>1. InOnePlace(c)
        BY <1>1
      <3>2. \A u \in Threads : Has(u, c)' => (u # t /\ Has(u, c)) \/ (u = t /\ Queued(c) /\ ~Queued(c)')
        BY <2>2, <2>6
      <3>3. Queued(c)' => c = x.b \/ Queued(c)
        BY <2>5
      <3> QED
        BY <2>1, <2>2, <2>3, <3>1, <3>2, <3>3 DEF InOnePlace
    <2> QED
      BY <1>2, <2>5, <2>7
  <1>10. CASE Claims(t)
    <2>1. PICK y : \E due \in SUBSET retries :
                   /\ Calm(t, y)
                   /\ y.pc \notin ServePC /\ y.cur = NoBundle
                   /\ retries' = retries \ due /\ batch' \in {batch, due}
                   /\ UNCHANGED queue
      BY <1>10 DEF Claims
    <2>2. Kept(y)
      BY <2>1, <1>3
    <2>3. ASSUME NEW c \in Bundle
          PROVE  InOnePlace(c)'
      <3>1. InOnePlace(c) /\ (Queued(c)' <=> Queued(c))
        BY <1>1, <1>6, <2>1
      <3>2. \A u \in Threads : Has(u, c)' => Has(u, c)
        BY <2>1, <2>2, <1>4
      <3>3. /\ c \in retries' => c \in retries /\ c \notin batch'
            /\ c \in batch' => c \in retries \/ c \in batch
        BY <2>1, <3>1 DEF InOnePlace
      <3> QED
        BY <2>2, <3>1, <3>2, <3>3 DEF InOnePlace
    <2> QED
      BY <1>2, <1>6, <2>1, <2>3
  <1>11. CASE Takes(t)
    <2>1. PICK y : \E b \in batch :
                   /\ Calm(t, y)
                   /\ y.pc \in ServePC => y.b = b
                   /\ y.cur # NoBundle => y.cur = b
                   /\ batch' = batch \ {b} /\ UNCHANGED <<retries, queue>>
      BY <1>11 DEF Takes
    <2>2. Kept(y)
      BY <2>1, <1>3
    <2>3. PICK b \in batch : /\ y.pc \in ServePC => y.b = b
                             /\ y.cur # NoBundle => y.cur = b
                             /\ batch' = batch \ {b}
      BY <2>1
    <2>4. ASSUME NEW c \in Bundle
          PROVE  InOnePlace(c)'
      <3>1. InOnePlace(c) /\ (Queued(c)' <=> Queued(c))
        BY <1>1, <1>6, <2>1
      <3>2. \A u \in Threads : Has(u, c)' => Has(u, c) \/ (u = t /\ c = b)
        BY <2>2, <2>3, <1>4
      <3> QED
        BY <2>1, <2>2, <2>3, <3>1, <3>2 DEF InOnePlace
    <2> QED
      BY <1>2, <1>6, <2>1, <2>4
  <1> QED
    BY <1>7, <1>8, <1>9, <1>10, <1>11 DEF Mover

(***************************************************************************)
(* Nothing is anywhere initially.                                          *)
(***************************************************************************)
LEMMA InitOnePlace ==
    ASSUME Init
    PROVE  OnePlace
  <1>1. \A t \in Threads : th[t].cur = NoBundle /\ th[t].pc \notin ServePC
    BY Serving DEF Init, Resting
  <1>2. \A t \in Threads, b \in Bundle : ~Has(t, b)
    BY <1>1, RelayAssumption DEF Has, NoBundle
  <1>3. Len(queue) = 0 /\ retries = {} /\ batch = {}
    BY DEF Init
  <1> QED
    BY <1>2, <1>3 DEF OnePlace, Queued

(***************************************************************************)
(* Every step keeps a bundle in one place.                                 *)
(***************************************************************************)
LEMMA NextOnePlace ==
    ASSUME Shape, OnePlace, [Next]_vars
    PROVE  OnePlace'
  <1>1. CASE Idle
    <2>1. /\ \A c \in Bundle : Queued(c)' <=> Queued(c)
          /\ \A u \in Threads, c \in Bundle : Has(u, c)' <=> Has(u, c)
      BY <1>1 DEF Idle, Queued, Has
    <2> QED
      BY <1>1, <2>1 DEF Idle, OnePlace
  <1>2. ASSUME NEW t \in Threads, Quiet(t)
        PROVE  OnePlace'
    BY <1>2, NarrowingKeepsPlaces DEF Quiet, Calm, RecordsStay
  <1>3. ASSUME NEW t \in Threads, Changes(t)
        PROVE  OnePlace'
    <2>1. PICK y, from, to : \E b \in Bundle :
            /\ th' = [th EXCEPT ![t] = y] /\ Narrows(th[t], y)
            /\ CanApply(b, from, to) /\ rec' = Moved(b, to)
            /\ UNCHANGED <<checkpoints, retries, queue, batch>> /\ Counts
      BY <1>3 DEF Changes
    <2>2. PICK b \in Bundle : CanApply(b, from, to) /\ rec' = Moved(b, to)
      BY <2>1
    <2>3. to # "none"
      BY <2>2, LifecycleDecidesOnce DEF CanApply, BundleState, Decisions
    <2>4. rec'[b].State = to /\ \A c \in Bundle : c # b => rec'[c] = rec[c]
      BY <2>2, MovedRecord
    <2>5. \A c \in Bundle : rec'[c].State = "none" => rec[c].State = "none"
      BY <2>3, <2>4
    <2> QED
      BY <2>1, <2>5, NarrowingKeepsPlaces
  <1>4. ASSUME NEW t \in Threads, Accepts(t)
        PROVE  OnePlace'
    <2>1. PICK y : \E b \in Bundle :
            /\ th' = [th EXCEPT ![t] = y]
            /\ y.cur = NoBundle /\ (y.pc \in ServePC => y.b = b)
            /\ rec[b].State = "none" /\ rec' = [rec EXCEPT ![b].State = "received"]
            /\ UNCHANGED <<checkpoints, retries, queue, batch>> /\ Counts
      BY <1>4 DEF Accepts
    <2>2. PICK b \in Bundle :
            /\ y.pc \in ServePC => y.b = b
            /\ rec[b].State = "none" /\ rec' = [rec EXCEPT ![b].State = "received"]
      BY <2>1
    <2>3. rec'[b].State = "received" /\ \A c \in Bundle : c # b => rec'[c] = rec[c]
      BY <2>2, AcceptedRecord
    <2>4. NoBundle \notin Bundle
      BY RelayAssumption DEF NoBundle
    <2>5. /\ \A u \in Threads, c \in Bundle : u # t /\ Has(u, c)' => Has(u, c)
          /\ \A c \in Bundle : Has(t, c)' => c = b
      <3>1. /\ \A u \in Threads, c \in Bundle : u # t /\ Has(u, c)' => Has(u, c)
            /\ \A c \in Bundle : Has(t, c)' =>
                  (y.pc \in ServePC /\ y.b = c) \/ (faults' = 0 /\ y.cur = c)
        BY <2>1, HasAfter
      <3> QED
        BY <2>1, <2>2, <2>4, <3>1
    <2>6. \A c \in Bundle : Queued(c)' <=> Queued(c)
      BY <2>1 DEF Queued
    <2>7. \A i, j \in 1..Len(queue) : queue[i] = queue[j] => i = j
      BY DEF OnePlace
    <2>8. ASSUME NEW c \in Bundle
          PROVE  InOnePlace(c)'
      <3>1. InOnePlace(c) /\ InOnePlace(b)
        BY DEF OnePlace, InOnePlace
      <3>2. \A u \in Threads : Has(u, c)' => (u # t /\ Has(u, c)) \/ (u = t /\ c = b)
        BY <2>5
      <3>3. Queued(c)' <=> Queued(c)
        BY <2>6
      <3> QED
        BY <2>1, <2>2, <2>3, <3>1, <3>2, <3>3 DEF InOnePlace
    <2> QED
      BY <2>1, <2>7, <2>8 DEF OnePlace, InOnePlace
  <1>5. ASSUME NEW t \in Threads, Seals(t)
        PROVE  OnePlace'
    BY <1>5, NarrowingKeepsPlaces DEF Seals, QuietMove
  <1> QED
    BY <1>1, <1>2, <1>3, <1>4, <1>5, MoversKeepPlaces, StepKinds

(***************************************************************************)
(* The size of a set with at most one element.                             *)
(***************************************************************************)
LEMMA AtMostOne ==
    ASSUME NEW S, \A a, b \in S : a = b
    PROVE  Cardinality(S) \in {0, 1} /\ (Cardinality(S) = 1 => \E a : a \in S)
  <1>1. CASE S = {}
    BY <1>1, FS_EmptySet
  <1>2. CASE S # {}
    <2>1. PICK a : a \in S
      BY <1>2
    <2>2. S = {a}
      BY <2>1
    <2> QED
      BY <2>1, <2>2, FS_Singleton
  <1> QED
    BY <1>1, <1>2

(***************************************************************************)
(* While no call has failed, the threads that hold a bundle are those that *)
(* have it in the sense of OnePlace.                                       *)
(***************************************************************************)
LEMMA HoldersHave ==
    ASSUME Shape, faults = 0, NEW t \in Threads, NEW b \in Bundle, Holds(t, b)
    PROVE  Has(t, b)
  <1> DEFINE x == th[t]
  <1>1. Fit(x)
    BY DEF Shape
  <1>2. CASE x.cur = b
    BY <1>2 DEF Has
  <1>3. CASE x.b = b /\ x.pc \notin AfterPush /\ x.k # "enqueue"
    <2>1. x.pc \in ServePC \cup RestPC \cup SettlePC \cup {"result"}
      BY <1>1, <1>3 DEF Fit, Thread, AllPC, ServePC, AfterPush
    <2>2. b # NoBundle
      BY RelayAssumption DEF NoBundle
    <2>3. x.pc \notin RestPC
      <3> SUFFICES ASSUME x.pc \in RestPC PROVE FALSE
        OBVIOUS
      <3>1. x = Resting(x.pc)
        BY <1>1 DEF Fit
      <3>2. x.b = NoBundle
        BY <3>1 DEF Resting
      <3> QED
        BY <1>3, <2>2, <3>2
    <2>4. x.pc \notin SettlePC \cup {"result"}
      BY <1>1, <1>3, <2>2 DEF Fit
    <2> QED
      BY <1>3, <2>1, <2>3, <2>4 DEF Has
  <1> QED
    BY <1>2, <1>3 DEF Holds, AfterPush

(***************************************************************************)
(* A bundle is never in two places at once as long as no call has failed.  *)
(***************************************************************************)
THEOREM BundlesHaveOneOwner == Spec => []OneOwner
  <1>1. Init => Shape /\ OnePlace
    BY InitShaped, InitOnePlace
  <1>2. Shape /\ OnePlace /\ [Next]_vars => Shape' /\ OnePlace'
    BY NextShaped, NextOnePlace
  <1>3. Shape /\ OnePlace => OneOwner
    <2> SUFFICES ASSUME Shape, OnePlace, faults = 0, NEW b \in Bundle
                 PROVE  Owners(b) <= 1
      BY DEF OneOwner
    <2> DEFINE T == {t \in Threads : Holds(t, b)}
               I == {i \in 1..Len(queue) : queue[i] = b}
    <2>1. \A t \in T : t \in Threads /\ Has(t, b)
      BY HoldersHave
    <2>2. \A i \in I : Queued(b) /\ i \in 1..Len(queue) /\ queue[i] = b
      BY DEF Queued
    <2> HIDE DEF T, I
    <2>3. InOnePlace(b) /\ \A i, j \in 1..Len(queue) : queue[i] = queue[j] => i = j
      BY DEF OnePlace, InOnePlace
    <2>4. Cardinality(T) \in {0, 1} /\ (Cardinality(T) = 1 => \E t : t \in T)
      <3>1. \A t, u \in T : t = u
        BY <2>1, <2>3 DEF InOnePlace
      <3> QED
        BY <3>1, AtMostOne
    <2>5. Cardinality(I) \in {0, 1} /\ (Cardinality(I) = 1 => \E i : i \in I)
      <3>1. \A i, j \in I : i = j
        BY <2>2, <2>3
      <3> QED
        BY <3>1, AtMostOne
    <2>6. Owners(b) = Cardinality(T) + Cardinality(I)
                      + (IF b \in retries THEN 1 ELSE 0) + (IF b \in batch THEN 1 ELSE 0)
      BY DEF Owners, T, I
    <2>7. CASE Cardinality(T) = 1
      <3>1. ~Queued(b) /\ b \notin retries /\ b \notin batch
        BY <2>1, <2>3, <2>4, <2>7 DEF InOnePlace
      <3> QED
        BY <2>2, <2>5, <2>6, <2>7, <3>1
    <2>8. CASE Cardinality(T) = 0 /\ Cardinality(I) = 1
      <3>1. b \notin retries /\ b \notin batch
        BY <2>2, <2>3, <2>5, <2>8 DEF InOnePlace
      <3> QED
        BY <2>6, <2>8, <3>1
    <2>9. CASE Cardinality(T) = 0 /\ Cardinality(I) = 0
      <3>1. ~(b \in retries /\ b \in batch)
        BY <2>3 DEF InOnePlace
      <3> QED
        BY <2>6, <2>9, <3>1
    <2> QED
      BY <2>4, <2>5, <2>7, <2>8, <2>9
  <1> QED
    BY <1>1, <1>2, <1>3, PTL DEF Spec

-----------------------------------------------------------------------------
(* A record stays where its worker left it. *)

(***************************************************************************)
(* A thread between two of its transitions has the bundle, and the state   *)
(* that it left is neither of the two in which others may move it.         *)
(***************************************************************************)
LEMMA InPhaseHas ==
    ASSUME Shape, faults = 0, NEW t \in Threads, LeftIn(th[t]) # "any"
    PROVE  /\ Of(th[t]) \in Bundle /\ Has(t, Of(th[t]))
           /\ LeftIn(th[t]) \notin {"none", "validated"}
  <1> DEFINE x == th[t]
  <1>1. Fit(x) /\ NoBundle \notin Bundle
    BY RelayAssumption DEF Shape, NoBundle
  <1>2. x.pc \in ServePC \cup SettlePC \cup {"result"}
    BY Serving DEF LeftIn, SettlePC
  <1>3. CASE x.pc \in ServePC
    <2>1. x.b \in Bundle /\ x.cur = NoBundle
      BY <1>1, <1>3 DEF Fit
    <2>2. LeftIn(x) \notin {"none", "validated"}
      BY <1>3, Serving DEF LeftIn
    <2> QED
      BY <1>3, <2>1, <2>2 DEF Of, Has
  <1>4. CASE x.pc \in SettlePC \cup {"result"}
    <2>1. x.cur \in Bundle /\ x.to \in Decisions
      BY <1>1, <1>4 DEF Fit
    <2>2. Of(x) = x.cur
      BY <1>1, <2>1 DEF Of
    <2>3. LeftIn(x) \notin {"none", "validated"}
      BY <1>4, <2>1 DEF LeftIn, SettlePC, Decisions
    <2> QED
      BY <2>1, <2>2, <2>3 DEF Has
  <1> QED
    BY <1>2, <1>3, <1>4

(***************************************************************************)
(* The property for one thread.                                            *)
(***************************************************************************)
Put(t) == LeftIn(th[t]) # "any" => rec[Of(th[t])].State = LeftIn(th[t])

(***************************************************************************)
(* RecordStaysPut is that, for every thread, until a call fails.           *)
(***************************************************************************)
LEMMA PutIsStaysPut == RecordStaysPut <=> (faults = 0 => \A t \in Threads : Put(t))
  BY DEF RecordStaysPut, Put, Of

(***************************************************************************)
(* Every step keeps the records put: whoever else would move one has to    *)
(* have the bundle, or moves it from validated.                            *)
(***************************************************************************)
LEMMA NextStaysPut ==
    ASSUME Shape, OnePlace, RecordStaysPut, [Next]_vars
    PROVE  RecordStaysPut'
  <1> SUFFICES ASSUME faults' = 0, NEW u \in Threads, LeftIn(th'[u]) # "any"
               PROVE  rec'[Of(th'[u])].State = LeftIn(th'[u])
    BY PutIsStaysPut DEF RecordStaysPut, Of
  <1>1. Shape'
    BY NextShaped
  <1>2. th \in [Threads -> Thread]
    BY DEF Shape
  <1>3. Idle \/ Counts
    BY StepKinds DEF Quiet, Changes, Accepts, Seals, Mover, Schedules, Pops, Pushes, Claims, Takes, Calm
  <1>4. faults = 0
    BY <1>3 DEF Idle, Counts, Shape
  <1>5. \A t \in Threads : LeftIn(th[t]) # "any" =>
          /\ rec[Of(th[t])].State = LeftIn(th[t])
          /\ Of(th[t]) \in Bundle /\ Has(t, Of(th[t]))
          /\ LeftIn(th[t]) \notin {"none", "validated"}
    BY <1>4, InPhaseHas, PutIsStaysPut DEF Put
  <1>6. CASE Idle
    BY <1>5, <1>6 DEF Idle
  <1>7. ASSUME NEW t \in Threads, Quiet(t) \/ Mover(t)
        PROVE  rec'[Of(th'[u])].State = LeftIn(th'[u])
    <2>1. PICK y : Calm(t, y)
      BY <1>7, CalmSteps
    <2>2. LeftIn(th'[u]) = LeftIn(th[u]) /\ Of(th'[u]) = Of(th[u])
      BY <1>2, <2>1 DEF Calm
    <2> QED
      BY <1>5, <2>1, <2>2 DEF Calm, RecordsStay
  <1>8. ASSUME NEW t \in Threads, Changes(t)
        PROVE  rec'[Of(th'[u])].State = LeftIn(th'[u])
    <2>1. PICK y, from, to : \E b \in Bundle :
            /\ th' = [th EXCEPT ![t] = y]
            /\ CanApply(b, from, to) /\ rec' = Moved(b, to)
            /\ LeftIn(y) # "any" => LeftIn(y) = to /\ Of(y) = b
            /\ (th[t].pc \in ServePC /\ th[t].b = b) \/ th[t].cur = b \/ from = "validated"
      BY <1>8 DEF Changes
    <2>2. PICK b \in Bundle :
            /\ CanApply(b, from, to) /\ rec' = Moved(b, to)
            /\ LeftIn(y) # "any" => LeftIn(y) = to /\ Of(y) = b
            /\ (th[t].pc \in ServePC /\ th[t].b = b) \/ th[t].cur = b \/ from = "validated"
      BY <2>1
    <2>3. rec'[b].State = to /\ \A c \in Bundle : c # b => rec'[c] = rec[c]
      BY <2>2, MovedRecord
    <2>4. CASE u = t
      BY <1>2, <2>1, <2>2, <2>3, <2>4
    <2>5. CASE u # t
      <3>1. th'[u] = th[u]
        BY <1>2, <2>1, <2>5
      <3>2. Of(th[u]) # b
        <4> SUFFICES ASSUME Of(th[u]) = b PROVE FALSE
          OBVIOUS
        <4>1. Has(u, b) /\ rec[b].State # "validated"
          BY <1>5, <3>1
        <4>2. from # "validated"
          BY <2>2, <4>1 DEF CanApply
        <4>3. Has(t, b)
          BY <1>4, <2>2, <4>2 DEF Has
        <4> QED
          BY <2>5, <4>1, <4>3 DEF OnePlace
      <3> QED
        BY <1>5, <2>3, <3>1, <3>2
    <2> QED
      BY <2>4, <2>5
  <1>9. ASSUME NEW t \in Threads, Accepts(t)
        PROVE  rec'[Of(th'[u])].State = LeftIn(th'[u])
    <2>1. PICK y : \E b \in Bundle :
            /\ th' = [th EXCEPT ![t] = y] /\ LeftIn(y) = "any"
            /\ rec[b].State = "none" /\ rec' = [rec EXCEPT ![b].State = "received"]
      BY <1>9 DEF Accepts
    <2>2. PICK b \in Bundle : rec[b].State = "none" /\ rec' = [rec EXCEPT ![b].State = "received"]
      BY <2>1
    <2>3. \A c \in Bundle : c # b => rec'[c] = rec[c]
      BY <2>2, AcceptedRecord
    <2>4. th'[u] = th[u]
      BY <1>2, <2>1
    <2>5. Of(th[u]) # b
      BY <1>5, <2>2, <2>4
    <2> QED
      BY <1>5, <2>3, <2>4, <2>5
  <1>10. ASSUME NEW t \in Threads, Seals(t)
         PROVE  rec'[Of(th'[u])].State = LeftIn(th'[u])
    <2>1. PICK y : th' = [th EXCEPT ![t] = y] /\ QuietMove(th[t], y) /\ UNCHANGED rec
      BY <1>10 DEF Seals
    <2>2. LeftIn(th'[u]) = LeftIn(th[u]) /\ Of(th'[u]) = Of(th[u])
      BY <1>2, <2>1 DEF QuietMove
    <2> QED
      BY <1>5, <2>1, <2>2
  <1> QED
    BY <1>6, <1>7, <1>8, <1>9, <1>10, StepKinds

(***************************************************************************)
(* As long as no call has failed, a record is in the state that its        *)
(* thread's last transition left, until that thread's next one: reusing    *)
(* the returned record is as good as reading it again.                     *)
(***************************************************************************)
THEOREM RecordsStayPut == Spec => []RecordStaysPut
  <1>1. Init => Shape /\ OnePlace /\ RecordStaysPut
    <2> SUFFICES ASSUME Init PROVE RecordStaysPut
      BY InitShaped, InitOnePlace
    <2>1. \A t \in Threads : th[t].pc = "idle"
      BY DEF Init, Resting
    <2>2. \A t \in Threads : Put(t)
      BY <2>1 DEF Put, LeftIn
    <2> QED
      BY <2>2, PutIsStaysPut
  <1>2. Shape /\ OnePlace /\ RecordStaysPut /\ [Next]_vars
        => Shape' /\ OnePlace' /\ RecordStaysPut'
    BY NextShaped, NextOnePlace, NextStaysPut
  <1> QED
    BY <1>1, <1>2, PTL DEF Spec

-----------------------------------------------------------------------------
(* The trails: what the events of a bundle say of it. *)

(***************************************************************************)
(* The state that a thread is about to tell in an event, the queued events *)
(* left out.                                                               *)
(***************************************************************************)
TellPC == {"emitValidated", "emitPicked", "emitRetry", "emitSimulated", "emitScored",
           "emitTerminal", "emitPersisted", "emitCompleted"}

Telling(x) ==
    CASE x.pc = "emitValidated"                -> "validated"
      [] x.pc \in TellPC \ {"emitValidated"}   -> LeftIn(x)
      [] OTHER                                 -> "none"

AboutToTell(t, b) == Telling(th[t]) # "none" /\ Of(th[t]) = b

(***************************************************************************)
(* The bundle that a handler has created and not yet returned for.         *)
(***************************************************************************)
Submission(x) == IF x.pc \in HandlerPC \ {"idle"} \/ x.k = "enqueue" THEN x.b ELSE NoBundle

(***************************************************************************)
(* The events lead to y, whose event comes next; or they have told of the  *)
(* state y.                                                                *)
(***************************************************************************)
Lead(s, y) ==
    \/ Path(s) = {} /\ y = "validated"
    \/ \E i \in Path(s) : IsLast(s, i) /\ Follows(s[i], y)

Told(s, y) ==
    \/ y \in {"none", "received"} /\ Path(s) = {}
    \/ y = "queued" /\ \E i \in Path(s) : IsLast(s, i) /\ CanTransition(s[i], "queued")
    \/ y \notin {"none", "received", "queued"} /\ \E i \in Path(s) : IsLast(s, i) /\ s[i] = y

(***************************************************************************)
(* Until its checkpoint, the events of a bundle are its path to the state  *)
(* of its record, or to the state before when a thread is about to tell.   *)
(***************************************************************************)
Trail(b) ==
    checkpoints[b] = 0 =>
        /\ Chained(events[b])
        /\ (\E t \in Threads : AboutToTell(t, b)) => Lead(events[b], rec[b].State)
        /\ (\A t \in Threads : ~AboutToTell(t, b)) => Told(events[b], rec[b].State)

OnTrail(t) ==
    LET x == th[t]
    IN  /\ Telling(x) # "none" => rec[Of(x)].State = Telling(x)
        /\ x.pc = "settle" => x.from \notin {"none", "received"}
        /\ x.pc = "deleteEvents" => checkpoints[x.cur] # 0
        /\ Submission(x) # NoBundle => rec[Submission(x)].State # "none"

OneSubmission ==
    \A t, u \in Threads :
        Submission(th[t]) # NoBundle /\ Submission(th[t]) = Submission(th[u]) => t = u

OnTrails ==
    /\ events \in [Bundle -> Seq(BundleState)]
    /\ OneSubmission
    /\ \A t \in Threads : OnTrail(t)
    /\ \A b \in Bundle : Trail(b)

Trails == faults = 0 => OnTrails

-----------------------------------------------------------------------------
(* Sequences of events. *)

(***************************************************************************)
(* An event more.                                                          *)
(***************************************************************************)
LEMMA OneMore ==
    ASSUME NEW s \in Seq(BundleState), NEW y \in BundleState
    PROVE  LET r == Append(s, y)
           IN  /\ r \in Seq(BundleState)
               /\ \A i \in Path(s) : i \in Nat /\ i < Len(s) + 1 /\ r[i] = s[i]
               /\ r[Len(s) + 1] = y /\ Len(s) + 1 \in Nat
               /\ Path(r) = IF y = "queued" THEN Path(s) ELSE Path(s) \cup {Len(s) + 1}
  <1> DEFINE r == Append(s, y)
             n == Len(s) + 1
  <1>1. /\ r \in Seq(BundleState) /\ n \in Nat
        /\ DOMAIN s = 1..Len(s) /\ DOMAIN r = 1..n /\ r[n] = y
        /\ \A i \in 1..Len(s) : r[i] = s[i]
    OBVIOUS
  <1>2. \A i \in Path(s) : i \in Nat /\ i < n /\ r[i] = s[i]
    BY <1>1 DEF Path
  <1>3. \A i : i \in Path(r) <=> i \in Path(s) \/ (y # "queued" /\ i = n)
    <2>1. \A i : i \in 1..n <=> i \in 1..Len(s) \/ i = n
      OBVIOUS
    <2> HIDE DEF r, n
    <2> QED
      BY <1>1, <2>1 DEF Path
  <1> HIDE DEF r, n
  <1>4. Path(r) = IF y = "queued" THEN Path(s) ELSE Path(s) \cup {n}
    BY <1>3
  <1> QED
    BY <1>1, <1>2, <1>4 DEF r, n

(***************************************************************************)
(* A queued event is not on the path.                                      *)
(***************************************************************************)
LEMMA QueuedUntold ==
    ASSUME NEW s \in Seq(BundleState)
    PROVE  LET r == Append(s, "queued")
           IN  /\ r \in Seq(BundleState)
               /\ Chained(s) => Chained(r)
               /\ \A y : (Lead(s, y) => Lead(r, y)) /\ (Told(s, y) => Told(r, y))
  <1> DEFINE r == Append(s, "queued")
  <1>1. /\ r \in Seq(BundleState) /\ Path(r) = Path(s)
        /\ \A i \in Path(s) : r[i] = s[i]
    BY OneMore DEF BundleState
  <1> HIDE DEF r
  <1>2. \A i : IsLast(r, i) <=> IsLast(s, i)
    BY <1>1 DEF IsLast
  <1>3. Chained(s) => Chained(r)
    BY <1>1 DEF Chained
  <1>4. \A y : (Lead(s, y) => Lead(r, y)) /\ (Told(s, y) => Told(r, y))
    BY <1>1, <1>2 DEF Lead, Told
  <1> QED
    BY <1>1, <1>3, <1>4 DEF r

(***************************************************************************)
(* The event to which the others lead goes on with the path.               *)
(***************************************************************************)
LEMMA EventGoesOn ==
    ASSUME NEW s \in Seq(BundleState), NEW y \in BundleState, y \notin {"received", "queued"},
           Chained(s), Lead(s, y)
    PROVE  LET r == Append(s, y)
           IN  r \in Seq(BundleState) /\ Chained(r) /\ Told(r, y)
  <1> DEFINE r == Append(s, y)
             n == Len(s) + 1
  <1>1. /\ r \in Seq(BundleState)
        /\ \A i \in Path(s) : i \in Nat /\ i < n /\ r[i] = s[i]
        /\ r[n] = y /\ n \in Nat
        /\ Path(r) = Path(s) \cup {n}
    BY OneMore
  <1> HIDE DEF r, n
  <1>2. IsLast(r, n)
    BY <1>1 DEF IsLast
  <1>3. y \notin {"none", "received", "queued"}
    BY DEF BundleState, Decisions
  <1>4. Told(r, y)
    BY <1>1, <1>2, <1>3 DEF Told
  <1>5. ASSUME NEW j \in Path(s)
        PROVE  \/ r[j] = "validated" /\ \A i \in Path(r) : j <= i
               \/ \E i \in Path(r) : /\ i < j /\ Follows(r[i], r[j])
                                     /\ \A k \in Path(r) : k <= i \/ j <= k
    <2>1. CASE s[j] = "validated" /\ \A i \in Path(s) : j <= i
      BY <1>1, <2>1
    <2>2. CASE \E i \in Path(s) : /\ i < j /\ Follows(s[i], s[j])
                                  /\ \A k \in Path(s) : k <= i \/ j <= k
      <3>1. PICK i \in Path(s) : /\ i < j /\ Follows(s[i], s[j])
                                 /\ \A k \in Path(s) : k <= i \/ j <= k
        BY <2>2
      <3>2. i \in Path(r) /\ i < j /\ Follows(r[i], r[j]) /\ j <= n
        BY <3>1, <1>1
      <3>3. \A k \in Path(r) : k <= i \/ j <= k
        BY <3>1, <3>2, <1>1
      <3> QED
        BY <3>2, <3>3
    <2> QED
      BY <2>1, <2>2 DEF Chained
  <1>6. \/ r[n] = "validated" /\ \A i \in Path(r) : n <= i
        \/ \E i \in Path(r) : /\ i < n /\ Follows(r[i], r[n])
                              /\ \A k \in Path(r) : k <= i \/ n <= k
    <2>1. CASE Path(s) = {} /\ y = "validated"
      BY <1>1, <2>1
    <2>2. CASE \E i \in Path(s) : IsLast(s, i) /\ Follows(s[i], y)
      <3>1. PICK i \in Path(s) : IsLast(s, i) /\ Follows(s[i], y)
        BY <2>2
      <3>2. i \in Path(r) /\ i < n /\ Follows(r[i], r[n])
        BY <3>1, <1>1
      <3>3. \A k \in Path(r) : k <= i \/ n <= k
        BY <3>1, <1>1 DEF IsLast
      <3> QED
        BY <3>2, <3>3
    <2> QED
      BY <2>1, <2>2 DEF Lead
  <1>7. Chained(r)
    BY <1>1, <1>5, <1>6 DEF Chained
  <1> QED
    BY <1>1, <1>4, <1>7 DEF r

(***************************************************************************)
(* A transition from a state that the events have told.                    *)
(***************************************************************************)
LEMMA TransitionLeadsOn ==
    ASSUME NEW s, NEW x, NEW y, Told(s, x), CanTransition(x, y), x # "none",
           x = "received" => y = "validated"
    PROVE  IF y = "queued" THEN Told(s, y) ELSE Lead(s, y)
  <1>1. CASE x = "received"
    BY <1>1 DEF Told, Lead
  <1>2. CASE x = "queued"
    <2>1. y # "queued"
      BY <1>2 DEF CanTransition
    <2> QED
      BY <1>2, <2>1 DEF Told, Lead, Follows
  <1>3. CASE x \notin {"none", "received", "queued"}
    <2>1. PICK i \in Path(s) : IsLast(s, i) /\ s[i] = x
      BY <1>3 DEF Told
    <2>2. CanTransition(s[i], y)
      BY <2>1
    <2> QED
      BY <2>1, <2>2 DEF Told, Lead, Follows
  <1> QED
    BY <1>1, <1>2, <1>3

-----------------------------------------------------------------------------
(* What a step does to the trails while no call fails. *)

StatesStay == \A b \in Bundle : rec'[b].State = rec[b].State

(***************************************************************************)
(* The thread x becomes y and takes up no submission.                      *)
(***************************************************************************)
Steered(x, y) ==
    /\ Submission(y) \in {NoBundle, Submission(x)}
    /\ y.pc = "settle" => y.from \notin {"none", "received"}
    /\ y.pc = "deleteEvents" => x.pc = "seal" /\ y.cur = x.cur

(***************************************************************************)
(* Neither records nor events change.                                      *)
(***************************************************************************)
Silent(t) ==
    \E y : /\ th' = [th EXCEPT ![t] = y]
           /\ Steered(th[t], y) /\ y.pc # "deleteEvents"
           /\ Telling(th[t]) = "none" /\ Telling(y) = "none"
           /\ StatesStay /\ UNCHANGED <<events, checkpoints>>

(***************************************************************************)
(* The thread tells what it was about to tell, or an event on the side.    *)
(***************************************************************************)
Emits(t) ==
    \E y : /\ th' = [th EXCEPT ![t] = y]
           /\ Steered(th[t], y) /\ y.pc # "deleteEvents"
           /\ Telling(th[t]) # "none" /\ Telling(y) = "none"
           /\ events' = [events EXCEPT ![Of(th[t])] = Append(events[Of(th[t])], Telling(th[t]))]
           /\ StatesStay /\ UNCHANGED checkpoints

EmitsAside(t) ==
    \E y : \E b \in Bundle :
        /\ th' = [th EXCEPT ![t] = y]
        /\ Steered(th[t], y) /\ y.pc # "deleteEvents"
        /\ Telling(th[t]) = "none" /\ Telling(y) = "none"
        /\ events' = [events EXCEPT ![b] = Append(events[b], "queued")]
        /\ StatesStay /\ UNCHANGED checkpoints

(***************************************************************************)
(* A transition, which the thread is about to tell.                        *)
(***************************************************************************)
Transits(t) ==
    \E y, from, to : \E b \in Bundle :
        /\ th' = [th EXCEPT ![t] = y]
        /\ Steered(th[t], y) /\ y.pc # "deleteEvents"
        /\ Telling(th[t]) = "none"
        /\ IF to = "queued" THEN Telling(y) = "none" ELSE Telling(y) = to /\ Of(y) = b
        /\ CanApply(b, from, to) /\ rec' = Moved(b, to)
        /\ from # "none" /\ (from = "received" => to = "validated")
        /\ \/ th[t].pc \in ServePC /\ th[t].b = b
           \/ th[t].cur = b
           \/ from = "validated" /\ Submission(th[t]) = b
        /\ UNCHANGED <<events, checkpoints>>

Submits(t) ==
    \E y : \E b \in Bundle :
        /\ th' = [th EXCEPT ![t] = y]
        /\ y.pc \notin {"settle", "deleteEvents"}
        /\ Submission(y) = b
        /\ Telling(th[t]) = "none" /\ Telling(y) = "none"
        /\ rec[b].State = "none" /\ rec' = [rec EXCEPT ![b].State = "received"]
        /\ UNCHANGED <<events, checkpoints>>

PutsCheckpoint(t) ==
    \E y : /\ th' = [th EXCEPT ![t] = y]
           /\ Steered(th[t], y)
           /\ th[t].pc = "seal" /\ Telling(y) = "none"
           /\ checkpoints' = [checkpoints EXCEPT ![th[t].cur] = checkpoints[th[t].cur] + 1]
           /\ StatesStay /\ UNCHANGED events

Forgets(t) ==
    \E y : /\ th' = [th EXCEPT ![t] = y]
           /\ Steered(th[t], y) /\ y.pc # "deleteEvents"
           /\ th[t].pc = "deleteEvents" /\ Telling(y) = "none"
           /\ events' = [events EXCEPT ![th[t].cur] = << >>]
           /\ StatesStay /\ UNCHANGED checkpoints

TrailKind(t) ==
    \/ Silent(t) \/ Emits(t) \/ EmitsAside(t) \/ Transits(t) \/ Submits(t)
    \/ PutsCheckpoint(t) \/ Forgets(t)

(***************************************************************************)
(* While no call fails, none of the alternatives that fail is taken.       *)
(***************************************************************************)
LEMMA NoFault ==
    ASSUME Shape, faults' = 0
    PROVE  ~Fault
  BY DEF Shape, Fault

(***************************************************************************)
(* A thread that is done with its bundle tells nothing.                    *)
(***************************************************************************)
LEMMA RestSteered ==
    ASSUME NEW x, NEW l \in RestPC
    PROVE  LET y == Going(x, l)
           IN  Steered(x, y) /\ Telling(y) = "none" /\ y.pc # "deleteEvents"
  <1> DEFINE y == Resting(l)
  <1>1. Going(x, l) = y
    BY DEF Going, RestPC
  <1>2. y.pc = l /\ y.b = NoBundle /\ y.k = "none"
    BY DEF Resting
  <1> HIDE DEF y
  <1>3. Submission(y) = NoBundle
    BY <1>2 DEF Submission
  <1>4. Telling(y) = "none" /\ y.pc \notin {"settle", "deleteEvents"}
    BY <1>2 DEF Telling, TellPC, RestPC
  <1> QED
    BY <1>1, <1>3, <1>4 DEF Steered

(***************************************************************************)
(* So does one that returns from a terminalisation.                        *)
(***************************************************************************)
LEMMA BackSteered ==
    ASSUME NEW x, Fit(x), x.pc \in SettlePC \cup {"result"}
    PROVE  LET y == Going(x, x.k)
           IN  Steered(x, y) /\ Telling(y) = "none" /\ y.pc # "deleteEvents"
  <1>1. CASE x.k \in RestPC
    BY <1>1, RestSteered
  <1>2. CASE x.k = "enqueue"
    <2> DEFINE y == [Resting("enqueue") EXCEPT !.b = x.b]
    <2>1. Going(x, x.k) = y
      BY <1>2 DEF Going
    <2>2. y = [pc |-> "enqueue", b |-> x.b, cur |-> NoBundle, from |-> "none", to |-> "none", k |-> "none"]
      BY DEF Resting
    <2>3. y.pc = "enqueue" /\ y.b = x.b
      BY <2>2
    <2> HIDE DEF y
    <2>4. Submission(y) = x.b /\ Submission(x) = x.b
      BY <1>2, <2>3 DEF Submission, HandlerPC
    <2>5. Telling(y) = "none"
      BY <2>3 DEF Telling, TellPC
    <2> QED
      BY <2>1, <2>3, <2>4, <2>5 DEF Steered
  <1> QED
    BY <1>1, <1>2 DEF Fit, RestPC

(***************************************************************************)
(* A thread that begins to settle a bundle.                                *)
(***************************************************************************)
LEMMA SettlingSteered ==
    ASSUME NEW x, NEW v, NEW from, NEW to, NEW k, from \notin {"none", "received"},
           k = "enqueue" => x.pc = "push"
    PROVE  LET y == Settling(x, v, from, to, k)
           IN  Steered(x, y) /\ Telling(y) = "none" /\ y.pc # "deleteEvents"
  <1> DEFINE y == Settling(x, v, from, to, k)
  <1>1. /\ y.pc = "settle" /\ y.b = (IF k = "enqueue" THEN x.b ELSE NoBundle) /\ y.from = from
        /\ y.k = k
    BY DEF Settling
  <1> HIDE DEF y
  <1>2. Submission(y) = (IF k = "enqueue" THEN x.b ELSE NoBundle)
    BY <1>1 DEF Submission, HandlerPC
  <1>3. k = "enqueue" => Submission(x) = x.b
    BY DEF Submission, HandlerPC
  <1>4. Telling(y) = "none"
    BY <1>1 DEF Telling, TellPC
  <1> QED
    BY <1>1, <1>2, <1>3, <1>4 DEF Steered, y

(***************************************************************************)
(* The other steps from one place of the code to the next.                 *)
(***************************************************************************)
LEMMA OnSteered ==
    ASSUME NEW x, Fit(x), NEW l, <<x.pc, l>> \in Onward \cup Advance
    PROVE  LET y == Going(x, l)
           IN  /\ Steered(x, y) /\ y.pc = l /\ y.to = x.to /\ Of(y) = Of(x)
               /\ <<x.pc, l>> \in Onward => Telling(y) = "none"
               /\ <<x.pc, l>> \in Advance => Telling(x) = "none"
  <1> DEFINE y == [x EXCEPT !.pc = l]
  <1>1. Going(x, l) = y
    BY DEF Going, Onward, Advance
  <1>2. y.pc = l /\ y.b = x.b /\ y.cur = x.cur /\ y.to = x.to /\ y.k = x.k
    BY DEF Fit, Thread
  <1> HIDE DEF y
  <1>3. Submission(y) = Submission(x)
    BY <1>2 DEF Submission, Onward, Advance, HandlerPC
  <1>4. y.pc # "settle" /\ (y.pc = "deleteEvents" => x.pc = "seal")
    BY <1>2 DEF Onward, Advance
  <1>5. <<x.pc, l>> \in Onward => Telling(y) = "none"
    BY <1>2 DEF Onward, Telling, TellPC
  <1>6. <<x.pc, l>> \in Advance => Telling(x) = "none"
    BY DEF Advance, Telling, TellPC
  <1> QED
    BY <1>1, <1>2, <1>3, <1>4, <1>5, <1>6 DEF Steered, Of

-----------------------------------------------------------------------------
(* Every step while no call fails is of one of these kinds. *)

(***************************************************************************)
(* A call of TransitionBundle.                                             *)
(***************************************************************************)
LEMMA TransitionTrail ==
    ASSUME Shape, faults' = 0, NEW t \in Threads, NEW b \in Bundle, NEW from, NEW to, NEW ok,
           NEW fail, Transition(t, b, from, to, ok, fail), <<th[t].pc, ok>> \in Advance,
           LET z == Going(th[t], fail)
           IN  Steered(th[t], z) /\ Telling(z) = "none" /\ z.pc # "deleteEvents",
           Of(th[t]) = b,
           Telling(Going(th[t], ok)) = IF to = "queued" THEN "none" ELSE to,
           from # "none", from = "received" => to = "validated",
           \/ th[t].pc \in ServePC /\ th[t].b = b
           \/ th[t].cur = b
           \/ from = "validated" /\ Submission(th[t]) = b
    PROVE  Silent(t) \/ Transits(t)
  <1> DEFINE x == th[t]
             y == Going(x, ok)
             z == Going(x, fail)
  <1>1. Fit(x) /\ ~Fault
    BY NoFault DEF Shape
  <1>2. Steered(x, y) /\ y.pc = ok /\ Of(y) = b /\ Telling(x) = "none"
    BY <1>1, OnSteered
  <1>3. ok # "deleteEvents"
    BY DEF Advance
  <1>4. /\ Goto(t, ok) => th' = [th EXCEPT ![t] = y]
        /\ Goto(t, fail) => th' = [th EXCEPT ![t] = z]
    BY DEF Goto, Going
  <1>5. Telling(y) = (IF to = "queued" THEN "none" ELSE to)
    OBVIOUS
  <1>6. Steered(x, z) /\ Telling(z) = "none" /\ z.pc # "deleteEvents"
    OBVIOUS
  <1> HIDE DEF y, z
  <1>7. UNCHANGED <<events, checkpoints>>
    BY DEF Transition
  <1>8. CASE CanApply(b, from, to) /\ rec' = Moved(b, to) /\ Goto(t, ok)
    BY <1>2, <1>3, <1>4, <1>5, <1>7, <1>8 DEF Transits
  <1>9. CASE UNCHANGED rec /\ Goto(t, fail)
    BY <1>2, <1>4, <1>6, <1>7, <1>9 DEF Silent, StatesStay
  <1> QED
    BY <1>1, <1>8, <1>9 DEF Transition

(***************************************************************************)
(* A call of emitTransition for the state that the thread has to tell.     *)
(***************************************************************************)
LEMMA EmitTrail ==
    ASSUME Shape, faults' = 0, NEW t \in Threads, NEW b, NEW to, NEW ok, NEW fail,
           Emit(t, b, to, ok, fail), <<th[t].pc, ok>> \in Onward, ok # "deleteEvents",
           Of(th[t]) = b, Telling(th[t]) = to, to # "none"
    PROVE  Emits(t)
  <1> DEFINE x == th[t]
             y == Going(x, ok)
  <1>1. Fit(x) /\ ~Fault
    BY NoFault DEF Shape
  <1>2. Steered(x, y) /\ y.pc = ok /\ Telling(y) = "none"
    BY <1>1, OnSteered
  <1>3. Goto(t, ok) => th' = [th EXCEPT ![t] = y]
    BY DEF Goto, Going
  <1> HIDE DEF y
  <1>4. Goto(t, ok) /\ events' = [events EXCEPT ![b] = Append(events[b], to)]
    BY <1>1 DEF Emit
  <1>5. StatesStay /\ UNCHANGED checkpoints
    BY DEF Emit, StatesStay
  <1> QED
    BY <1>2, <1>3, <1>4, <1>5 DEF Emits

(***************************************************************************)
(* A step that touches neither records nor events.                         *)
(***************************************************************************)
LEMMA SilentGoing ==
    ASSUME Shape, NEW t \in Threads, NEW l, <<th[t].pc, l>> \in Onward, l # "deleteEvents",
           Goto(t, l), Telling(th[t]) = "none", StatesStay, UNCHANGED <<events, checkpoints>>
    PROVE  Silent(t)
  <1> DEFINE y == Going(th[t], l)
  <1>1. Fit(th[t])
    BY DEF Shape
  <1>2. Steered(th[t], y) /\ y.pc = l /\ Telling(y) = "none"
    BY <1>1, OnSteered
  <1>3. th' = [th EXCEPT ![t] = y]
    BY DEF Goto, Going
  <1> HIDE DEF y
  <1> QED
    BY <1>2, <1>3 DEF Silent

(***************************************************************************)
(* A step that ends the work on a bundle.                                  *)
(***************************************************************************)
LEMMA SilentRest ==
    ASSUME NEW t \in Threads, NEW l \in RestPC, Goto(t, l), Telling(th[t]) = "none",
           StatesStay, UNCHANGED <<events, checkpoints>>
    PROVE  Silent(t)
  <1> DEFINE y == Going(th[t], l)
  <1>1. Steered(th[t], y) /\ Telling(y) = "none" /\ y.pc # "deleteEvents"
    BY RestSteered
  <1>2. th' = [th EXCEPT ![t] = y]
    BY DEF Goto, Going
  <1> HIDE DEF y
  <1> QED
    BY <1>1, <1>2 DEF Silent

(***************************************************************************)
(* A step that begins a terminalisation.                                   *)
(***************************************************************************)
LEMMA SilentSettling ==
    ASSUME NEW t \in Threads, NEW v, NEW from, NEW to, NEW k, Settle(t, v, from, to, k),
           from \notin {"none", "received"}, k = "enqueue" => th[t].pc = "push",
           Telling(th[t]) = "none", StatesStay, UNCHANGED <<events, checkpoints>>
    PROVE  Silent(t)
  <1> DEFINE y == Settling(th[t], v, from, to, k)
  <1>1. Steered(th[t], y) /\ Telling(y) = "none" /\ y.pc # "deleteEvents"
    BY SettlingSteered
  <1>2. th' = [th EXCEPT ![t] = y]
    BY DEF Settle, Settling
  <1> HIDE DEF y
  <1> QED
    BY <1>1, <1>2 DEF Silent

(***************************************************************************)
(* The places of the code where a thread has nothing to tell.              *)
(***************************************************************************)
LEMMA NothingToTell ==
    ASSUME NEW x, x.pc \notin TellPC
    PROVE  Telling(x) = "none"
  BY DEF Telling, TellPC

(***************************************************************************)
(* The steps of a terminalisation.                                         *)
(***************************************************************************)
LEMMA SettleTrail ==
    ASSUME Shape, faults' = 0, NEW t \in Threads, OnTrail(t), SettleStep(t)
    PROVE  TrailKind(t)
  <1> DEFINE x == th[t]
  <1>1. Fit(x) /\ ~Fault
    BY NoFault DEF Shape
  <1>2. x.pc \in SettlePC
    BY DEF SettleStep, SettleTransition, EmitTerminal, Persist, EmitPersisted, Complete,
           EmitCompleted, Seal, DeleteEvents, Release, SettlePC
  <1>3. x.cur \in Bundle /\ x.to \in Decisions
    BY <1>1, <1>2 DEF Fit
  <1>4. LET z == Going(x, x.k)
        IN  Steered(x, z) /\ Telling(z) = "none" /\ z.pc # "deleteEvents"
    BY <1>1, <1>2, BackSteered
  <1>5. Of(x) = x.cur
    <2>1. NoBundle \notin Bundle
      BY RelayAssumption DEF NoBundle
    <2> QED
      BY <1>3, <2>1 DEF Of
  <1>6. \A l : Goto(t, l) => th' = [th EXCEPT ![t] = Going(x, l)]
    BY DEF Goto, Going
  <1>7. CASE SettleTransition(t)
    <2>1. x.pc = "settle" /\ Transition(t, x.cur, x.from, x.to, "emitTerminal", x.k)
      BY <1>7 DEF SettleTransition
    <2>2. <<x.pc, "emitTerminal">> \in Advance
      BY <2>1 DEF Advance
    <2> DEFINE y == Going(x, "emitTerminal")
    <2>3. y.pc = "emitTerminal" /\ y.to = x.to
      BY <1>1, <2>2, OnSteered
    <2>4. Telling(y) = x.to /\ x.to # "queued" /\ x.from \notin {"none", "received"}
      BY <1>3, <2>1, <2>3 DEF Telling, TellPC, LeftIn, Decisions, OnTrail
    <2> HIDE DEF y
    <2>5. Silent(t) \/ Transits(t)
      BY <2>1, <2>2, <2>4, <1>3, <1>4, <1>5, TransitionTrail DEF y
    <2> QED
      BY <2>5 DEF TrailKind
  <1>8. CASE EmitTerminal(t)
    <2> DEFINE l == IF x.from = "scored" THEN "result" ELSE "persist"
    <2>1. x.pc = "emitTerminal" /\ Emit(t, x.cur, x.to, l, x.k)
      BY <1>8 DEF EmitTerminal
    <2>2. <<x.pc, l>> \in Onward /\ l # "deleteEvents"
      BY <2>1 DEF Onward
    <2>3. Telling(x) = x.to /\ x.to # "none"
      BY <1>3, <2>1 DEF Telling, TellPC, LeftIn, Decisions
    <2> QED
      BY <2>1, <2>2, <2>3, <1>5, EmitTrail DEF TrailKind
  <1>9. CASE Persist(t)
    <2>1. x.pc = "persist" /\ Transition(t, x.cur, x.to, "persisted", "emitPersisted", x.k)
      BY <1>9 DEF Persist
    <2>2. <<x.pc, "emitPersisted">> \in Advance
      BY <2>1 DEF Advance
    <2> DEFINE y == Going(x, "emitPersisted")
    <2>3. y.pc = "emitPersisted"
      BY <1>1, <2>2, OnSteered
    <2>4. Telling(y) = "persisted" /\ x.to \notin {"none", "received"}
      BY <1>3, <2>3 DEF Telling, TellPC, LeftIn, Decisions
    <2> HIDE DEF y
    <2>5. Silent(t) \/ Transits(t)
      BY <2>1, <2>2, <2>4, <1>3, <1>4, <1>5, TransitionTrail DEF y
    <2> QED
      BY <2>5 DEF TrailKind
  <1>10. CASE EmitPersisted(t)
    <2>1. x.pc = "emitPersisted" /\ Emit(t, x.cur, "persisted", "complete", "release")
      BY <1>10 DEF EmitPersisted
    <2>2. <<x.pc, "complete">> \in Onward /\ Telling(x) = "persisted"
      BY <2>1 DEF Onward, Telling, TellPC, LeftIn
    <2> QED
      BY <2>1, <2>2, <1>5, EmitTrail DEF TrailKind
  <1>11. CASE Complete(t)
    <2>1. x.pc = "complete" /\ Transition(t, x.cur, "persisted", "completed", "emitCompleted", x.k)
      BY <1>11 DEF Complete
    <2>2. <<x.pc, "emitCompleted">> \in Advance
      BY <2>1 DEF Advance
    <2> DEFINE y == Going(x, "emitCompleted")
    <2>3. y.pc = "emitCompleted"
      BY <1>1, <2>2, OnSteered
    <2>4. Telling(y) = "completed"
      BY <2>3 DEF Telling, TellPC, LeftIn
    <2> HIDE DEF y
    <2>5. Silent(t) \/ Transits(t)
      BY <2>1, <2>2, <2>4, <1>3, <1>4, <1>5, TransitionTrail DEF y
    <2> QED
      BY <2>5 DEF TrailKind
  <1>12. CASE EmitCompleted(t)
    <2>1. x.pc = "emitCompleted" /\ Emit(t, x.cur, "completed", "seal", "release")
      BY <1>12 DEF EmitCompleted
    <2>2. <<x.pc, "seal">> \in Onward /\ Telling(x) = "completed"
      BY <2>1 DEF Onward, Telling, TellPC, LeftIn
    <2> QED
      BY <2>1, <2>2, <1>5, EmitTrail DEF TrailKind
  <1>13. CASE Seal(t)
    <2>1. /\ x.pc = "seal" /\ Goto(t, "deleteEvents")
          /\ checkpoints' = [checkpoints EXCEPT ![x.cur] = checkpoints[x.cur] + 1]
          /\ UNCHANGED <<rec, events>>
      BY <1>1, <1>13 DEF Seal
    <2> DEFINE y == Going(x, "deleteEvents")
    <2>2. Steered(x, y) /\ Telling(y) = "none"
      BY <2>1, <1>1, OnSteered DEF Onward
    <2>3. th' = [th EXCEPT ![t] = y]
      BY <2>1, <1>6
    <2> HIDE DEF y
    <2> QED
      BY <2>1, <2>2, <2>3 DEF TrailKind, PutsCheckpoint, StatesStay
  <1>14. CASE DeleteEvents(t)
    <2>1. /\ x.pc = "deleteEvents" /\ Goto(t, "release")
          /\ events' = [events EXCEPT ![x.cur] = << >>]
          /\ UNCHANGED <<rec, checkpoints>>
      BY <1>1, <1>14 DEF DeleteEvents
    <2> DEFINE y == Going(x, "release")
    <2>2. Steered(x, y) /\ Telling(y) = "none" /\ y.pc = "release"
      BY <2>1, <1>1, OnSteered DEF Onward
    <2>3. th' = [th EXCEPT ![t] = y]
      BY <2>1, <1>6
    <2> HIDE DEF y
    <2> QED
      BY <2>1, <2>2, <2>3 DEF TrailKind, Forgets, StatesStay
  <1>15. CASE Release(t)
    <2>1. x.pc = "release" /\ Goto(t, x.k) /\ UNCHANGED <<rec, events, checkpoints>>
      BY <1>15 DEF Release
    <2>2. Telling(x) = "none"
      BY <2>1 DEF Telling, TellPC
    <2>3. th' = [th EXCEPT ![t] = Going(x, x.k)]
      BY <2>1, <1>6
    <2> DEFINE y == Going(x, x.k)
    <2>4. Steered(x, y) /\ Telling(y) = "none" /\ y.pc # "deleteEvents"
      BY <1>4
    <2> HIDE DEF y
    <2> QED
      BY <2>1, <2>2, <2>3, <2>4 DEF TrailKind, Silent, StatesStay, y
  <1> QED
    BY <1>7, <1>8, <1>9, <1>10, <1>11, <1>12, <1>13, <1>14, <1>15 DEF SettleStep

(***************************************************************************)
(* A thread that serves a bundle and calls TransitionBundle for it.        *)
(***************************************************************************)
LEMMA OwnTransitionTrail ==
    ASSUME Shape, faults' = 0, NEW t \in Threads, NEW from, NEW to, NEW ok,
           NEW fail \in {"idle", "next"}, <<th[t].pc, ok>> \in Advance,
           Transition(t, th[t].b, from, to, ok, fail),
           th[t].pc \in ServePC \/ (th[t].pc = "enqueue" /\ from = "validated"),
           \A y : y.pc = ok => Telling(y) = IF to = "queued" THEN "none" ELSE to,
           from # "none", from = "received" => to = "validated"
    PROVE  TrailKind(t)
  <1> DEFINE x == th[t]
  <1>1. Fit(x) /\ x.b \in Bundle /\ x.cur = NoBundle
    BY DEF Shape, Fit, AfterPush
  <1>2. Of(x) = x.b
    BY <1>1 DEF Of
  <1>3. Going(x, ok).pc = ok
    BY <1>1, OnSteered
  <1>4. LET z == Going(x, fail)
        IN  Steered(x, z) /\ Telling(z) = "none" /\ z.pc # "deleteEvents"
    BY RestSteered DEF RestPC
  <1>5. x.pc = "enqueue" => Submission(x) = x.b
    BY DEF Submission, HandlerPC
  <1>6. Telling(Going(x, ok)) = (IF to = "queued" THEN "none" ELSE to)
    BY <1>3
  <1>7. Silent(t) \/ Transits(t)
    BY <1>1, <1>2, <1>4, <1>5, <1>6, TransitionTrail
  <1> QED
    BY <1>7 DEF TrailKind

(***************************************************************************)
(* A thread that serves a bundle and tells of it.                          *)
(***************************************************************************)
LEMMA OwnEmitTrail ==
    ASSUME Shape, faults' = 0, NEW t \in Threads, th[t].pc \in ServePC, NEW to, NEW ok,
           NEW fail, Emit(t, th[t].b, to, ok, fail), <<th[t].pc, ok>> \in Onward,
           ok # "deleteEvents", Telling(th[t]) = to, to # "none"
    PROVE  TrailKind(t)
  <1>1. Of(th[t]) = th[t].b
    BY DEF Shape, Fit, Of
  <1> QED
    BY <1>1, EmitTrail DEF TrailKind

(***************************************************************************)
(* A queued event, after which the thread goes on as z.                    *)
(***************************************************************************)
LEMMA AsideTrail ==
    ASSUME Shape, faults' = 0, NEW t \in Threads, NEW b \in Bundle, NEW ok, NEW fail,
           Emit(t, b, "queued", ok, fail), Telling(th[t]) = "none",
           LET z == Going(th[t], ok)
           IN  Steered(th[t], z) /\ Telling(z) = "none" /\ z.pc # "deleteEvents"
    PROVE  TrailKind(t)
  <1> DEFINE z == Going(th[t], ok)
  <1>1. Goto(t, ok) /\ events' = [events EXCEPT ![b] = Append(events[b], "queued")]
    BY NoFault DEF Emit
  <1>2. th' = [th EXCEPT ![t] = z]
    BY <1>1 DEF Goto, Going
  <1>3. StatesStay /\ UNCHANGED checkpoints
    BY DEF Emit, StatesStay
  <1>4. Steered(th[t], z) /\ Telling(z) = "none" /\ z.pc # "deleteEvents"
    OBVIOUS
  <1> HIDE DEF z
  <1> QED
    BY <1>1, <1>2, <1>3, <1>4 DEF TrailKind, EmitsAside

(***************************************************************************)
(* A thread that begins to serve a bundle that was submitted before.       *)
(***************************************************************************)
LEMMA SilentBegin ==
    ASSUME NEW t \in Threads, NEW l \in {"check", "requeue"}, NEW b,
           th' = [th EXCEPT ![t] = [Resting(l) EXCEPT !.b = b]], Telling(th[t]) = "none",
           StatesStay, UNCHANGED <<events, checkpoints>>
    PROVE  Silent(t)
  <1> DEFINE y == [Resting(l) EXCEPT !.b = b]
  <1>1. y = [pc |-> l, b |-> b, cur |-> NoBundle, from |-> "none", to |-> "none", k |-> "none"]
    BY DEF Resting
  <1>2. y.pc = l /\ y.k = "none"
    BY <1>1
  <1>3. th' = [th EXCEPT ![t] = y]
    OBVIOUS
  <1> HIDE DEF y
  <1>4. Submission(y) = NoBundle /\ Telling(y) = "none"
    BY <1>2 DEF Submission, HandlerPC, Telling, TellPC
  <1> QED
    BY <1>2, <1>3, <1>4 DEF Silent, Steered

(***************************************************************************)
(* The steps of a request handler.                                         *)
(***************************************************************************)
LEMMA HandlerTrail ==
    ASSUME Shape, faults' = 0, NEW t \in Threads, HandlerStep(t)
    PROVE  TrailKind(t)
  <1> DEFINE x == th[t]
  <1>1. Fit(x) /\ ~Fault
    BY NoFault DEF Shape
  <1>2. ASSUME NEW b \in Bundle, Submit(t, b)
        PROVE  TrailKind(t)
    <2>1. /\ x.pc = "idle" /\ rec[b].State = "none"
          /\ rec' = [rec EXCEPT ![b].State = "received"]
          /\ th' = [th EXCEPT ![t] = [Resting("validate") EXCEPT !.b = b]]
          /\ UNCHANGED <<events, checkpoints>>
      BY <1>1, <1>2 DEF Submit
    <2> DEFINE y == [Resting("validate") EXCEPT !.b = b]
    <2>2. y = [pc |-> "validate", b |-> b, cur |-> NoBundle, from |-> "none", to |-> "none", k |-> "none"]
      BY DEF Resting
    <2>3. y.pc = "validate" /\ y.b = b
      BY <2>2
    <2>4. th' = [th EXCEPT ![t] = y]
      BY <2>1
    <2> HIDE DEF y
    <2>5. Submission(y) = b /\ Telling(y) = "none" /\ Telling(x) = "none"
      BY <2>1, <2>3 DEF Submission, HandlerPC, Telling, TellPC
    <2>6. Submits(t)
      BY <2>1, <2>3, <2>4, <2>5 DEF Submits
    <2> QED
      BY <2>6 DEF TrailKind
  <1>3. CASE Validate(t)
    <2>1. x.pc = "validate" /\ Transition(t, x.b, "received", "validated", "emitValidated", "idle")
      BY <1>3 DEF Validate
    <2>2. \A y : y.pc = "emitValidated" => Telling(y) = "validated"
      BY DEF Telling
    <2>3. x.pc \in ServePC /\ <<x.pc, "emitValidated">> \in Advance
      BY <2>1, Serving DEF Advance
    <2> QED
      BY <2>1, <2>2, <2>3, OwnTransitionTrail
  <1>4. CASE EmitValidated(t)
    <2>1. x.pc = "emitValidated" /\ Emit(t, x.b, "validated", "admit", "idle")
      BY <1>4 DEF EmitValidated
    <2>2. /\ <<x.pc, "admit">> \in Onward /\ x.pc \in ServePC
          /\ Telling(x) = "validated"
      BY <2>1, Serving DEF Onward, Telling
    <2> QED
      BY <2>1, <2>2, OwnEmitTrail
  <1>5. CASE Admit(t)
    <2>1. /\ x.pc = "admit" /\ StatesStay /\ UNCHANGED <<events, checkpoints>>
          /\ Settle(t, x.b, "validated", "rejected", "idle") \/ Goto(t, "reserve")
      BY <1>5 DEF Admit, store, StatesStay
    <2>2. <<x.pc, "reserve">> \in Onward /\ Telling(x) = "none"
      BY <2>1 DEF Onward, Telling, TellPC
    <2>3. CASE Goto(t, "reserve")
      BY <2>1, <2>2, <2>3, SilentGoing DEF TrailKind
    <2>4. CASE Settle(t, x.b, "validated", "rejected", "idle")
      BY <2>1, <2>2, <2>4, SilentSettling DEF TrailKind
    <2> QED
      BY <2>1, <2>3, <2>4
  <1>6. CASE Reserve(t)
    <2>1. /\ x.pc = "reserve" /\ StatesStay /\ UNCHANGED <<events, checkpoints>>
          /\ Settle(t, x.b, "validated", "rejected", "idle") \/ Goto(t, "push")
      BY <1>6 DEF Reserve, StatesStay
    <2>2. <<x.pc, "push">> \in Onward /\ Telling(x) = "none"
      BY <2>1 DEF Onward, Telling, TellPC
    <2>3. CASE Goto(t, "push")
      BY <2>1, <2>2, <2>3, SilentGoing DEF TrailKind
    <2>4. CASE Settle(t, x.b, "validated", "rejected", "idle")
      BY <2>1, <2>2, <2>4, SilentSettling DEF TrailKind
    <2> QED
      BY <2>1, <2>3, <2>4
  <1>7. CASE Push(t)
    <2>1. /\ x.pc = "push" /\ StatesStay /\ UNCHANGED <<events, checkpoints>>
          /\ \/ Settle(t, x.b, "validated", "rejected", "idle")
             \/ Goto(t, "enqueue")
             \/ \E v \in PushedOut : Settle(t, v, "queued", "rejected", "enqueue")
      BY <1>7 DEF Push, store, StatesStay
    <2>2. Telling(x) = "none"
      BY <2>1 DEF Telling, TellPC
    <2>3. CASE Settle(t, x.b, "validated", "rejected", "idle")
      BY <2>1, <2>2, <2>3, SilentSettling DEF TrailKind
    <2>4. CASE \E v \in PushedOut : Settle(t, v, "queued", "rejected", "enqueue")
      BY <2>1, <2>2, <2>4, SilentSettling DEF TrailKind
    <2>5. CASE Goto(t, "enqueue")
      <3> DEFINE y == [Resting("enqueue") EXCEPT !.b = x.b]
      <3>1. y = [pc |-> "enqueue", b |-> x.b, cur |-> NoBundle, from |-> "none", to |-> "none", k |-> "none"]
        BY DEF Resting
      <3>2. y.pc = "enqueue" /\ y.b = x.b
        BY <3>1
      <3>3. th' = [th EXCEPT ![t] = y]
        BY <2>5 DEF Goto
      <3> HIDE DEF y
      <3>4. Submission(y) = Submission(x) /\ Telling(y) = "none"
        BY <2>1, <3>2 DEF Submission, HandlerPC, Telling, TellPC
      <3>5. Silent(t)
        BY <2>1, <2>2, <3>2, <3>3, <3>4 DEF Silent, Steered
      <3> QED
        BY <3>5 DEF TrailKind
    <2> QED
      BY <2>1, <2>3, <2>4, <2>5
  <1>8. CASE Enqueue(t)
    <2>1. x.pc = "enqueue" /\ Transition(t, x.b, "validated", "queued", "emitQueued", "idle")
      BY <1>8 DEF Enqueue
    <2>2. \A y : y.pc = "emitQueued" => Telling(y) = "none"
      BY DEF Telling, TellPC
    <2>3. <<x.pc, "emitQueued">> \in Advance
      BY <2>1 DEF Advance
    <2> QED
      BY <2>1, <2>2, <2>3, OwnTransitionTrail
  <1>9. CASE EmitQueued(t)
    <2>1. x.pc = "emitQueued" /\ Emit(t, x.b, "queued", "idle", "idle")
      BY <1>9 DEF EmitQueued
    <2>2. x.b \in Bundle /\ Telling(x) = "none"
      BY <1>1, <2>1 DEF Fit, AfterPush, Telling, TellPC
    <2>3. LET z == Going(x, "idle")
          IN  Steered(x, z) /\ Telling(z) = "none" /\ z.pc # "deleteEvents"
      BY RestSteered DEF RestPC
    <2> QED
      BY <2>1, <2>2, <2>3, AsideTrail
  <1> QED
    BY <1>2, <1>3, <1>4, <1>5, <1>6, <1>7, <1>8, <1>9 DEF HandlerStep

(***************************************************************************)
(* The steps of a worker.                                                  *)
(***************************************************************************)
LEMMA WorkerTrail ==
    ASSUME Shape, faults' = 0, NEW t \in Threads, WorkerStep(t)
    PROVE  TrailKind(t)
  <1> DEFINE x == th[t]
  <1>1. Fit(x) /\ ~Fault
    BY NoFault DEF Shape
  <1>2. CASE Pop(t)
    <2>1. /\ x.pc = "idle" /\ StatesStay /\ UNCHANGED <<events, checkpoints>>
          /\ \/ Goto(t, "done")
             \/ th' = [th EXCEPT ![t] = [Resting("check") EXCEPT !.b = Head(queue)]]
      BY <1>2 DEF Pop, store, StatesStay
    <2>2. Telling(x) = "none"
      BY <2>1 DEF Telling, TellPC
    <2> QED
      BY <2>1, <2>2, SilentRest, SilentBegin DEF TrailKind, RestPC
  <1>3. CASE WorkerEnds(t)
    <2>1. x.pc = "idle" /\ Goto(t, "done") /\ StatesStay /\ UNCHANGED <<events, checkpoints>>
      BY <1>3 DEF WorkerEnds, store, StatesStay
    <2>2. Telling(x) = "none"
      BY <2>1 DEF Telling, TellPC
    <2> QED
      BY <2>1, <2>2, SilentRest DEF TrailKind, RestPC
  <1>4. CASE Check(t)
    <2>1. /\ x.pc = "check" /\ StatesStay /\ UNCHANGED <<events, checkpoints>>
          /\ Settle(t, x.b, "queued", "rejected", "idle") \/ Goto(t, "pick")
      BY <1>1, <1>4 DEF Check, store, StatesStay
    <2>2. <<x.pc, "pick">> \in Onward /\ Telling(x) = "none"
      BY <2>1 DEF Onward, Telling, TellPC
    <2> QED
      BY <2>1, <2>2, SilentGoing, SilentSettling DEF TrailKind
  <1>5. CASE Pick(t)
    <2>1. x.pc = "pick" /\ Transition(t, x.b, "queued", "simulating", "emitPicked", "idle")
      BY <1>5 DEF Pick
    <2>2. \A y : y.pc = "emitPicked" => Telling(y) = "simulating"
      BY DEF Telling, TellPC, LeftIn
    <2>3. x.pc \in ServePC /\ <<x.pc, "emitPicked">> \in Advance
      BY <2>1, Serving DEF Advance
    <2> QED
      BY <2>1, <2>2, <2>3, OwnTransitionTrail
  <1>6. CASE EmitPicked(t)
    <2>1. x.pc = "emitPicked" /\ Emit(t, x.b, "simulating", "simulate", "idle")
      BY <1>6 DEF EmitPicked
    <2>2. /\ <<x.pc, "simulate">> \in Onward /\ x.pc \in ServePC
          /\ Telling(x) = "simulating"
      BY <2>1, Serving DEF Onward, Telling, TellPC, LeftIn
    <2> QED
      BY <2>1, <2>2, OwnEmitTrail
  <1>7. CASE Simulate(t)
    <2>1. x.pc = "simulate" /\ StatesStay /\ UNCHANGED <<events, checkpoints>>
      BY <1>7 DEF Simulate, store, StatesStay
    <2>2. <<x.pc, "retry">> \in Onward /\ Telling(x) = "none"
      BY <2>1 DEF Onward, Telling, TellPC
    <2>3. CASE Goto(t, "retry")
      BY <2>1, <2>2, <2>3, SilentGoing DEF TrailKind
    <2>4. CASE Settle(t, x.b, "simulating", "dead_letter", "idle")
      BY <2>1, <2>2, <2>4, SilentSettling DEF TrailKind
    <2>5. ASSUME NEW verdict \in {"forwarded", "rejected"},
                 th' = [th EXCEPT ![t].pc = "simulated", ![t].to = verdict]
          PROVE  TrailKind(t)
      <3> DEFINE y == [x EXCEPT !.pc = "simulated", !.to = verdict]
      <3>1. th' = [th EXCEPT ![t] = y]
        BY <2>5 DEF Shape
      <3>2. y.pc = "simulated" /\ y.b = x.b /\ y.k = x.k
        BY <1>1 DEF Fit, Thread
      <3> HIDE DEF y
      <3>3. Submission(y) = Submission(x) /\ Telling(y) = "none"
        BY <2>1, <3>2 DEF Submission, HandlerPC, Telling, TellPC
      <3>4. Silent(t)
        BY <2>1, <2>2, <3>1, <3>2, <3>3 DEF Silent, Steered
      <3> QED
        BY <3>4 DEF TrailKind
    <2> QED
      BY <1>7, <2>3, <2>4, <2>5 DEF Simulate
  <1>8. CASE Retry(t)
    <2>1. x.pc = "retry" /\ Transition(t, x.b, "simulating", "retry_pending", "emitRetry", "idle")
      BY <1>8 DEF Retry
    <2>2. \A y : y.pc = "emitRetry" => Telling(y) = "retry_pending"
      BY DEF Telling, TellPC, LeftIn
    <2>3. x.pc \in ServePC /\ <<x.pc, "emitRetry">> \in Advance
      BY <2>1, Serving DEF Advance
    <2> QED
      BY SMTT(30), <2>1, <2>2, <2>3, OwnTransitionTrail
  <1>9. CASE EmitRetry(t)
    <2>1. x.pc = "emitRetry" /\ Emit(t, x.b, "retry_pending", "count", "idle")
      BY <1>9 DEF EmitRetry
    <2>2. /\ <<x.pc, "count">> \in Onward /\ x.pc \in ServePC
          /\ Telling(x) = "retry_pending"
      BY <2>1, Serving DEF Onward, Telling, TellPC, LeftIn
    <2> QED
      BY <2>1, <2>2, OwnEmitTrail
  <1>10. CASE Count(t)
    <2>1. /\ x.pc = "count" /\ Goto(t, "schedule") /\ UNCHANGED <<events, checkpoints>>
          /\ rec' = [rec EXCEPT ![x.b].RetryCount = @ + 1]
      BY <1>1, <1>10 DEF Count
    <2>2. <<x.pc, "schedule">> \in Onward /\ Telling(x) = "none"
      BY <2>1 DEF Onward, Telling, TellPC
    <2>3. StatesStay
      BY <2>1 DEF StatesStay, Shape, Record
    <2> QED
      BY <2>1, <2>2, <2>3, SilentGoing DEF TrailKind
  <1>11. CASE Schedule(t)
    <2>1. x.pc = "schedule" /\ Goto(t, "idle") /\ StatesStay /\ UNCHANGED <<events, checkpoints>>
      BY <1>1, <1>11 DEF Schedule, StatesStay
    <2>2. Telling(x) = "none"
      BY <2>1 DEF Telling, TellPC
    <2> QED
      BY <2>1, <2>2, SilentRest DEF TrailKind, RestPC
  <1>12. CASE Simulated(t)
    <2>1. x.pc = "simulated" /\ Transition(t, x.b, "simulating", "simulated", "emitSimulated", "idle")
      BY <1>12 DEF Simulated
    <2>2. \A y : y.pc = "emitSimulated" => Telling(y) = "simulated"
      BY DEF Telling, TellPC, LeftIn
    <2>3. x.pc \in ServePC /\ <<x.pc, "emitSimulated">> \in Advance
      BY <2>1, Serving DEF Advance
    <2> QED
      BY <2>1, <2>2, <2>3, OwnTransitionTrail
  <1>13. CASE EmitSimulated(t)
    <2>1. x.pc = "emitSimulated" /\ Emit(t, x.b, "simulated", "scored", "idle")
      BY <1>13 DEF EmitSimulated
    <2>2. /\ <<x.pc, "scored">> \in Onward /\ x.pc \in ServePC
          /\ Telling(x) = "simulated"
      BY <2>1, Serving DEF Onward, Telling, TellPC, LeftIn
    <2> QED
      BY <2>1, <2>2, OwnEmitTrail
  <1>14. CASE Scored(t)
    <2>1. x.pc = "scored" /\ Transition(t, x.b, "simulated", "scored", "emitScored", "idle")
      BY <1>14 DEF Scored
    <2> DEFINE to == "scored"
    <2>2. \A y : y.pc = "emitScored" => Telling(y) = IF to = "queued" THEN "none" ELSE to
      BY DEF Telling, TellPC, LeftIn
    <2>3. x.pc \in ServePC /\ <<x.pc, "emitScored">> \in Advance
      BY <2>1, Serving DEF Advance
    <2>4. Transition(t, x.b, "simulated", to, "emitScored", "idle")
      BY <2>1
    <2> HIDE DEF to
    <2> QED
      BY <2>2, <2>3, <2>4, OwnTransitionTrail
  <1>15. CASE EmitScored(t)
    <2>1. /\ x.pc = "emitScored" /\ UNCHANGED <<rec, checkpoints>>
          /\ events' = [events EXCEPT ![x.b] = Append(events[x.b], "scored")]
          /\ Settle(t, x.b, "scored", x.to, "idle")
      BY <1>1, <1>15 DEF EmitScored
    <2> DEFINE y == Settling(x, x.b, "scored", x.to, "idle")
    <2>2. th' = [th EXCEPT ![t] = y]
      BY <2>1 DEF Settle, Settling
    <2>3. Steered(x, y) /\ Telling(y) = "none" /\ y.pc # "deleteEvents"
      BY SettlingSteered
    <2> HIDE DEF y
    <2>4. Telling(x) = "scored" /\ x.pc \in ServePC
      BY <2>1, Serving DEF Telling, TellPC, LeftIn
    <2>5. Of(x) = x.b
      BY <1>1, <2>4 DEF Fit, Of
    <2>6. Emits(t)
      BY <2>1, <2>2, <2>3, <2>4, <2>5 DEF Emits, StatesStay
    <2> QED
      BY <2>6 DEF TrailKind
  <1>16. CASE Result(t)
    <2>1. x.pc = "result" /\ Goto(t, "persist") /\ StatesStay /\ UNCHANGED <<events, checkpoints>>
      BY <1>1, <1>16 DEF Result, store, StatesStay
    <2>2. <<x.pc, "persist">> \in Onward /\ Telling(x) = "none"
      BY <2>1 DEF Onward, Telling, TellPC
    <2> QED
      BY <2>1, <2>2, SilentGoing DEF TrailKind
  <1> QED
    BY <1>2, <1>3, <1>4, <1>5, <1>6, <1>7, <1>8, <1>9, <1>10, <1>11, <1>12, <1>13, <1>14, <1>15,
       <1>16 DEF WorkerStep

(***************************************************************************)
(* The steps of the retry loop.                                            *)
(***************************************************************************)
LEMMA RetryTrail ==
    ASSUME Shape, faults' = 0, NEW t \in Threads, t = RetryLoop, RetryStep
    PROVE  TrailKind(t)
  <1> DEFINE x == th[t]
  <1>1. Fit(x) /\ ~Fault
    BY NoFault DEF Shape
  <1>2. ASSUME NEW due \in SUBSET retries, Claim(due)
        PROVE  TrailKind(t)
    <2>1. x.pc = "idle" /\ Goto(t, "next") /\ StatesStay /\ UNCHANGED <<events, checkpoints>>
      BY <1>2 DEF Claim, StatesStay
    <2>2. Telling(x) = "none"
      BY <2>1 DEF Telling, TellPC
    <2> QED
      BY <2>1, <2>2, SilentRest DEF TrailKind, RestPC
  <1>3. \A due : ~ClaimLost(due)
    BY <1>1 DEF ClaimLost
  <1>4. CASE LoopEnds \/ BatchDone
    <2>1. /\ x.pc \in {"idle", "next"}
          /\ Goto(t, "done") \/ Goto(t, "idle")
          /\ StatesStay /\ UNCHANGED <<events, checkpoints>>
      BY <1>4 DEF LoopEnds, BatchDone, store, StatesStay
    <2>2. Telling(x) = "none"
      BY <2>1 DEF Telling, TellPC
    <2> QED
      BY <2>1, <2>2, SilentRest DEF TrailKind, RestPC
  <1>5. ASSUME NEW b \in batch, ProcessRetry(b)
        PROVE  TrailKind(t)
    <2>1. /\ x.pc = "next" /\ StatesStay /\ UNCHANGED <<events, checkpoints>>
          /\ \/ UNCHANGED th
             \/ Settle(t, b, "retry_pending", "dead_letter", "next")
             \/ th' = [th EXCEPT ![t] = [Resting("requeue") EXCEPT !.b = b]]
      BY <1>1, <1>5 DEF ProcessRetry, store, StatesStay
    <2>2. Telling(x) = "none"
      BY <2>1 DEF Telling, TellPC
    <2>3. CASE UNCHANGED th
      <3>1. th' = [th EXCEPT ![t] = x]
        BY <2>3 DEF Shape
      <3> QED
        BY <2>1, <2>2, <3>1 DEF TrailKind, Silent, Steered
    <2>4. CASE Settle(t, b, "retry_pending", "dead_letter", "next")
      BY <2>1, <2>2, <2>4, SilentSettling DEF TrailKind
    <2>5. CASE th' = [th EXCEPT ![t] = [Resting("requeue") EXCEPT !.b = b]]
      BY <2>1, <2>2, <2>5, SilentBegin DEF TrailKind
    <2> QED
      BY <2>1, <2>3, <2>4, <2>5
  <1>6. CASE Requeue
    <2>1. x.pc = "requeue" /\ Transition(t, x.b, "retry_pending", "queued", "emitRequeued", "next")
      BY <1>6 DEF Requeue
    <2>2. \A y : y.pc = "emitRequeued" => Telling(y) = "none"
      BY DEF Telling, TellPC
    <2>3. x.pc \in ServePC /\ <<x.pc, "emitRequeued">> \in Advance
      BY <2>1, Serving DEF Advance
    <2> QED
      BY <2>1, <2>2, <2>3, OwnTransitionTrail
  <1>7. CASE EmitRequeued
    <2>1. x.pc = "emitRequeued" /\ Emit(t, x.b, "queued", "repush", "next")
      BY <1>7 DEF EmitRequeued
    <2>2. x.pc \in ServePC /\ Telling(x) = "none" /\ <<x.pc, "repush">> \in Onward
      BY <2>1, Serving DEF Telling, TellPC, Onward
    <2>3. x.b \in Bundle
      BY <1>1, <2>2 DEF Fit
    <2>4. LET z == Going(x, "repush")
          IN  Steered(x, z) /\ Telling(z) = "none" /\ z.pc # "deleteEvents"
      BY <1>1, <2>2, OnSteered
    <2> QED
      BY <2>1, <2>2, <2>3, <2>4, AsideTrail
  <1>8. CASE Repush
    <2>1. /\ x.pc = "repush" /\ StatesStay /\ UNCHANGED <<events, checkpoints>>
          /\ \/ Settle(t, x.b, "queued", "dead_letter", "next")
             \/ Goto(t, "next")
             \/ \E v \in PushedOut : Settle(t, v, "queued", "rejected", "next")
      BY <1>8 DEF Repush, store, StatesStay
    <2>2. Telling(x) = "none"
      BY <2>1 DEF Telling, TellPC
    <2> QED
      BY <2>1, <2>2, SilentRest, SilentSettling DEF TrailKind, RestPC
  <1> QED
    BY <1>2, <1>3, <1>4, <1>5, <1>6, <1>7, <1>8 DEF RetryStep

(***************************************************************************)
(* There is no other kind of step while no call fails.                     *)
(***************************************************************************)
LEMMA TrailKinds ==
    ASSUME Shape, faults' = 0, \A t \in Threads : OnTrail(t), [Next]_vars
    PROVE  \/ \E t \in Threads : TrailKind(t)
           \/ StatesStay /\ UNCHANGED <<events, checkpoints, th>>
  <1>1. CASE UNCHANGED vars
    BY <1>1 DEF vars, store, StatesStay
  <1>2. CASE Drain \/ Stop
    BY <1>2 DEF Drain, Stop, store, StatesStay
  <1>3. ASSUME NEW t \in Threads, ThreadStep(t)
        PROVE  TrailKind(t)
    BY <1>3, SettleTrail, HandlerTrail, WorkerTrail, RetryTrail DEF ThreadStep
  <1> QED
    BY <1>1, <1>2, <1>3 DEF Next

(***************************************************************************)
(* A failed call stays counted.                                            *)
(***************************************************************************)
LEMMA FaultsStay ==
    ASSUME Shape, [Next]_vars, faults' = 0
    PROVE  faults = 0
  <1>1. Idle \/ Counts
    BY StepKinds DEF Quiet, Changes, Accepts, Seals, Mover, Schedules, Pops, Pushes, Claims, Takes, Calm
  <1> QED
    BY <1>1 DEF Idle, Counts, Shape

-----------------------------------------------------------------------------
(* The trails are kept. *)

(***************************************************************************)
(* A thread that is about to tell has its bundle; of validated only the    *)
(* bundle's submission tells.                                              *)
(***************************************************************************)
LEMMA TellersHave ==
    ASSUME Shape, faults = 0, NEW t \in Threads, Telling(th[t]) # "none"
    PROVE  /\ Of(th[t]) \in Bundle /\ Has(t, Of(th[t]))
           /\ Telling(th[t]) \in BundleState \ {"received", "queued"}
           /\ Telling(th[t]) = "validated" => Submission(th[t]) = Of(th[t])
  <1> DEFINE x == th[t]
  <1>1. Fit(x) /\ NoBundle \notin Bundle
    BY RelayAssumption DEF Shape, NoBundle
  <1>2. x.pc \in TellPC
    BY DEF Telling, TellPC
  <1>3. CASE x.pc = "emitValidated"
    <2>1. x.pc \in ServePC /\ Telling(x) = "validated"
      BY <1>3, Serving DEF Telling
    <2>2. x.b \in Bundle /\ x.cur = NoBundle
      BY <1>1, <2>1 DEF Fit
    <2>3. Of(x) = x.b /\ Submission(x) = x.b
      BY <1>3, <2>2 DEF Of, Submission, HandlerPC
    <2> QED
      BY <2>1, <2>2, <2>3 DEF Has, BundleState
  <1>4. CASE x.pc # "emitValidated"
    <2>1. Telling(x) = LeftIn(x)
      BY <1>2, <1>4 DEF Telling
    <2>2. x.pc = "emitTerminal" => x.to \in Decisions
      BY <1>1 DEF Fit, SettlePC
    <2>3. LeftIn(x) \in BundleState \ {"received", "queued", "validated"}
      BY <1>2, <1>4, <2>2 DEF TellPC, LeftIn, BundleState, Decisions
    <2>4. LeftIn(x) # "any"
      BY <2>3 DEF BundleState, Decisions
    <2>5. Of(x) \in Bundle /\ Has(t, Of(x))
      BY <2>4, InPhaseHas
    <2> QED
      BY <2>1, <2>3, <2>5
  <1> QED
    BY <1>3, <1>4

(***************************************************************************)
(* A bundle whose events a step leaves alone, and of which nobody begins   *)
(* or ceases to tell.                                                      *)
(***************************************************************************)
LEMMA TrailStays ==
    ASSUME NEW b \in Bundle, Trail(b), events'[b] = events[b], rec'[b].State = rec[b].State,
           checkpoints'[b] = 0 => checkpoints[b] = 0,
           \A u \in Threads : AboutToTell(u, b)' <=> AboutToTell(u, b)
    PROVE  Trail(b)'
  BY DEF Trail

(***************************************************************************)
(* The submission that a thread has is of a bundle.                        *)
(***************************************************************************)
LEMMA SubmissionOf ==
    ASSUME NEW x, Fit(x)
    PROVE  Submission(x) \in Bundle \cup {NoBundle}
  BY DEF Fit, Thread, Submission

(***************************************************************************)
(* A step that leaves the states of the records alone, and after which its *)
(* thread has nothing to tell.                                             *)
(***************************************************************************)
LEMMA SteeringKeepsTrail ==
    ASSUME Shape, faults = 0, OneSubmission, \A u \in Threads : OnTrail(u),
           NEW t \in Threads, NEW y, th' = [th EXCEPT ![t] = y], Steered(th[t], y),
           Telling(y) = "none", StatesStay,
           y.pc = "deleteEvents" => checkpoints'[y.cur] # 0,
           \A b \in Bundle : checkpoints[b] # 0 => checkpoints'[b] # 0
    PROVE  OneSubmission' /\ \A u \in Threads : OnTrail(u)'
  <1>1. \A u \in Threads : th'[u] = IF u = t THEN y ELSE th[u]
    BY DEF Shape
  <1>2. OneSubmission'
    BY <1>1 DEF OneSubmission, Steered
  <1>3. \A u \in Threads : Submission(th[u]) # NoBundle =>
          Submission(th[u]) \in Bundle /\ rec'[Submission(th[u])].State # "none"
    BY SubmissionOf DEF Shape, OnTrail, StatesStay
  <1>4. OnTrail(t)'
    BY <1>1, <1>3 DEF OnTrail, Steered
  <1>5. ASSUME NEW u \in Threads, u # t
        PROVE  OnTrail(u)'
    <2>1. th'[u] = th[u] /\ OnTrail(u) /\ Fit(th[u])
      BY <1>1, <1>5 DEF Shape
    <2>2. Telling(th[u]) # "none" => rec'[Of(th[u])].State = Telling(th[u])
      BY <2>1, TellersHave DEF OnTrail, StatesStay
    <2>3. th[u].pc = "deleteEvents" => checkpoints'[th[u].cur] # 0
      BY <2>1 DEF OnTrail, Fit, SettlePC
    <2> QED
      BY <1>3, <2>1, <2>2, <2>3 DEF OnTrail
  <1> QED
    BY <1>2, <1>4, <1>5

(***************************************************************************)
(* Steps that touch neither records nor events, and the checkpoint.        *)
(***************************************************************************)
LEMMA SilentKeepsTrails ==
    ASSUME Shape, faults = 0, OnTrails, NEW t \in Threads, Silent(t) \/ PutsCheckpoint(t)
    PROVE  OnTrails'
  <1> DEFINE x == th[t]
  <1>1. /\ checkpoints \in [Bundle -> Nat] /\ Fit(x)
        /\ OneSubmission /\ \A u \in Threads : OnTrail(u)
    BY DEF Shape, OnTrails
  <1>2. CASE Silent(t)
    <2>1. PICK y : /\ th' = [th EXCEPT ![t] = y]
                   /\ Steered(x, y) /\ y.pc # "deleteEvents"
                   /\ Telling(x) = "none" /\ Telling(y) = "none"
                   /\ StatesStay /\ UNCHANGED <<events, checkpoints>>
      BY <1>2 DEF Silent
    <2>2. OneSubmission' /\ \A u \in Threads : OnTrail(u)'
      BY <1>1, <2>1, SteeringKeepsTrail
    <2>3. \A u \in Threads, b \in Bundle : AboutToTell(u, b)' <=> AboutToTell(u, b)
      BY <2>1 DEF Shape, AboutToTell
    <2>4. \A b \in Bundle : Trail(b)'
      BY <2>1, <2>3, TrailStays DEF StatesStay, OnTrails
    <2> QED
      BY <2>1, <2>2, <2>4 DEF OnTrails
  <1>3. CASE PutsCheckpoint(t)
    <2>1. PICK y : /\ th' = [th EXCEPT ![t] = y]
                   /\ Steered(x, y) /\ x.pc = "seal" /\ Telling(y) = "none"
                   /\ checkpoints' = [checkpoints EXCEPT ![x.cur] = checkpoints[x.cur] + 1]
                   /\ StatesStay /\ UNCHANGED events
      BY <1>3 DEF PutsCheckpoint
    <2>2. x.cur \in Bundle /\ Telling(x) = "none"
      BY <1>1, <2>1 DEF Fit, SettlePC, Telling, TellPC
    <2>3. /\ checkpoints'[x.cur] # 0
          /\ \A b \in Bundle : checkpoints[b] # 0 => checkpoints'[b] # 0
      BY <1>1, <2>1, <2>2
    <2>4. y.pc = "deleteEvents" => checkpoints'[y.cur] # 0
      BY <2>1, <2>3 DEF Steered
    <2>5. OneSubmission' /\ \A u \in Threads : OnTrail(u)'
      BY <1>1, <2>1, <2>3, <2>4, SteeringKeepsTrail
    <2>6. \A u \in Threads, b \in Bundle : AboutToTell(u, b)' <=> AboutToTell(u, b)
      BY <2>1, <2>2 DEF Shape, AboutToTell
    <2>7. \A b \in Bundle : checkpoints'[b] = 0 => checkpoints[b] = 0
      BY <2>3
    <2>8. \A b \in Bundle : Trail(b)'
      BY <2>1, <2>6, <2>7, TrailStays DEF StatesStay, OnTrails
    <2> QED
      BY <2>1, <2>5, <2>8 DEF OnTrails
  <1> QED
    BY <1>2, <1>3

(***************************************************************************)
(* The event that a thread was about to tell.                              *)
(***************************************************************************)
LEMMA EmitKeepsTrails ==
    ASSUME Shape, OnePlace, faults = 0, OnTrails, NEW t \in Threads, Emits(t)
    PROVE  OnTrails'
  <1> DEFINE x == th[t]
  <1>1. PICK e : e = Of(x)
    OBVIOUS
  <1> DEFINE s == events[e]
  <1>2. PICK y : /\ th' = [th EXCEPT ![t] = y]
                 /\ Steered(x, y) /\ y.pc # "deleteEvents"
                 /\ Telling(x) # "none" /\ Telling(y) = "none"
                 /\ events' = [events EXCEPT ![e] = Append(s, Telling(x))]
                 /\ StatesStay /\ UNCHANGED checkpoints
    BY <1>1 DEF Emits
  <1>3. /\ OneSubmission /\ \A u \in Threads : OnTrail(u)
        /\ events \in [Bundle -> Seq(BundleState)]
    BY DEF OnTrails
  <1>4. OneSubmission' /\ \A u \in Threads : OnTrail(u)'
    BY <1>2, <1>3, SteeringKeepsTrail
  <1>5. e \in Bundle /\ Has(t, e) /\ Telling(x) \in BundleState \ {"received", "queued"}
    BY <1>2, <1>1, TellersHave
  <1>6. rec[e].State = Telling(x) /\ AboutToTell(t, e)
    BY <1>2, <1>3, <1>1 DEF OnTrail, AboutToTell
  <1> HIDE DEF s
  <1>7. Append(s, Telling(x)) \in Seq(BundleState)
    BY <1>3, <1>5 DEF s
  <1>8. /\ events' \in [Bundle -> Seq(BundleState)]
        /\ events'[e] = Append(s, Telling(x))
        /\ \A b \in Bundle : b # e => events'[b] = events[b]
    BY <1>2, <1>3, <1>5, <1>7
  <1>9. \A u \in Threads, b \in Bundle : AboutToTell(u, b)' <=> (u # t /\ AboutToTell(u, b))
    BY <1>2 DEF Shape, AboutToTell
  <1>10. \A u \in Threads : ~AboutToTell(u, e)'
    <2> SUFFICES ASSUME NEW u \in Threads, u # t, AboutToTell(u, e) PROVE FALSE
      BY <1>5, <1>9
    <2>1. Has(u, e)
      BY TellersHave DEF AboutToTell
    <2> QED
      BY <1>5, <2>1 DEF OnePlace
  <1>11. Trail(e)'
    <2> SUFFICES ASSUME checkpoints[e] = 0
                 PROVE  Chained(events'[e]) /\ Told(events'[e], rec'[e].State)
      BY <1>2, <1>10 DEF Trail
    <2>1. Chained(s) /\ Lead(s, Telling(x))
      BY <1>5, <1>6 DEF OnTrails, Trail, s
    <2>2. LET r == Append(s, Telling(x)) IN Chained(r) /\ Told(r, Telling(x))
      BY <1>3, <1>5, <2>1, EventGoesOn DEF s
    <2>3. rec'[e].State = Telling(x)
      BY <1>2, <1>5, <1>6 DEF StatesStay
    <2> QED
      BY <1>8, <2>2, <2>3
  <1>12. ASSUME NEW b \in Bundle, b # e
         PROVE  Trail(b)'
    <2>1. \A u \in Threads : AboutToTell(u, b)' <=> AboutToTell(u, b)
      BY <1>9, <1>12, <1>1 DEF AboutToTell
    <2> QED
      BY <1>2, <1>8, <1>12, <2>1, TrailStays DEF StatesStay, OnTrails
  <1> QED
    BY <1>4, <1>8, <1>11, <1>12 DEF OnTrails

(***************************************************************************)
(* A queued event, and the events that are deleted after the checkpoint.   *)
(***************************************************************************)
LEMMA AsideKeepsTrails ==
    ASSUME Shape, faults = 0, OnTrails, NEW t \in Threads, EmitsAside(t) \/ Forgets(t)
    PROVE  OnTrails'
  <1> DEFINE x == th[t]
  <1>1. /\ OneSubmission /\ \A u \in Threads : OnTrail(u)
        /\ events \in [Bundle -> Seq(BundleState)] /\ Fit(x)
    BY DEF OnTrails, Shape
  <1>2. ASSUME NEW y, NEW e \in Bundle, NEW r \in Seq(BundleState),
               th' = [th EXCEPT ![t] = y], Steered(x, y), y.pc # "deleteEvents",
               Telling(x) = "none", Telling(y) = "none",
               events' = [events EXCEPT ![e] = r], StatesStay, UNCHANGED checkpoints,
               \/ checkpoints[e] # 0
               \/ /\ Chained(events[e]) => Chained(r)
                  /\ \A z : /\ Lead(events[e], z) => Lead(r, z)
                            /\ Told(events[e], z) => Told(r, z)
        PROVE  OnTrails'
    <2>1. OneSubmission' /\ \A u \in Threads : OnTrail(u)'
      BY <1>1, <1>2, SteeringKeepsTrail
    <2>2. \A u \in Threads, b \in Bundle : AboutToTell(u, b)' <=> AboutToTell(u, b)
      BY <1>2 DEF Shape, AboutToTell
    <2>3. /\ events' \in [Bundle -> Seq(BundleState)] /\ events'[e] = r
          /\ \A b \in Bundle : b # e => events'[b] = events[b]
      BY <1>1, <1>2
    <2>4. Trail(e)'
      <3>1. Trail(e)
        BY DEF OnTrails
      <3>2. rec'[e].State = rec[e].State /\ checkpoints'[e] = checkpoints[e]
        BY <1>2 DEF StatesStay
      <3> QED
        BY <1>2, <2>2, <2>3, <3>1, <3>2 DEF Trail
    <2>5. \A b \in Bundle : b # e => Trail(b)'
      BY <1>2, <2>2, <2>3, TrailStays DEF StatesStay, OnTrails
    <2> QED
      BY <2>1, <2>3, <2>4, <2>5 DEF OnTrails
  <1>3. CASE EmitsAside(t)
    <2>1. PICK y : \E e \in Bundle :
            /\ th' = [th EXCEPT ![t] = y]
            /\ Steered(x, y) /\ y.pc # "deleteEvents"
            /\ Telling(x) = "none" /\ Telling(y) = "none"
            /\ events' = [events EXCEPT ![e] = Append(events[e], "queued")]
            /\ StatesStay /\ UNCHANGED checkpoints
      BY <1>3 DEF EmitsAside
    <2>2. PICK e \in Bundle :
            /\ th' = [th EXCEPT ![t] = y]
            /\ Steered(x, y) /\ y.pc # "deleteEvents"
            /\ Telling(x) = "none" /\ Telling(y) = "none"
            /\ events' = [events EXCEPT ![e] = Append(events[e], "queued")]
            /\ StatesStay /\ UNCHANGED checkpoints
      BY <2>1
    <2> DEFINE r == Append(events[e], "queued")
    <2>3. /\ r \in Seq(BundleState)
          /\ Chained(events[e]) => Chained(r)
          /\ \A z : (Lead(events[e], z) => Lead(r, z)) /\ (Told(events[e], z) => Told(r, z))
      <3>1. events[e] \in Seq(BundleState)
        BY <1>1
      <3> QED
        BY <3>1, QueuedUntold
    <2>4. events' = [events EXCEPT ![e] = r]
      BY <2>2
    <2> HIDE DEF r
    <2> QED
      BY <1>2, <2>2, <2>3, <2>4
  <1>4. CASE Forgets(t)
    <2>1. PICK y : /\ th' = [th EXCEPT ![t] = y]
                   /\ Steered(x, y) /\ y.pc # "deleteEvents"
                   /\ x.pc = "deleteEvents" /\ Telling(y) = "none"
                   /\ events' = [events EXCEPT ![x.cur] = << >>]
                   /\ StatesStay /\ UNCHANGED checkpoints
      BY <1>4 DEF Forgets
    <2>2. /\ x.cur \in Bundle /\ Telling(x) = "none" /\ checkpoints[x.cur] # 0
          /\ << >> \in Seq(BundleState)
      BY <1>1, <2>1 DEF Fit, SettlePC, Telling, TellPC, OnTrail
    <2> QED
      BY <1>2, <2>1, <2>2
  <1> QED
    BY <1>3, <1>4

(***************************************************************************)
(* A transition: nobody was about to tell of the bundle, so that its       *)
(* events had told of the state that it leaves.                            *)
(***************************************************************************)
LEMMA TransitionKeepsTrails ==
    ASSUME Shape, OnePlace, faults = 0, OnTrails, NEW t \in Threads, Transits(t)
    PROVE  OnTrails'
  <1> DEFINE x == th[t]
  <1>1. PICK y, from, to : \E b \in Bundle :
            /\ th' = [th EXCEPT ![t] = y]
            /\ Steered(x, y) /\ y.pc # "deleteEvents" /\ Telling(x) = "none"
            /\ IF to = "queued" THEN Telling(y) = "none" ELSE Telling(y) = to /\ Of(y) = b
            /\ CanApply(b, from, to) /\ rec' = Moved(b, to)
            /\ from # "none" /\ (from = "received" => to = "validated")
            /\ \/ x.pc \in ServePC /\ x.b = b
               \/ x.cur = b
               \/ from = "validated" /\ Submission(x) = b
            /\ UNCHANGED <<events, checkpoints>>
    BY ZenonT(60) DEF Transits
  <1>2. PICK b \in Bundle :
            /\ IF to = "queued" THEN Telling(y) = "none" ELSE Telling(y) = to /\ Of(y) = b
            /\ CanApply(b, from, to) /\ rec' = Moved(b, to)
            /\ \/ x.pc \in ServePC /\ x.b = b
               \/ x.cur = b
               \/ from = "validated" /\ Submission(x) = b
    BY <1>1
  <1>3. /\ OneSubmission /\ \A u \in Threads : OnTrail(u)
        /\ events \in [Bundle -> Seq(BundleState)] /\ Trail(b)
        /\ \A c \in Bundle : Trail(c)
    BY DEF OnTrails
  <1>4. \A u \in Threads : th'[u] = IF u = t THEN y ELSE th[u]
    BY <1>1 DEF Shape
  <1>5. rec'[b].State = to /\ \A c \in Bundle : c # b => rec'[c] = rec[c]
    BY <1>2, MovedRecord
  <1>6. rec[b].State = from /\ CanTransition(from, to) /\ to # "none"
    BY <1>2, LifecycleDecidesOnce DEF CanApply, BundleState, Decisions
  <1>7. \A u \in Threads : ~AboutToTell(u, b)
    <2> SUFFICES ASSUME NEW u \in Threads, Telling(th[u]) # "none", Of(th[u]) = b PROVE FALSE
      BY DEF AboutToTell
    <2>1. /\ Has(u, b) /\ Telling(th[u]) = from /\ u # t
          /\ from = "validated" => Submission(th[u]) = b
      BY <1>1, <1>3, <1>6, TellersHave DEF OnTrail
    <2>2. CASE (x.pc \in ServePC /\ x.b = b) \/ x.cur = b
      <3>1. Has(t, b)
        BY <2>2 DEF Has
      <3> QED
        BY <2>1, <3>1 DEF OnePlace
    <2>3. CASE from = "validated" /\ Submission(x) = b
      <3>1. b # NoBundle
        BY RelayAssumption DEF NoBundle
      <3> QED
        BY <1>3, <2>1, <2>3, <3>1 DEF OneSubmission
    <2> QED
      BY <1>2, <2>2, <2>3
  <1>8. OneSubmission'
    BY <1>1, <1>3, <1>4 DEF OneSubmission, Steered
  <1>9. \A u \in Threads : Submission(th[u]) # NoBundle =>
          Submission(th[u]) \in Bundle /\ rec'[Submission(th[u])].State # "none"
    BY <1>3, <1>5, <1>6, SubmissionOf DEF Shape, OnTrail
  <1>10. OnTrail(t)'
    BY <1>1, <1>2, <1>4, <1>5, <1>9 DEF OnTrail, Steered
  <1>11. ASSUME NEW u \in Threads, u # t
         PROVE  OnTrail(u)'
    <2>1. th'[u] = th[u] /\ OnTrail(u) /\ UNCHANGED checkpoints
      BY <1>1, <1>3, <1>4, <1>11
    <2>2. Telling(th[u]) # "none" => rec'[Of(th[u])].State = Telling(th[u])
      BY <1>5, <1>7, <2>1, TellersHave DEF OnTrail, AboutToTell
    <2> QED
      BY <1>9, <2>1, <2>2 DEF OnTrail
  <1>12. \A u \in Threads, c \in Bundle :
            AboutToTell(u, c)' <=> AboutToTell(u, c) \/ (u = t /\ c = b /\ to # "queued")
    BY <1>1, <1>2, <1>4, <1>6 DEF AboutToTell
  <1>13. Trail(b)'
    <2> SUFFICES ASSUME checkpoints[b] = 0
                 PROVE  /\ Chained(events[b])
                        /\ IF to = "queued" THEN Told(events[b], to) ELSE Lead(events[b], to)
      BY <1>1, <1>5, <1>7, <1>12 DEF Trail
    <2>1. Chained(events[b]) /\ Told(events[b], from)
      BY <1>3, <1>6, <1>7 DEF Trail
    <2> QED
      BY <1>1, <1>6, <2>1, TransitionLeadsOn
  <1>14. ASSUME NEW c \in Bundle, c # b
         PROVE  Trail(c)'
    BY <1>1, <1>3, <1>5, <1>12, <1>14, TrailStays
  <1> QED
    BY <1>1, <1>3, <1>8, <1>10, <1>11, <1>13, <1>14 DEF OnTrails

(***************************************************************************)
(* CreateBundle: a bundle without a record has told nothing.               *)
(***************************************************************************)
LEMMA SubmitKeepsTrails ==
    ASSUME Shape, OnePlace, faults = 0, OnTrails, NEW t \in Threads, Submits(t)
    PROVE  OnTrails'
  <1> DEFINE x == th[t]
  <1>1. PICK y : \E b \in Bundle :
            /\ th' = [th EXCEPT ![t] = y]
            /\ y.pc \notin {"settle", "deleteEvents"} /\ Submission(y) = b
            /\ Telling(x) = "none" /\ Telling(y) = "none"
            /\ rec[b].State = "none" /\ rec' = [rec EXCEPT ![b].State = "received"]
            /\ UNCHANGED <<events, checkpoints>>
    BY DEF Submits
  <1>2. PICK b \in Bundle :
            /\ Submission(y) = b
            /\ rec[b].State = "none" /\ rec' = [rec EXCEPT ![b].State = "received"]
    BY <1>1
  <1>3. /\ OneSubmission /\ \A u \in Threads : OnTrail(u)
        /\ events \in [Bundle -> Seq(BundleState)] /\ Trail(b)
        /\ \A c \in Bundle : Trail(c)
    BY DEF OnTrails
  <1>4. \A u \in Threads : th'[u] = IF u = t THEN y ELSE th[u]
    BY <1>1 DEF Shape
  <1>5. rec'[b].State = "received" /\ \A c \in Bundle : c # b => rec'[c] = rec[c]
    BY <1>2, AcceptedRecord
  <1>6. b # NoBundle
    BY RelayAssumption DEF NoBundle
  <1>7. \A u \in Threads : ~AboutToTell(u, b) /\ Submission(th[u]) # b
    <2>1. \A u \in Threads : ~Has(u, b)
      BY <1>2 DEF OnePlace
    <2> QED
      BY <1>2, <1>3, <1>6, <2>1, TellersHave DEF AboutToTell, OnTrail
  <1>8. OneSubmission'
    BY <1>2, <1>3, <1>4, <1>7 DEF OneSubmission
  <1>9. OnTrail(t)'
    BY <1>1, <1>2, <1>4, <1>5 DEF OnTrail
  <1>10. ASSUME NEW u \in Threads, u # t
         PROVE  OnTrail(u)'
    <2>1. th'[u] = th[u] /\ OnTrail(u) /\ UNCHANGED checkpoints
      BY <1>1, <1>3, <1>4, <1>10
    <2>2. Telling(th[u]) # "none" => rec'[Of(th[u])].State = Telling(th[u])
      BY <1>5, <1>7, <2>1, TellersHave DEF OnTrail, AboutToTell
    <2>3. Submission(th[u]) # NoBundle => rec'[Submission(th[u])].State # "none"
      BY <1>5, <1>7, <2>1, SubmissionOf DEF Shape, OnTrail
    <2> QED
      BY <2>1, <2>2, <2>3 DEF OnTrail
  <1>11. \A u \in Threads, c \in Bundle : AboutToTell(u, c)' <=> AboutToTell(u, c)
    BY <1>1, <1>4 DEF AboutToTell
  <1>12. Trail(b)'
    <2> SUFFICES ASSUME checkpoints[b] = 0
                 PROVE  Chained(events[b]) /\ Told(events[b], "received")
      BY <1>1, <1>5, <1>7, <1>11 DEF Trail
    <2>1. Chained(events[b]) /\ Told(events[b], "none")
      BY <1>2, <1>3, <1>7 DEF Trail
    <2> QED
      BY <2>1 DEF Told
  <1>13. ASSUME NEW c \in Bundle, c # b
         PROVE  Trail(c)'
    BY <1>1, <1>3, <1>5, <1>11, <1>13, TrailStays
  <1> QED
    BY <1>1, <1>3, <1>8, <1>9, <1>10, <1>12, <1>13 DEF OnTrails

(***************************************************************************)
(* Every step keeps the trails.                                            *)
(***************************************************************************)
LEMMA NextTrails ==
    ASSUME Shape, OnePlace, Trails, [Next]_vars
    PROVE  Trails'
  <1> SUFFICES ASSUME faults' = 0 PROVE OnTrails'
    BY DEF Trails
  <1>1. faults = 0 /\ OnTrails
    BY FaultsStay DEF Trails
  <1>2. ASSUME NEW t \in Threads, TrailKind(t)
        PROVE  OnTrails'
    BY <1>1, <1>2, SilentKeepsTrails, EmitKeepsTrails, AsideKeepsTrails, TransitionKeepsTrails,
       SubmitKeepsTrails DEF TrailKind
  <1>3. CASE StatesStay /\ UNCHANGED <<events, checkpoints, th>>
    <2>1. \A u \in Threads, b \in Bundle : AboutToTell(u, b)' <=> AboutToTell(u, b)
      BY <1>3 DEF AboutToTell
    <2>2. \A b \in Bundle : Trail(b)'
      BY <1>1, <1>3, <2>1, TrailStays DEF StatesStay, OnTrails
    <2>3. \A t \in Threads : OnTrail(t)'
      <3> TAKE t \in Threads
      <3>1. OnTrail(t) /\ Submission(th[t]) \in Bundle \cup {NoBundle}
        BY <1>1, SubmissionOf DEF OnTrails, Shape
      <3>2. Telling(th[t]) # "none" => Of(th[t]) \in Bundle
        BY <1>1, TellersHave
      <3> QED
        BY <1>3, <3>1, <3>2 DEF OnTrail, StatesStay
    <2> QED
      BY <1>1, <1>3, <2>2, <2>3 DEF OnTrails, OneSubmission
  <1>4. \A t \in Threads : OnTrail(t)
    BY <1>1 DEF OnTrails
  <1> QED
    BY <1>2, <1>3, <1>4, TrailKinds

(***************************************************************************)
(* Nothing has been told initially.                                        *)
(***************************************************************************)
LEMMA InitTrails ==
    ASSUME Init
    PROVE  Trails
  <1>1. \A t \in Threads : /\ th[t].pc = "idle" /\ th[t].k = "none"
    BY DEF Init, Resting
  <1>2. \A t \in Threads : Telling(th[t]) = "none" /\ Submission(th[t]) = NoBundle
    BY <1>1 DEF Telling, TellPC, Submission
  <1>3. OneSubmission /\ \A t \in Threads : OnTrail(t)
    BY <1>1, <1>2 DEF OneSubmission, OnTrail
  <1>4. << >> \in Seq(BundleState) /\ Path(<< >>) = {}
    BY DEF Path
  <1>5. /\ events \in [Bundle -> Seq(BundleState)]
        /\ \A b \in Bundle : events[b] = << >> /\ rec[b].State = "none"
    BY <1>4 DEF Init, NoRecord
  <1>6. ASSUME NEW b \in Bundle
        PROVE  Trail(b)
    <2>1. Path(events[b]) = {}
      BY <1>4, <1>5
    <2>2. Chained(events[b]) /\ Told(events[b], rec[b].State)
      BY <1>5, <2>1 DEF Chained, Told
    <2> QED
      BY <1>2, <2>2 DEF Trail, AboutToTell
  <1> QED
    BY <1>3, <1>5, <1>6 DEF Trails, OnTrails

(***************************************************************************)
(* No other action than Seal touches the checkpoints.                      *)
(***************************************************************************)
LEMMA OnlySealSeals ==
    ASSUME [Next]_vars
    PROVE  UNCHANGED checkpoints \/ \E t \in Threads : Seal(t)
  <1>1. CASE UNCHANGED vars \/ Drain \/ Stop
    BY <1>1 DEF vars, store, Drain, Stop
  <1>2. ASSUME NEW t \in Threads, SettleStep(t), ~Seal(t)
        PROVE  UNCHANGED checkpoints
    BY <1>2 DEF SettleStep, SettleTransition, EmitTerminal, Persist, EmitPersisted, Complete,
                EmitCompleted, DeleteEvents, Release, Transition, Emit
  <1>3. ASSUME NEW t \in Threads, HandlerStep(t)
        PROVE  UNCHANGED checkpoints
    BY <1>3 DEF HandlerStep, Submit, Validate, EmitValidated, Admit, Reserve, Push, Enqueue,
                EmitQueued, Transition, Emit, store
  <1>4. ASSUME NEW t \in Threads, WorkerStep(t)
        PROVE  UNCHANGED checkpoints
    BY <1>4 DEF WorkerStep, Pop, WorkerEnds, Check, Pick, EmitPicked, Simulate, Retry, EmitRetry,
                Count, Schedule, Simulated, EmitSimulated, Scored, EmitScored, Result, Transition,
                Emit, store
  <1>5. ASSUME RetryStep
        PROVE  UNCHANGED checkpoints
    BY <1>5 DEF RetryStep, Claim, ClaimLost, LoopEnds, BatchDone, ProcessRetry, Requeue,
                EmitRequeued, Repush, Transition, Emit, store
  <1> QED
    BY <1>1, <1>2, <1>3, <1>4, <1>5 DEF Next, ThreadStep

(***************************************************************************)
(* When no call has failed, a checkpoint is taken over events that are the *)
(* bundle's path through the lifecycle, from validation to completion.     *)
(***************************************************************************)
THEOREM TrailsAlwaysTell == Spec => TrailsTell
  <1>1. Init => LedgerInv /\ OnePlace /\ Trails
    BY InitLedgerInv, InitOnePlace, InitTrails
  <1>2. LedgerInv /\ OnePlace /\ Trails /\ [Next]_vars => LedgerInv' /\ OnePlace' /\ Trails'
    BY NextLedgerInv, NextOnePlace, NextTrails DEF LedgerInv
  <1>3. LedgerInv /\ OnePlace /\ Trails /\ [Next]_vars
        => [\A b \in Bundle :
              (checkpoints'[b] # checkpoints[b] /\ faults = 0) => Tells(events[b])]_vars
    <2> SUFFICES ASSUME LedgerInv, OnePlace, Trails, [Next]_vars, NEW b \in Bundle,
                        checkpoints'[b] # checkpoints[b], faults = 0
                 PROVE  Tells(events[b])
      OBVIOUS
    <2>1. Shape /\ OneSealer /\ OnTrails
      BY DEF LedgerInv, Trails
    <2>2. PICK t \in Threads : Seal(t)
      BY OnlySealSeals
    <2>3. th[t].pc = "seal" /\ th[t].cur = b
      BY <2>1, <2>2 DEF Seal, Shape
    <2>4. rec[b].State = "completed" /\ checkpoints[b] = 0
      BY <2>1, <2>3 DEF OneSealer, Sealing
    <2>5. \A u \in Threads : ~AboutToTell(u, b)
      <3> SUFFICES ASSUME NEW u \in Threads, AboutToTell(u, b) PROVE FALSE
        OBVIOUS
      <3>1. Has(u, b) /\ Has(t, b)
        BY <2>1, <2>3, TellersHave DEF AboutToTell, Has
      <3>2. Telling(th[t]) = "none"
        BY <2>3 DEF Telling, TellPC
      <3> QED
        BY <3>1, <3>2 DEF OnePlace, AboutToTell
    <2>6. Chained(events[b]) /\ Told(events[b], "completed")
      BY <2>1, <2>4, <2>5 DEF OnTrails, Trail
    <2> QED
      BY <2>6 DEF Told, Tells
  <1> QED
    BY <1>1, <1>2, <1>3, PTL DEF Spec, TrailsTell
=============================================================================
