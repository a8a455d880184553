--------------------------- MODULE SchedulerProofs ---------------------------
(***************************************************************************)
(* Proofs about the bounded priority queue, for any capacity, any set of   *)
(* items and any number of threads.                                        *)
(***************************************************************************)
EXTENDS Scheduler, FiniteSetTheorems, SequenceTheorems, TLAPS

-----------------------------------------------------------------------------
(* The order. *)

(***************************************************************************)
(* Two items are never better than each other.                             *)
(***************************************************************************)
LEMMA BetterAsymmetric ==
    ASSUME NEW a \in Item, NEW b \in Item, betterThan(a, b)
    PROVE  ~betterThan(b, a)
  BY ItemAssumption DEF betterThan, earlierDeadline

(***************************************************************************)
(* "Not better" is transitive, so the order is a strict weak order and a   *)
(* sorted slice stays sorted when an item is put at its place.             *)
(***************************************************************************)
LEMMA NotBetterTransitive ==
    ASSUME NEW a \in Item, NEW b \in Item, NEW c \in Item,
           ~betterThan(a, b), ~betterThan(b, c)
    PROVE  ~betterThan(a, c)
  BY ItemAssumption DEF betterThan, earlierDeadline

-----------------------------------------------------------------------------
(* The slice operations. *)

(***************************************************************************)
(* What InsertAt returns, position by position.                            *)
(***************************************************************************)
LEMMA InsertAtPositions ==
    ASSUME NEW q \in Seq(Item), NEW x \in Item, NEW i \in 1..Len(q) + 1
    PROVE  /\ InsertAt(q, i, x) \in Seq(Item)
           /\ Len(InsertAt(q, i, x)) = Len(q) + 1
           /\ \A k \in 1..Len(q) + 1 :
                InsertAt(q, i, x)[k] = IF k < i THEN q[k]
                                       ELSE IF k = i THEN x ELSE q[k - 1]
  <1> DEFINE l == SubSeq(q, 1, i - 1)
             r == SubSeq(q, i, Len(q))
  <1>1. /\ l \in Seq(Item) /\ Len(l) = i - 1
        /\ \A k \in 1..i - 1 : l[k] = q[k]
    OBVIOUS
  <1>2. /\ r \in Seq(Item) /\ Len(r) = Len(q) + 1 - i
        /\ \A k \in 1..Len(q) + 1 - i : r[k] = q[i + k - 1]
    OBVIOUS
  <1> HIDE DEF l, r
  <1> DEFINE m == l \o <<x>>
  <1>3. /\ m \in Seq(Item) /\ Len(m) = i
        /\ \A k \in 1..i : m[k] = IF k < i THEN q[k] ELSE x
    BY <1>1
  <1>4. InsertAt(q, i, x) = m \o r
    BY DEF InsertAt, l, r
  <1> HIDE DEF m
  <1>5. m \o r \in Seq(Item) /\ Len(m \o r) = Len(q) + 1
    <2>1. m \o r \in Seq(Item) /\ Len(m \o r) = Len(m) + Len(r)
      BY <1>2, <1>3, ConcatProperties
    <2> QED
      BY <2>1, <1>2, <1>3
  <1>6. \A k \in 1..i : (m \o r)[k] = m[k]
    BY <1>2, <1>3
  <1>7. \A k \in i + 1..Len(q) + 1 : (m \o r)[k] = q[k - 1]
    <2> TAKE k \in i + 1..Len(q) + 1
    <2>1. (m \o r)[k] = r[k - i] /\ k - i \in 1..Len(q) + 1 - i
      BY <1>2, <1>3
    <2> QED
      BY <2>1, <1>2
  <1> QED
    BY <1>3, <1>4, <1>5, <1>6, <1>7

(***************************************************************************)
(* MakeRoom keeps a prefix that is shorter than the capacity.              *)
(***************************************************************************)
LEMMA MakeRoomPrefix ==
    ASSUME NEW q \in Seq(Item), Len(q) <= Cap
    PROVE  /\ MakeRoom(q) \in Seq(Item)
           /\ Len(MakeRoom(q)) = IF Len(q) = Cap THEN Cap - 1 ELSE Len(q)
           /\ Len(MakeRoom(q)) < Cap
           /\ \A k \in 1..Len(MakeRoom(q)) : MakeRoom(q)[k] = q[k]
  BY CapAssumption DEF MakeRoom

(***************************************************************************)
(* Inserting at the index that the search returns keeps a slice in order.  *)
(***************************************************************************)
LEMMA InsertKeepsOrder ==
    ASSUME NEW q \in Seq(Item), NEW x \in Item, NEW i \in 1..Len(q) + 1,
           Sorted(q), IsInsertIndex(q, x, i)
    PROVE  Sorted(InsertAt(q, i, x))
  <1> DEFINE r == InsertAt(q, i, x)
  <1>1. /\ r \in Seq(Item)
        /\ Len(r) = Len(q) + 1
        /\ \A k \in 1..Len(q) + 1 :
             r[k] = IF k < i THEN q[k] ELSE IF k = i THEN x ELSE q[k - 1]
    BY InsertAtPositions
  <1>2. SUFFICES ASSUME NEW m \in 1..Len(r), NEW n \in 1..Len(r), m < n
                 PROVE  ~betterThan(r[n], r[m])
    BY DEF Sorted
  <1> HIDE DEF r
  <1>3. \A k \in 1..Len(q) : q[k] \in Item
    OBVIOUS
  <1>4. CASE m < i /\ n < i
    <2>1. r[m] = q[m] /\ r[n] = q[n] /\ m \in 1..Len(q) /\ n \in 1..Len(q)
      BY <1>1, <1>2, <1>4
    <2> QED
      BY <2>1, <1>2 DEF Sorted
  <1>5. CASE m < i /\ n = i
    <2>1. r[m] = q[m] /\ r[n] = x /\ m \in 1..Len(q) /\ m \in 1..i - 1
      BY <1>1, <1>2, <1>5
    <2> QED
      BY <2>1, <1>3, BetterAsymmetric DEF IsInsertIndex
  <1>6. CASE m < i /\ n > i
    <2>1. r[m] = q[m] /\ r[n] = q[n - 1] /\ m \in 1..Len(q) /\ n - 1 \in 1..Len(q) /\ m < n - 1
      BY <1>1, <1>2, <1>6
    <2> QED
      BY <2>1 DEF Sorted
  <1>7. CASE m = i
    <2>1. r[m] = x /\ r[n] = q[n - 1] /\ n - 1 \in 1..Len(q) /\ i <= n - 1 /\ i \in 1..Len(q)
      BY <1>1, <1>2, <1>7
    <2>2. ~betterThan(q[i], x)
      BY <2>1 DEF IsInsertIndex
    <2>3. i = n - 1 \/ ~betterThan(q[n - 1], q[i])
      BY <2>1 DEF Sorted
    <2> QED
      BY <2>1, <2>2, <2>3, <1>3, NotBetterTransitive
  <1>8. CASE m > i
    <2>1. r[m] = q[m - 1] /\ r[n] = q[n - 1] /\ m - 1 \in 1..Len(q) /\ n - 1 \in 1..Len(q)
      BY <1>1, <1>2, <1>8
    <2> QED
      BY <2>1, <1>2 DEF Sorted
  <1> QED
    BY <1>4, <1>5, <1>6, <1>7, <1>8
-----------------------------------------------------------------------------
(* The inductive invariant. *)

(***************************************************************************)
(* mu is held exactly by the pusher that is about to send.                 *)
(***************************************************************************)
MutexInv == \A p \in Pushers : pc[p] = "send" <=> mu = p

(***************************************************************************)
(* A closed queue has no pusher inside, and a popper that left without a   *)
(* cancelled context left a closed queue with no token.                    *)
(***************************************************************************)
CloseInv ==
    /\ closed => mu = Nobody
    /\ (~cancelled /\ \E w \in Poppers : pc[w] = "done") => closed /\ notify = 0

IInv == TypeOK /\ MutexInv /\ TokenBalance /\ QueueInOrder /\ CloseInv

(***************************************************************************)
(* Holding is a finite set, and how it changes when one popper moves.      *)
(***************************************************************************)
LEMMA HoldingCount ==
    ASSUME TypeOK
    PROVE  IsFiniteSet(Holding) /\ Cardinality(Holding) \in Nat
  BY ThreadAssumption, FS_Subset, FS_CardinalityType DEF Holding

(***************************************************************************)
(* A popper that receives a token joins Holding.                           *)
(***************************************************************************)
LEMMA HoldingGrows ==
    ASSUME TypeOK, NEW w \in Poppers, pc[w] # "take", pc' = [pc EXCEPT ![w] = "take"]
    PROVE  Cardinality(Holding') = Cardinality(Holding) + 1
  <1>1. Holding' = Holding \cup {w} /\ w \notin Holding
    BY DEF Holding, TypeOK
  <1> QED
    BY <1>1, HoldingCount, FS_AddElement

(***************************************************************************)
(* A popper that takes its item leaves Holding.                            *)
(***************************************************************************)
LEMMA HoldingShrinks ==
    ASSUME TypeOK, NEW w \in Poppers, pc[w] = "take",
           NEW s, s # "take", pc' = [pc EXCEPT ![w] = s]
    PROVE  Cardinality(Holding') = Cardinality(Holding) - 1
  <1>1. Holding' = Holding \ {w} /\ w \in Holding
    BY DEF Holding, TypeOK
  <1> QED
    BY <1>1, HoldingCount, FS_RemoveElement

(***************************************************************************)
(* A step that neither reaches nor leaves "take" leaves Holding alone.     *)
(***************************************************************************)
LEMMA HoldingSame ==
    ASSUME TypeOK, NEW t, t \in Poppers => pc[t] # "take",
           NEW s, s # "take", pc' = [pc EXCEPT ![t] = s]
    PROVE  Holding' = Holding
  BY DEF Holding, TypeOK

(***************************************************************************)
(* A new queue satisfies the invariant.                                    *)
(***************************************************************************)
LEMMA InitIInv == Init => IInv
  <1> SUFFICES ASSUME Init PROVE IInv
    OBVIOUS
  <1>1. TypeOK
    <2>1. /\ \A p \in Pushers : pc[p] = "idle"
          /\ \A w \in Poppers : pc[w] = "select"
          /\ pc \in [Pushers \cup Poppers -> PusherPC \cup PopperPC]
      BY ThreadAssumption DEF Init, PusherPC, PopperPC
    <2>2. items \in Seq(Item) /\ notify \in 0..Cap /\ now \in 0..MaxTime
      BY CapAssumption, TimeAssumption DEF Init
    <2>3. closed \in BOOLEAN /\ cancelled \in BOOLEAN /\ mu \in Pushers \cup {Nobody}
      BY DEF Init
    <2>4. got \in [Poppers -> Item \cup {NoItem}]
      BY DEF Init
    <2> QED
      BY <2>1, <2>2, <2>3, <2>4 DEF TypeOK, PusherPC, PopperPC
  <1>2. MutexInv /\ CloseInv
    BY ThreadAssumption DEF Init, MutexInv, CloseInv
  <1>3. TokenBalance
    <2>1. Holding = {}
      BY ThreadAssumption DEF Init, Holding
    <2> QED
      BY <2>1, FS_EmptySet DEF Init, TokenBalance
  <1>4. QueueInOrder
    BY CapAssumption DEF Init, QueueInOrder, Sorted
  <1> QED
    BY <1>1, <1>2, <1>3, <1>4 DEF IInv
(***************************************************************************)
(* What the first part of Push leaves: an ordered slice within capacity,   *)
(* longer by one exactly when the pusher goes on to send.                  *)
(***************************************************************************)
LEMMA PushInsertSlice ==
    ASSUME IInv, NEW p \in Pushers, NEW x \in Item, PushInsert(p, x)
    PROVE  /\ items' \in Seq(Item)
           /\ Len(items') <= Cap /\ Sorted(items')
           /\ Len(items') = IF Len(items) = Cap THEN Len(items) ELSE Len(items) + 1
  <1> DEFINE room == MakeRoom(items)
  <1>1. items \in Seq(Item) /\ Len(items) <= Cap /\ Sorted(items)
    BY DEF IInv, TypeOK, QueueInOrder
  <1>2. /\ room \in Seq(Item) /\ Len(room) < Cap
        /\ Len(room) = IF Len(items) = Cap THEN Cap - 1 ELSE Len(items)
        /\ \A k \in 1..Len(room) : room[k] = items[k]
    BY <1>1, MakeRoomPrefix
  <1>3. Sorted(room)
    BY <1>1, <1>2, CapAssumption DEF Sorted
  <1>4. PICK i \in 1..Len(room) + 1 : IsInsertIndex(room, x, i) /\ items' = InsertAt(room, i, x)
    BY DEF PushInsert
  <1> HIDE DEF room
  <1>5. items' \in Seq(Item) /\ Len(items') = Len(room) + 1
    BY <1>2, <1>4, InsertAtPositions
  <1>6. Sorted(items')
    BY <1>2, <1>3, <1>4, InsertKeepsOrder
  <1> QED
    BY <1>1, <1>2, <1>5, <1>6, CapAssumption

(***************************************************************************)
(* The first item taken off an ordered slice leaves an ordered slice.      *)
(***************************************************************************)
LEMMA TailSlice ==
    ASSUME NEW q \in Seq(Item), q # << >>, Sorted(q)
    PROVE  /\ Tail(q) \in Seq(Item)
           /\ Len(Tail(q)) = Len(q) - 1
           /\ \A k \in 1..Len(q) - 1 : Tail(q)[k] = q[k + 1]
           /\ Sorted(Tail(q))
  <1> DEFINE r == Tail(q)
  <1>1. /\ r \in Seq(Item) /\ Len(r) = Len(q) - 1
        /\ \A k \in 1..Len(q) - 1 : r[k] = q[k + 1]
    OBVIOUS
  <1>2. Sorted(r)
    <2> HIDE DEF r
    <2> SUFFICES ASSUME NEW i \in 1..Len(r), NEW j \in 1..Len(r), i < j
                 PROVE  ~betterThan(r[j], r[i])
      BY DEF Sorted
    <2>1. r[i] = q[i + 1] /\ r[j] = q[j + 1] /\ i + 1 \in 1..Len(q) /\ j + 1 \in 1..Len(q)
      BY <1>1
    <2> QED
      BY <2>1 DEF Sorted
  <1> QED
    BY <1>1, <1>2

(***************************************************************************)
(* Every step keeps the invariant.                                         *)
(***************************************************************************)
LEMMA NextIInv == IInv /\ [Next]_vars => IInv'
  <1> SUFFICES ASSUME IInv, [Next]_vars PROVE IInv'
    OBVIOUS
  <1> USE DEF IInv
  <1>0. Cardinality(Holding) \in Nat /\ Len(items) \in Nat
    BY HoldingCount DEF TypeOK
  <1>1. ASSUME NEW p \in Pushers, NEW x \in Item, PushInsert(p, x) PROVE IInv'
    <2>1. /\ items' \in Seq(Item) /\ Len(items') <= Cap /\ Sorted(items')
          /\ Len(items') = IF Len(items) = Cap THEN Len(items) ELSE Len(items) + 1
      BY <1>1, PushInsertSlice
    <2>2. pc[p] = "idle" /\ mu = Nobody /\ ~closed /\ notify' = notify
      BY <1>1 DEF PushInsert, PushRefused
    <2>3. CASE Len(items) = Cap
      <3>1. UNCHANGED <<mu, pc, notify, closed, got, cancelled, now>>
        BY <1>1, <2>1, <2>3 DEF PushInsert
      <3>2. Holding' = Holding
        BY <3>1 DEF Holding
      <3>3. TypeOK' /\ MutexInv' /\ CloseInv'
        BY <2>1, <3>1 DEF TypeOK, MutexInv, CloseInv
      <3>4. TokenBalance' /\ QueueInOrder'
        BY <2>1, <2>3, <3>1, <3>2 DEF TokenBalance, QueueInOrder
      <3> QED
        BY <3>3, <3>4
    <2>4. CASE Len(items) # Cap
      <3>1. /\ mu' = p /\ pc' = [pc EXCEPT ![p] = "send"]
            /\ UNCHANGED <<notify, closed, got, cancelled, now>>
        BY <1>0, <1>1, <2>1, <2>4 DEF PushInsert
      <3>2. Holding' = Holding
        BY <3>1, HoldingSame, ThreadAssumption
      <3>3. TypeOK'
        BY <2>1, <3>1, ThreadAssumption DEF TypeOK, PusherPC, PopperPC
      <3>4. MutexInv'
        BY <2>2, <3>1, ThreadAssumption DEF MutexInv, TypeOK
      <3>5. CloseInv'
        BY <2>2, <3>1, ThreadAssumption DEF CloseInv, TypeOK
      <3>6. TokenBalance' /\ QueueInOrder'
        BY <1>0, <2>1, <2>2, <2>4, <3>1, <3>2, ThreadAssumption
           DEF TokenBalance, QueueInOrder, TypeOK
      <3> QED
        BY <3>3, <3>4, <3>5, <3>6
    <2> QED
      BY <2>3, <2>4
  <1>2. ASSUME NEW p \in Pushers, PushSend(p) PROVE IInv'
    <2>1. /\ pc[p] = "send" /\ mu = p /\ mu' = Nobody /\ notify' = notify + 1
          /\ pc' = [pc EXCEPT ![p] = "idle"] /\ notify < Cap
          /\ UNCHANGED <<items, closed, got, cancelled, now>>
      BY <1>2 DEF PushSend, MutexInv
    <2>2. Holding' = Holding
      BY <2>1, HoldingSame, ThreadAssumption
    <2>3. TypeOK'
      BY <2>1, ThreadAssumption, CapAssumption DEF TypeOK, PusherPC, PopperPC
    <2>4. MutexInv'
      BY <2>1, ThreadAssumption DEF MutexInv, TypeOK
    <2>5. CloseInv'
      BY <2>1, ThreadAssumption DEF CloseInv, TypeOK
    <2>6. TokenBalance' /\ QueueInOrder'
      BY <1>0, <2>1, <2>2, ThreadAssumption DEF TokenBalance, QueueInOrder, TypeOK
    <2> QED
      BY <2>3, <2>4, <2>5, <2>6
  <1>3. ASSUME NEW w \in Poppers, PopReceive(w) PROVE IInv'
    <2>1. /\ pc[w] = "select" /\ notify > 0 /\ notify' = notify - 1
          /\ pc' = [pc EXCEPT ![w] = "take"]
          /\ UNCHANGED <<items, closed, mu, got, cancelled, now>>
      BY <1>3 DEF PopReceive
    <2>2. Cardinality(Holding') = Cardinality(Holding) + 1
      BY <2>1, HoldingGrows
    <2>3. TypeOK'
      BY <2>1, ThreadAssumption, CapAssumption DEF TypeOK, PusherPC, PopperPC
    <2>4. MutexInv'
      BY <2>1, ThreadAssumption DEF MutexInv, TypeOK
    <2>5. CloseInv'
      BY <2>1, ThreadAssumption DEF CloseInv, TypeOK
    <2>6. TokenBalance' /\ QueueInOrder'
      BY <1>0, <2>1, <2>2 DEF TokenBalance, QueueInOrder, TypeOK
    <2> QED
      BY <2>3, <2>4, <2>5, <2>6
  <1>4. ASSUME NEW w \in Poppers, PopClosed(w) \/ PopCancelled(w) PROVE IInv'
    <2>1. /\ pc[w] = "select" /\ (cancelled \/ (closed /\ notify = 0))
          /\ pc' = [pc EXCEPT ![w] = "done"]
          /\ UNCHANGED <<items, notify, closed, mu, got, cancelled, now>>
      BY <1>4 DEF PopClosed, PopCancelled
    <2>2. Holding' = Holding
      BY <2>1, HoldingSame
    <2>3. TypeOK'
      BY <2>1, ThreadAssumption DEF TypeOK, PusherPC, PopperPC
    <2>4. MutexInv'
      BY <2>1, ThreadAssumption DEF MutexInv, TypeOK
    <2>5. CloseInv'
      BY <2>1 DEF CloseInv, TypeOK
    <2>6. TokenBalance' /\ QueueInOrder'
      BY <2>1, <2>2 DEF TokenBalance, QueueInOrder
    <2> QED
      BY <2>3, <2>4, <2>5, <2>6
  <1>5. ASSUME NEW w \in Poppers, PopTake(w) PROVE IInv'
    <2>1. w \in Holding /\ Cardinality(Holding) > 0
      <3>1. w \in Holding
        BY <1>5 DEF PopTake, Holding
      <3>2. Cardinality(Holding) # 0
        BY <3>1, HoldingCount, FS_EmptySet
      <3> QED
        BY <1>0, <3>1, <3>2
    <2>2. items # << >>
      BY <1>0, <2>1 DEF TokenBalance, TypeOK
    <2>3. /\ pc[w] = "take" /\ mu = Nobody
          /\ got' = [got EXCEPT ![w] = Head(items)]
          /\ items' = Tail(items)
          /\ pc' = [pc EXCEPT ![w] = "out"]
          /\ UNCHANGED <<notify, closed, mu, cancelled, now>>
      BY <1>5, <2>2 DEF PopTake
    <2>4. items' \in Seq(Item) /\ Len(items') = Len(items) - 1 /\ Sorted(items')
      BY <2>2, <2>3, TailSlice DEF TypeOK, QueueInOrder
    <2>5. Cardinality(Holding') = Cardinality(Holding) - 1
      BY <2>3, HoldingShrinks
    <2>6. Head(items) \in Item
      BY <2>2 DEF TypeOK
    <2>7. TypeOK'
      BY <2>3, <2>4, <2>6, ThreadAssumption DEF TypeOK, PusherPC, PopperPC
    <2>8. MutexInv'
      BY <2>3, ThreadAssumption DEF MutexInv, TypeOK
    <2>9. CloseInv'
      BY <2>3 DEF CloseInv, TypeOK
    <2>10. TokenBalance' /\ QueueInOrder'
      BY <1>0, <2>3, <2>4, <2>5, CapAssumption DEF TokenBalance, QueueInOrder, TypeOK
    <2> QED
      BY <2>7, <2>8, <2>9, <2>10
  <1>6. ASSUME NEW w \in Poppers, PopAgain(w) PROVE IInv'
    <2>1. /\ pc[w] = "out" /\ pc' = [pc EXCEPT ![w] = "select"]
          /\ UNCHANGED <<items, notify, closed, mu, got, cancelled, now>>
      BY <1>6 DEF PopAgain
    <2>2. Holding' = Holding
      BY <2>1, HoldingSame
    <2>3. TypeOK'
      BY <2>1, ThreadAssumption DEF TypeOK, PusherPC, PopperPC
    <2>4. MutexInv' /\ CloseInv'
      BY <2>1, ThreadAssumption DEF MutexInv, CloseInv, TypeOK
    <2>5. TokenBalance' /\ QueueInOrder'
      BY <2>1, <2>2 DEF TokenBalance, QueueInOrder
    <2> QED
      BY <2>3, <2>4, <2>5
  <1>7. ASSUME Close \/ Cancel \/ Tick \/ UNCHANGED vars PROVE IInv'
    <2>1. UNCHANGED <<items, notify, mu, pc, got>>
      BY <1>7 DEF Close, Cancel, Tick, vars
    <2>2. TypeOK'
      <3>1. closed' \in BOOLEAN /\ cancelled' \in BOOLEAN
        BY <1>7 DEF TypeOK, Close, Cancel, Tick, vars
      <3>2. now' \in 0..MaxTime
        BY <1>7, TimeAssumption DEF TypeOK, Close, Cancel, Tick, vars
      <3> QED
        BY <2>1, <3>1, <3>2 DEF TypeOK
    <2>3. MutexInv' /\ TokenBalance' /\ QueueInOrder'
      BY <2>1 DEF MutexInv, TokenBalance, QueueInOrder, Holding
    <2>4. CloseInv'
      <3>1. CASE Close
        BY <3>1 DEF CloseInv, Close
      <3>2. CASE Cancel
        BY <3>2 DEF CloseInv, Cancel
      <3>3. CASE Tick \/ UNCHANGED vars
        BY <3>3 DEF CloseInv, Tick, vars
      <3> QED
        BY <1>7, <3>1, <3>2, <3>3
    <2> QED
      BY <2>2, <2>3, <2>4
  <1> QED
    BY <1>1, <1>2, <1>3, <1>4, <1>5, <1>6, <1>7 DEF Next, Pop

(***************************************************************************)
(* The invariant holds throughout every behaviour.                         *)
(***************************************************************************)
LEMMA SpecIInv == Spec => []IInv
  BY InitIInv, NextIInv, PTL DEF Spec

-----------------------------------------------------------------------------
(* The theorems. *)

(***************************************************************************)
(* The variables keep their types: in particular the number of tokens      *)
(* never leaves the bounds of the channel's buffer.                        *)
(***************************************************************************)
THEOREM TypeCorrect == Spec => []TypeOK
  BY SpecIInv, PTL DEF IInv

(***************************************************************************)
(* One token per queued item.                                              *)
(***************************************************************************)
THEOREM TokensBalance == Spec => []TokenBalance
  BY SpecIInv, PTL DEF IInv

(***************************************************************************)
(* Push's send under the mutex never waits for room in the channel.        *)
(***************************************************************************)
THEOREM SendDoesNotBlock == Spec => []SendNeverBlocks
  <1>1. IInv => SendNeverBlocks
    <2> SUFFICES ASSUME IInv, NEW p \in Pushers, pc[p] = "send"
                 PROVE  mu = p /\ notify < Cap
      BY DEF SendNeverBlocks
    <2>1. mu = p /\ mu # Nobody
      BY ThreadAssumption DEF IInv, MutexInv
    <2>2. Cardinality(Holding) \in Nat
      BY HoldingCount DEF IInv
    <2> QED
      BY <2>1, <2>2, CapAssumption DEF IInv, TypeOK, TokenBalance, QueueInOrder
  <1> QED
    BY <1>1, SpecIInv, PTL

(***************************************************************************)
(* No popper with a token finds the queue empty.                           *)
(***************************************************************************)
THEOREM WakeupFindsItem == Spec => []NoEmptyWakeup
  <1>1. IInv => NoEmptyWakeup
    BY HoldingCount DEF IInv, TypeOK, TokenBalance, NoEmptyWakeup
  <1> QED
    BY <1>1, SpecIInv, PTL

(***************************************************************************)
(* The slice is always in order and never beyond the capacity.             *)
(***************************************************************************)
THEOREM AlwaysInOrder == Spec => []QueueInOrder
  BY SpecIInv, PTL DEF IInv

(***************************************************************************)
(* A popper that ends because of Close leaves no unclaimed item behind.    *)
(***************************************************************************)
THEOREM CloseDrains == Spec => []ClosedMeansDrained
  <1>1. IInv => ClosedMeansDrained
    <2> SUFFICES ASSUME IInv, ~cancelled, \E w \in Poppers : pc[w] = "done"
                 PROVE  closed /\ Len(items) = Cardinality(Holding)
      BY DEF ClosedMeansDrained
    <2>1. closed /\ notify = 0 /\ mu = Nobody
      BY DEF IInv, CloseInv
    <2> QED
      BY <2>1, HoldingCount DEF IInv, TokenBalance
  <1> QED
    BY <1>1, SpecIInv, PTL

(***************************************************************************)
(* A slice in order has its best item first and its worst item last.       *)
(***************************************************************************)
LEMMA EndsOfSorted ==
    ASSUME NEW q \in Seq(Item), Sorted(q), NEW k \in 1..Len(q)
    PROVE  ~betterThan(q[k], q[1]) /\ ~betterThan(q[Len(q)], q[k])
  <1>1. q[1] \in Item /\ q[k] \in Item /\ q[Len(q)] \in Item
    OBVIOUS
  <1>2. k = 1 \/ ~betterThan(q[k], q[1])
    BY DEF Sorted
  <1>3. k = Len(q) \/ ~betterThan(q[Len(q)], q[k])
    BY DEF Sorted
  <1> QED
    BY <1>1, <1>2, <1>3, BetterAsymmetric

(***************************************************************************)
(* An item that disappears in Push's critical section was the worst one of *)
(* a full queue, and the pushed item is better.                            *)
(***************************************************************************)
LEMMA PushEvictsWorst ==
    ASSUME IInv, NEW p \in Pushers, NEW y \in Item, PushInsert(p, y),
           NEW x \in Item, Leaves(x)
    PROVE  EvictedAsWorst(x)
  <1> DEFINE room == MakeRoom(items)
  <1>1. items \in Seq(Item) /\ Len(items) <= Cap /\ Sorted(items)
    BY DEF IInv, TypeOK, QueueInOrder
  <1>2. /\ room \in Seq(Item)
        /\ Len(room) = IF Len(items) = Cap THEN Cap - 1 ELSE Len(items)
        /\ \A k \in 1..Len(room) : room[k] = items[k]
    BY <1>1, MakeRoomPrefix
  <1>3. PICK i \in 1..Len(room) + 1 : items' = InsertAt(room, i, y)
    BY DEF PushInsert
  <1> HIDE DEF room
  <1>4. /\ Len(items') = Len(room) + 1
        /\ items'[i] = y
        /\ \A k \in 1..Len(room) : items'[IF k < i THEN k ELSE k + 1] = room[k]
    <2>1. /\ Len(items') = Len(room) + 1
          /\ \A k \in 1..Len(room) + 1 :
               items'[k] = IF k < i THEN room[k] ELSE IF k = i THEN y ELSE room[k - 1]
      BY ZenonT(60), <1>2, <1>3, InsertAtPositions
    <2> QED
      BY <2>1, <1>2, <1>3
  <1>5. PICK m \in 1..Len(items) : items[m] = x /\ \A j \in 1..Len(items') : items'[j] # x
    BY DEF Leaves
  <1>6. Len(items) = Cap /\ m = Cap
    <2>1. m \notin 1..Len(room)
      <3> SUFFICES ASSUME m \in 1..Len(room) PROVE FALSE
        OBVIOUS
      <3>1. items'[IF m < i THEN m ELSE m + 1] = x
        BY <1>2, <1>4, <1>5
      <3>2. (IF m < i THEN m ELSE m + 1) \in 1..Len(items')
        BY <1>2, <1>3, <1>4
      <3> QED
        BY <3>1, <3>2, <1>5
    <2> QED
      BY <2>1, <1>1, <1>2, <1>5, CapAssumption
  <1>7. betterThan(y, x)
    BY <1>1, <1>5, <1>6, CapAssumption DEF PushInsert, PushRefused, Overflows
  <1>8. Len(items') = Cap /\ i \in 1..Cap
    BY <1>2, <1>3, <1>4, <1>6, CapAssumption
  <1>9. \A j \in 1..Len(items) : ~betterThan(x, items[j])
    BY <1>1, <1>5, <1>6, EndsOfSorted
  <1> QED
    BY <1>4, <1>6, <1>7, <1>8, <1>9 DEF EvictedAsWorst

(***************************************************************************)
(* An item that disappears in Pop's critical section was the best one, and *)
(* it is what the popper gets.                                             *)
(***************************************************************************)
LEMMA PopTakesBest ==
    ASSUME IInv, NEW w \in Poppers, PopTake(w), NEW x \in Item, Leaves(x)
    PROVE  TakenAsBest(x)
  <1>1. items \in Seq(Item) /\ Sorted(items) /\ w \in DOMAIN pc /\ w \in DOMAIN got
    BY DEF IInv, TypeOK, QueueInOrder
  <1>2. PICK m \in 1..Len(items) : items[m] = x /\ \A j \in 1..Len(items') : items'[j] # x
    BY DEF Leaves
  <1>3. items # << >>
    BY <1>1, <1>2
  <1>4. got'[w] = Head(items) /\ pc'[w] = "out" /\ items' = Tail(items)
    BY <1>1, <1>3 DEF PopTake
  <1>5. m = 1
    <2>1. /\ Len(Tail(items)) = Len(items) - 1
          /\ \A k \in 1..Len(items) - 1 : Tail(items)[k] = items[k + 1]
      BY <1>1, <1>3, TailSlice
    <2>2. m # 1 => items'[m - 1] = x /\ m - 1 \in 1..Len(items')
      BY <2>1, <1>1, <1>2, <1>4
    <2> QED
      BY <2>2, <1>2
  <1>6. \A j \in 1..Len(items) : ~betterThan(items[j], x)
    BY <1>1, <1>2, <1>5, EndsOfSorted
  <1> QED
    BY <1>1, <1>2, <1>4, <1>5, <1>6 DEF TakenAsBest

(***************************************************************************)
(* Items leave the queue only as the best one, to a popper, or as the      *)
(* worst one, for a better item.                                           *)
(***************************************************************************)
THEOREM LeavesOnlyByRight == Spec => OnlyBestOrWorstLeave
  <1>1. IInv /\ [Next]_vars => [LeavesByRight]_vars
    <2> SUFFICES ASSUME IInv, Next, NEW x \in Item, Leaves(x)
                 PROVE  TakenAsBest(x) \/ EvictedAsWorst(x)
      BY DEF LeavesByRight
    <2>1. items' # items
      BY DEF Leaves
    <2>2. CASE \E p \in Pushers, y \in Item : PushInsert(p, y)
      BY <2>2, PushEvictsWorst
    <2>3. CASE \E w \in Poppers : PopTake(w)
      BY <2>3, PopTakesBest
    <2> QED
      BY <2>1, <2>2, <2>3
         DEF Next, Pop, PushSend, PopReceive, PopClosed, PopCancelled, PopAgain,
             Close, Cancel, Tick
  <1> QED
    BY <1>1, SpecIInv, PTL DEF Spec, OnlyBestOrWorstLeave
=============================================================================
