------------------------ MODULE WorkflowEngineProofs ------------------------
(***************************************************************************)
(* Proofs about one workflow on the Postgres store, for any events, any    *)
(* number of concurrent requests and drains and any number of failures,    *)
(* crashes and lost replies.                                               *)
(***************************************************************************)
EXTENDS WorkflowEngine, SequenceTheorems, WellFoundedInduction, TLAPS

-----------------------------------------------------------------------------
(* The inductive invariant, part by part. *)

HandledKinds == {"commit", "rejection"}
TxnPC == {"insert", "upsert"}

Record == [kind : Kinds \cup {"none"}, id : Ids \cup {<< >>}, next : Seq(Ids)]
Thread == [pc : {"idle", "replay", "begin", "insert", "upsert", "drain"}, rec : Record,
           effects : SUBSET Ids, tasks : SUBSET Ids]
Entry == [kind : Kinds, id : Ids, next : Seq(Ids), txn : Threads \cup {None}]
Projection == [applied : Seq(Ids), seen : SUBSET Ids, effects : SUBSET Ids,
               tasks : SUBSET Ids, exists : BOOLEAN]

Shape ==
    /\ row \in Projection
    /\ journal \in Seq(Entry)
    /\ lock \in Threads \cup {None}
    /\ th \in [Threads -> Thread]
    /\ executed \subseteq Ids

(***************************************************************************)
(* s is the beginning of r.                                                *)
(***************************************************************************)
Begins(s, r) == Len(s) <= Len(r) /\ \A i \in 1..Len(s) : s[i] = r[i]

(***************************************************************************)
(* A commit ends with its own event.                                       *)
(***************************************************************************)
EndsInOwn(r) == r.kind = "commit" => Len(r.next) > 0 /\ r.next[Len(r.next)] = r.id

(***************************************************************************)
(* What holds of a record that a thread is about to append: a decision was *)
(* made on an instance the row has been in, an acknowledgement has its     *)
(* reason, and there is a row.                                             *)
(***************************************************************************)
SoundIn(r, ran, applied, exists, handled) ==
    /\ r.kind \in Kinds /\ r.id \in Ids
    /\ Handles(r) => /\ EndsInOwn(r)
                     /\ Expected(r) <= Len(applied)
                     /\ \A i \in 1..Expected(r) : r.next[i] = applied[i]
    /\ ~Handles(r) => exists
    /\ r.kind = "effect-acked" => r.id \in ran
    /\ r.kind = "task-acked" => r.id \in handled

SoundWith(r, ran) == SoundIn(r, ran, row.applied, row.exists, Durable(HandledKinds))

Sound(r) == SoundWith(r, executed)

ThreadsSound ==
    \A t \in Threads :
        /\ th[t].pc = "replay" => th[t].rec.id \in Ids
        /\ th[t].pc \in {"begin", "insert", "upsert"} => Sound(th[t].rec)
        /\ t \in Drainers /\ th[t].pc # "idle" => row.exists

(***************************************************************************)
(* The uncommitted records are those of the threads before the upsert.     *)
(***************************************************************************)
OpenRecords ==
    /\ \A i \in DOMAIN journal : journal[i].txn # None =>
          /\ th[journal[i].txn].pc = "upsert"
          /\ journal[i].kind = th[journal[i].txn].rec.kind
          /\ journal[i].id = th[journal[i].txn].rec.id
          /\ journal[i].next = th[journal[i].txn].rec.next
    /\ \A i, j \in DOMAIN journal :
          journal[i].txn # None /\ journal[i].txn = journal[j].txn => i = j
    /\ \A t \in Threads : th[t].pc = "upsert" => \E i \in DOMAIN journal : journal[i].txn = t

(***************************************************************************)
(* The row is locked by a transaction that found its version.  A           *)
(* transaction without the lock found no row, and so expects version 0.    *)
(***************************************************************************)
Locked ==
    /\ lock # None => /\ th[lock].pc \in TxnPC /\ row.exists
                      /\ Handles(th[lock].rec) => Len(row.applied) = Expected(th[lock].rec)
    /\ \A t \in Threads : th[t].pc \in TxnPC /\ lock # t
                          => Handles(th[t].rec) /\ Expected(th[t].rec) = 0

(***************************************************************************)
(* The committed records and the row.                                      *)
(***************************************************************************)
Chain ==
    /\ \A i, j \in DOMAIN row.applied : row.applied[i] = row.applied[j] => i = j
    /\ {row.applied[i] : i \in DOMAIN row.applied} = Durable({"commit"})
    /\ \A i \in Committed : Handles(journal[i]) => Begins(journal[i].next, row.applied)
    /\ \A i \in Committed : EndsInOwn(journal[i])
    /\ \A i, j \in DOMAIN journal :
          Handles(journal[i]) /\ Handles(journal[j]) /\ journal[i].id = journal[j].id => i = j
    /\ row.seen \subseteq Durable(HandledKinds)
    /\ ~row.exists => row = NoRow /\ Committed = {}

Inv == Shape /\ ThreadsSound /\ OpenRecords /\ Locked /\ Chain /\ WorkKept /\ AnswersHold

-----------------------------------------------------------------------------
(* Replaying the journal. *)

(***************************************************************************)
(* Induction up to a bound, for a set of numbers.                          *)
(***************************************************************************)
LEMMA UpTo ==
    ASSUME NEW N \in Nat, NEW S, 0 \in S, \A n \in 1..N : n - 1 \in S => n \in S
    PROVE  \A n \in 0..N : n \in S
  <1> DEFINE T == {n \in 0..N : n \notin S}
             less == OpToRel(<, Nat)
  <1> SUFFICES ASSUME T # {} PROVE FALSE
    OBVIOUS
  <1>1. T \subseteq Nat
    OBVIOUS
  <1>2. PICK n \in T : \A m \in T : ~(<<m, n>> \in less)
    <2>1. IsWellFoundedOn(less, Nat)
      BY NatLessThanWellFounded
    <2> HIDE DEF T, less
    <2> QED
      BY <1>1, <2>1, WFMin
  <1>3. n \in 1..N /\ n - 1 \in T
    OBVIOUS
  <1>4. <<n - 1, n>> \in Nat \X Nat /\ n - 1 < n
    BY <1>3
  <1>5. <<n - 1, n>> \in less
    BY <1>4 DEF OpToRel
  <1> HIDE DEF T, less
  <1> QED
    BY <1>2, <1>3, <1>5

(***************************************************************************)
(* Whatever the order of the records, a replay yields an instance that the *)
(* row has been in, and knows only events that have a record.              *)
(***************************************************************************)
LEMMA ReplayIsSound ==
    ASSUME Shape, Chain
    PROVE  /\ replayJournal \in Projection
           /\ Begins(replayJournal.applied, row.applied)
           /\ replayJournal.seen \subseteq Durable(HandledKinds)
  <1> DEFINE N == Len(journal)
             P == {p \in Projection : /\ Begins(p.applied, row.applied)
                                      /\ p.seen \subseteq Durable(HandledKinds)}
             F(g, n) == IF n = 0 THEN NoRow
                        ELSE IF n \in Committed THEN ApplyRecord(g[n - 1], journal[n]) ELSE g[n - 1]
             f == CHOOSE g : g = [n \in 0..N |-> F(g, n)]
  <1>1. N \in Nat /\ journal \in Seq(Entry)
    BY DEF Shape
  <1>2. NoRow \in P
    <2>1. NoRow \in Projection /\ NoRow.applied = << >> /\ NoRow.seen = {}
      BY DEF NoRow, Projection
    <2>2. Begins(<< >>, row.applied)
      BY DEF Begins, Shape, Projection
    <2> QED
      BY <2>1, <2>2
  <1>3. ASSUME NEW p \in P, NEW n \in Committed
        PROVE  ApplyRecord(p, journal[n]) \in P
    <2> DEFINE r == journal[n]
               q == ApplyRecord(p, r)
    <2>1. n \in DOMAIN journal /\ r \in Entry /\ r.id \in Ids /\ r.next \in Seq(Ids)
      <3>1. n \in DOMAIN journal
        BY DEF Committed
      <3>2. r \in Entry
        BY <1>1, <3>1
      <3> QED
        BY <3>1, <3>2 DEF Entry
    <2>2. p \in Projection
      OBVIOUS
    <2>3. EffectsOf(r.id) \subseteq Ids /\ TasksOf(r.id) \subseteq Ids
      BY <2>1 DEF EffectsOf, TasksOf, HasWork, Ids
    <2>4. /\ q.applied = IF Handles(r) THEN r.next ELSE p.applied
          /\ q.seen = IF Handles(r) THEN p.seen \cup {r.id} ELSE p.seen
      BY <2>2 DEF ApplyRecord, Projection
    <2>5. q \in Projection
      BY ZenonT(60), <2>1, <2>2, <2>3 DEF ApplyRecord, Projection
    <2>6. Begins(q.applied, row.applied)
      BY <2>4 DEF Chain
    <2>7. Handles(r) => r.id \in Durable(HandledKinds)
      BY <2>1 DEF Handles, Durable, HandledKinds
    <2> HIDE DEF q, r
    <2> QED
      BY <2>4, <2>5, <2>6, <2>7 DEF q, r
  <1> HIDE DEF P
  <1>4. ASSUME NEW g, NEW n \in 1..N, g[n - 1] \in P
        PROVE  F(g, n) \in P
    BY <1>3, <1>4
  <1>5. \E g : g = [n \in 0..N |-> F(g, n)]
    <2> DEFINE S == {n \in 0..N : \E g \in [0..n -> P] : \A i \in 0..n : g[i] = F(g, i)}
    <2>1. 0 \in S
      <3> DEFINE g == [i \in 0..0 |-> NoRow]
      <3>1. g \in [0..0 -> P] /\ \A i \in 0..0 : g[i] = F(g, i)
        BY <1>2
      <3>2. 0 \in 0..N
        BY <1>1
      <3> HIDE DEF g, F
      <3> QED
        BY <3>1, <3>2
    <2>2. ASSUME NEW n \in 1..N, n - 1 \in S
          PROVE  n \in S
      <3>1. PICK h \in [0..n - 1 -> P] : \A i \in 0..n - 1 : h[i] = F(h, i)
        BY <2>2
      <3> DEFINE g == [i \in 0..n |-> IF i = n THEN F(h, n) ELSE h[i]]
      <3>2. F(h, n) \in P
        <4>1. h[n - 1] \in P
          BY <1>1, <3>1
        <4> HIDE DEF F
        <4> QED
          BY <1>4, <4>1
      <3>3. g \in [0..n -> P]
        <4> HIDE DEF F
        <4> QED
          BY <1>1, <3>1, <3>2
      <3>4. \A i \in 0..n - 1 : g[i] = h[i]
        <4> HIDE DEF F
        <4> QED
          BY <1>1, <3>1
      <3>5. \A i \in 0..n : F(g, i) = F(h, i)
        <4> HIDE DEF g
        <4> QED
          BY <1>1, <3>4
      <3>6. \A i \in 0..n : g[i] = F(g, i)
        <4>1. \A i \in 0..n : g[i] = F(h, i)
          <5> HIDE DEF F
          <5> QED
            BY <1>1, <3>1
        <4> HIDE DEF g, F
        <4> QED
          BY <4>1, <3>5
      <3> HIDE DEF g, F
      <3> QED
        BY <3>3, <3>6
    <2>3. N \in S
      <3> HIDE DEF S, N
      <3>1. \A n \in 0..N : n \in S
        BY <1>1, <2>1, <2>2, UpTo
      <3> QED
        BY <1>1, <3>1
    <2>4. PICK g \in [0..N -> P] : \A i \in 0..N : g[i] = F(g, i)
      BY <2>3
    <2> HIDE DEF F
    <2>5. g = [n \in 0..N |-> F(g, n)]
      BY <2>4
    <2> QED
      BY <2>5
  <1>6. f = [n \in 0..N |-> F(f, n)]
    <2> HIDE DEF F
    <2> QED
      BY <1>5
  <1>7. replayJournal = f[N]
    BY DEF replayJournal
  <1> HIDE DEF f
  <1>8. \A n \in 0..N : f[n] = F(f, n)
    <2> HIDE DEF F
    <2> QED
      BY <1>6
  <1>9. f[N] \in P
    <2> DEFINE S == {n \in 0..N : f[n] \in P}
    <2>1. 0 \in S
      BY <1>1, <1>2, <1>8
    <2>2. \A n \in 1..N : n - 1 \in S => n \in S
      <3> HIDE DEF F
      <3> QED
        BY <1>1, <1>4, <1>8
    <2>3. N \in S
      <3> HIDE DEF S, N
      <3>1. \A n \in 0..N : n \in S
        BY <1>1, <2>1, <2>2, UpTo
      <3> QED
        BY <1>1, <3>1
    <2> QED
      BY <2>3
  <1> QED
    BY <1>7, <1>9 DEF P

-----------------------------------------------------------------------------
(* The journal. *)

(***************************************************************************)
(* A rollback removes the records of its transaction and no other: o tells *)
(* where each of the remaining records was.                                *)
(***************************************************************************)
Remains(t, o) ==
    /\ o \in [DOMAIN journal' -> DOMAIN journal]
    /\ \A j \in DOMAIN journal' : journal'[j] = journal[o[j]] /\ journal[o[j]].txn # t
    /\ \A j, k \in DOMAIN journal' : o[j] = o[k] => j = k
    /\ \A i \in DOMAIN journal : journal[i].txn # t => \E j \in DOMAIN journal' : o[j] = i

(***************************************************************************)
(* There is such an o, since a transaction has one record at most.         *)
(***************************************************************************)
LEMMA RollbackRemains ==
    ASSUME Shape, OpenRecords, NEW t \in Threads, Rollback(t)
    PROVE  journal' \in Seq(Entry) /\ \E o : Remains(t, o)
  <1>1. journal \in Seq(Entry) /\ Len(journal) \in Nat /\ DOMAIN journal = 1..Len(journal)
    BY DEF Shape
  <1>2. CASE (\A i \in DOMAIN journal : journal[i].txn # t) /\ journal' = journal
    <2> DEFINE o == [j \in DOMAIN journal |-> j]
    <2>1. Remains(t, o)
      BY <1>2 DEF Remains
    <2> QED
      BY <1>1, <1>2, <2>1
  <1>3. ASSUME NEW n \in DOMAIN journal, journal[n].txn = t, journal' = RemoveAt(journal, n)
        PROVE  journal' \in Seq(Entry) /\ \E o : Remains(t, o)
    <2> DEFINE l == SubSeq(journal, 1, n - 1)
               r == SubSeq(journal, n + 1, Len(journal))
               m == Len(journal) - 1
               o == [j \in 1..m |-> IF j < n THEN j ELSE j + 1]
    <2>1. n \in 1..Len(journal) /\ m \in Nat
      BY <1>1
    <2>2. l \in Seq(Entry) /\ Len(l) = n - 1 /\ \A j \in 1..n - 1 : l[j] = journal[j]
      BY <1>1, <2>1
    <2>3. r \in Seq(Entry) /\ Len(r) = Len(journal) - n /\ \A j \in 1..Len(r) : r[j] = journal[j + n]
      BY <1>1, <2>1
    <2>4. journal' = l \o r
      BY <1>3 DEF RemoveAt
    <2> HIDE DEF l, r
    <2>5. journal' \in Seq(Entry) /\ Len(journal') = m /\ DOMAIN journal' = 1..m
      <3>1. journal' \in Seq(Entry) /\ Len(journal') = Len(l) + Len(r)
        BY <2>2, <2>3, <2>4, ConcatProperties
      <3> QED
        BY <1>1, <2>1, <2>2, <2>3, <3>1
    <2>6. \A j \in 1..m : journal'[j] = IF j < n THEN journal[j] ELSE journal[j + 1]
      <3> TAKE j \in 1..m
      <3>1. CASE j < n
        BY <1>1, <2>1, <2>2, <2>3, <2>4, <3>1
      <3>2. CASE ~(j < n)
        <4>1. /\ j \in 1..Len(l) + Len(r) /\ ~(j <= Len(l)) /\ j - Len(l) \in 1..Len(r)
              /\ j - Len(l) + n = j + 1
          BY <1>1, <2>1, <2>2, <2>3, <3>2
        <4>2. (l \o r)[j] = r[j - Len(l)]
          <5>1. \A k \in 1..Len(l) + Len(r) :
                  (l \o r)[k] = IF k <= Len(l) THEN l[k] ELSE r[k - Len(l)]
            BY <2>2, <2>3, ConcatProperties
          <5> QED
            BY <4>1, <5>1
        <4> QED
          BY <2>3, <2>4, <3>2, <4>1, <4>2
      <3> QED
        BY <3>1, <3>2
    <2>7. \A i \in DOMAIN journal : i # n => journal[i].txn # t
      <3>1. t # None
        BY WorkflowAssumption DEF Threads
      <3> QED
        BY <1>3, <3>1 DEF OpenRecords
    <2>8. o \in [DOMAIN journal' -> DOMAIN journal] /\ \A j \in 1..m : o[j] # n
      BY <1>1, <2>1, <2>5
    <2>9. \A j, k \in DOMAIN journal' : o[j] = o[k] => j = k
      BY <1>1, <2>1, <2>5
    <2>10. \A i \in DOMAIN journal : i # n => \E j \in DOMAIN journal' : o[j] = i
      <3> TAKE i \in DOMAIN journal
      <3> HAVE i # n
      <3>1. CASE i < n
        <4>1. i \in DOMAIN journal' /\ o[i] = i
          BY <1>1, <2>1, <2>5, <3>1
        <4> QED
          BY <4>1
      <3>2. CASE i > n
        <4>1. i - 1 \in DOMAIN journal' /\ o[i - 1] = i
          BY <1>1, <2>1, <2>5, <3>2
        <4> QED
          BY <4>1
      <3> QED
        BY <1>1, <3>1, <3>2
    <2>11. \A j \in DOMAIN journal' : journal'[j] = journal[o[j]]
      BY <2>5, <2>6
    <2> HIDE DEF o
    <2>12. \A j \in DOMAIN journal' : journal[o[j]].txn # t
      BY <2>5, <2>7, <2>8
    <2>13. \A i \in DOMAIN journal : journal[i].txn # t => \E j \in DOMAIN journal' : o[j] = i
      BY <1>3, <2>10
    <2>14. Remains(t, o)
      BY <2>8, <2>9, <2>11, <2>12, <2>13 DEF Remains
    <2> QED
      BY <2>5, <2>14
  <1> QED
    BY <1>2, <1>3 DEF Rollback

(***************************************************************************)
(* A rollback loses nothing that is durable.                               *)
(***************************************************************************)
LEMMA RemainsDurable ==
    ASSUME Shape, NEW t \in Threads, NEW o, Remains(t, o)
    PROVE  /\ \A j \in Committed' : o[j] \in Committed
           /\ \A i \in Committed : \E j \in Committed' : o[j] = i
           /\ \A kinds : Durable(kinds)' = Durable(kinds)
  <1>1. t # None
    BY WorkflowAssumption DEF Threads
  <1>2. \A j \in Committed' : o[j] \in Committed
    BY DEF Remains, Committed
  <1>3. \A i \in Committed : \E j \in Committed' : o[j] = i
    BY <1>1 DEF Remains, Committed
  <1>4. ASSUME NEW kinds
        PROVE  Durable(kinds)' = Durable(kinds)
    <2>1. \A j \in Committed' : journal'[j] = journal[o[j]]
      BY DEF Remains, Committed
    <2>2. \A i \in Committed : \E j \in Committed' : journal'[j] = journal[i]
      BY <1>3, <2>1
    <2> QED
      BY <1>2, <2>1, <2>2 DEF Durable
  <1> QED
    BY <1>2, <1>3, <1>4

(***************************************************************************)
(* A row that does not exist has no durable record.                        *)
(***************************************************************************)
LEMMA DurableHasRow ==
    ASSUME Chain, NEW kinds, NEW id \in Durable(kinds)
    PROVE  row.exists
  BY DEF Chain, Durable

-----------------------------------------------------------------------------
(* What a step does. *)

(***************************************************************************)
(* The answer of a step says no more than the journal does.                *)
(***************************************************************************)
ModestReply ==
    /\ reply'.outcome \notin {"committed", "rejected"}
    /\ reply'.outcome = "deduped" => reply'.id \in Durable(HandledKinds)

(***************************************************************************)
(* The thread is or gets out of its transaction, which leaves nothing.     *)
(***************************************************************************)
Outside(y, ran) ==
    /\ y \in Thread /\ y.pc \notin TxnPC
    /\ y.pc = "replay" => y.rec.id \in Ids
    /\ y.pc = "begin" => SoundWith(y.rec, ran)

Aside(t) ==
    \E y : /\ th' = [th EXCEPT ![t] = y]
           /\ Outside(y, executed')
           /\ Rollback(t)
           /\ executed \subseteq executed' /\ executed' \subseteq Ids
           /\ ModestReply
           /\ t \in Drainers /\ th[t].pc = "idle" => row.exists

(***************************************************************************)
(* The transaction begins, inserts its record, and commits.                *)
(***************************************************************************)
Selects(t) ==
    /\ th[t].pc = "begin" /\ (row.exists => lock = None)
    /\ Handles(th[t].rec) => Len(row.applied) = Expected(th[t].rec)
    /\ lock' = IF row.exists THEN t ELSE lock
    /\ th' = [th EXCEPT ![t].pc = "insert"]
    /\ reply' = NoReply
    /\ UNCHANGED <<row, journal, executed>>

Inserts(t) ==
    /\ th[t].pc = "insert" /\ Rivals(t) = {}
    /\ Handles(th[t].rec) => th[t].rec.id \notin Durable(HandledKinds)
    /\ journal' = Append(journal, [kind |-> th[t].rec.kind, id |-> th[t].rec.id,
                                   next |-> th[t].rec.next, txn |-> t])
    /\ th' = [th EXCEPT ![t].pc = "upsert"]
    /\ reply' = NoReply
    /\ UNCHANGED <<row, lock, executed>>

Commits(t) ==
    \E y : /\ th[t].pc = "upsert" /\ lock \in {None, t} /\ VersionHolds(t)
           /\ CommitTxn(t)
           /\ th' = [th EXCEPT ![t] = y]
           /\ y \in Thread /\ y.pc \in {"idle", "drain", "begin"}
           /\ y.pc = "begin" =>
                Handles(th[t].rec) /\ y.rec = [kind |-> "task-acked", id |-> th[t].rec.id, next |-> << >>]
           /\ reply'.outcome \in {"committed", "rejected"} =>
                Handles(th[t].rec) /\ reply' = [id |-> th[t].rec.id, outcome |-> Success(th[t].rec)]
           /\ reply'.outcome # "deduped"
           /\ UNCHANGED executed

(***************************************************************************)
(* What handle leaves when it returns.                                     *)
(***************************************************************************)
LEMMA HandleReturned ==
    ASSUME Shape, NEW t \in Threads, NEW id \in Ids, NEW outcome, HandleReturns(t, id, outcome)
    PROVE  \E y : /\ th' = [th EXCEPT ![t] = y]
                  /\ y \in Thread /\ y.pc \in {"idle", "drain", "begin"}
                  /\ y.pc = "begin" => /\ outcome # "store-append-failed"
                                       /\ y.rec = [kind |-> "task-acked", id |-> id, next |-> << >>]
  <1> DEFINE x == th[t]
             a == [x EXCEPT !.pc = "drain", !.rec = NoRec, !.tasks = @ \ {id}]
             b == [x EXCEPT !.pc = "begin", !.rec = [kind |-> "task-acked", id |-> id, next |-> << >>]]
  <1>1. x \in Thread
    BY DEF Shape
  <1>2. NoRec \in Record /\ [kind |-> "task-acked", id |-> id, next |-> << >>] \in Record
    BY DEF NoRec, Record, Kinds
  <1>3. Idle \in Thread /\ Idle.pc = "idle"
    BY <1>2 DEF Idle, Thread
  <1>4. a \in Thread /\ a.pc = "drain"
    BY <1>1, <1>2 DEF Thread
  <1>5. /\ b \in Thread /\ b.pc = "begin"
        /\ b.rec = [kind |-> "task-acked", id |-> id, next |-> << >>]
    BY <1>1, <1>2 DEF Thread
  <1>6. th' = [th EXCEPT ![t] = IF t \in Requests THEN Idle
                                ELSE IF outcome = "store-append-failed" THEN a ELSE b]
    BY DEF HandleReturns
  <1> HIDE DEF a, b
  <1> QED
    BY <1>3, <1>4, <1>5, <1>6

(***************************************************************************)
(* What append leaves when it returns.                                     *)
(***************************************************************************)
LEMMA AppendReturned ==
    ASSUME Shape, NEW t \in Threads, th[t].rec.kind \in Kinds, th[t].rec.id \in Ids,
           NEW outcome, AppendReturns(t, outcome)
    PROVE  /\ \E y : /\ th' = [th EXCEPT ![t] = y]
                     /\ y \in Thread /\ y.pc \in {"idle", "drain", "begin"}
                     /\ y.pc = "begin" =>
                          /\ Handles(th[t].rec) /\ outcome # "store-append-failed"
                          /\ y.rec = [kind |-> "task-acked", id |-> th[t].rec.id, next |-> << >>]
           /\ IF Handles(th[t].rec) THEN reply' = [id |-> th[t].rec.id, outcome |-> outcome]
                                    ELSE reply' = NoReply
  <1> DEFINE x == th[t]
  <1>1. CASE Handles(x.rec)
    <2>1. HandleReturns(t, x.rec.id, outcome)
      BY <1>1 DEF AppendReturns
    <2>2. reply' = [id |-> x.rec.id, outcome |-> outcome]
      BY <2>1 DEF HandleReturns
    <2> QED
      BY <1>1, <2>1, <2>2, HandleReturned
  <1>2. CASE ~Handles(x.rec)
    <2>1. AckReturns(t, outcome)
      BY <1>2 DEF AppendReturns
    <2> DEFINE e == x.effects \ IF x.rec.kind = "effect-acked" THEN {x.rec.id} ELSE {}
               k == x.tasks \ IF x.rec.kind = "task-acked" THEN {x.rec.id} ELSE {}
               a == [x EXCEPT !.pc = "drain", !.rec = NoRec, !.effects = e, !.tasks = k]
    <2>2. x \in Thread
      BY DEF Shape
    <2>3. NoRec \in Record
      BY DEF NoRec, Record
    <2>4. Idle \in Thread /\ Idle.pc = "idle"
      BY <2>3 DEF Idle, Thread
    <2>5. a \in Thread /\ a.pc = "drain"
      BY <2>2, <2>3 DEF Thread
    <2>6. th' = [th EXCEPT ![t] = IF outcome = "store-append-failed" THEN Idle ELSE a]
      BY <2>1 DEF AckReturns
    <2>7. reply' = NoReply
      BY <2>1 DEF AckReturns
    <2> HIDE DEF a
    <2> QED
      BY <1>2, <2>4, <2>5, <2>6, <2>7
  <1> QED
    BY <1>1, <1>2

(***************************************************************************)
(* A thread outside of a transaction has nothing to roll back.             *)
(***************************************************************************)
LEMMA NothingToRollBack ==
    ASSUME Shape, OpenRecords, Locked, NEW t \in Threads, th[t].pc # "upsert", UNCHANGED <<row, journal>>,
           lock' = IF th[t].pc \in TxnPC THEN Unlocked(t) ELSE lock
    PROVE  Rollback(t)
  <1>1. t # None
    BY WorkflowAssumption DEF Threads
  <1>2. \A i \in DOMAIN journal : journal[i].txn # t
    BY <1>1 DEF OpenRecords
  <1>3. lock' = Unlocked(t)
    BY <1>1 DEF Locked, Unlocked
  <1> QED
    BY <1>2, <1>3 DEF Rollback

(***************************************************************************)
(* The acknowledgement of a task whose event has a record.                 *)
(***************************************************************************)
LEMMA AckIsSound ==
    ASSUME Chain, NEW id \in Ids, id \in Durable(HandledKinds), NEW ran
    PROVE  SoundWith([kind |-> "task-acked", id |-> id, next |-> << >>], ran)
  <1>1. row.exists
    BY DurableHasRow
  <1> QED
    BY <1>1 DEF SoundWith, SoundIn, Handles, Kinds

(***************************************************************************)
(* The end of handleLocked, on an instance that the row has been in.       *)
(***************************************************************************)
LEMMA DecideStep ==
    ASSUME Inv, NEW t \in Threads, th[t].pc \notin TxnPC, t \in Drainers => th[t].pc # "idle",
           NEW id \in Ids, NEW p \in Projection,
           Begins(p.applied, row.applied), p.seen \subseteq Durable(HandledKinds),
           Decide(t, id, p), UNCHANGED <<row, journal, lock, executed>>
    PROVE  Aside(t)
  <1>1. Shape /\ OpenRecords /\ Locked /\ Chain
    BY DEF Inv
  <1>2. Rollback(t)
    BY <1>1, NothingToRollBack DEF TxnPC
  <1>3. executed \subseteq executed' /\ executed' \subseteq Ids
    BY <1>1 DEF Shape
  <1>4. CASE id \in p.seen /\ HandleReturns(t, id, "deduped")
    <2>1. PICK y : /\ th' = [th EXCEPT ![t] = y]
                   /\ y \in Thread /\ y.pc \in {"idle", "drain", "begin"}
                   /\ y.pc = "begin" => y.rec = [kind |-> "task-acked", id |-> id, next |-> << >>]
      BY <1>1, <1>4, HandleReturned
    <2>2. y.pc = "begin" => SoundWith(y.rec, executed')
      BY <1>1, <1>4, <2>1, AckIsSound
    <2>3. Outside(y, executed')
      BY <2>1, <2>2 DEF Outside, TxnPC
    <2>4. ModestReply
      BY <1>4 DEF HandleReturns, ModestReply
    <2> QED
      BY <1>2, <1>3, <2>1, <2>3, <2>4 DEF Aside
  <1>5. ASSUME NEW kind \in HandledKinds, reply' = NoReply,
               th' = [th EXCEPT ![t].pc = "begin",
                                ![t].rec = [kind |-> kind, id |-> id,
                                            next |-> IF kind = "commit" THEN Append(p.applied, id)
                                                                        ELSE p.applied]]
        PROVE  Aside(t)
    <2> DEFINE s == IF kind = "commit" THEN Append(p.applied, id) ELSE p.applied
               r == [kind |-> kind, id |-> id, next |-> s]
               y == [th[t] EXCEPT !.pc = "begin", !.rec = r]
    <2>1. th' = [th EXCEPT ![t] = y]
      BY <1>1, <1>5 DEF Shape
    <2>2. p.applied \in Seq(Ids) /\ Len(p.applied) \in Nat
      BY DEF Projection
    <2>3. /\ s \in Seq(Ids) /\ Len(s) = Len(p.applied) + (IF kind = "commit" THEN 1 ELSE 0)
          /\ \A i \in 1..Len(p.applied) : s[i] = p.applied[i]
          /\ kind = "commit" => s[Len(s)] = id
      <3>1. CASE kind = "commit"
        <4>1. s = Append(p.applied, id)
          BY <3>1
        <4>2. /\ s \in Seq(Ids) /\ Len(s) = Len(p.applied) + 1 /\ s[Len(s)] = id
              /\ \A i \in 1..Len(p.applied) : s[i] = p.applied[i]
          BY <2>2, <4>1
        <4> QED
          BY <3>1, <4>2
      <3>2. CASE kind # "commit"
        <4>1. s = p.applied
          BY <3>2
        <4> QED
          BY <2>2, <3>2, <4>1
      <3> QED
        BY <3>1, <3>2
    <2> HIDE DEF s
    <2>4. r \in Record
      BY <1>5, <2>3 DEF Record, Kinds, HandledKinds
    <2>5. y \in Thread /\ y.pc = "begin" /\ y.rec = r
      BY <1>1, <2>4 DEF Thread, Shape
    <2>6. r.kind = kind /\ r.id = id /\ r.next = s
      OBVIOUS
    <2> HIDE DEF r, y
    <2>7. Expected(r) = Len(p.applied) /\ EndsInOwn(r)
      <3>1. CASE kind = "commit"
        BY <2>2, <2>3, <2>6, <3>1 DEF Expected, EndsInOwn
      <3>2. CASE kind # "commit"
        BY <2>2, <2>3, <2>6, <3>2 DEF Expected, EndsInOwn
      <3> QED
        BY <3>1, <3>2
    <2>8. r.kind \in Kinds /\ Handles(r) /\ r.kind \notin {"effect-acked", "task-acked"}
      BY <1>5, <2>6 DEF Kinds, Handles, HandledKinds
    <2>9. Expected(r) <= Len(row.applied) /\ \A i \in 1..Expected(r) : r.next[i] = row.applied[i]
      BY <2>3, <2>6, <2>7 DEF Begins
    <2>10. SoundWith(r, executed')
      BY <2>6, <2>7, <2>8, <2>9 DEF SoundWith, SoundIn
    <2>11. Outside(y, executed')
      BY <2>5, <2>10 DEF Outside, TxnPC
    <2>12. ModestReply
      BY <1>5 DEF ModestReply, NoReply
    <2> QED
      BY <1>2, <1>3, <2>1, <2>11, <2>12 DEF Aside
  <1> QED
    BY <1>4, <1>5 DEF Decide, HandledKinds

(***************************************************************************)
(* handle from its beginning: it decides on the row or goes to the         *)
(* journal.                                                                *)
(***************************************************************************)
LEMMA HandleStep ==
    ASSUME Inv, NEW t \in Threads, th[t].pc \notin TxnPC, t \in Drainers => th[t].pc # "idle",
           NEW id \in Ids, Handle(t, id), UNCHANGED <<row, journal, lock, executed>>
    PROVE  Aside(t)
  <1>1. Shape /\ OpenRecords /\ Locked /\ Chain
    BY DEF Inv
  <1>2. CASE row.exists
    <2>1. Decide(t, id, row)
      BY <1>2 DEF Handle
    <2>2. row \in Projection /\ row.seen \subseteq Durable(HandledKinds) /\ Begins(row.applied, row.applied)
      BY <1>1 DEF Shape, Chain, Begins, Projection
    <2> QED
      BY <2>1, <2>2, DecideStep
  <1>3. CASE ~row.exists
    <2> DEFINE r == [NoRec EXCEPT !.id = id]
               y == [th[t] EXCEPT !.pc = "replay", !.rec = r]
    <2>1. th' = [th EXCEPT ![t] = y]
      BY <1>1, <1>3 DEF Handle, Shape
    <2>2. r \in Record /\ r.id = id
      <3>1. r = [kind |-> "none", id |-> id, next |-> << >>]
        BY DEF NoRec
      <3> HIDE DEF r
      <3> QED
        BY <3>1 DEF Record
    <2> HIDE DEF r
    <2>3. y \in Thread /\ y.pc = "replay" /\ y.rec = r
      BY <1>1, <2>2 DEF Thread, Shape
    <2> HIDE DEF y
    <2>4. Outside(y, executed')
      BY <2>2, <2>3 DEF Outside, TxnPC
    <2>5. ModestReply
      BY <1>3 DEF Handle, ModestReply, NoReply
    <2>6. Rollback(t)
      BY <1>1, NothingToRollBack DEF TxnPC
    <2>7. executed \subseteq executed' /\ executed' \subseteq Ids
      BY <1>1 DEF Shape
    <2> QED
      BY <2>1, <2>4, <2>5, <2>6, <2>7 DEF Aside
  <1> QED
    BY <1>2, <1>3

(***************************************************************************)
(* An append that ends without success and leaves nothing.                 *)
(***************************************************************************)
LEMMA FailedAppend ==
    ASSUME Inv, NEW t \in Threads, th[t].pc \in {"begin", "insert", "upsert"},
           NEW outcome \in {"store-append-failed", "deduped"},
           outcome = "deduped" => th[t].rec.id \in Durable(HandledKinds),
           AppendReturns(t, outcome), Rollback(t), UNCHANGED executed
    PROVE  Aside(t)
  <1>1. Shape /\ Chain /\ Sound(th[t].rec)
    BY DEF Inv, ThreadsSound
  <1>2. th[t].rec.kind \in Kinds /\ th[t].rec.id \in Ids
    BY <1>1 DEF Sound, SoundWith, SoundIn
  <1>3. PICK y :
          /\ th' = [th EXCEPT ![t] = y]
          /\ y \in Thread /\ y.pc \in {"idle", "drain", "begin"}
          /\ y.pc = "begin" =>
               /\ Handles(th[t].rec) /\ outcome # "store-append-failed"
               /\ y.rec = [kind |-> "task-acked", id |-> th[t].rec.id, next |-> << >>]
    BY <1>1, <1>2, AppendReturned
  <1>4. reply' = [id |-> th[t].rec.id, outcome |-> outcome] \/ reply' = NoReply
    BY <1>1, <1>2, AppendReturned
  <1>5. y.pc = "begin" => SoundWith(y.rec, executed')
    BY <1>1, <1>2, <1>3, AckIsSound
  <1>6. Outside(y, executed')
    BY <1>3, <1>5 DEF Outside, TxnPC
  <1>7. ModestReply
    BY <1>4 DEF ModestReply, NoReply
  <1>8. executed \subseteq executed' /\ executed' \subseteq Ids
    BY <1>1 DEF Shape
  <1> QED
    BY <1>3, <1>6, <1>7, <1>8 DEF Aside

(***************************************************************************)
(* An append whose commit took effect, with or without its reply.          *)
(***************************************************************************)
LEMMA CommittedAppend ==
    ASSUME Inv, NEW t \in Threads, th[t].pc = "upsert", lock \in {None, t}, VersionHolds(t),
           CommitTxn(t), NEW outcome \in {"store-append-failed", Success(th[t].rec)},
           AppendReturns(t, outcome), UNCHANGED executed
    PROVE  Commits(t)
  <1>1. Shape /\ Sound(th[t].rec)
    BY DEF Inv, ThreadsSound
  <1>2. th[t].rec.kind \in Kinds /\ th[t].rec.id \in Ids
    BY <1>1 DEF Sound, SoundWith, SoundIn
  <1>3. PICK y :
          /\ th' = [th EXCEPT ![t] = y]
          /\ y \in Thread /\ y.pc \in {"idle", "drain", "begin"}
          /\ y.pc = "begin" =>
               /\ Handles(th[t].rec)
               /\ y.rec = [kind |-> "task-acked", id |-> th[t].rec.id, next |-> << >>]
    BY <1>1, <1>2, AppendReturned
  <1>4. IF Handles(th[t].rec) THEN reply' = [id |-> th[t].rec.id, outcome |-> outcome]
                              ELSE reply' = NoReply
    BY <1>1, <1>2, AppendReturned
  <1>5. /\ reply'.outcome \in {"committed", "rejected"} =>
             Handles(th[t].rec) /\ reply' = [id |-> th[t].rec.id, outcome |-> Success(th[t].rec)]
        /\ reply'.outcome # "deduped"
    BY <1>4 DEF Success, NoReply
  <1> QED
    BY <1>3, <1>5 DEF Commits

(***************************************************************************)
(* Every step is of one of these kinds.                                    *)
(***************************************************************************)
LEMMA StepKinds ==
    ASSUME Inv, [Next]_vars
    PROVE  \/ UNCHANGED vars
           \/ \E t \in Threads : Aside(t) \/ Selects(t) \/ Inserts(t) \/ Commits(t)
  <1>1. Shape /\ ThreadsSound /\ OpenRecords /\ Locked /\ Chain
    BY DEF Inv
  <1>2. ASSUME NEW r \in Requests, NEW e \in Events, Receive(r, e)
        PROVE  Aside(r) /\ r \in Threads
    <2>1. r \in Threads /\ <<e, "in">> \in Ids
      BY DEF Threads, Ids
    <2>2. /\ th[r].pc \notin TxnPC /\ Handle(r, <<e, "in">>)
          /\ UNCHANGED <<row, journal, lock, executed>>
      BY <1>2 DEF Receive, TxnPC
    <2>3. r \notin Drainers
      BY WorkflowAssumption
    <2> QED
      BY <2>1, <2>2, <2>3, HandleStep
  <1>3. ASSUME NEW t \in Threads, LoadJournal(t)
        PROVE  Aside(t)
    <2>1. /\ th[t].pc = "replay" /\ th[t].pc \notin TxnPC /\ Decide(t, th[t].rec.id, replayJournal)
          /\ UNCHANGED <<row, journal, lock, executed>>
      BY <1>3 DEF LoadJournal, TxnPC
    <2>2. th[t].rec.id \in Ids
      BY <1>1, <2>1 DEF ThreadsSound
    <2>3. /\ replayJournal \in Projection /\ Begins(replayJournal.applied, row.applied)
          /\ replayJournal.seen \subseteq Durable(HandledKinds)
      BY <1>1, ReplayIsSound
    <2> QED
      BY <2>1, <2>2, <2>3, DecideStep
  <1>4. ASSUME NEW t \in Threads, SelectForUpdate(t)
        PROVE  Aside(t) \/ Selects(t)
    <2>1. CASE Handles(th[t].rec) /\ Len(row.applied) # Expected(th[t].rec)
      <3>1. /\ th[t].pc = "begin" /\ AppendReturns(t, "store-append-failed")
            /\ UNCHANGED <<row, journal, lock, executed>>
        BY <1>4, <2>1 DEF SelectForUpdate
      <3>2. Rollback(t)
        BY <1>1, <3>1, NothingToRollBack DEF TxnPC
      <3> QED
        BY <3>1, <3>2, FailedAppend
    <2>2. CASE ~(Handles(th[t].rec) /\ Len(row.applied) # Expected(th[t].rec))
      BY <1>4, <2>2 DEF SelectForUpdate, Selects
    <2> QED
      BY <2>1, <2>2
  <1>5. ASSUME NEW t \in Threads, InsertJournal(t)
        PROVE  Aside(t) \/ Inserts(t)
    <2>1. CASE Handles(th[t].rec) /\ th[t].rec.id \in Durable(HandledKinds)
      <3>1. /\ th[t].pc = "insert" /\ AppendReturns(t, "deduped") /\ lock' = Unlocked(t)
            /\ UNCHANGED <<row, journal, executed>>
        BY <1>5, <2>1 DEF InsertJournal, HandledKinds
      <3>2. Rollback(t)
        BY <1>1, <3>1, NothingToRollBack DEF TxnPC
      <3> QED
        BY <2>1, <3>1, <3>2, FailedAppend
    <2>2. CASE ~(Handles(th[t].rec) /\ th[t].rec.id \in Durable(HandledKinds))
      BY <1>5, <2>2 DEF InsertJournal, Inserts, HandledKinds
    <2> QED
      BY <2>1, <2>2
  <1>6. ASSUME NEW t \in Threads, UpsertState(t)
        PROVE  Aside(t) \/ Commits(t)
    <2>1. th[t].pc = "upsert" /\ lock \in {None, t} /\ UNCHANGED executed
      BY <1>6 DEF UpsertState
    <2>2. CASE VersionHolds(t)
      <3>1. CommitTxn(t) /\ AppendReturns(t, Success(th[t].rec))
        BY <1>6, <2>2 DEF UpsertState
      <3> QED
        BY <2>1, <2>2, <3>1, CommittedAppend
    <2>3. CASE ~VersionHolds(t)
      <3>1. Rollback(t) /\ AppendReturns(t, "store-append-failed")
        BY <1>6, <2>3 DEF UpsertState
      <3> QED
        BY <2>1, <3>1, FailedAppend
    <2> QED
      BY <2>2, <2>3
  <1>7. ASSUME NEW t \in Threads, StatementFails(t)
        PROVE  Aside(t)
    BY <1>7, FailedAppend DEF StatementFails
  <1>8. ASSUME NEW t \in Threads, CommitReplyLost(t)
        PROVE  Commits(t)
    BY <1>8, CommittedAppend DEF CommitReplyLost
  <1>9. ASSUME NEW t \in Threads, NEW y, th' = [th EXCEPT ![t] = y], y \in Thread,
               y.pc \in {"idle", "drain"}, reply' = NoReply, UNCHANGED executed, Rollback(t),
               th[t].pc = "idle" => row.exists
        PROVE  Aside(t)
    <2>1. Outside(y, executed') /\ ModestReply
      BY <1>9 DEF Outside, TxnPC, ModestReply, NoReply
    <2>2. executed \subseteq executed' /\ executed' \subseteq Ids
      BY <1>1, <1>9 DEF Shape
    <2> QED
      BY <1>9, <2>1, <2>2 DEF Aside
  <1>10. Idle \in Thread /\ Idle.pc = "idle"
    BY DEF Idle, Thread, NoRec, Record
  <1>11. ASSUME NEW t \in Threads, Crash(t)
         PROVE  Aside(t)
    <2>1. /\ th' = [th EXCEPT ![t] = Idle] /\ reply' = NoReply /\ UNCHANGED executed /\ Rollback(t)
          /\ th[t].pc # "idle"
      BY <1>11 DEF Crash
    <2> QED
      BY <2>1, <1>9, <1>10
  <1>12. ASSUME NEW t \in Threads, NEW u \in Threads, DbDeadlock(t, u)
         PROVE  \E v \in Threads : Aside(v)
    <2>1. PICK v \in {t, u} : Rollback(v) /\ AppendReturns(v, "store-append-failed")
      BY <1>12 DEF DbDeadlock
    <2>2. th[v].pc \in {"begin", "insert", "upsert"} /\ UNCHANGED executed
      BY <1>12 DEF DbDeadlock
    <2>3. Aside(v)
      BY <2>1, <2>2, FailedAppend
    <2> QED
      BY <2>3
  <1>13. ASSUME NEW d \in Drainers, DrainLoad(d)
         PROVE  Aside(d)
    <2> DEFINE y == [Idle EXCEPT !.pc = "drain", !.effects = row.effects, !.tasks = row.tasks]
    <2>1. /\ th' = [th EXCEPT ![d] = y] /\ reply' = NoReply /\ th[d].pc = "idle"
          /\ UNCHANGED <<row, journal, lock, executed>> /\ d \in Threads /\ row.exists
      BY <1>13 DEF DrainLoad, Threads
    <2>2. y \in Thread /\ y.pc = "drain"
      BY <1>1, <1>10 DEF Thread, Shape, Projection
    <2>3. Rollback(d)
      BY <1>1, <2>1, NothingToRollBack DEF TxnPC
    <2> HIDE DEF y
    <2> QED
      BY <1>9, <2>1, <2>2, <2>3
  <1>14. ASSUME NEW d \in Drainers, DrainEffect(d)
         PROVE  Aside(d)
    <2>1. PICK id \in th[d].effects :
            /\ executed' = executed \cup {id}
            /\ th' = [th EXCEPT ![d].pc = "begin",
                                ![d].rec = [kind |-> "effect-acked", id |-> id, next |-> << >>]]
      BY <1>14 DEF DrainEffect
    <2> DEFINE r == [kind |-> "effect-acked", id |-> id, next |-> << >>]
               y == [th[d] EXCEPT !.pc = "begin", !.rec = r]
    <2>2. /\ th[d].pc = "drain" /\ reply' = NoReply /\ UNCHANGED <<row, journal, lock>>
          /\ d \in Threads
      BY <1>14 DEF DrainEffect, Threads
    <2>3. th' = [th EXCEPT ![d] = y] /\ th[d] \in Thread /\ id \in Ids
      BY <1>1, <2>1, <2>2 DEF Shape, Thread
    <2>4. r \in Record
      BY <2>3 DEF Record, Kinds
    <2>5. y \in Thread /\ y.pc = "begin" /\ y.rec = r
      BY <2>3, <2>4 DEF Thread
    <2>6. r.kind = "effect-acked" /\ r.id = id
      OBVIOUS
    <2> HIDE DEF y, r
    <2>7. row.exists
      BY <1>1, <2>2 DEF ThreadsSound
    <2>8. SoundWith(r, executed')
      BY <2>1, <2>3, <2>6, <2>7 DEF SoundWith, SoundIn, Handles, Kinds
    <2>9. Outside(y, executed')
      BY <2>5, <2>8 DEF Outside, TxnPC
    <2>10. ModestReply
      BY <2>2 DEF ModestReply, NoReply
    <2>11. Rollback(d)
      BY <1>1, <2>2, NothingToRollBack DEF TxnPC
    <2>12. executed \subseteq executed' /\ executed' \subseteq Ids
      BY <1>1, <2>1, <2>3 DEF Shape
    <2> QED
      BY <2>3, <2>7, <2>9, <2>10, <2>11, <2>12 DEF Aside
  <1>15. ASSUME NEW d \in Drainers, DrainTask(d)
         PROVE  Aside(d)
    <2>1. /\ d \in Threads /\ th[d].pc = "drain" /\ UNCHANGED <<row, journal, lock, executed>>
          /\ \E id \in th[d].tasks : Handle(d, id)
      BY <1>15 DEF DrainTask, Threads
    <2>2. PICK id \in th[d].tasks : Handle(d, id)
      BY <2>1
    <2>3. id \in Ids
      BY <1>1, <2>1 DEF Shape, Thread
    <2> QED
      BY <2>1, <2>2, <2>3, HandleStep DEF TxnPC
  <1>16. ASSUME NEW d \in Drainers, DrainEnds(d)
         PROVE  Aside(d)
    <2>1. /\ d \in Threads /\ th[d].pc = "drain" /\ UNCHANGED <<row, journal, lock, executed>>
          /\ th' = [th EXCEPT ![d] = Idle] /\ reply' = NoReply
      BY <1>16 DEF DrainEnds, Threads
    <2>2. Rollback(d)
      BY <1>1, <2>1, NothingToRollBack DEF TxnPC
    <2> QED
      BY <1>9, <1>10, <2>1, <2>2
  <1>17. ASSUME NEW d \in Drainers, EffectFails(d)
         PROVE  Aside(d)
    <2>1. /\ d \in Threads /\ th[d].pc = "drain" /\ UNCHANGED <<row, journal, lock, executed>>
          /\ reply' = NoReply
      BY <1>17 DEF EffectFails, Threads
    <2>2. PICK id \in th[d].effects : th' = [th EXCEPT ![d].effects = @ \ {id}]
      BY <1>17 DEF EffectFails
    <2> DEFINE y == [th[d] EXCEPT !.effects = th[d].effects \ {id}]
    <2>3. th' = [th EXCEPT ![d] = y] /\ th[d] \in Thread
      BY <1>1, <2>1, <2>2 DEF Shape
    <2>4. y \in Thread /\ y.pc = "drain"
      BY <2>1, <2>3 DEF Thread
    <2>5. Rollback(d)
      BY <1>1, <2>1, NothingToRollBack DEF TxnPC
    <2> HIDE DEF y
    <2> QED
      BY <1>9, <2>1, <2>3, <2>4, <2>5
  <1>18. Drainers \subseteq Threads /\ Requests \subseteq Threads
    BY DEF Threads
  <1>19. CASE UNCHANGED vars
    BY <1>19
  <1>20. CASE \E r \in Requests, e \in Events : Receive(r, e)
    BY <1>2, <1>20
  <1>21. CASE \E t \in Threads : \/ LoadJournal(t) \/ SelectForUpdate(t) \/ InsertJournal(t)
                                  \/ UpsertState(t)
                                  \/ StatementFails(t) \/ CommitReplyLost(t) \/ Crash(t)
    BY <1>3, <1>4, <1>5, <1>6, <1>7, <1>8, <1>11, <1>21
  <1>22. CASE \E t \in Threads, u \in Threads : DbDeadlock(t, u)
    BY <1>12, <1>22
  <1>23. CASE \E d \in Drainers : \/ DrainLoad(d) \/ DrainEffect(d) \/ DrainTask(d) \/ DrainEnds(d)
                                   \/ EffectFails(d)
    BY <1>13, <1>14, <1>15, <1>16, <1>17, <1>18, <1>23
  <1> QED
    BY <1>19, <1>20, <1>21, <1>22, <1>23 DEF Next

-----------------------------------------------------------------------------
(* Every kind of step keeps the invariant. *)

(***************************************************************************)
(* A record stays sound while the instance grows.                          *)
(***************************************************************************)
LEMMA SoundGrows ==
    ASSUME NEW r \in Record, NEW ran, NEW a \in Seq(Ids), NEW x, NEW h, SoundIn(r, ran, a, x, h),
           NEW ran2, NEW a2 \in Seq(Ids), NEW x2, NEW h2,
           ran \subseteq ran2, Begins(a, a2), x => x2, h \subseteq h2
    PROVE  SoundIn(r, ran2, a2, x2, h2)
  <1>1. Expected(r) \in Int /\ Len(a) \in Nat /\ Len(a2) \in Nat /\ Len(a) <= Len(a2)
    BY DEF Expected, Record, Begins
  <1>2. ASSUME Handles(r), NEW i \in 1..Expected(r)
        PROVE  r.next[i] = a2[i]
    <2>1. i \in 1..Len(a)
      BY <1>1, <1>2 DEF SoundIn
    <2> QED
      BY <1>2, <2>1 DEF SoundIn, Begins
  <1>3. Handles(r) => Expected(r) <= Len(a2)
    BY <1>1 DEF SoundIn
  <1> QED
    BY <1>2, <1>3 DEF SoundIn

(***************************************************************************)
(* Steps outside of a transaction and steps that roll one back.            *)
(***************************************************************************)
LEMMA AsideKeeps ==
    ASSUME Inv, NEW t \in Threads, Aside(t)
    PROVE  Inv'
  <1>1. Shape /\ ThreadsSound /\ OpenRecords /\ Locked /\ Chain /\ WorkKept
    BY DEF Inv
  <1>2. PICK y : /\ th' = [th EXCEPT ![t] = y] /\ Outside(y, executed') /\ Rollback(t)
                 /\ executed \subseteq executed' /\ executed' \subseteq Ids /\ ModestReply
                 /\ t \in Drainers /\ th[t].pc = "idle" => row.exists
    BY DEF Aside
  <1>3. journal' \in Seq(Entry) /\ \E o : Remains(t, o)
    BY <1>1, <1>2, RollbackRemains
  <1>4. PICK o : Remains(t, o)
    BY <1>3
  <1>5. row' = row /\ lock' = Unlocked(t) /\ t # None
    BY <1>2, WorkflowAssumption DEF Rollback, Threads
  <1>6. /\ th \in [Threads -> Thread] /\ y \in Thread
        /\ th'[t] = y /\ \A u \in Threads : u # t => th'[u] = th[u]
    BY <1>1, <1>2 DEF Shape, Outside
  <1>7. /\ \A j \in Committed' : o[j] \in Committed
        /\ \A kinds : Durable(kinds)' = Durable(kinds)
    BY <1>1, <1>4, RemainsDurable
  <1>8. /\ o \in [DOMAIN journal' -> DOMAIN journal]
        /\ \A j \in DOMAIN journal' : journal'[j] = journal[o[j]] /\ journal[o[j]].txn # t
        /\ \A j, k \in DOMAIN journal' : o[j] = o[k] => j = k
        /\ \A i \in DOMAIN journal : journal[i].txn # t => \E j \in DOMAIN journal' : o[j] = i
    BY <1>4 DEF Remains
  <1>9. journal \in Seq(Entry) /\ \A i \in DOMAIN journal : journal[i] \in Entry
    BY <1>1 DEF Shape
  <1>10. Shape'
    <2>1. th' \in [Threads -> Thread]
      BY <1>2, <1>6
    <2>2. lock' \in Threads \cup {None}
      BY <1>1, <1>5 DEF Shape, Unlocked
    <2> QED
      BY <1>1, <1>2, <1>3, <1>5, <2>1, <2>2 DEF Shape
  <1>11. ThreadsSound'
    <2> SUFFICES ASSUME NEW u \in Threads
                 PROVE  /\ th'[u].pc = "replay" => th'[u].rec.id \in Ids
                        /\ th'[u].pc \in {"begin", "insert", "upsert"} =>
                             SoundIn(th'[u].rec, executed', row.applied, row.exists, Durable(HandledKinds))
                        /\ u \in Drainers /\ th'[u].pc # "idle" => row.exists
      BY <1>5, <1>7 DEF ThreadsSound, Sound, SoundWith
    <2>1. CASE u = t
      <3>1. th'[u].pc = "replay" => th'[u].rec.id \in Ids
        BY <1>2, <1>6, <2>1 DEF Outside
      <3>2. th'[u].pc \in {"begin", "insert", "upsert"} =>
              SoundIn(th'[u].rec, executed', row.applied, row.exists, Durable(HandledKinds))
        BY <1>2, <1>6, <2>1 DEF Outside, SoundWith, TxnPC
      <3>3. u \in Drainers => row.exists
        BY <1>1, <1>2, <2>1 DEF ThreadsSound
      <3> QED
        BY <3>1, <3>2, <3>3
    <2>2. CASE u # t
      <3>1. th'[u] = th[u] /\ th[u].rec \in Record
        BY <1>6, <2>2 DEF Thread
      <3>2. row.applied \in Seq(Ids) /\ Begins(row.applied, row.applied)
        BY <1>1 DEF Shape, Projection, Begins
      <3>3. ASSUME th[u].pc \in {"begin", "insert", "upsert"}
            PROVE  SoundIn(th[u].rec, executed', row.applied, row.exists, Durable(HandledKinds))
        <4>1. SoundIn(th[u].rec, executed, row.applied, row.exists, Durable(HandledKinds))
          BY <1>1, <3>3 DEF ThreadsSound, Sound, SoundWith
        <4> QED
          BY <1>2, <3>1, <3>2, <4>1, SoundGrows
      <3> QED
        BY <1>1, <3>1, <3>3 DEF ThreadsSound
    <2> QED
      BY <2>1, <2>2
  <1>12. OpenRecords'
    <2>1. ASSUME NEW j \in DOMAIN journal', journal'[j].txn # None
          PROVE  /\ th'[journal'[j].txn].pc = "upsert"
                 /\ journal'[j].kind = th'[journal'[j].txn].rec.kind
                 /\ journal'[j].id = th'[journal'[j].txn].rec.id
                 /\ journal'[j].next = th'[journal'[j].txn].rec.next
      <3>1. o[j] \in DOMAIN journal /\ journal'[j] = journal[o[j]] /\ journal[o[j]].txn # t
        BY <1>8
      <3>2. journal[o[j]].txn \in Threads
        BY <1>9, <2>1, <3>1 DEF Entry
      <3>3. th'[journal'[j].txn] = th[journal[o[j]].txn]
        BY <1>6, <3>1, <3>2
      <3> QED
        BY <1>1, <2>1, <3>1, <3>3 DEF OpenRecords
    <2>2. ASSUME NEW j \in DOMAIN journal', NEW k \in DOMAIN journal',
                 journal'[j].txn # None, journal'[j].txn = journal'[k].txn
          PROVE  j = k
      <3>1. o[j] = o[k]
        BY <1>1, <1>8, <2>2 DEF OpenRecords
      <3> QED
        BY <1>8, <3>1
    <2>3. ASSUME NEW u \in Threads, th'[u].pc = "upsert"
          PROVE  \E j \in DOMAIN journal' : journal'[j].txn = u
      <3>1. u # t /\ th[u].pc = "upsert"
        BY <1>2, <1>6, <2>3 DEF Outside, TxnPC
      <3>2. PICK i \in DOMAIN journal : journal[i].txn = u
        BY <1>1, <3>1 DEF OpenRecords
      <3> QED
        BY <1>8, <3>1, <3>2
    <2> QED
      BY <2>1, <2>2, <2>3 DEF OpenRecords
  <1>13. Locked'
    <2>1. y.pc \notin TxnPC
      BY <1>2 DEF Outside
    <2>2. ASSUME lock' # None
          PROVE  /\ th'[lock'].pc \in TxnPC /\ row'.exists
                 /\ Handles(th'[lock'].rec) => Len(row'.applied) = Expected(th'[lock'].rec)
      <3>1. lock' = lock /\ lock # t /\ lock # None /\ lock \in Threads
        BY <1>1, <1>5, <2>2 DEF Unlocked, Shape
      <3>2. th'[lock'] = th[lock]
        BY <1>6, <3>1
      <3> QED
        BY <1>1, <1>5, <3>1, <3>2 DEF Locked
    <2>3. ASSUME NEW u \in Threads, th'[u].pc \in TxnPC, lock' # u
          PROVE  Handles(th'[u].rec) /\ Expected(th'[u].rec) = 0
      <3>1. u # t /\ th'[u] = th[u]
        BY <1>6, <2>1, <2>3
      <3>2. lock # u
        BY <1>5, <2>3, <3>1 DEF Unlocked
      <3> QED
        BY <1>1, <2>3, <3>1, <3>2 DEF Locked
    <2> QED
      BY <2>2, <2>3 DEF Locked
  <1>14. Chain'
    <2>1. ASSUME NEW j \in Committed'
          PROVE  /\ Handles(journal'[j]) => Begins(journal'[j].next, row.applied)
                 /\ EndsInOwn(journal'[j])
      <3>1. o[j] \in Committed /\ journal'[j] = journal[o[j]]
        BY <1>7, <1>8 DEF Committed
      <3> QED
        BY <1>1, <3>1 DEF Chain
    <2>2. ASSUME NEW j \in DOMAIN journal', NEW k \in DOMAIN journal', Handles(journal'[j]),
                 Handles(journal'[k]), journal'[j].id = journal'[k].id
          PROVE  j = k
      <3>1. o[j] = o[k]
        BY <1>1, <1>8, <2>2 DEF Chain
      <3> QED
        BY <1>8, <3>1
    <2>3. ~row.exists => row = NoRow /\ Committed' = {}
      BY <1>1, <1>7 DEF Chain
    <2> QED
      BY <1>1, <1>5, <1>7, <2>1, <2>2, <2>3 DEF Chain
  <1>15. WorkKept'
    BY <1>1, <1>2, <1>5, <1>7 DEF WorkKept
  <1>16. AnswersHold'
    BY <1>2, <1>7 DEF AnswersHold, ModestReply, HandledKinds
  <1> QED
    BY <1>10, <1>11, <1>12, <1>13, <1>14, <1>15, <1>16 DEF Inv

(***************************************************************************)
(* Nothing but one thread's place changes: the other parts of the          *)
(* invariant.                                                              *)
(***************************************************************************)
LEMMA AdvanceKeeps ==
    ASSUME Inv, NEW t \in Threads, th[t].pc \in {"begin", "insert"}, NEW pc \in TxnPC,
           th' = [th EXCEPT ![t].pc = pc], UNCHANGED <<row, executed>>,
           \A kinds : Durable(kinds)' = Durable(kinds), reply' = NoReply
    PROVE  /\ th' \in [Threads -> Thread] /\ th'[t].pc = pc /\ th'[t].rec = th[t].rec
           /\ \A u \in Threads : u # t => th'[u] = th[u]
           /\ ThreadsSound' /\ WorkKept' /\ AnswersHold'
  <1>1. Shape /\ ThreadsSound /\ WorkKept
    BY DEF Inv
  <1> DEFINE y == [th[t] EXCEPT !.pc = pc]
  <1>2. th \in [Threads -> Thread] /\ th' = [th EXCEPT ![t] = y]
    BY <1>1 DEF Shape
  <1>3. y \in Thread /\ y.pc = pc /\ y.rec = th[t].rec
    BY <1>2 DEF Thread, TxnPC
  <1> HIDE DEF y
  <1>4. /\ th' \in [Threads -> Thread] /\ th'[t] = y
        /\ \A u \in Threads : u # t => th'[u] = th[u]
    BY <1>2, <1>3
  <1>5. ThreadsSound'
    <2> SUFFICES ASSUME NEW u \in Threads
                 PROVE  /\ th'[u].pc = "replay" => th'[u].rec.id \in Ids
                        /\ th'[u].pc \in {"begin", "insert", "upsert"} =>
                             SoundIn(th'[u].rec, executed, row.applied, row.exists, Durable(HandledKinds))
                        /\ u \in Drainers /\ th'[u].pc # "idle" => row.exists
      BY DEF ThreadsSound, Sound, SoundWith
    <2>1. CASE u = t
      <3>1. SoundIn(th[t].rec, executed, row.applied, row.exists, Durable(HandledKinds))
        BY <1>1 DEF ThreadsSound, Sound, SoundWith
      <3>2. u \in Drainers => row.exists
        BY <1>1, <2>1 DEF ThreadsSound
      <3>3. th'[u].rec = th[t].rec /\ th'[u].pc # "replay"
        BY <1>3, <1>4, <2>1 DEF TxnPC
      <3> QED
        BY <3>1, <3>2, <3>3
    <2>2. CASE u # t
      BY <1>1, <1>4, <2>2 DEF ThreadsSound, Sound, SoundWith
    <2> QED
      BY <2>1, <2>2
  <1>6. WorkKept'
    BY <1>1 DEF WorkKept
  <1>7. AnswersHold'
    BY DEF AnswersHold, NoReply
  <1> QED
    BY <1>3, <1>4, <1>5, <1>6, <1>7

(***************************************************************************)
(* A transaction begins, with the lock or without a row.                   *)
(***************************************************************************)
LEMMA SelectsKeeps ==
    ASSUME Inv, NEW t \in Threads, Selects(t)
    PROVE  Inv'
  <1>1. Shape /\ ThreadsSound /\ OpenRecords /\ Locked /\ Chain
    BY DEF Inv
  <1>2. /\ th[t].pc = "begin" /\ (row.exists => lock = None)
        /\ Handles(th[t].rec) => Len(row.applied) = Expected(th[t].rec)
        /\ lock' = IF row.exists THEN t ELSE lock
        /\ th' = [th EXCEPT ![t].pc = "insert"] /\ reply' = NoReply
        /\ UNCHANGED <<row, journal, executed>>
    BY DEF Selects
  <1>3. Committed' = Committed /\ \A kinds : Durable(kinds)' = Durable(kinds)
    BY <1>2 DEF Committed, Durable
  <1>4. /\ th' \in [Threads -> Thread] /\ th'[t].pc = "insert" /\ th'[t].rec = th[t].rec
        /\ \A u \in Threads : u # t => th'[u] = th[u]
        /\ ThreadsSound' /\ WorkKept' /\ AnswersHold'
    BY <1>2, <1>3, AdvanceKeeps DEF TxnPC
  <1>5. Shape'
    BY <1>1, <1>2, <1>4 DEF Shape
  <1>6. t # None /\ \A i \in DOMAIN journal : journal[i].txn # t
    BY <1>1, <1>2, WorkflowAssumption DEF OpenRecords, Threads
  <1>7. OpenRecords'
    <2>1. \A i \in DOMAIN journal : journal[i].txn # None => th'[journal[i].txn] = th[journal[i].txn]
      <3>1. \A i \in DOMAIN journal : journal[i] \in Entry
        BY <1>1 DEF Shape
      <3>2. \A i \in DOMAIN journal : journal[i].txn \in Threads \cup {None}
        BY <3>1 DEF Entry
      <3> QED
        BY <1>4, <1>6, <3>2
    <2>2. \A u \in Threads : th'[u].pc = "upsert" => th[u].pc = "upsert"
      BY <1>4
    <2> QED
      BY <1>1, <1>2, <2>1, <2>2 DEF OpenRecords
  <1>8. Locked'
    <2>1. CASE row.exists
      <3>1. lock' = t /\ lock = None
        BY <1>2, <2>1
      <3>2. \A u \in Threads : u # t /\ th'[u].pc \in TxnPC => Handles(th'[u].rec) /\ Expected(th'[u].rec) = 0
        BY <1>1, <1>4, <3>1, WorkflowAssumption DEF Locked, Threads
      <3> QED
        BY <1>2, <1>4, <2>1, <3>1, <3>2 DEF Locked, TxnPC
    <2>2. CASE ~row.exists
      <3>1. lock' = None /\ lock = None
        BY <1>1, <1>2, <2>2 DEF Locked
      <3>2. Handles(th[t].rec)
        BY <1>1, <1>2, <2>2 DEF ThreadsSound, Sound, SoundWith, SoundIn
      <3>3. row.applied = << >>
        BY <1>1, <2>2 DEF Chain, NoRow
      <3>4. Expected(th[t].rec) = 0
        BY <1>2, <3>2, <3>3
      <3>5. \A u \in Threads : th'[u].pc \in TxnPC => Handles(th'[u].rec) /\ Expected(th'[u].rec) = 0
        BY <1>1, <1>4, <3>1, <3>2, <3>4, WorkflowAssumption DEF Locked, Threads
      <3> QED
        BY <3>1, <3>5 DEF Locked
    <2> QED
      BY <2>1, <2>2
  <1>9. Chain'
    BY <1>1, <1>2, <1>3 DEF Chain
  <1> QED
    BY <1>4, <1>5, <1>7, <1>8, <1>9 DEF Inv

(***************************************************************************)
(* A transaction inserts its record.  The unique index keeps the event     *)
(* ids of handled records apart, those of open transactions included.      *)
(***************************************************************************)
LEMMA InsertsKeeps ==
    ASSUME Inv, NEW t \in Threads, Inserts(t)
    PROVE  Inv'
  <1> DEFINE n == Len(journal) + 1
             x == [kind |-> th[t].rec.kind, id |-> th[t].rec.id, next |-> th[t].rec.next, txn |-> t]
  <1>1. Shape /\ ThreadsSound /\ OpenRecords /\ Locked /\ Chain
    BY DEF Inv
  <1>2. /\ th[t].pc = "insert" /\ Rivals(t) = {}
        /\ Handles(th[t].rec) => th[t].rec.id \notin Durable(HandledKinds)
        /\ journal' = Append(journal, x)
        /\ th' = [th EXCEPT ![t].pc = "upsert"] /\ reply' = NoReply
        /\ UNCHANGED <<row, lock, executed>>
    BY DEF Inserts
  <1>3. /\ x \in Entry /\ x.txn = t /\ x.kind = th[t].rec.kind /\ x.id = th[t].rec.id
        /\ x.next = th[t].rec.next
    <2>1. th[t].rec.kind \in Kinds /\ th[t].rec.id \in Ids
      BY <1>1, <1>2 DEF ThreadsSound, Sound, SoundWith, SoundIn
    <2>2. th[t].rec.next \in Seq(Ids)
      BY <1>1 DEF Shape, Thread, Record
    <2> QED
      BY <2>1, <2>2 DEF Entry
  <1> HIDE DEF x
  <1>4. /\ journal' \in Seq(Entry) /\ n \in Nat /\ n \notin DOMAIN journal
        /\ DOMAIN journal' = DOMAIN journal \cup {n}
        /\ \A i \in DOMAIN journal : journal'[i] = journal[i] /\ journal[i] \in Entry
        /\ journal'[n] = x
    BY <1>1, <1>2, <1>3 DEF Shape
  <1> HIDE DEF n
  <1>5. t # None /\ \A i \in DOMAIN journal : journal[i].txn # t
    BY <1>1, <1>2, WorkflowAssumption DEF OpenRecords, Threads
  <1>6. Committed' = Committed
    BY <1>3, <1>4, <1>5 DEF Committed
  <1>7. \A kinds : Durable(kinds)' = Durable(kinds)
    <2>1. \A i \in Committed : journal'[i] = journal[i]
      BY <1>4 DEF Committed
    <2> QED
      BY <1>6, <2>1 DEF Durable
  <1>8. /\ th' \in [Threads -> Thread] /\ th'[t].pc = "upsert" /\ th'[t].rec = th[t].rec
        /\ \A u \in Threads : u # t => th'[u] = th[u]
        /\ ThreadsSound' /\ WorkKept' /\ AnswersHold'
    BY <1>2, <1>7, AdvanceKeeps DEF TxnPC
  <1>9. Shape'
    BY <1>1, <1>2, <1>4, <1>8 DEF Shape
  <1>10. OpenRecords'
    <2>1. ASSUME NEW i \in DOMAIN journal', journal'[i].txn # None
          PROVE  /\ th'[journal'[i].txn].pc = "upsert"
                 /\ journal'[i].kind = th'[journal'[i].txn].rec.kind
                 /\ journal'[i].id = th'[journal'[i].txn].rec.id
                 /\ journal'[i].next = th'[journal'[i].txn].rec.next
      <3>1. CASE i = n
        BY <1>3, <1>4, <1>8, <3>1
      <3>2. CASE i \in DOMAIN journal
        <4>1. journal'[i] = journal[i] /\ journal[i].txn \in Threads /\ journal[i].txn # t
          BY <1>4, <1>5, <2>1, <3>2 DEF Entry
        <4>2. th'[journal[i].txn] = th[journal[i].txn]
          BY <1>8, <4>1
        <4> QED
          BY <1>1, <2>1, <3>2, <4>1, <4>2 DEF OpenRecords
      <3> QED
        BY <1>4, <3>1, <3>2
    <2>2. ASSUME NEW i \in DOMAIN journal', NEW j \in DOMAIN journal',
                 journal'[i].txn # None, journal'[i].txn = journal'[j].txn
          PROVE  i = j
      <3>1. CASE i \in DOMAIN journal /\ j \in DOMAIN journal
        BY <1>1, <1>4, <2>2, <3>1 DEF OpenRecords
      <3>2. CASE ~(i \in DOMAIN journal /\ j \in DOMAIN journal)
        BY <1>3, <1>4, <1>5, <2>2, <3>2
      <3> QED
        BY <3>1, <3>2
    <2>3. ASSUME NEW u \in Threads, th'[u].pc = "upsert"
          PROVE  \E i \in DOMAIN journal' : journal'[i].txn = u
      <3>1. CASE u = t
        BY <1>3, <1>4, <3>1
      <3>2. CASE u # t
        BY <1>1, <1>4, <1>8, <2>3, <3>2 DEF OpenRecords
      <3> QED
        BY <3>1, <3>2
    <2> QED
      BY <2>1, <2>2, <2>3 DEF OpenRecords
  <1>11. Locked'
    <2>1. \A u \in Threads : th'[u].rec = th[u].rec /\ (th'[u].pc \in TxnPC <=> th[u].pc \in TxnPC)
      BY <1>2, <1>8 DEF TxnPC
    <2> QED
      BY <1>1, <1>2, <2>1 DEF Locked, Shape
  <1>12. Chain'
    <2>1. ASSUME NEW i \in DOMAIN journal, Handles(journal[i]), Handles(x), journal[i].id = x.id
          PROVE  FALSE
      <3>1. Handles(th[t].rec) /\ journal[i].id = th[t].rec.id
        BY <1>3, <2>1 DEF Handles
      <3>2. journal[i].txn # None
        BY <1>2, <2>1, <3>1 DEF Durable, Committed, HandledKinds, Handles
      <3> QED
        BY <1>2, <1>5, <2>1, <3>1, <3>2 DEF Rivals
    <2>2. ASSUME NEW i \in DOMAIN journal', NEW j \in DOMAIN journal', Handles(journal'[i]),
                 Handles(journal'[j]), journal'[i].id = journal'[j].id
          PROVE  i = j
      <3>1. CASE i \in DOMAIN journal /\ j \in DOMAIN journal
        BY <1>1, <1>4, <2>2, <3>1 DEF Chain
      <3>2. CASE i \in DOMAIN journal /\ j = n
        BY <1>4, <2>1, <2>2, <3>2
      <3>3. CASE j \in DOMAIN journal /\ i = n
        BY <1>4, <2>1, <2>2, <3>3
      <3> QED
        BY <1>4, <3>1, <3>2, <3>3
    <2>3. \A i \in Committed : journal'[i] = journal[i]
      BY <1>4 DEF Committed
    <2> QED
      BY <1>1, <1>2, <1>6, <1>7, <2>2, <2>3 DEF Chain
  <1> QED
    BY <1>8, <1>9, <1>10, <1>11, <1>12 DEF Inv

(***************************************************************************)
(* A transaction commits.  One that has no lock found no row, so that its  *)
(* record is the first to change the instance; it replaces the row and     *)
(* nothing pending is lost with it.                                        *)
(***************************************************************************)
LEMMA CommitsKeeps ==
    ASSUME Inv, NEW t \in Threads, Commits(t)
    PROVE  Inv'
  <1> DEFINE r == th[t].rec
             a == row.applied
             b == row'.applied
  <1>1. Shape /\ ThreadsSound /\ OpenRecords /\ Locked /\ Chain /\ WorkKept
    BY DEF Inv
  <1>2. PICK y :
          /\ th[t].pc = "upsert" /\ lock \in {None, t} /\ VersionHolds(t) /\ CommitTxn(t)
          /\ th' = [th EXCEPT ![t] = y]
          /\ y \in Thread /\ y.pc \in {"idle", "drain", "begin"}
          /\ y.pc = "begin" => Handles(r) /\ y.rec = [kind |-> "task-acked", id |-> r.id, next |-> << >>]
          /\ reply'.outcome \in {"committed", "rejected"} =>
               Handles(r) /\ reply' = [id |-> r.id, outcome |-> Success(r)]
          /\ reply'.outcome # "deduped"
          /\ UNCHANGED executed
    BY DEF Commits
  <1>3. /\ row' = ApplyRecord(Base(t), r) /\ lock' = Unlocked(t) /\ t # None
        /\ journal' = [i \in DOMAIN journal |->
                         IF journal[i].txn = t THEN [journal[i] EXCEPT !.txn = None] ELSE journal[i]]
    BY <1>2, WorkflowAssumption DEF CommitTxn, Threads
  <1>4. /\ th \in [Threads -> Thread] /\ th'[t] = y /\ \A u \in Threads : u # t => th'[u] = th[u]
        /\ th' \in [Threads -> Thread] /\ r \in Record
    <2>1. th \in [Threads -> Thread]
      BY <1>1 DEF Shape
    <2>2. r \in Record
      BY <2>1 DEF Thread
    <2> QED
      BY <1>2, <2>1, <2>2
  <1>5. SoundIn(r, executed, a, row.exists, Durable(HandledKinds))
    BY <1>1, <1>2 DEF ThreadsSound, Sound, SoundWith
  <1>6. r.kind \in Kinds /\ r.id \in Ids /\ r.next \in Seq(Ids)
    BY <1>4, <1>5 DEF SoundIn, Record
  <1>7. /\ row \in Projection /\ a \in Seq(Ids) /\ Len(a) \in Nat /\ DOMAIN a = 1..Len(a)
        /\ row.effects \subseteq Ids /\ row.tasks \subseteq Ids /\ row.seen \subseteq Ids
    BY <1>1 DEF Shape, Projection
  <1>8. PICK n \in DOMAIN journal : journal[n].txn = t
    BY <1>1, <1>2 DEF OpenRecords
  <1>9. /\ \A i \in DOMAIN journal : i # n => journal[i].txn # t
        /\ journal[n].kind = r.kind /\ journal[n].id = r.id /\ journal[n].next = r.next
    BY <1>1, <1>3, <1>8 DEF OpenRecords
  <1>10. journal \in Seq(Entry) /\ \A i \in DOMAIN journal : journal[i] \in Entry
    BY <1>1 DEF Shape
  <1>11. /\ DOMAIN journal' = DOMAIN journal
         /\ \A i \in DOMAIN journal : i # n => journal'[i] = journal[i]
         /\ journal'[n] = [journal[n] EXCEPT !.txn = None]
    BY <1>3, <1>8, <1>9
  <1>12. /\ journal'[n].kind = r.kind /\ journal'[n].id = r.id /\ journal'[n].next = r.next
         /\ journal'[n].txn = None /\ journal'[n] \in Entry
    BY <1>8, <1>9, <1>10, <1>11 DEF Entry
  <1>13. Committed' = Committed \cup {n} /\ n \notin Committed
    BY <1>3, <1>8, <1>11, <1>12 DEF Committed
  <1>14. \A kinds : Durable(kinds)' = Durable(kinds) \cup IF r.kind \in kinds THEN {r.id} ELSE {}
    <2>1. \A i \in Committed : journal'[i] = journal[i]
      BY <1>11, <1>13 DEF Committed
    <2> QED
      BY <1>12, <1>13, <2>1 DEF Durable
  <1>15. Handles(r) => Len(a) = Expected(r)
    <2>1. CASE row.exists
      BY <1>2, <2>1 DEF VersionHolds
    <2>2. CASE ~row.exists
      <3>1. a = << >> /\ lock # t
        BY <1>1, <1>3, <2>2 DEF Chain, Locked, NoRow
      <3>2. Expected(r) = 0
        BY <1>1, <1>2, <3>1 DEF Locked, TxnPC
      <3> QED
        BY <3>1, <3>2
    <2> QED
      BY <2>1, <2>2
  <1>16. lock # t => Handles(r) /\ a = << >> /\ Durable({"commit"}) = {}
    <2> HAVE lock # t
    <2>1. Handles(r) /\ Expected(r) = 0
      BY <1>1, <1>2 DEF Locked, TxnPC
    <2>2. a = << >>
      BY <1>7, <1>15, <2>1
    <2>3. Durable({"commit"}) = {}
      BY <1>1, <2>2 DEF Chain
    <2> QED
      BY <2>1, <2>2, <2>3
  <1>17. Base(t) \in Projection /\ (lock = t => Base(t) = row) /\ (lock # t => Base(t) = NoRow)
    BY <1>7 DEF Base, NoRow, Projection
  <1>18. EffectsOf(r.id) \subseteq Ids /\ TasksOf(r.id) \subseteq Ids
    BY <1>6 DEF EffectsOf, TasksOf, HasWork, Ids
  <1>19. /\ row' \in Projection /\ row'.exists
         /\ b = IF Handles(r) THEN r.next ELSE Base(t).applied
         /\ row'.seen = IF Handles(r) THEN Base(t).seen \cup {r.id} ELSE Base(t).seen
         /\ row'.effects = (Base(t).effects \cup IF r.kind = "commit" THEN EffectsOf(r.id) ELSE {})
                              \ IF r.kind = "effect-acked" THEN {r.id} ELSE {}
         /\ row'.tasks = (Base(t).tasks \cup IF r.kind = "commit" THEN TasksOf(r.id) ELSE {})
                            \ IF r.kind = "task-acked" THEN {r.id} ELSE {}
    BY ZenonT(60), <1>3, <1>6, <1>17, <1>18 DEF ApplyRecord, Projection
  <1>20. /\ b \in Seq(Ids) /\ Len(b) \in Nat /\ DOMAIN b = 1..Len(b)
         /\ Len(b) = Len(a) + IF r.kind = "commit" THEN 1 ELSE 0
         /\ \A i \in 1..Len(a) : b[i] = a[i]
         /\ r.kind = "commit" => b[Len(b)] = r.id
    <2>1. b \in Seq(Ids)
      BY <1>19 DEF Projection
    <2>2. CASE Handles(r)
      <3>1. b = r.next /\ Len(a) = Expected(r)
        BY <1>15, <1>19, <2>2
      <3>2. \A i \in 1..Len(a) : b[i] = a[i]
        BY <1>5, <2>2, <3>1 DEF SoundIn
      <3>3. r.kind = "commit" => b[Len(b)] = r.id
        BY <1>5, <2>2, <3>1 DEF SoundIn, EndsInOwn
      <3>4. Len(b) \in Nat /\ Len(a) = Len(b) - IF r.kind = "commit" THEN 1 ELSE 0
        BY <2>1, <3>1 DEF Expected
      <3> QED
        BY <1>7, <2>1, <3>2, <3>3, <3>4
    <2>3. CASE ~Handles(r)
      <3>1. lock = t /\ r.kind # "commit"
        BY <1>16, <2>3 DEF Handles
      <3>2. b = a
        BY <1>17, <1>19, <2>3, <3>1
      <3> QED
        BY <1>7, <3>1, <3>2
    <2> QED
      BY <2>2, <2>3
  <1> HIDE DEF a, b, r
  <1>21. Begins(a, b) /\ executed \subseteq executed' /\ Durable(HandledKinds) \subseteq Durable(HandledKinds)'
    <2>1. Durable(HandledKinds) \subseteq Durable(HandledKinds)'
      BY <1>14
    <2>2. Len(a) <= Len(b)
      BY <1>7, <1>20
    <2> QED
      BY <1>2, <1>20, <2>1, <2>2 DEF Begins
  <1>22. Shape'
    <2>1. journal' \in Seq(Entry)
      <3>1. Len(journal) \in Nat /\ DOMAIN journal = 1..Len(journal)
        BY <1>10
      <3>2. \A i \in 1..Len(journal) : journal'[i] \in Entry
        BY <1>10, <1>11, <1>12, <3>1
      <3>3. journal' = [i \in 1..Len(journal) |-> journal'[i]]
        BY <1>3, <3>1
      <3> QED
        BY <3>1, <3>2, <3>3
    <2>2. lock' \in Threads \cup {None}
      BY <1>1, <1>3 DEF Shape, Unlocked
    <2> QED
      BY <1>1, <1>2, <1>4, <1>19, <2>1, <2>2 DEF Shape
  <1>23. ThreadsSound'
    <2> SUFFICES ASSUME NEW u \in Threads
                 PROVE  /\ th'[u].pc = "replay" => th'[u].rec.id \in Ids
                        /\ th'[u].pc \in {"begin", "insert", "upsert"} =>
                             SoundIn(th'[u].rec, executed', b, row'.exists, Durable(HandledKinds)')
      BY <1>19 DEF ThreadsSound, Sound, SoundWith, b
    <2>1. CASE u = t
      <3>1. th'[u].pc # "replay"
        BY <1>2, <1>4, <2>1
      <3>2. ASSUME y.pc = "begin"
            PROVE  SoundIn(y.rec, executed', b, row'.exists, Durable(HandledKinds)')
        <4>1. Handles(r) /\ y.rec = [kind |-> "task-acked", id |-> r.id, next |-> << >>]
          BY <1>2, <3>2 DEF r
        <4>2. r.id \in Durable(HandledKinds)'
          BY <1>14, <4>1 DEF Handles, HandledKinds
        <4> QED
          BY <1>6, <1>19, <4>1, <4>2 DEF SoundIn, Handles, Kinds
      <3> QED
        BY <1>2, <1>4, <2>1, <3>1, <3>2
    <2>2. CASE u # t
      <3>1. th'[u] = th[u] /\ th[u].rec \in Record
        BY <1>4, <2>2 DEF Thread
      <3>2. ASSUME th[u].pc \in {"begin", "insert", "upsert"}
            PROVE  SoundIn(th[u].rec, executed', b, row'.exists, Durable(HandledKinds)')
        <4>1. SoundIn(th[u].rec, executed, a, row.exists, Durable(HandledKinds))
          BY <1>1, <3>2 DEF ThreadsSound, Sound, SoundWith, a
        <4> QED
          <5>1. a \in Seq(Ids) /\ b \in Seq(Ids) /\ (row.exists => row'.exists)
            BY <1>7, <1>19, <1>20
          <5> QED
            BY <1>21, <3>1, <4>1, <5>1, SoundGrows
      <3> QED
        BY <1>1, <3>1, <3>2 DEF ThreadsSound
    <2> QED
      BY <2>1, <2>2
  <1>24. OpenRecords'
    <2>1. \A i \in DOMAIN journal' : journal'[i].txn # None =>
             i # n /\ journal'[i] = journal[i] /\ journal[i].txn \in Threads /\ journal[i].txn # t
      BY <1>9, <1>10, <1>11, <1>12 DEF Entry
    <2>2. \A i \in DOMAIN journal' : journal'[i].txn # None => th'[journal'[i].txn] = th[journal[i].txn]
      BY <1>4, <2>1
    <2>3. ASSUME NEW i \in DOMAIN journal', NEW j \in DOMAIN journal',
                 journal'[i].txn # None, journal'[i].txn = journal'[j].txn
          PROVE  i = j
      BY <1>1, <1>11, <2>1, <2>3 DEF OpenRecords
    <2>4. ASSUME NEW u \in Threads, th'[u].pc = "upsert"
          PROVE  \E i \in DOMAIN journal' : journal'[i].txn = u
      <3>1. u # t /\ th[u].pc = "upsert"
        BY <1>2, <1>4, <2>4
      <3>2. PICK i \in DOMAIN journal : journal[i].txn = u
        BY <1>1, <3>1 DEF OpenRecords
      <3> QED
        BY <1>8, <1>11, <3>1, <3>2
    <2>5. ASSUME NEW i \in DOMAIN journal', journal'[i].txn # None
          PROVE  /\ th'[journal'[i].txn].pc = "upsert"
                 /\ journal'[i].kind = th'[journal'[i].txn].rec.kind
                 /\ journal'[i].id = th'[journal'[i].txn].rec.id
                 /\ journal'[i].next = th'[journal'[i].txn].rec.next
      BY <1>1, <1>11, <2>1, <2>2, <2>5 DEF OpenRecords
    <2> QED
      BY <2>3, <2>4, <2>5 DEF OpenRecords
  <1>25. Locked'
    <2>1. lock' = None
      BY <1>2, <1>3 DEF Unlocked
    <2>2. ASSUME NEW u \in Threads, th'[u].pc \in TxnPC
          PROVE  Handles(th'[u].rec) /\ Expected(th'[u].rec) = 0
      <3>1. u # t /\ th'[u] = th[u]
        BY <1>2, <1>4, <2>2 DEF TxnPC
      <3>2. lock # u
        BY <1>2, <3>1, WorkflowAssumption DEF Threads
      <3> QED
        BY <1>1, <2>2, <3>1, <3>2 DEF Locked
    <2> QED
      BY <2>1, <2>2 DEF Locked
  <1>26. Chain'
    <2>1. r.kind = "commit" => r.id \notin Durable({"commit"})
      <3>1. ASSUME r.kind = "commit", NEW i \in Committed, journal[i].kind = "commit", journal[i].id = r.id
            PROVE  FALSE
        <4>1. i \in DOMAIN journal /\ Handles(journal[i]) /\ Handles(journal[n])
          BY <1>9, <3>1 DEF Committed, Handles
        <4>2. i = n
          BY <1>1, <1>8, <1>9, <3>1, <4>1 DEF Chain
        <4> QED
          BY <1>13, <4>2
      <3> QED
        BY <3>1 DEF Durable
    <2>2. /\ \A i, j \in DOMAIN a : a[i] = a[j] => i = j
          /\ {a[i] : i \in DOMAIN a} = Durable({"commit"})
      BY <1>1 DEF Chain, a
    <2>3. \A i, j \in DOMAIN b : b[i] = b[j] => i = j
      <3>1. CASE r.kind = "commit"
        <4>1. \A i \in 1..Len(a) : b[i] # r.id
          BY <1>7, <1>20, <2>1, <2>2, <3>1
        <4>2. DOMAIN b = 1..Len(a) + 1 /\ b[Len(a) + 1] = r.id
          BY <1>7, <1>20, <3>1
        <4> QED
          BY <1>7, <1>20, <2>2, <4>1, <4>2
      <3>2. CASE r.kind # "commit"
        BY <1>7, <1>20, <2>2, <3>2
      <3> QED
        BY <3>1, <3>2
    <2>4. {b[i] : i \in DOMAIN b} = Durable({"commit"})'
      <3>1. CASE r.kind = "commit"
        <4>1. DOMAIN b = 1..Len(a) + 1 /\ b[Len(a) + 1] = r.id
          BY <1>7, <1>20, <3>1
        <4>2. {b[i] : i \in DOMAIN b} = {a[i] : i \in DOMAIN a} \cup {r.id}
          BY <1>7, <1>20, <4>1
        <4>3. Durable({"commit"})' = Durable({"commit"}) \cup {r.id}
          BY <1>14, <3>1 DEF r
        <4> QED
          BY <2>2, <4>2, <4>3
      <3>2. CASE r.kind # "commit"
        <4>1. DOMAIN b = DOMAIN a /\ \A i \in DOMAIN a : b[i] = a[i]
          BY <1>7, <1>20, <3>2
        <4>2. {b[i] : i \in DOMAIN b} = {a[i] : i \in DOMAIN a}
          BY <4>1
        <4>3. Durable({"commit"})' = Durable({"commit"})
          BY <1>14, <3>2 DEF r
        <4> QED
          BY <2>2, <4>2, <4>3
      <3> QED
        BY <3>1, <3>2
    <2>5. ASSUME NEW i \in Committed'
          PROVE  (Handles(journal'[i]) => Begins(journal'[i].next, b)) /\ EndsInOwn(journal'[i])
      <3>1. CASE i = n
        <4>1. Handles(r) => b = r.next
          BY <1>19 DEF b, r
        <4>2. Handles(journal'[i]) => journal'[i].next = b
          BY <1>12, <3>1, <4>1 DEF Handles
        <4>3. Begins(b, b)
          BY <1>20 DEF Begins
        <4>4. EndsInOwn(r)
          BY <1>5 DEF SoundIn, EndsInOwn, Handles
        <4>5. EndsInOwn(journal'[i])
          BY <1>12, <3>1, <4>4 DEF EndsInOwn
        <4> QED
          BY <4>2, <4>3, <4>5
      <3>2. CASE i \in Committed
        <4>1. journal'[i] = journal[i] /\ journal[i] \in Entry
          BY <1>10, <1>11, <1>13, <3>2 DEF Committed
        <4>2. journal[i].next \in Seq(Ids)
          BY <4>1 DEF Entry
        <4>3. (Handles(journal[i]) => Begins(journal[i].next, a)) /\ EndsInOwn(journal[i])
          BY <1>1, <3>2 DEF Chain, a
        <4>4. Begins(journal[i].next, a) => Begins(journal[i].next, b)
          BY <1>7, <1>20, <1>21, <4>2 DEF Begins
        <4> QED
          BY <4>1, <4>3, <4>4
      <3> QED
        BY <1>13, <3>1, <3>2
    <2>6. ASSUME NEW i \in DOMAIN journal', NEW j \in DOMAIN journal', Handles(journal'[i]),
                 Handles(journal'[j]), journal'[i].id = journal'[j].id
          PROVE  i = j
      <3>1. \A k \in DOMAIN journal' : /\ k \in DOMAIN journal /\ journal'[k].id = journal[k].id
                                      /\ journal'[k].kind = journal[k].kind
        BY <1>9, <1>11, <1>12
      <3>2. /\ i \in DOMAIN journal /\ j \in DOMAIN journal /\ journal[i].id = journal[j].id
            /\ Handles(journal[i]) /\ Handles(journal[j])
        BY <2>6, <3>1 DEF Handles
      <3> QED
        BY <1>1, <3>2 DEF Chain
    <2>7. row'.seen \subseteq Durable(HandledKinds)'
      <3>1. Base(t).seen \subseteq Durable(HandledKinds)
        BY <1>1, <1>17 DEF Chain, NoRow
      <3>2. Handles(r) => r.id \in Durable(HandledKinds)'
        BY <1>14 DEF Handles, HandledKinds, r
      <3> QED
        BY <1>19, <1>21, <3>1, <3>2 DEF r
    <2> QED
      BY <1>19, <2>3, <2>4, <2>5, <2>6, <2>7 DEF Chain, b
  <1>27. WorkKept'
    <2>1. ASSUME NEW id \in Durable({"commit"})
          PROVE  /\ EffectsOf(id) \subseteq row'.effects \cup Durable({"effect-acked"})'
                 /\ TasksOf(id) \subseteq row'.tasks \cup Durable({"task-acked"})'
      <3>1. Base(t) = row
        BY <1>16, <1>17
      <3>2. /\ EffectsOf(id) \subseteq row.effects \cup Durable({"effect-acked"})
            /\ TasksOf(id) \subseteq row.tasks \cup Durable({"task-acked"})
        BY <1>1 DEF WorkKept
      <3>3. /\ row.effects \subseteq row'.effects \cup IF r.kind = "effect-acked" THEN {r.id} ELSE {}
            /\ row.tasks \subseteq row'.tasks \cup IF r.kind = "task-acked" THEN {r.id} ELSE {}
        BY <1>19, <3>1 DEF r
      <3>4. /\ Durable({"effect-acked"})' = Durable({"effect-acked"}) \cup IF r.kind = "effect-acked" THEN {r.id} ELSE {}
            /\ Durable({"task-acked"})' = Durable({"task-acked"}) \cup IF r.kind = "task-acked" THEN {r.id} ELSE {}
        BY <1>14 DEF r
      <3> QED
        BY <3>2, <3>3, <3>4
    <2>2. ASSUME r.kind = "commit"
          PROVE  EffectsOf(r.id) \subseteq row'.effects /\ TasksOf(r.id) \subseteq row'.tasks
      BY <1>19, <2>2 DEF r
    <2>3. Durable({"commit"})' = Durable({"commit"}) \cup IF r.kind = "commit" THEN {r.id} ELSE {}
      BY <1>14 DEF r
    <2>4. \A id \in Durable({"commit"})' :
            /\ EffectsOf(id) \subseteq row'.effects \cup Durable({"effect-acked"})'
            /\ TasksOf(id) \subseteq row'.tasks \cup Durable({"task-acked"})'
      BY <2>1, <2>2, <2>3
    <2>5. Durable({"effect-acked"})' \subseteq executed'
      <3>1. Durable({"effect-acked"})' = Durable({"effect-acked"}) \cup IF r.kind = "effect-acked" THEN {r.id} ELSE {}
        BY <1>14 DEF r
      <3> QED
        BY <1>1, <1>2, <1>5, <3>1 DEF WorkKept, SoundIn
    <2>6. Durable({"task-acked"})' \subseteq Durable({"commit", "rejection"})'
      <3>1. Durable({"task-acked"})' = Durable({"task-acked"}) \cup IF r.kind = "task-acked" THEN {r.id} ELSE {}
        BY <1>14 DEF r
      <3>2. Durable({"task-acked"}) \subseteq Durable(HandledKinds)
        BY <1>1 DEF WorkKept, HandledKinds
      <3>3. r.kind = "task-acked" => r.id \in Durable(HandledKinds)
        BY <1>5 DEF SoundIn
      <3> QED
        BY <1>21, <3>1, <3>2, <3>3 DEF HandledKinds
    <2> QED
      BY <2>4, <2>5, <2>6 DEF WorkKept
  <1>28. AnswersHold'
    <2>1. ASSUME reply'.outcome \in {"committed", "rejected"}
          PROVE  /\ reply'.id = r.id /\ reply'.outcome = Success(r) /\ Handles(r)
      BY <1>2, <2>1 DEF r
    <2>2. ASSUME reply'.outcome = "committed"
          PROVE  reply'.id \in Durable({"commit"})'
      <3>1. r.kind = "commit" /\ reply'.id = r.id
        BY <2>1, <2>2 DEF Success
      <3> QED
        BY <1>14, <3>1 DEF r
    <2>3. ASSUME reply'.outcome = "rejected"
          PROVE  reply'.id \in Durable({"rejection"})'
      <3>1. r.kind = "rejection" /\ reply'.id = r.id
        BY <2>1, <2>3 DEF Success, Handles
      <3> QED
        BY <1>14, <3>1 DEF r
    <2> QED
      BY <1>2, <2>2, <2>3 DEF AnswersHold
  <1> QED
    BY <1>22, <1>23, <1>24, <1>25, <1>26, <1>27, <1>28 DEF Inv

-----------------------------------------------------------------------------
(* The invariant and what it says. *)

(***************************************************************************)
(* A workflow that has no row and no thread at work satisfies it.          *)
(***************************************************************************)
LEMMA InitHolds == Init => Inv
  <1> SUFFICES ASSUME Init PROVE Inv
    OBVIOUS
  <1>1. /\ row = NoRow /\ journal = << >> /\ lock = None /\ th = [t \in Threads |-> Idle]
        /\ executed = {} /\ reply = NoReply
    BY DEF Init
  <1>2. Committed = {} /\ \A kinds : Durable(kinds) = {}
    BY <1>1 DEF Committed, Durable
  <1>3. \A t \in Threads : th[t] = Idle /\ th[t].pc = "idle"
    BY <1>1 DEF Idle
  <1>4. Shape
    <2>1. Idle \in Thread
      BY DEF Idle, Thread, NoRec, Record
    <2>2. NoRow \in Projection
      BY DEF NoRow, Projection
    <2> QED
      BY <1>1, <2>1, <2>2 DEF Shape
  <1>5. ThreadsSound
    BY <1>3 DEF ThreadsSound
  <1>6. OpenRecords
    BY <1>1, <1>3 DEF OpenRecords
  <1>7. Locked
    BY <1>1, <1>3 DEF Locked, TxnPC
  <1>8. Chain
    BY <1>1, <1>2 DEF Chain, NoRow
  <1>9. WorkKept
    BY <1>2 DEF WorkKept
  <1>10. AnswersHold
    BY <1>1 DEF AnswersHold, NoReply
  <1> QED
    BY <1>4, <1>5, <1>6, <1>7, <1>8, <1>9, <1>10 DEF Inv

(***************************************************************************)
(* A step that changes nothing keeps the invariant.                        *)
(***************************************************************************)
LEMMA StutterKeeps == Inv /\ UNCHANGED vars => Inv'
  <1> SUFFICES ASSUME Inv, UNCHANGED vars PROVE Inv'
    OBVIOUS
  <1>1. UNCHANGED <<row, journal, lock, th, executed, reply>>
    BY DEF vars
  <1>2. Committed' = Committed /\ \A kinds : Durable(kinds)' = Durable(kinds)
    BY <1>1 DEF Committed, Durable
  <1>3. Shape'
    BY <1>1 DEF Inv, Shape
  <1>4. ThreadsSound'
    BY <1>1, <1>2 DEF Inv, ThreadsSound, Sound, SoundWith
  <1>5. OpenRecords' /\ Locked'
    BY <1>1 DEF Inv, OpenRecords, Locked
  <1>6. Chain'
    BY <1>1, <1>2 DEF Inv, Chain
  <1>7. WorkKept' /\ AnswersHold'
    BY <1>1, <1>2 DEF Inv, WorkKept, AnswersHold
  <1> QED
    BY <1>3, <1>4, <1>5, <1>6, <1>7 DEF Inv

(***************************************************************************)
(* Every reachable state satisfies the invariant.                          *)
(***************************************************************************)
THEOREM JournalIsConsistent == Spec => []Inv
  <1>1. Inv /\ [Next]_vars => Inv'
    BY StepKinds, AsideKeeps, SelectsKeeps, InsertsKeeps, CommitsKeeps, StutterKeeps
  <1> QED
    BY InitHolds, <1>1, PTL DEF Spec

(***************************************************************************)
(* The commits of a workflow form one chain: each was decided on the       *)
(* instance that the one before it left, no event is committed twice, and  *)
(* the row of workflow_state is the end of the chain.                      *)
(***************************************************************************)
THEOREM CommitsFormOneChain == Spec => []CommitsChain
  <1>1. Inv => CommitsChain
    <2> SUFFICES ASSUME Inv PROVE CommitsChain
      OBVIOUS
    <2>1. Shape /\ Chain
      BY DEF Inv
    <2>2. row.applied \in Seq(Ids) /\ Len(row.applied) \in Nat /\ DOMAIN row.applied = 1..Len(row.applied)
      BY <2>1 DEF Shape, Projection
    <2>3. IsInjective(row.applied)
      BY <2>1 DEF Chain, IsInjective
    <2>4. ToSet(row.applied) = Durable({"commit"})
      BY <2>1 DEF Chain, ToSet
    <2>5. ASSUME NEW i \in DOMAIN journal, journal[i].txn = None, journal[i].kind = "commit"
          PROVE  /\ IsPrefix(journal[i].next, row.applied)
                 /\ journal[i].next[Len(journal[i].next)] = journal[i].id
      <3>1. i \in Committed /\ Handles(journal[i])
        BY <2>5 DEF Committed, Handles
      <3>2. Begins(journal[i].next, row.applied) /\ EndsInOwn(journal[i])
        BY <2>1, <3>1 DEF Chain
      <3>3. journal[i].next \in Seq(Ids)
        <4>1. journal[i] \in Entry
          BY <2>1, <2>5 DEF Shape
        <4> QED
          BY <4>1 DEF Entry
      <3>4. IsPrefix(journal[i].next, row.applied)
        <4> DEFINE s == journal[i].next
        <4>1. /\ s \in Seq(Ids) /\ Len(s) \in Nat /\ Len(s) <= Len(row.applied)
              /\ \A k \in 1..Len(s) : s[k] = row.applied[k]
          BY <3>2, <3>3 DEF Begins
        <4> HIDE DEF s
        <4>2. SubSeq(row.applied, 1, Len(s)) = s
          BY <2>2, <4>1
        <4>3. IsPrefix(s, row.applied)
          BY <4>1, <4>2 DEF IsPrefix
        <4> QED
          BY <4>3 DEF s
      <3> QED
        BY <2>5, <3>2, <3>4 DEF EndsInOwn
    <2> QED
      BY <2>3, <2>4, <2>5 DEF CommitsChain
  <1> QED
    BY <1>1, JournalIsConsistent, PTL

(***************************************************************************)
(* What handle answers is in the journal: a committed or rejected event    *)
(* has the record, a duplicate has one of an earlier call.                 *)
(***************************************************************************)
THEOREM AnswersAreTrue == Spec => []AnswersHold
  <1>1. Inv => AnswersHold
    BY DEF Inv
  <1> QED
    BY <1>1, JournalIsConsistent, PTL

(***************************************************************************)
(* The effect and the task of a commit stay pending in the row until they  *)
(* are acknowledged; an acknowledged effect has been executed and an       *)
(* acknowledged task has a record.                                         *)
(***************************************************************************)
THEOREM NoWorkIsLost == Spec => []WorkKept
  <1>1. Inv => WorkKept
    BY DEF Inv
  <1> QED
    BY <1>1, JournalIsConsistent, PTL
=============================================================================
