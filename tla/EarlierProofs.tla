---------------------------- MODULE EarlierProofs ----------------------------
(***************************************************************************)
(* Proofs about the relay v1, the relay v2 and the txpool builder v1, each *)
(* on its own, for any bundles, clients and workers, any depth of the      *)
(* queue and any limits, any pools and settings, and any number of failing *)
(* calls, crashes and runs.                                                *)
(***************************************************************************)
EXTENDS RelayV1, RelayV2, BuilderV1, FiniteSetTheorems, SequenceTheorems, TLAPS

-----------------------------------------------------------------------------
(* The relay v1: the inductive invariant, part by part. *)

\* The states before a bundle was queued.
Early == {"none", "received", "validated"}

(***************************************************************************)
(* A planned operation: only a move changes the state, and none leads back *)
(* to before the queue.                                                    *)
(***************************************************************************)
Operation ==
    {s \in [op : {"move", "count", "result"}, from : States, to : States] :
        /\ s.op # "move" => s.to = s.from
        /\ s.to \in Early => s.from \in Early}

(***************************************************************************)
(* The states a thread may have brought its bundle to when its plan is     *)
(* done and it goes on with `then'.                                        *)
(***************************************************************************)
Goal(then) ==
    CASE then \in {"inc", "over"} -> {"validated"}
      [] then = "done"            -> {"rejected"}
      [] then = "enqueue"         -> {"queued"}
      [] then = "release"         -> {"rejected", "completed"}
      [] then = "simulate"        -> {"simulating"}
      [] OTHER                    -> {"retry_pending"}

(***************************************************************************)
(* The operations of a plan follow on each other, from the state the       *)
(* record is in to the goal of the thread.                                 *)
(***************************************************************************)
Leads(s, p, then) ==
    /\ p = <<>> => s \in Goal(then)
    /\ p # <<>> => p[1].from = s /\ p[Len(p)].to \in Goal(then)
    /\ \A i \in 1..Len(p) - 1 : p[i + 1].from = p[i].to

Record == [state : States \cup {"none"}, version : Nat, retries : Nat]
Line   == [state : States \cup {"none"}, version : Nat]
ThreadType == [on : Bundles \cup {NoBundle}, plan : Seq(Operation), then : Conts]

(***************************************************************************)
(* The audit file is behind the snapshot and the snapshot behind the       *)
(* memory, and those that are level agree; what was accepted has left the  *)
(* early states in both.                                                   *)
(***************************************************************************)
Written ==
    /\ rec \in [Bundles -> Record] /\ disk \in [Bundles -> Record] /\ audit \in [Bundles -> Line]
    /\ \A b \in Bundles :
        /\ disk[b].version <= rec[b].version
        /\ disk[b].version = rec[b].version => disk[b].state = rec[b].state
        /\ audit[b].version <= disk[b].version
        /\ audit[b].version = disk[b].version => audit[b].state = disk[b].state
        /\ rec[b].state = "none" => rec[b].version = 0
        /\ disk[b].state = "none" => disk[b].version = 0
    /\ acked \subseteq Bundles
    /\ \A b \in acked : rec[b].state \notin Early /\ disk[b].state \notin Early

(***************************************************************************)
(* A thread at work: its plan fits the record of its bundle, no write of   *)
(* which has failed, and the bundle's slot was not lost.                   *)
(***************************************************************************)
Sound(t) ==
    LET x == thread[t] IN
    /\ rec[x.on].state # "none" /\ disk[x.on] = rec[x.on] /\ x.on \notin leaked
    /\ Leads(rec[x.on].state, x.plan, x.then)
    /\ x.then \in {"over", "fire"} => x.plan = <<>>
    /\ x.then \in {"simulate", "arm"} => t[1] = "worker"
    /\ t[1] = "timer" => t = <<"timer", x.on>>

(***************************************************************************)
(* Every bundle in work is in one place.                                   *)
(***************************************************************************)
InQueue(b) == \E i \in DOMAIN queue : queue[i] = b

OnePlace ==
    /\ \A t, u \in Threads : Busy(t) /\ thread[t].on = thread[u].on => t = u
    /\ \A i, k \in DOMAIN queue : queue[i] = queue[k] => i = k
    /\ \A t \in Threads : \A i \in DOMAIN queue : thread[t].on # queue[i]

WorkOwned ==
    \A b \in Bundles :
        rec[b].state \notin terminalStates \cup {"none"} =>
            InQueue(b) \/ b \in givenUp \/ \E t \in Threads : thread[t].on = b

Worked ==
    /\ thread \in [Threads -> ThreadType] /\ queue \in Seq(Bundles)
    /\ leaked \subseteq Bundles /\ givenUp \subseteq Bundles
    /\ \A t \in Threads : Busy(t) => Sound(t)
    /\ \A i \in DOMAIN queue :
        rec[queue[i]].state = "queued" /\ disk[queue[i]] = rec[queue[i]] /\ queue[i] \notin leaked
    /\ \A b \in leaked : rec[b].state # "none"
    /\ OnePlace /\ WorkOwned

(***************************************************************************)
(* The counter of a client: the bundles that hold a slot or have lost one, *)
(* and the handlers that are about to take their excess back.              *)
(***************************************************************************)
HasSlot(b) == InQueue(b) \/ \E t \in Threads : thread[t].on = b /\ Holding(t)
Excess(t)  == Busy(t) /\ thread[t].then = "over"

Held(c)    == {b \in Bundles : ClientOf[b] = c /\ HasSlot(b)}
Charged(c) == {b \in Bundles : ClientOf[b] = c /\ (HasSlot(b) \/ b \in leaked)}
Excesses(c)   == {t \in Threads : Excess(t) /\ ClientOf[thread[t].on] = c}

Balanced ==
    /\ count \in [Clients -> Int]
    /\ \A c \in Clients :
        /\ IsFiniteSet(Held(c)) /\ IsFiniteSet(Charged(c)) /\ IsFiniteSet(Excesses(c))
        /\ count[c] = Cardinality(Charged(c)) + Cardinality(Excesses(c))
        /\ Cardinality(Held(c)) <= MaxInFlightPerClient

RelayInv == Written /\ Worked /\ Balanced

-----------------------------------------------------------------------------
(* Plans. *)

(***************************************************************************)
(* What remains of a plan after its first operation still leads to the     *)
(* goal.                                                                   *)
(***************************************************************************)
LEMMA RestLeads ==
    ASSUME NEW p \in Seq(Operation), p # <<>>, NEW s, NEW then, Leads(s, p, then)
    PROVE  /\ Tail(p) \in Seq(Operation)
           /\ Leads(p[1].to, Tail(p), then)
           /\ p[1] \in Operation /\ p[1].from = s
  <1> DEFINE q == Tail(p)
  <1>1. Len(p) \in Nat \ {0} /\ p[1] \in Operation /\ p[1].from = s
    BY DEF Leads
  <1>2. q \in Seq(Operation) /\ Len(q) = Len(p) - 1 /\ \A i \in 1..Len(p) - 1 : q[i] = p[i + 1]
    OBVIOUS
  <1> HIDE DEF q
  <1>3. q = <<>> => p[1].to \in Goal(then)
    <2> HAVE q = <<>>
    <2>1. Len(p) = 1
      BY <1>1, <1>2
    <2> QED
      BY <2>1 DEF Leads
  <1>4. q # <<>> => q[1].from = p[1].to /\ q[Len(q)].to \in Goal(then)
    <2> HAVE q # <<>>
    <2>1. Len(q) \in Nat \ {0}
      BY <1>2
    <2>2. /\ 1 \in 1..Len(p) - 1 /\ Len(p) - 1 \in 1..Len(p) - 1
          /\ 1 + 1 = 2 /\ Len(p) - 1 + 1 = Len(p)
      BY <1>1, <1>2, <2>1
    <2>3. q[1] = p[1 + 1] /\ q[Len(p) - 1] = p[Len(p)]
      BY <1>2, <2>2
    <2>4. p[1 + 1].from = p[1].to /\ p[Len(p)].to \in Goal(then)
      BY <2>2 DEF Leads
    <2> QED
      BY <1>2, <2>3, <2>4
  <1>5. \A i \in 1..Len(q) - 1 : q[i + 1].from = q[i].to
    <2> TAKE i \in 1..Len(q) - 1
    <2>1. i \in 1..Len(p) - 1 /\ i + 1 \in 1..Len(p) - 1
      BY <1>1, <1>2
    <2> QED
      BY <1>2, <2>1 DEF Leads
  <1> QED
    BY <1>1, <1>2, <1>3, <1>4, <1>5 DEF Leads, q

(***************************************************************************)
(* The planned operations.                                                 *)
(***************************************************************************)
LEMMA MovesAreOperations ==
    /\ \A from, to \in States : (to \in Early => from \in Early) => Move(from, to) \in Operation
    /\ Count \in Operation
    /\ \A verdict \in States : Result(verdict) \in Operation
  BY DEF Move, Count, Result, Operation, States

(***************************************************************************)
(* Every plan the code makes leads from the state it is made in to its     *)
(* goal.                                                                   *)
(***************************************************************************)
LEMMA PlansLead ==
    /\ Validate \in Seq(Operation) /\ Leads("received", Validate, "inc")
    /\ Refuse \in Seq(Operation) /\ Leads("validated", Refuse, "done")
    /\ Queued \in Seq(Operation) /\ Leads("validated", Queued, "enqueue")
    /\ Overflow \in Seq(Operation) /\ Leads("queued", Overflow, "release")
    /\ Pick \in Seq(Operation) /\ Leads("queued", Pick, "simulate")
    /\ RetryLater \in Seq(Operation) /\ Leads("simulating", RetryLater, "arm")
    /\ RetryNow \in Seq(Operation) /\ Leads("retry_pending", RetryNow, "enqueue")
    /\ \A s \in {"simulating", "queued"} :
          DeadLetter(s) \in Seq(Operation) /\ Leads(s, DeadLetter(s), "release")
    /\ \A v \in {"forwarded", "rejected"} :
          Decided(v) \in Seq(Operation) /\ Leads("simulating", Decided(v), "release")
  <1>1. /\ Validate \in Seq(Operation) /\ Refuse \in Seq(Operation) /\ Queued \in Seq(Operation)
        /\ Overflow \in Seq(Operation) /\ Pick \in Seq(Operation) /\ RetryNow \in Seq(Operation)
        /\ RetryLater \in Seq(Operation)
    BY MovesAreOperations DEF Validate, Refuse, Queued, Overflow, Pick, RetryNow, RetryLater, States, Early
  <1>2. /\ Leads("received", Validate, "inc") /\ Leads("validated", Refuse, "done")
        /\ Leads("validated", Queued, "enqueue") /\ Leads("queued", Overflow, "release")
        /\ Leads("queued", Pick, "simulate") /\ Leads("retry_pending", RetryNow, "enqueue")
    BY DEF Validate, Refuse, Queued, Overflow, Pick, RetryNow, Leads, Goal, Move
  <1>3. Leads("simulating", RetryLater, "arm")
    BY DEF RetryLater, Leads, Goal, Move, Count
  <1>4. ASSUME NEW s \in {"simulating", "queued"}
        PROVE  DeadLetter(s) \in Seq(Operation) /\ Leads(s, DeadLetter(s), "release")
    <2>1. DeadLetter(s) \in Seq(Operation)
      BY MovesAreOperations DEF DeadLetter, States, Early
    <2>2. Leads(s, DeadLetter(s), "release")
      BY DEF DeadLetter, Leads, Goal, Move
    <2> QED
      BY <2>1, <2>2
  <1>5. ASSUME NEW v \in {"forwarded", "rejected"}
        PROVE  Decided(v) \in Seq(Operation) /\ Leads("simulating", Decided(v), "release")
    <2>1. Decided(v) \in Seq(Operation)
      BY MovesAreOperations DEF Decided, States, Early
    <2>2. Leads("simulating", Decided(v), "release")
      BY DEF Decided, Leads, Goal, Move, Result
    <2> QED
      BY <2>1, <2>2
  <1> QED
    BY <1>1, <1>2, <1>3, <1>4, <1>5

-----------------------------------------------------------------------------
(* The file store. *)

(***************************************************************************)
(* What one store operation writes.                                        *)
(***************************************************************************)
LEMMA StoreWrites ==
    ASSUME Written, NEW b \in Bundles, NEW r \in Record, NEW outcome \in Outcomes, Store(b, r, outcome)
    PROVE  /\ rec' \in [Bundles -> Record] /\ rec'[b] = r
           /\ \A d \in Bundles : d # b => rec'[d] = rec[d]
           /\ disk' \in {disk, rec'}
           /\ outcome = "ok" => disk' = rec'
           /\ \/ audit' = audit
              \/ outcome = "ok" /\ audit' = [audit EXCEPT ![b] = [state |-> r.state, version |-> r.version]]
  <1>1. /\ rec' = [rec EXCEPT ![b] = r]
        /\ disk' = IF outcome = "snapshotFails" THEN disk ELSE rec'
        /\ audit' = IF outcome # "ok" THEN audit
                    ELSE [audit EXCEPT ![b] = [state |-> r.state, version |-> r.version]]
    BY DEF Store, persistLocked, appendEvent
  <1>2. rec \in [Bundles -> Record]
    BY DEF Written
  <1>3. rec' \in [Bundles -> Record] /\ rec'[b] = r /\ \A d \in Bundles : d # b => rec'[d] = rec[d]
    BY <1>1, <1>2
  <1>4. disk' \in {disk, rec'} /\ (outcome = "ok" => disk' = rec')
    BY <1>1
  <1>5. \/ audit' = audit
        \/ outcome = "ok" /\ audit' = [audit EXCEPT ![b] = [state |-> r.state, version |-> r.version]]
    BY <1>1
  <1> QED
    BY <1>3, <1>4, <1>5

(***************************************************************************)
(* A store operation that counts the version keeps memory, snapshot and    *)
(* audit file in order, whichever of its writes fails.                     *)
(***************************************************************************)
LEMMA StoreKeepsWritten ==
    ASSUME Written, NEW b \in Bundles, NEW r \in Record, NEW outcome \in Outcomes, Store(b, r, outcome),
           r.version = rec[b].version + 1, r.state # "none",
           r.state \in Early => rec[b].state \in Early, UNCHANGED acked
    PROVE  Written'
  <1>1. /\ rec' \in [Bundles -> Record] /\ rec'[b] = r
        /\ \A d \in Bundles : d # b => rec'[d] = rec[d]
        /\ disk' \in {disk, rec'}
        /\ outcome = "ok" => disk' = rec'
        /\ \/ audit' = audit
           \/ outcome = "ok" /\ audit' = [audit EXCEPT ![b] = [state |-> r.state, version |-> r.version]]
    BY StoreWrites
  <1>2. /\ rec \in [Bundles -> Record] /\ disk \in [Bundles -> Record] /\ audit \in [Bundles -> Line]
        /\ disk' \in [Bundles -> Record]
    BY <1>1 DEF Written
  <1>3. [state |-> r.state, version |-> r.version] \in Line
    BY DEF Record, Line
  <1>4. /\ audit' \in [Bundles -> Line]
        /\ \A d \in Bundles : \/ audit'[d] = audit[d]
                              \/ d = b /\ outcome = "ok" /\ audit'[d] = [state |-> r.state, version |-> r.version]
    BY <1>1, <1>2, <1>3
  <1>5. \A d \in Bundles : /\ rec[d].version \in Nat /\ rec'[d].version \in Nat
                           /\ disk[d].version \in Nat /\ disk'[d].version \in Nat
                           /\ audit[d].version \in Nat /\ audit'[d].version \in Nat
    BY <1>1, <1>2, <1>4 DEF Record, Line
  <1>6. ASSUME NEW d \in Bundles
        PROVE  /\ disk'[d].version <= rec'[d].version
               /\ disk'[d].version = rec'[d].version => disk'[d].state = rec'[d].state
               /\ audit'[d].version <= disk'[d].version
               /\ audit'[d].version = disk'[d].version => audit'[d].state = disk'[d].state
               /\ rec'[d].state = "none" => rec'[d].version = 0
               /\ disk'[d].state = "none" => disk'[d].version = 0
    <2>1. /\ disk[d].version <= rec[d].version
          /\ disk[d].version = rec[d].version => disk[d].state = rec[d].state
          /\ audit[d].version <= disk[d].version
          /\ audit[d].version = disk[d].version => audit[d].state = disk[d].state
          /\ rec[d].state = "none" => rec[d].version = 0
          /\ disk[d].state = "none" => disk[d].version = 0
      BY DEF Written
    <2>2. disk'[d] = disk[d] \/ disk'[d] = rec'[d]
      BY <1>1
    <2>3. CASE d # b
      <3>1. rec'[d] = rec[d] /\ audit'[d] = audit[d]
        BY <1>1, <1>4, <2>3
      <3> QED
        BY <1>5, <2>1, <2>2, <3>1
    <2>4. CASE d = b
      <3>1. rec'[d].version = rec[d].version + 1 /\ rec'[d].state # "none"
        BY <1>1, <2>4
      <3>2. CASE audit'[d] = audit[d]
        BY <1>5, <2>1, <2>2, <3>1, <3>2
      <3>3. CASE outcome = "ok" /\ audit'[d] = [state |-> r.state, version |-> r.version]
        <4>1. disk'[d] = rec'[d] /\ audit'[d].version = rec'[d].version /\ audit'[d].state = rec'[d].state
          BY <1>1, <2>4, <3>3
        <4> QED
          BY <1>5, <3>1, <4>1
      <3> QED
        BY <1>4, <3>2, <3>3
    <2> QED
      BY <2>3, <2>4
  <1>7. \A d \in acked : rec'[d].state \notin Early /\ disk'[d].state \notin Early
    <2> TAKE d \in acked
    <2>1. d \in Bundles /\ rec[d].state \notin Early /\ disk[d].state \notin Early
      BY DEF Written
    <2>2. rec'[d].state \notin Early
      BY <1>1, <2>1
    <2>3. disk'[d] = disk[d] \/ disk'[d] = rec'[d]
      BY <1>1
    <2> QED
      BY <2>1, <2>2, <2>3
  <1> QED
    BY <1>1, <1>2, <1>4, <1>6, <1>7 DEF Written

(***************************************************************************)
(* What a planned operation makes of a record it is accepted for.          *)
(***************************************************************************)
LEMMA AppliedRecord ==
    ASSUME NEW r \in Record, NEW s \in Operation, r.state = s.from
    PROVE  /\ Applied(r, s) \in Record
           /\ Applied(r, s).version = r.version + 1
           /\ Applied(r, s).state = s.to
           /\ Applied(r, s).state \in States
           /\ Applied(r, s).state \in Early => r.state \in Early
  <1>1. /\ s.op \in {"move", "count", "result"} /\ s.from \in States /\ s.to \in States
        /\ s.op # "move" => s.to = s.from
        /\ s.to \in Early => s.from \in Early
    BY DEF Operation
  <1>2. /\ r.version + 1 \in Nat /\ r.retries \in Nat /\ r.retries + 1 \in Nat
        /\ r.state \in States \cup {"none"}
    BY DEF Record
  <1>3. r = [state |-> r.state, version |-> r.version, retries |-> r.retries]
    BY DEF Record
  <1>4. CASE s.op = "move"
    <2>1. Applied(r, s) = [r EXCEPT !.state = s.to, !.version = r.version + 1]
      BY <1>4 DEF Applied, Transition
    <2>2. Applied(r, s) = [state |-> s.to, version |-> r.version + 1, retries |-> r.retries]
      BY <1>3, <2>1 DEF Record
    <2>3. Applied(r, s) \in Record
      BY <1>1, <1>2, <2>2 DEF Record
    <2> QED
      BY <1>1, <1>4, <2>2, <2>3
  <1>5. CASE s.op = "count"
    <2>1. Applied(r, s) = [r EXCEPT !.retries = r.retries + 1, !.version = r.version + 1]
      BY <1>5 DEF Applied, UpdateRetryCount
    <2>2. Applied(r, s) = [state |-> r.state, version |-> r.version + 1, retries |-> r.retries + 1]
      BY <1>3, <2>1 DEF Record
    <2>3. Applied(r, s) \in Record
      BY <1>1, <1>2, <2>2 DEF Record
    <2> QED
      BY <1>1, <1>5, <2>2, <2>3
  <1>6. CASE s.op = "result"
    <2>1. Applied(r, s) = [r EXCEPT !.version = r.version + 1]
      BY <1>6 DEF Applied, UpdateResult
    <2>2. Applied(r, s) = [state |-> r.state, version |-> r.version + 1, retries |-> r.retries]
      BY <1>3, <2>1 DEF Record
    <2>3. Applied(r, s) \in Record
      BY <1>1, <1>2, <2>2 DEF Record
    <2> QED
      BY <1>1, <1>6, <2>2, <2>3
  <1> QED
    BY <1>1, <1>4, <1>5, <1>6

(***************************************************************************)
(* A thread's next operation finds the record as it was planned for.       *)
(***************************************************************************)
LEMMA NextOperation ==
    ASSUME Written, Worked, NEW t \in Threads, Busy(t), thread[t].plan # <<>>
    PROVE  LET b == thread[t].on
               r == Applied(rec[b], StepOf(t))
           IN  /\ b \in Bundles /\ rec[b] \in Record
               /\ StepOf(t) = thread[t].plan[1]
               /\ r \in Record /\ r.version = rec[b].version + 1 /\ r.state \in States
               /\ r.state = StepOf(t).to
               /\ r.state \in Early => rec[b].state \in Early
               /\ Tail(thread[t].plan) \in Seq(Operation)
               /\ Leads(r.state, Tail(thread[t].plan), thread[t].then)
  <1> DEFINE x == thread[t]
  <1>1. x \in ThreadType /\ Sound(t)
    BY DEF Worked
  <1>2. x.on \in Bundles /\ x.plan \in Seq(Operation)
    BY <1>1 DEF Busy, ThreadType
  <1>3. rec[x.on] \in Record
    BY <1>2 DEF Written
  <1>4. Leads(rec[x.on].state, x.plan, x.then)
    BY <1>1 DEF Sound
  <1>5. StepOf(t) = x.plan[1]
    BY <1>2 DEF StepOf
  <1>6. /\ Tail(x.plan) \in Seq(Operation)
        /\ Leads(x.plan[1].to, Tail(x.plan), x.then)
        /\ x.plan[1] \in Operation /\ x.plan[1].from = rec[x.on].state
    BY <1>2, <1>4, RestLeads
  <1> HIDE DEF x
  <1>7. /\ Applied(rec[x.on], x.plan[1]) \in Record
        /\ Applied(rec[x.on], x.plan[1]).version = rec[x.on].version + 1
        /\ Applied(rec[x.on], x.plan[1]).state = x.plan[1].to
        /\ Applied(rec[x.on], x.plan[1]).state \in States
        /\ Applied(rec[x.on], x.plan[1]).state \in Early => rec[x.on].state \in Early
    BY <1>3, <1>6, AppliedRecord
  <1> QED
    BY <1>2, <1>3, <1>5, <1>6, <1>7 DEF x

(***************************************************************************)
(* Every step keeps the records, the snapshot and the audit file in order. *)
(***************************************************************************)
LEMMA WrittenHolds ==
    ASSUME Written, Worked, [Next]_vars
    PROVE  Written'
  <1>1. ASSUME UNCHANGED <<rec, disk, audit, acked>>
        PROVE  Written'
    BY <1>1 DEF Written
  <1>2. ASSUME NEW b \in Bundles, Create(b)
        PROVE  Written'
    <2> DEFINE r == [state |-> "received", version |-> 1, retries |-> 0]
    <2>1. rec[b].state = "none" /\ UNCHANGED acked /\ \E outcome \in Outcomes : Store(b, r, outcome)
      BY <1>2 DEF Create
    <2>2. rec[b].version = 0
      BY <2>1 DEF Written
    <2>3. r \in Record /\ r.version = rec[b].version + 1 /\ r.state # "none" /\ rec[b].state \in Early
      BY <2>1, <2>2 DEF Record, States, Early
    <2> HIDE DEF r
    <2> QED
      BY <2>1, <2>3, StoreKeepsWritten
  <1>3. ASSUME NEW t \in Threads, StepSucceeds(t) \/ StepFails(t)
        PROVE  Written'
    <2> DEFINE b == thread[t].on
               r == Applied(rec[b], StepOf(t))
    <2>1. /\ Busy(t) /\ thread[t].plan # <<>> /\ UNCHANGED acked
          /\ \E outcome \in Outcomes : Store(b, r, outcome)
      BY <1>3 DEF StepSucceeds, StepFails, Outcomes
    <2>2. /\ b \in Bundles /\ r \in Record /\ r.version = rec[b].version + 1 /\ r.state \in States
          /\ r.state \in Early => rec[b].state \in Early
      BY <2>1, NextOperation
    <2>3. r.state # "none"
      BY <2>2 DEF States
    <2> HIDE DEF b, r
    <2> QED
      BY <2>1, <2>2, <2>3, StoreKeepsWritten
  <1>4. ASSUME NEW t \in Threads, Enqueue(t)
        PROVE  Written'
    <2> DEFINE b == thread[t].on
    <2>1. /\ Busy(t) /\ thread[t].plan = <<>> /\ thread[t].then = "enqueue"
          /\ acked' \in {acked, acked \cup {b}} /\ UNCHANGED <<rec, disk, audit>>
      BY <1>4 DEF Enqueue, At
    <2>2. thread[t] \in ThreadType /\ Sound(t)
      BY <2>1 DEF Worked
    <2>3. b \in Bundles /\ disk[b] = rec[b] /\ Leads(rec[b].state, <<>>, "enqueue")
      BY <2>1, <2>2 DEF Sound, ThreadType, Busy
    <2>4. rec[b].state = "queued"
      BY <2>3 DEF Leads, Goal
    <2> HIDE DEF b
    <2>5. acked' \subseteq Bundles /\ \A d \in acked' : rec[d].state \notin Early /\ disk[d].state \notin Early
      BY <2>1, <2>3, <2>4 DEF Written, Early
    <2> QED
      BY <2>1, <2>5 DEF Written
  <1>5. CASE Crash
    <2>1. rec' = disk /\ UNCHANGED <<disk, audit, acked>>
      BY <1>5 DEF Crash
    <2>2. \A b \in Bundles : disk[b].version \in Nat
      BY DEF Written, Record
    <2> QED
      BY <2>1, <2>2 DEF Written
  <1>6. ASSUME NEW t \in Threads,
               \/ StepRefused(t) \/ Inc(t) \/ Over(t) \/ Done(t) \/ QueueFull(t) \/ Release(t)
               \/ Simulate(t) \/ ArmTimer(t) \/ Fire(t)
        PROVE  Written'
    <2>1. UNCHANGED <<rec, disk, audit, acked>>
      BY <1>6 DEF StepRefused, Inc, Over, Done, QueueFull, Release, Simulate, ArmTimer, Fire
    <2> QED
      BY <1>1, <2>1
  <1>7. ASSUME NEW w \in Workers, Receive(w)
        PROVE  Written'
    BY <1>1, <1>7 DEF Receive
  <1>8. CASE UNCHANGED vars
    BY <1>1, <1>8 DEF vars
  <1> QED
    BY <1>2, <1>3, <1>4, <1>5, <1>6, <1>7, <1>8 DEF Next, ThreadStep

-----------------------------------------------------------------------------
(* Who works on which bundle. *)

\* No record but that of b changes; another's may reach the snapshot.
OnlyOn(b) == \A d \in Bundles : d # b => rec'[d] = rec[d] /\ disk'[d] \in {disk[d], rec'[d]}

(***************************************************************************)
(* A thread that does not work on b, and a place in the queue that does    *)
(* not hold it, stay as they are when only b changes.                      *)
(***************************************************************************)
LEMMA OthersStay ==
    ASSUME Worked, NEW b \in Bundles, OnlyOn(b), leaked' \subseteq leaked \cup {b}
    PROVE  /\ \A t \in Threads : Busy(t) /\ thread'[t] = thread[t] /\ thread[t].on # b => Sound(t)'
           /\ \A i \in DOMAIN queue : queue[i] # b =>
                 rec'[queue[i]].state = "queued" /\ disk'[queue[i]] = rec'[queue[i]] /\ queue[i] \notin leaked'
  <1>1. ASSUME NEW t \in Threads, Busy(t), thread'[t] = thread[t], thread[t].on # b
        PROVE  Sound(t)'
    <2>1. thread[t].on \in Bundles /\ Sound(t)
      BY <1>1 DEF Worked, Busy, ThreadType
    <2>2. /\ rec'[thread[t].on] = rec[thread[t].on] /\ disk'[thread[t].on] = disk[thread[t].on]
          /\ thread[t].on \notin leaked'
      BY <1>1, <2>1 DEF OnlyOn, Sound
    <2> QED
      BY <1>1, <2>1, <2>2 DEF Sound
  <1>2. ASSUME NEW i \in DOMAIN queue, queue[i] # b
        PROVE  rec'[queue[i]].state = "queued" /\ disk'[queue[i]] = rec'[queue[i]] /\ queue[i] \notin leaked'
    <2>1. /\ queue[i] \in Bundles /\ rec[queue[i]].state = "queued" /\ disk[queue[i]] = rec[queue[i]]
          /\ queue[i] \notin leaked
      BY DEF Worked
    <2> QED
      BY <1>2, <2>1 DEF OnlyOn
  <1> QED
    BY <1>1, <1>2

(***************************************************************************)
(* A thread goes on with its bundle.                                       *)
(***************************************************************************)
LEMMA WorkGoesOn ==
    ASSUME Worked, NEW t \in Threads, Busy(t), NEW x \in ThreadType, x.on = thread[t].on,
           thread' = [thread EXCEPT ![t] = x], UNCHANGED <<queue, leaked, givenUp>>,
           OnlyOn(x.on), disk'[x.on] = rec'[x.on], rec'[x.on].state # "none",
           Leads(rec'[x.on].state, x.plan, x.then),
           x.then \in {"over", "fire"} => x.plan = <<>>,
           x.then \in {"simulate", "arm"} => t[1] = "worker"
    PROVE  Worked'
  <1>1. thread \in [Threads -> ThreadType] /\ x.on \in Bundles /\ x.on # NoBundle
    BY RelayV1Assumption DEF Worked, Busy, ThreadType
  <1>2. /\ thread' \in [Threads -> ThreadType] /\ thread'[t] = x
        /\ \A u \in Threads : u # t => thread'[u] = thread[u]
    BY <1>1
  <1>3. \A u \in Threads : thread'[u].on = thread[u].on
    BY <1>2
  <1>4. Sound(t) /\ x.on \notin leaked
    BY DEF Worked, Sound
  <1>5. Sound(t)'
    BY <1>2, <1>4 DEF Sound
  <1>6. \A u \in Threads : u # t /\ Busy(u) => thread[u].on # x.on
    BY DEF Worked, OnePlace
  <1>7. \A u \in Threads : Busy(u)' => Sound(u)'
    BY <1>1, <1>2, <1>3, <1>5, <1>6, OthersStay DEF Busy
  <1>8. \A i \in DOMAIN queue : queue[i] # x.on
    BY DEF Worked, OnePlace
  <1>9. \A i \in DOMAIN queue' :
           rec'[queue'[i]].state = "queued" /\ disk'[queue'[i]] = rec'[queue'[i]] /\ queue'[i] \notin leaked'
    BY <1>1, <1>8, OthersStay
  <1>10. \A b \in leaked' : rec'[b].state # "none"
    BY <1>1 DEF Worked, OnlyOn
  <1>11. OnePlace'
    BY <1>3 DEF Worked, OnePlace, Busy
  <1>12. WorkOwned'
    <2>1. \A b \in Bundles : b # x.on => rec'[b] = rec[b]
      BY DEF OnlyOn
    <2> QED
      BY <1>2, <1>3, <2>1 DEF Worked, WorkOwned, InQueue
  <1> QED
    BY <1>2, <1>7, <1>9, <1>10, <1>11, <1>12 DEF Worked

(***************************************************************************)
(* A thread leaves its bundle, which is decided or given up.               *)
(***************************************************************************)
LEMMA WorkEnds ==
    ASSUME Worked, NEW t \in Threads, Busy(t), NEW b \in Bundles, b = thread[t].on,
           thread' = Stop(t), UNCHANGED queue,
           leaked' \subseteq leaked \cup {b}, givenUp \subseteq givenUp', givenUp' \subseteq Bundles,
           OnlyOn(b), rec'[b].state # "none",
           rec'[b].state \in terminalStates \/ b \in givenUp'
    PROVE  Worked'
  <1>1. thread \in [Threads -> ThreadType] /\ b # NoBundle
    BY RelayV1Assumption DEF Worked
  <1>2. Idle \in ThreadType /\ Idle.on = NoBundle
    BY DEF Idle, ThreadType, Conts
  <1>3. /\ thread' \in [Threads -> ThreadType] /\ thread'[t] = Idle
        /\ \A u \in Threads : u # t => thread'[u] = thread[u]
    BY <1>1, <1>2 DEF Stop
  <1>4. \A u \in Threads : u # t /\ Busy(u) => thread[u].on # b
    BY DEF Worked, OnePlace
  <1>5. \A u \in Threads : Busy(u)' => u # t /\ Busy(u) /\ thread'[u] = thread[u]
    BY <1>2, <1>3 DEF Busy
  <1>6. \A u \in Threads : Busy(u)' => Sound(u)'
    BY <1>4, <1>5, OthersStay
  <1>7. \A i \in DOMAIN queue : queue[i] # b
    BY DEF Worked, OnePlace
  <1>8. \A i \in DOMAIN queue' :
           rec'[queue'[i]].state = "queued" /\ disk'[queue'[i]] = rec'[queue'[i]] /\ queue'[i] \notin leaked'
    BY <1>7, OthersStay
  <1>9. leaked' \subseteq Bundles /\ \A d \in leaked' : rec'[d].state # "none"
    BY DEF Worked, OnlyOn
  <1>10. OnePlace'
    <2>1. \A u, v \in Threads : Busy(u)' /\ thread'[u].on = thread'[v].on => u = v
      <3> TAKE u, v \in Threads
      <3> HAVE Busy(u)' /\ thread'[u].on = thread'[v].on
      <3>1. Busy(v)'
        BY DEF Busy
      <3> QED
        BY <1>5, <3>1 DEF Worked, OnePlace
    <2>2. \A u \in Threads : \A i \in DOMAIN queue : thread'[u].on # queue[i]
      <3> TAKE u \in Threads
      <3> TAKE i \in DOMAIN queue
      <3>1. queue[i] \in Bundles /\ queue[i] # NoBundle
        BY RelayV1Assumption DEF Worked
      <3> QED
        BY <1>2, <1>3, <3>1 DEF Worked, OnePlace
    <2> QED
      BY <2>1, <2>2 DEF Worked, OnePlace
  <1>11. WorkOwned'
    <2> SUFFICES ASSUME NEW d \in Bundles, rec'[d].state \notin terminalStates \cup {"none"}
                 PROVE  InQueue(d) \/ d \in givenUp' \/ \E u \in Threads : thread'[u].on = d
      BY DEF WorkOwned, InQueue
    <2>1. CASE d = b
      BY <2>1
    <2>2. CASE d # b
      <3>1. rec'[d] = rec[d]
        BY <2>2 DEF OnlyOn
      <3>2. InQueue(d) \/ d \in givenUp \/ \E u \in Threads : thread[u].on = d
        BY <3>1 DEF Worked, WorkOwned
      <3>3. \A u \in Threads : thread[u].on = d => thread'[u].on = d
        BY <1>3, <2>2
      <3> QED
        BY <3>2, <3>3
    <2> QED
      BY <2>1, <2>2
  <1> QED
    BY <1>3, <1>6, <1>8, <1>9, <1>10, <1>11 DEF Worked

(***************************************************************************)
(* A handler starts with a new record, or gives it up when it could not be *)
(* written.                                                                *)
(***************************************************************************)
LEMMA CreateWorked ==
    ASSUME Written, Worked, NEW b \in Bundles, Create(b)
    PROVE  Worked'
  <1> DEFINE t == <<"submit", b>>
             r == [state |-> "received", version |-> 1, retries |-> 0]
             x == [on |-> b, plan |-> Validate, then |-> "inc"]
  <1>1. /\ t \in Threads /\ ~Busy(t) /\ rec[b].state = "none" /\ UNCHANGED <<queue, leaked>>
    BY DEF Create, Threads
  <1>2. PICK outcome \in Outcomes :
           /\ Store(b, r, outcome)
           /\ thread' = IF outcome = "ok" THEN Go(t, b, Validate, "inc") ELSE thread
           /\ givenUp' = IF outcome = "ok" THEN givenUp ELSE givenUp \cup {b}
    BY DEF Create
  <1>3. r \in Record
    BY DEF Record, States
  <1>4. /\ rec'[b] = r /\ \A d \in Bundles : d # b => rec'[d] = rec[d]
        /\ disk' \in {disk, rec'} /\ (outcome = "ok" => disk' = rec')
    BY <1>2, <1>3, StoreWrites
  <1>5. OnlyOn(b) /\ rec'[b].state = "received"
    BY <1>4 DEF OnlyOn
  <1>6. /\ \A u \in Threads : thread[u].on # b
        /\ \A i \in DOMAIN queue : queue[i] # b
        /\ b \notin leaked
    <2>1. ASSUME NEW u \in Threads, thread[u].on = b
          PROVE  FALSE
      <3>1. Busy(u)
        BY <2>1, RelayV1Assumption DEF Busy
      <3> QED
        BY <1>1, <2>1, <3>1 DEF Worked, Sound
    <2> QED
      BY <1>1, <2>1 DEF Worked
  <1>7. \A i \in DOMAIN queue' :
           rec'[queue'[i]].state = "queued" /\ disk'[queue'[i]] = rec'[queue'[i]] /\ queue'[i] \notin leaked'
    BY <1>1, <1>5, <1>6, OthersStay
  <1>8. \A u \in Threads : Busy(u) /\ thread'[u] = thread[u] => Sound(u)'
    BY <1>1, <1>5, <1>6, OthersStay
  <1>9. \A d \in leaked' : rec'[d].state # "none"
    BY <1>1, <1>4, <1>6 DEF Worked
  <1>10. givenUp' \subseteq Bundles /\ givenUp \subseteq givenUp'
    BY <1>2 DEF Worked
  <1>11. CASE outcome = "ok"
    <2>1. thread' = [thread EXCEPT ![t] = x] /\ disk'[b] = rec'[b]
      BY <1>2, <1>4, <1>11 DEF Go
    <2>2. x \in ThreadType
      BY PlansLead DEF ThreadType, Conts
    <2>3. /\ thread' \in [Threads -> ThreadType] /\ thread'[t] = x
          /\ \A u \in Threads : u # t => thread'[u] = thread[u]
      BY <1>1, <2>1, <2>2 DEF Worked
    <2>4. Sound(t)'
      <3>1. Leads(rec'[b].state, Validate, "inc")
        BY <1>5, PlansLead
      <3>2. t[1] = "submit"
        OBVIOUS
      <3> HIDE DEF t
      <3> QED
        BY <1>1, <1>5, <1>6, <2>1, <2>3, <3>1, <3>2 DEF Sound
    <2> HIDE DEF t
    <2>5. \A u \in Threads : Busy(u)' => u = t \/ (Busy(u) /\ thread'[u] = thread[u])
      BY <2>3 DEF Busy
    <2>6. \A u \in Threads : Busy(u)' => Sound(u)'
      BY <1>8, <2>4, <2>5
    <2>7. \A u \in Threads : thread'[u].on = IF u = t THEN b ELSE thread[u].on
      BY <2>3
    <2>8. OnePlace'
      <3>1. \A u, v \in Threads : Busy(u)' /\ thread'[u].on = thread'[v].on => u = v
        BY <1>6, <2>5, <2>7 DEF Worked, OnePlace
      <3> QED
        BY <1>1, <1>6, <2>7, <3>1 DEF Worked, OnePlace
    <2>9. WorkOwned'
      <3> SUFFICES ASSUME NEW d \in Bundles, rec'[d].state \notin terminalStates \cup {"none"}
                   PROVE  InQueue(d) \/ d \in givenUp' \/ \E u \in Threads : thread'[u].on = d
        BY <1>1 DEF WorkOwned, InQueue
      <3>1. CASE d = b
        BY <1>1, <2>7, <3>1
      <3>2. CASE d # b
        <4>1. InQueue(d) \/ d \in givenUp \/ \E u \in Threads : thread[u].on = d
          BY <1>4, <3>2 DEF Worked, WorkOwned
        <4>2. \A u \in Threads : thread[u].on = d => thread'[u].on = d
          BY <1>1, <2>3, <2>7 , RelayV1Assumption DEF Busy
        <4> QED
          BY <1>10, <4>1, <4>2
      <3> QED
        BY <3>1, <3>2
    <2> QED
      BY <1>1, <1>7, <1>9, <1>10, <2>3, <2>6, <2>8, <2>9 DEF Worked
  <1>12. CASE outcome # "ok"
    <2>1. UNCHANGED thread /\ b \in givenUp'
      BY <1>2, <1>12
    <2>2. \A u \in Threads : Busy(u)' => Sound(u)'
      BY <1>8, <2>1 DEF Busy
    <2>3. OnePlace'
      BY <1>1, <2>1 DEF Worked, OnePlace, Busy
    <2>4. WorkOwned'
      BY <1>1, <1>4, <1>10, <2>1 DEF Worked, WorkOwned, InQueue
    <2> QED
      BY <1>1, <1>7, <1>9, <1>10, <2>1, <2>2, <2>3, <2>4 DEF Worked
  <1> QED
    BY <1>11, <1>12

(***************************************************************************)
(* A worker receives the first bundle of the queue.                        *)
(***************************************************************************)
LEMMA ReceiveWorked ==
    ASSUME Worked, NEW w \in Workers, Receive(w)
    PROVE  Worked'
  <1> DEFINE t == <<"worker", w>>
             b == Head(queue)
             x == [on |-> b, plan |-> Pick, then |-> "simulate"]
  <1>1. /\ t \in Threads /\ t[1] = "worker" /\ ~Busy(t) /\ queue # <<>> /\ queue' = Tail(queue)
        /\ thread' = [thread EXCEPT ![t] = x]
        /\ UNCHANGED <<rec, disk, leaked, givenUp>>
    BY DEF Receive, Threads, Go
  <1> HIDE DEF t
  <1>2. /\ Len(queue) \in Nat \ {0} /\ DOMAIN queue = 1..Len(queue) /\ 1 \in DOMAIN queue
        /\ b = queue[1] /\ b \in Bundles
        /\ queue' \in Seq(Bundles) /\ DOMAIN queue' = 1..Len(queue) - 1
        /\ \A i \in DOMAIN queue' : queue'[i] = queue[i + 1] /\ i + 1 \in DOMAIN queue
    BY <1>1 DEF Worked
  <1>3. x \in ThreadType
    BY <1>2, PlansLead DEF ThreadType, Conts
  <1>4. /\ rec[b].state = "queued" /\ disk[b] = rec[b] /\ b \notin leaked
        /\ \A u \in Threads : thread[u].on # b
    BY <1>2 DEF Worked, OnePlace
  <1> HIDE DEF b
  <1>5. /\ thread' \in [Threads -> ThreadType] /\ thread'[t] = x
        /\ \A u \in Threads : u # t => thread'[u] = thread[u]
    BY <1>1, <1>3 DEF Worked
  <1>6. Sound(t)'
    <2>1. Leads(rec[b].state, Pick, "simulate")
      BY <1>4, PlansLead
    <2> QED
      BY <1>1, <1>4, <1>5, <2>1 DEF Sound
  <1>7. \A u \in Threads : Busy(u)' => u = t \/ (Busy(u) /\ thread'[u] = thread[u])
    BY <1>5 DEF Busy
  <1>8. \A u \in Threads : Busy(u)' => Sound(u)'
    BY <1>1, <1>6, <1>7 DEF Worked, Sound
  <1>9. \A i \in DOMAIN queue' :
           rec'[queue'[i]].state = "queued" /\ disk'[queue'[i]] = rec'[queue'[i]] /\ queue'[i] \notin leaked'
    BY <1>1, <1>2 DEF Worked
  <1>10. \A u \in Threads : thread'[u].on = IF u = t THEN b ELSE thread[u].on
    BY <1>5
  <1>11. OnePlace'
    <2>1. \A u, v \in Threads : Busy(u)' /\ thread'[u].on = thread'[v].on => u = v
      BY <1>4, <1>7, <1>10 DEF Worked, OnePlace
    <2>2. \A i, k \in DOMAIN queue' : queue'[i] = queue'[k] => i = k
      <3> TAKE i, k \in DOMAIN queue'
      <3> HAVE queue'[i] = queue'[k]
      <3>1. i + 1 = k + 1
        BY <1>2 DEF Worked, OnePlace
      <3> QED
        BY <1>2, <3>1
    <2>3. \A i \in DOMAIN queue' : queue'[i] # b
      <3> TAKE i \in DOMAIN queue'
      <3>1. i + 1 \in DOMAIN queue /\ i + 1 # 1
        BY <1>2
      <3> QED
        BY <1>2, <3>1 DEF Worked, OnePlace
    <2>4. \A u \in Threads : \A i \in DOMAIN queue' : thread'[u].on # queue'[i]
      BY <1>2, <1>10, <2>3 DEF Worked, OnePlace
    <2> QED
      BY <2>1, <2>2, <2>4 DEF OnePlace
  <1>12. WorkOwned'
    <2> SUFFICES ASSUME NEW d \in Bundles, rec[d].state \notin terminalStates \cup {"none"}
                 PROVE  \/ \E i \in DOMAIN queue' : queue'[i] = d
                        \/ d \in givenUp
                        \/ \E u \in Threads : thread'[u].on = d
      BY <1>1 DEF WorkOwned, InQueue
    <2>1. CASE d = b
      BY <1>1, <1>10, <2>1
    <2>2. ASSUME d # b, NEW i \in DOMAIN queue, queue[i] = d
          PROVE  \E k \in DOMAIN queue' : queue'[k] = d
      <3>1. i # 1 /\ i - 1 \in DOMAIN queue' /\ i - 1 + 1 = i
        BY <1>2, <2>2
      <3> QED
        BY <1>2, <2>2, <3>1
    <2>3. ASSUME d # b, NEW u \in Threads, thread[u].on = d
          PROVE  thread'[u].on = d
      BY <1>1, <1>10, <2>3, RelayV1Assumption DEF Busy
    <2>4. InQueue(d) \/ d \in givenUp \/ \E u \in Threads : thread[u].on = d
      BY DEF Worked, WorkOwned
    <2> QED
      BY <2>1, <2>2, <2>3, <2>4 DEF InQueue
  <1> QED
    BY <1>1, <1>2, <1>5, <1>8, <1>9, <1>11, <1>12 DEF Worked

(***************************************************************************)
(* A handler or a timer puts its bundle into the queue.                    *)
(***************************************************************************)
LEMMA EnqueueWorked ==
    ASSUME Worked, NEW t \in Threads, Enqueue(t), NEW b \in Bundles, b = thread[t].on
    PROVE  Worked'
  <1>1. /\ Busy(t) /\ thread[t].plan = <<>> /\ thread[t].then = "enqueue"
        /\ queue' = Append(queue, b) /\ thread' = Stop(t)
        /\ UNCHANGED <<rec, disk, leaked, givenUp>>
    BY DEF Enqueue, At
  <1>2. thread[t] \in ThreadType /\ Sound(t)
    BY <1>1 DEF Worked
  <1>3. b \in Bundles /\ b # NoBundle /\ disk[b] = rec[b] /\ b \notin leaked /\ Leads(rec[b].state, <<>>, "enqueue")
    BY <1>1, <1>2, RelayV1Assumption DEF Sound, ThreadType, Busy
  <1>4. rec[b].state = "queued"
    BY <1>3 DEF Leads, Goal
  <1>5. /\ queue' \in Seq(Bundles) /\ DOMAIN queue = 1..Len(queue) /\ Len(queue) \in Nat
        /\ DOMAIN queue' = 1..Len(queue) + 1 /\ queue'[Len(queue) + 1] = b
        /\ \A i \in DOMAIN queue : queue'[i] = queue[i]
    BY <1>1, <1>3 DEF Worked
  <1>6. Idle \in ThreadType /\ Idle.on = NoBundle
    BY DEF Idle, ThreadType, Conts
  <1>7. /\ thread' \in [Threads -> ThreadType] /\ thread'[t] = Idle
        /\ \A u \in Threads : u # t => thread'[u] = thread[u]
    BY <1>1, <1>6 DEF Worked, Stop
  <1>8. \A u \in Threads : Busy(u)' => (u # t /\ Busy(u) /\ thread'[u] = thread[u])
    BY <1>6, <1>7 DEF Busy
  <1>9. \A u \in Threads : Busy(u)' => Sound(u)'
    BY <1>1, <1>8 DEF Worked, Sound
  <1>10. \A i \in DOMAIN queue : queue[i] # b
    BY DEF Worked, OnePlace
  <1>11. \A u \in Threads : thread'[u].on # b
    BY <1>1, <1>3, <1>6, <1>7 DEF Worked, OnePlace, Busy
  <1>12. \A i \in DOMAIN queue' : i = Len(queue) + 1 \/ i \in DOMAIN queue
    BY <1>5
  <1>13. \A i \in DOMAIN queue' :
            rec'[queue'[i]].state = "queued" /\ disk'[queue'[i]] = rec'[queue'[i]] /\ queue'[i] \notin leaked'
    BY <1>1, <1>3, <1>4, <1>5, <1>12 DEF Worked
  <1>14. OnePlace'
    <2>1. \A u, v \in Threads : Busy(u)' /\ thread'[u].on = thread'[v].on => u = v
      <3> TAKE u, v \in Threads
      <3> HAVE Busy(u)' /\ thread'[u].on = thread'[v].on
      <3>1. Busy(v)'
        BY DEF Busy
      <3> QED
        BY <1>8, <3>1 DEF Worked, OnePlace
    <2>2. \A i, k \in DOMAIN queue' : queue'[i] = queue'[k] => i = k
      <3> TAKE i, k \in DOMAIN queue'
      <3>1. CASE i \in DOMAIN queue /\ k \in DOMAIN queue
        BY <1>5, <3>1 DEF Worked, OnePlace
      <3>2. CASE i = Len(queue) + 1
        BY <1>5, <1>10, <1>12, <3>2
      <3>3. CASE k = Len(queue) + 1
        BY <1>5, <1>10, <1>12, <3>3
      <3> QED
        BY <1>12, <3>1, <3>2, <3>3
    <2>3. ASSUME NEW u \in Threads, NEW i \in DOMAIN queue'
          PROVE  thread'[u].on # queue'[i]
      <3>1. CASE i = Len(queue) + 1
        BY <1>5, <1>11, <3>1
      <3>2. CASE i \in DOMAIN queue
        <4>1. queue[i] \in Bundles /\ queue[i] # NoBundle
          BY <3>2, RelayV1Assumption DEF Worked
        <4> QED
          BY <1>5, <1>6, <1>7, <3>2, <4>1 DEF Worked, OnePlace
      <3> QED
        BY <1>12, <3>1, <3>2
    <2> QED
      BY <2>1, <2>2, <2>3 DEF OnePlace
  <1>15. WorkOwned'
    <2>1. \A i \in DOMAIN queue : i \in DOMAIN queue' /\ queue'[i] = queue[i]
      BY <1>5
    <2>2. Len(queue) + 1 \in DOMAIN queue'
      BY <1>5
    <2>3. \A d \in Bundles : InQueue(d) => InQueue(d)'
      BY <2>1 DEF InQueue
    <2>4. InQueue(b)'
      BY <1>5, <2>2 DEF InQueue
    <2>5. \A d \in Bundles : \A u \in Threads : thread[u].on = d => (d = b \/ thread'[u].on = d)
      BY <1>7
    <2>6. \A d \in Bundles : d = b => InQueue(d)'
      BY <2>4 DEF InQueue
    <2> QED
      BY <1>1, <2>3, <2>5, <2>6 DEF Worked, WorkOwned
  <1> QED
    BY <1>1, <1>5, <1>7, <1>9, <1>13, <1>14, <1>15 DEF Worked

(***************************************************************************)
(* A worker hands its bundle to the timer.                                 *)
(***************************************************************************)
LEMMA ArmTimerWorked ==
    ASSUME Worked, NEW t \in Threads, ArmTimer(t), NEW b \in Bundles, b = thread[t].on
    PROVE  Worked'
  <1> DEFINE u == <<"timer", b>>
             x == [on |-> b, plan |-> <<>>, then |-> "fire"]
  <1>1. /\ Busy(t) /\ thread[t].plan = <<>> /\ thread[t].then = "arm"
        /\ thread' = [thread EXCEPT ![u] = x, ![t] = Idle]
        /\ UNCHANGED <<rec, disk, queue, leaked, givenUp>>
    BY DEF ArmTimer, At
  <1>2. thread \in [Threads -> ThreadType] /\ thread[t] \in ThreadType /\ Sound(t)
    BY <1>1 DEF Worked
  <1>3. /\ b \in Bundles /\ b # NoBundle /\ disk[b] = rec[b] /\ b \notin leaked
        /\ Leads(rec[b].state, <<>>, "arm") /\ t[1] = "worker"
    BY <1>1, <1>2, RelayV1Assumption DEF Sound, ThreadType, Busy
  <1>4. rec[b].state = "retry_pending"
    BY <1>3 DEF Leads, Goal
  <1>5. u \in Threads /\ u[1] = "timer" /\ u # t
    BY <1>3 DEF Threads
  <1>6. ~Busy(u)
    <2> SUFFICES ASSUME Busy(u)
                 PROVE  FALSE
      OBVIOUS
    <2>1. u = <<"timer", thread[u].on>>
      BY <1>5 DEF Worked, Sound
    <2>2. thread[u].on = b
      BY <2>1
    <2> QED
      BY <1>5, <2>2 DEF Worked, OnePlace
  <1>7. Idle \in ThreadType /\ Idle.on = NoBundle /\ x \in ThreadType
    BY <1>3 DEF Idle, ThreadType, Conts
  <1>8. /\ thread' \in [Threads -> ThreadType] /\ thread'[t] = Idle /\ thread'[u] = x
        /\ \A v \in Threads : v # t /\ v # u => thread'[v] = thread[v]
    <2> HIDE DEF u, x
    <2> QED
      BY <1>1, <1>2, <1>5, <1>7
  <1>9. Sound(u)'
    <2>1. Leads("retry_pending", <<>>, "fire")
      BY DEF Leads, Goal
    <2>2. u = <<"timer", b>>
      OBVIOUS
    <2>3. thread'[u].on = b /\ thread'[u].plan = <<>> /\ thread'[u].then = "fire"
      BY <1>8
    <2> HIDE DEF u, x
    <2> QED
      BY <1>1, <1>3, <1>4, <1>5, <2>1, <2>2, <2>3 DEF Sound
  <1> HIDE DEF u
  <1>10. \A v \in Threads : Busy(v)' => (v = u \/ (v # t /\ Busy(v) /\ thread'[v] = thread[v]))
    BY <1>7, <1>8 DEF Busy
  <1>11. \A v \in Threads : Busy(v)' => Sound(v)'
    BY <1>1, <1>9, <1>10 DEF Worked, Sound
  <1>12. \A v \in Threads : Busy(v) /\ v # t => thread[v].on # b
    BY <1>1 DEF Worked, OnePlace
  <1>13. thread'[u].on = b
    BY <1>8
  <1> HIDE DEF x
  <1>14. OnePlace'
    <2>1. \A v, w \in Threads : Busy(v)' /\ thread'[v].on = thread'[w].on => v = w
      <3> TAKE v, w \in Threads
      <3> HAVE Busy(v)' /\ thread'[v].on = thread'[w].on
      <3>1. Busy(w)'
        BY DEF Busy
      <3>2. CASE v = u
        BY <1>10, <1>12, <1>13, <3>1, <3>2
      <3>3. CASE w = u
        BY <1>10, <1>12, <1>13, <3>3
      <3>4. CASE v # u /\ w # u
        BY <1>10, <3>1, <3>4 DEF Worked, OnePlace
      <3> QED
        BY <3>2, <3>3, <3>4
    <2>2. \A i \in DOMAIN queue : queue[i] # b
      BY <1>1 DEF Worked, OnePlace
    <2>3. ASSUME NEW v \in Threads, NEW i \in DOMAIN queue
          PROVE  thread'[v].on # queue[i]
      <3>1. queue[i] \in Bundles /\ queue[i] # NoBundle
        BY RelayV1Assumption DEF Worked
      <3> QED
        BY <1>7, <1>8, <1>13, <2>2, <3>1 DEF Worked, OnePlace
    <2> QED
      BY <1>1, <2>1, <2>3 DEF Worked, OnePlace
  <1>15. WorkOwned'
    <2>1. \A d \in Bundles : \A v \in Threads : thread[v].on = d =>
              (thread'[v].on = d \/ (d = b /\ thread'[u].on = d))
      <3> TAKE d \in Bundles
      <3> TAKE v \in Threads
      <3> HAVE thread[v].on = d
      <3>1. v # u
        BY <1>6, RelayV1Assumption DEF Busy
      <3>2. CASE v = t
        BY <1>13, <3>2
      <3>3. CASE v # t
        BY <1>8, <3>1, <3>3
      <3> QED
        BY <3>2, <3>3
    <2> QED
      BY <1>1, <1>5, <2>1 DEF Worked, WorkOwned, InQueue
  <1> QED
    BY <1>1, <1>8, <1>11, <1>14, <1>15 DEF Worked

(***************************************************************************)
(* A crash: the restarted process has the records of the snapshot, and     *)
(* nobody works on them.                                                   *)
(***************************************************************************)
LEMMA CrashWorked ==
    ASSUME Worked, Crash
    PROVE  Worked'
  <1>1. Idle \in ThreadType /\ Idle.on = NoBundle
    BY DEF Idle, ThreadType, Conts
  <1>2. /\ rec' = disk /\ queue' = <<>> /\ leaked' = {}
        /\ thread' = [t \in Threads |-> Idle]
        /\ givenUp' = {b \in Bundles : disk[b].state # "none"}
    BY DEF Crash
  <1>3. thread' \in [Threads -> ThreadType] /\ \A t \in Threads : thread'[t] = Idle /\ ~Busy(t)'
    BY <1>1, <1>2 DEF Busy
  <1>4. queue' \in Seq(Bundles) /\ DOMAIN queue' = {}
    BY <1>2
  <1>5. OnePlace'
    BY <1>3, <1>4 DEF OnePlace
  <1>6. WorkOwned'
    BY <1>2 DEF WorkOwned
  <1> QED
    BY <1>2, <1>3, <1>4, <1>5, <1>6 DEF Worked

(***************************************************************************)
(* A thread whose plan is done is where the plan led.                      *)
(***************************************************************************)
LEMMA PlanDone ==
    ASSUME Worked, NEW t \in Threads, NEW label, At(t, label)
    PROVE  /\ Busy(t) /\ thread[t] \in ThreadType /\ Sound(t)
           /\ thread[t].on \in Bundles /\ thread[t].plan = <<>> /\ thread[t].then = label
           /\ rec[thread[t].on].state \in Goal(label)
           /\ disk[thread[t].on] = rec[thread[t].on]
  <1>1. Busy(t) /\ thread[t].plan = <<>> /\ thread[t].then = label
    BY DEF At
  <1>2. thread[t] \in ThreadType /\ Sound(t)
    BY <1>1 DEF Worked
  <1>3. thread[t].on \in Bundles
    BY <1>1, <1>2 DEF Busy, ThreadType
  <1>4. disk[thread[t].on] = rec[thread[t].on] /\ Leads(rec[thread[t].on].state, <<>>, label)
    BY <1>1, <1>2 DEF Sound
  <1> QED
    BY <1>1, <1>2, <1>3, <1>4 DEF Leads

(***************************************************************************)
(* A thread goes on without a store operation.                             *)
(***************************************************************************)
LEMMA GoWorked ==
    ASSUME Worked, NEW t \in Threads, NEW label, At(t, label),
           NEW plan \in Seq(Operation), NEW then \in Conts,
           thread' = Go(t, thread[t].on, plan, then),
           UNCHANGED <<rec, disk, queue, leaked, givenUp>>,
           Leads(rec[thread[t].on].state, plan, then),
           then \in {"over", "fire"} => plan = <<>>,
           then \in {"simulate", "arm"} => t[1] = "worker"
    PROVE  Worked'
  <1> DEFINE x == [on |-> thread[t].on, plan |-> plan, then |-> then]
  <1>1. /\ Busy(t) /\ thread[t].on \in Bundles /\ disk[thread[t].on] = rec[thread[t].on]
        /\ rec[thread[t].on].state # "none"
    BY PlanDone DEF Sound
  <1>2. x \in ThreadType /\ x.on = thread[t].on /\ x.plan = plan /\ x.then = then
    BY <1>1 DEF ThreadType
  <1>3. thread' = [thread EXCEPT ![t] = x]
    BY DEF Go
  <1> HIDE DEF x
  <1>4. OnlyOn(x.on)
    BY DEF OnlyOn
  <1> QED
    BY <1>1, <1>2, <1>3, <1>4, WorkGoesOn

(***************************************************************************)
(* Every step keeps the bundles with their owners.                         *)
(***************************************************************************)
LEMMA WorkedHolds ==
    ASSUME Written, Worked, [Next]_vars
    PROVE  Worked'
  <1>1. ASSUME NEW t \in Threads, StepSucceeds(t)
        PROVE  Worked'
    <2> DEFINE b == thread[t].on
               r == Applied(rec[b], StepOf(t))
               x == [on |-> b, plan |-> Tail(thread[t].plan), then |-> thread[t].then]
    <2>1. /\ Busy(t) /\ thread[t].plan # <<>> /\ Store(b, r, "ok")
          /\ thread' = [thread EXCEPT ![t].plan = Tail(@)]
          /\ UNCHANGED <<queue, leaked, givenUp>>
      BY <1>1 DEF StepSucceeds
    <2>2. /\ b \in Bundles /\ r \in Record /\ r.state \in States
          /\ Tail(thread[t].plan) \in Seq(Operation)
          /\ Leads(r.state, Tail(thread[t].plan), thread[t].then)
      BY <2>1, NextOperation
    <2>3. thread \in [Threads -> ThreadType] /\ thread[t] \in ThreadType /\ Sound(t)
      BY <2>1 DEF Worked
    <2>4. x \in ThreadType /\ x.on = b /\ thread' = [thread EXCEPT ![t] = x]
      <3>1. x \in ThreadType /\ x.on = b
        BY <2>2, <2>3 DEF ThreadType
      <3>2. \A y \in ThreadType : \A p : [y EXCEPT !.plan = p] = [on |-> y.on, plan |-> p, then |-> y.then]
        BY DEF ThreadType
      <3>3. [thread[t] EXCEPT !.plan = Tail(thread[t].plan)] = x
        BY <2>3, <3>2
      <3>4. thread' = [thread EXCEPT ![t] = [thread[t] EXCEPT !.plan = Tail(thread[t].plan)]]
        BY <2>1
      <3> QED
        BY <3>1, <3>3, <3>4
    <2>5. "ok" \in Outcomes
      BY DEF Outcomes
    <2>6. rec'[b] = r /\ disk' = rec' /\ \A d \in Bundles : d # b => rec'[d] = rec[d]
      BY <2>1, <2>2, <2>5, StoreWrites
    <2>7. OnlyOn(x.on) /\ disk'[x.on] = rec'[x.on] /\ rec'[x.on].state # "none"
      BY <2>2, <2>6 DEF OnlyOn, States
    <2>8. /\ x.then \in {"over", "fire"} => x.plan = <<>>
          /\ x.then \in {"simulate", "arm"} => t[1] = "worker"
      BY <2>1, <2>3 DEF Sound
    <2>9. Leads(rec'[x.on].state, x.plan, x.then)
      BY <2>2, <2>6
    <2> HIDE DEF x, r
    <2> QED
      BY <2>1, <2>4, <2>7, <2>8, <2>9, WorkGoesOn
  <1>2. ASSUME NEW t \in Threads, StepFails(t)
        PROVE  Worked'
    <2> DEFINE b == thread[t].on
               r == Applied(rec[b], StepOf(t))
    <2>1. /\ Busy(t) /\ thread[t].plan # <<>>
          /\ \E outcome \in Outcomes \ {"ok"} : Store(b, r, outcome)
          /\ thread' = Stop(t) /\ leaked' \in {leaked, leaked \cup {b}} /\ givenUp' = givenUp \cup {b}
          /\ UNCHANGED queue
      BY <1>2 DEF StepFails, GiveUp
    <2>2. b \in Bundles /\ r \in Record /\ r.state \in States
      BY <2>1, NextOperation
    <2>3. rec'[b] = r /\ disk' \in {disk, rec'} /\ \A d \in Bundles : d # b => rec'[d] = rec[d]
      <3> HIDE DEF b, r
      <3> QED
        BY <2>1, <2>2, StoreWrites
    <2>4. OnlyOn(b) /\ rec'[b].state # "none"
      BY <2>2, <2>3 DEF OnlyOn, States
    <2>5. givenUp \subseteq givenUp' /\ givenUp' \subseteq Bundles /\ b \in givenUp' /\ leaked' \subseteq leaked \cup {b}
      BY <2>1, <2>2 DEF Worked
    <2> HIDE DEF r
    <2> QED
      BY <2>1, <2>2, <2>4, <2>5, WorkEnds
  <1>3. ASSUME NEW t \in Threads, StepRefused(t)
        PROVE  Worked'
    <2> DEFINE b == thread[t].on
    <2>1. /\ Busy(t) /\ thread' = Stop(t) /\ leaked' \in {leaked, leaked \cup {b}}
          /\ givenUp' = givenUp \cup {b} /\ UNCHANGED <<rec, disk, queue>>
      BY <1>3 DEF StepRefused, GiveUp
    <2>2. thread[t] \in ThreadType /\ b \in Bundles /\ rec[b].state # "none"
      BY <2>1 DEF Worked, Sound, Busy, ThreadType
    <2>3. OnlyOn(b)
      BY <2>1 DEF OnlyOn
    <2>4. givenUp \subseteq givenUp' /\ givenUp' \subseteq Bundles /\ b \in givenUp' /\ leaked' \subseteq leaked \cup {b}
      BY <2>1, <2>2 DEF Worked
    <2> QED
      BY <2>1, <2>2, <2>3, <2>4, WorkEnds
  <1>4. ASSUME NEW t \in Threads, Inc(t)
        PROVE  Worked'
    <2>1. /\ At(t, "inc") /\ UNCHANGED <<rec, disk, queue, leaked, givenUp>>
          /\ \/ thread' = Go(t, thread[t].on, <<>>, "over")
             \/ thread' = Go(t, thread[t].on, Queued, "enqueue")
      BY <1>4 DEF Inc
    <2>2. rec[thread[t].on].state = "validated"
      BY <2>1, PlanDone DEF Goal
    <2>3. <<>> \in Seq(Operation) /\ Leads("validated", <<>>, "over") /\ {"over", "enqueue"} \subseteq Conts
      BY DEF Leads, Goal, Conts
    <2>4. CASE thread' = Go(t, thread[t].on, <<>>, "over")
      BY <2>1, <2>2, <2>3, <2>4, GoWorked
    <2>5. CASE thread' = Go(t, thread[t].on, Queued, "enqueue")
      BY <2>1, <2>2, <2>3, <2>5, PlansLead, GoWorked
    <2> QED
      BY <2>1, <2>4, <2>5
  <1>5. ASSUME NEW t \in Threads, Over(t)
        PROVE  Worked'
    <2>1. /\ At(t, "over") /\ UNCHANGED <<rec, disk, queue, leaked, givenUp>>
          /\ thread' = Go(t, thread[t].on, Refuse, "done")
      BY <1>5 DEF Over
    <2>2. rec[thread[t].on].state = "validated" /\ "done" \in Conts
      BY <2>1, PlanDone DEF Goal, Conts
    <2> QED
      BY <2>1, <2>2, PlansLead, GoWorked
  <1>6. ASSUME NEW t \in Threads, Done(t) \/ Release(t)
        PROVE  Worked'
    <2>1. /\ At(t, "done") \/ At(t, "release")
          /\ thread' = Stop(t) /\ UNCHANGED <<rec, disk, queue, leaked, givenUp>>
      BY <1>6 DEF Done, Release
    <2>2. /\ Busy(t) /\ thread[t].on \in Bundles /\ rec[thread[t].on].state \in {"rejected", "completed"}
      BY <2>1, PlanDone DEF Goal
    <2>3. OnlyOn(thread[t].on) /\ givenUp' \subseteq Bundles
      BY <2>1 DEF OnlyOn, Worked
    <2> QED
      BY <2>1, <2>2, <2>3, WorkEnds DEF terminalStates
  <1>7. ASSUME NEW t \in Threads, QueueFull(t)
        PROVE  Worked'
    <2>1. /\ At(t, "enqueue") /\ UNCHANGED <<rec, disk, queue, leaked, givenUp>>
          /\ \/ thread' = Go(t, thread[t].on, Overflow, "release")
             \/ thread' = Go(t, thread[t].on, DeadLetter("queued"), "release")
      BY <1>7 DEF QueueFull
    <2>2. rec[thread[t].on].state = "queued" /\ "release" \in Conts
      BY <2>1, PlanDone DEF Goal, Conts
    <2>3. CASE thread' = Go(t, thread[t].on, Overflow, "release")
      BY <2>1, <2>2, <2>3, PlansLead, GoWorked
    <2>4. CASE thread' = Go(t, thread[t].on, DeadLetter("queued"), "release")
      <3>1. DeadLetter("queued") \in Seq(Operation) /\ Leads("queued", DeadLetter("queued"), "release")
        BY PlansLead
      <3> QED
        BY <2>1, <2>2, <2>4, <3>1, GoWorked
    <2> QED
      BY <2>1, <2>3, <2>4
  <1>8. ASSUME NEW t \in Threads, Simulate(t)
        PROVE  Worked'
    <2>1. /\ At(t, "simulate") /\ UNCHANGED <<rec, disk, queue, leaked, givenUp>>
          /\ \/ \E v \in {"forwarded", "rejected"} : thread' = Go(t, thread[t].on, Decided(v), "release")
             \/ thread' = Go(t, thread[t].on, RetryLater, "arm")
             \/ thread' = Go(t, thread[t].on, DeadLetter("simulating"), "release")
      BY <1>8 DEF Simulate
    <2>2. rec[thread[t].on].state = "simulating" /\ {"release", "arm"} \subseteq Conts /\ t[1] = "worker"
      BY <2>1, PlanDone DEF Goal, Conts, Sound
    <2>3. ASSUME NEW v \in {"forwarded", "rejected"}, thread' = Go(t, thread[t].on, Decided(v), "release")
          PROVE  Worked'
      <3>1. Decided(v) \in Seq(Operation) /\ Leads("simulating", Decided(v), "release")
        BY PlansLead
      <3> QED
        BY <2>1, <2>2, <2>3, <3>1, GoWorked
    <2>4. CASE thread' = Go(t, thread[t].on, RetryLater, "arm")
      BY ZenonT(60), <2>1, <2>2, <2>4, PlansLead, GoWorked
    <2>5. CASE thread' = Go(t, thread[t].on, DeadLetter("simulating"), "release")
      <3>1. /\ DeadLetter("simulating") \in Seq(Operation)
            /\ Leads("simulating", DeadLetter("simulating"), "release")
        BY PlansLead
      <3> QED
        BY <2>1, <2>2, <2>5, <3>1, GoWorked
    <2> QED
      BY <2>1, <2>3, <2>4, <2>5
  <1>9. ASSUME NEW t \in Threads, Fire(t)
        PROVE  Worked'
    <2>1. /\ At(t, "fire") /\ UNCHANGED <<rec, disk, queue, leaked, givenUp>>
      BY <1>9 DEF Fire
    <2>2. rec[thread[t].on].state = "retry_pending" /\ "enqueue" \in Conts
      BY <2>1, PlanDone DEF Goal, Conts
    <2>3. thread' = Go(t, thread[t].on, RetryNow, "enqueue")
      BY <1>9, <2>2 DEF Fire
    <2> QED
      BY <2>1, <2>2, <2>3, PlansLead, GoWorked
  <1>10. ASSUME NEW t \in Threads, Enqueue(t) \/ ArmTimer(t)
         PROVE  Worked'
    <2>1. At(t, "enqueue") \/ At(t, "arm")
      BY <1>10 DEF Enqueue, ArmTimer
    <2>2. thread[t].on \in Bundles
      BY <2>1, PlanDone
    <2> QED
      BY <1>10, <2>2, EnqueueWorked, ArmTimerWorked
  <1>11. ASSUME NEW b \in Bundles, Create(b)
         PROVE  Worked'
    BY <1>11, CreateWorked
  <1>12. ASSUME NEW w \in Workers, Receive(w)
         PROVE  Worked'
    BY <1>12, ReceiveWorked
  <1>13. CASE Crash
    BY <1>13, CrashWorked
  <1>14. CASE UNCHANGED vars
    BY <1>14 DEF vars, Worked, OnePlace, WorkOwned, InQueue, Sound, Busy
  <1> QED
    BY <1>1, <1>2, <1>3, <1>4, <1>5, <1>6, <1>7, <1>8, <1>9, <1>10, <1>11, <1>12, <1>13, <1>14
       DEF Next, ThreadStep

-----------------------------------------------------------------------------
(* The counters. *)

HoldPC == {"enqueue", "release", "simulate", "arm", "fire"}

(***************************************************************************)
(* Slots that pass from one owner to the next stay counted.                *)
(***************************************************************************)
LEMMA SlotsStay ==
    ASSUME Balanced, UNCHANGED <<count, leaked>>,
           \A b \in Bundles : HasSlot(b)' <=> HasSlot(b),
           \A t \in Threads : Excess(t)' <=> Excess(t),
           \A t \in Threads : Excess(t) => thread'[t].on = thread[t].on
    PROVE  Balanced'
  <1>1. \A c \in Clients : Held(c)' = Held(c) /\ Charged(c)' = Charged(c) /\ Excesses(c)' = Excesses(c)
    BY DEF Held, Charged, Excesses
  <1> QED
    BY <1>1 DEF Balanced

(***************************************************************************)
(* A bundle that gets a slot is counted for its client.                    *)
(***************************************************************************)
LEMMA SlotTaken ==
    ASSUME Balanced, NEW b \in Bundles, ~HasSlot(b), b \notin leaked, UNCHANGED leaked,
           count' = [count EXCEPT ![ClientOf[b]] = count[ClientOf[b]] + 1],
           count[ClientOf[b]] + 1 <= MaxInFlightPerClient,
           \A d \in Bundles : HasSlot(d)' <=> (HasSlot(d) \/ d = b),
           \A t \in Threads : Excess(t)' <=> Excess(t),
           \A t \in Threads : Excess(t) => thread'[t].on = thread[t].on
    PROVE  Balanced'
  <1>1. ClientOf[b] \in Clients /\ MaxInFlightPerClient \in Nat
    BY RelayV1Assumption
  <1>2. \A c \in Clients : Excesses(c)' = Excesses(c)
    BY DEF Excesses
  <1>3. \A c \in Clients : c # ClientOf[b] => Held(c)' = Held(c) /\ Charged(c)' = Charged(c) /\ count'[c] = count[c]
    BY DEF Held, Charged, Balanced
  <1>4. \A c \in Clients : c = ClientOf[b] =>
           /\ Held(c)' = Held(c) \cup {b} /\ Charged(c)' = Charged(c) \cup {b}
           /\ b \notin Held(c) /\ b \notin Charged(c) /\ count'[c] = count[c] + 1
    BY <1>1 DEF Held, Charged, Balanced
  <1>5. count' \in [Clients -> Int]
    BY <1>1 DEF Balanced
  <1>6. ASSUME NEW c \in Clients
        PROVE  /\ IsFiniteSet(Held(c)') /\ IsFiniteSet(Charged(c)') /\ IsFiniteSet(Excesses(c)')
               /\ count'[c] = Cardinality(Charged(c)') + Cardinality(Excesses(c)')
               /\ Cardinality(Held(c)') <= MaxInFlightPerClient
    <2>1. /\ IsFiniteSet(Held(c)) /\ IsFiniteSet(Charged(c)) /\ IsFiniteSet(Excesses(c))
          /\ count[c] = Cardinality(Charged(c)) + Cardinality(Excesses(c))
          /\ Cardinality(Held(c)) <= MaxInFlightPerClient
      BY DEF Balanced
    <2>2. CASE c # ClientOf[b]
      BY <1>2, <1>3, <2>1, <2>2
    <2>3. CASE c = ClientOf[b]
      <3>1. /\ IsFiniteSet(Held(c)') /\ Cardinality(Held(c)') = Cardinality(Held(c)) + 1
            /\ IsFiniteSet(Charged(c)') /\ Cardinality(Charged(c)') = Cardinality(Charged(c)) + 1
        BY <1>4, <2>1, <2>3, FS_AddElement
      <3>2. Held(c) \subseteq Charged(c)
        BY DEF Held, Charged
      <3>3. /\ Cardinality(Held(c)) <= Cardinality(Charged(c))
            /\ Cardinality(Held(c)) \in Nat /\ Cardinality(Charged(c)) \in Nat /\ Cardinality(Excesses(c)) \in Nat
        BY <2>1, <3>2, FS_Subset, FS_CardinalityType
      <3>4. count'[c] = count[c] + 1 /\ count[c] + 1 <= MaxInFlightPerClient /\ Excesses(c)' = Excesses(c)
        BY <1>2, <1>4, <2>3
      <3> QED
        BY <1>1, <2>1, <3>1, <3>3, <3>4
    <2> QED
      BY <2>2, <2>3
  <1> QED
    BY <1>5, <1>6 DEF Balanced

(***************************************************************************)
(* A bundle that gives its slot back is no longer counted.                 *)
(***************************************************************************)
LEMMA SlotReturned ==
    ASSUME Balanced, NEW b \in Bundles, HasSlot(b), b \notin leaked, UNCHANGED leaked,
           count' = Dec(b),
           \A d \in Bundles : HasSlot(d)' <=> (HasSlot(d) /\ d # b),
           \A t \in Threads : Excess(t)' <=> Excess(t),
           \A t \in Threads : Excess(t) => thread'[t].on = thread[t].on
    PROVE  Balanced'
  <1>1. ClientOf[b] \in Clients /\ MaxInFlightPerClient \in Nat
    BY RelayV1Assumption
  <1>2. \A c \in Clients : Excesses(c)' = Excesses(c)
    BY DEF Excesses
  <1>3. \A c \in Clients : c # ClientOf[b] => Held(c)' = Held(c) /\ Charged(c)' = Charged(c) /\ count'[c] = count[c]
    BY DEF Held, Charged, Balanced, Dec
  <1>4. \A c \in Clients : c = ClientOf[b] =>
           /\ Held(c)' = Held(c) \ {b} /\ Charged(c)' = Charged(c) \ {b}
           /\ b \in Held(c) /\ b \in Charged(c) /\ count'[c] = count[c] - 1
    BY <1>1 DEF Held, Charged, Balanced, Dec
  <1>5. count' \in [Clients -> Int]
    BY <1>1 DEF Balanced, Dec
  <1>6. ASSUME NEW c \in Clients
        PROVE  /\ IsFiniteSet(Held(c)') /\ IsFiniteSet(Charged(c)') /\ IsFiniteSet(Excesses(c)')
               /\ count'[c] = Cardinality(Charged(c)') + Cardinality(Excesses(c)')
               /\ Cardinality(Held(c)') <= MaxInFlightPerClient
    <2>1. /\ IsFiniteSet(Held(c)) /\ IsFiniteSet(Charged(c)) /\ IsFiniteSet(Excesses(c))
          /\ count[c] = Cardinality(Charged(c)) + Cardinality(Excesses(c))
          /\ Cardinality(Held(c)) <= MaxInFlightPerClient
      BY DEF Balanced
    <2>2. CASE c # ClientOf[b]
      BY <1>2, <1>3, <2>1, <2>2
    <2>3. CASE c = ClientOf[b]
      <3>1. /\ IsFiniteSet(Held(c)') /\ Cardinality(Held(c)') = Cardinality(Held(c)) - 1
            /\ IsFiniteSet(Charged(c)') /\ Cardinality(Charged(c)') = Cardinality(Charged(c)) - 1
        BY <1>4, <2>1, <2>3, FS_RemoveElement
      <3>2. /\ Cardinality(Held(c)) \in Nat /\ Cardinality(Charged(c)) \in Nat /\ Cardinality(Excesses(c)) \in Nat
        BY <2>1, FS_CardinalityType
      <3>3. count'[c] = count[c] - 1 /\ Excesses(c)' = Excesses(c)
        BY <1>2, <1>4, <2>3
      <3> QED
        BY <1>1, <2>1, <3>1, <3>2, <3>3
    <2> QED
      BY <2>2, <2>3
  <1> QED
    BY <1>5, <1>6 DEF Balanced

(***************************************************************************)
(* A bundle whose pick-up fails keeps the counter at its slot.             *)
(***************************************************************************)
LEMMA SlotLost ==
    ASSUME Balanced, NEW b \in Bundles, HasSlot(b), leaked' = leaked \cup {b}, UNCHANGED count,
           \A d \in Bundles : HasSlot(d)' <=> (HasSlot(d) /\ d # b),
           \A t \in Threads : Excess(t)' <=> Excess(t),
           \A t \in Threads : Excess(t) => thread'[t].on = thread[t].on
    PROVE  Balanced'
  <1>1. \A c \in Clients : Excesses(c)' = Excesses(c) /\ Charged(c)' = Charged(c)
    BY DEF Excesses, Charged
  <1>2. \A c \in Clients : Held(c)' = Held(c) \/ Held(c)' = Held(c) \ {b}
    BY DEF Held
  <1>3. ASSUME NEW c \in Clients
        PROVE  IsFiniteSet(Held(c)') /\ Cardinality(Held(c)') <= MaxInFlightPerClient
    <2>1. IsFiniteSet(Held(c)) /\ Cardinality(Held(c)) <= MaxInFlightPerClient /\ MaxInFlightPerClient \in Nat
      BY RelayV1Assumption DEF Balanced
    <2>2. Held(c)' \subseteq Held(c)
      BY <1>2
    <2>3. /\ IsFiniteSet(Held(c)') /\ Cardinality(Held(c)') <= Cardinality(Held(c))
          /\ Cardinality(Held(c)) \in Nat
      BY <2>1, <2>2, FS_Subset, FS_CardinalityType
    <2>4. Cardinality(Held(c)') \in Nat
      BY <2>3, FS_CardinalityType
    <2> QED
      BY <2>1, <2>3, <2>4
  <1> QED
    BY <1>1, <1>3 DEF Balanced

(***************************************************************************)
(* A handler over the limit counts until it takes its excess back.         *)
(***************************************************************************)
LEMMA ExcessChanges ==
    ASSUME Balanced, NEW t \in Threads, NEW b \in Bundles, UNCHANGED leaked,
           \A d \in Bundles : HasSlot(d)' <=> HasSlot(d),
           \A u \in Threads : u # t => thread'[u] = thread[u],
           \/ /\ ~Excess(t) /\ Excess(t)' /\ thread'[t].on = b
              /\ count' = [count EXCEPT ![ClientOf[b]] = count[ClientOf[b]] + 1]
           \/ /\ Excess(t) /\ ~Excess(t)' /\ thread[t].on = b
              /\ count' = Dec(b)
    PROVE  Balanced'
  <1>1. ClientOf[b] \in Clients
    BY RelayV1Assumption
  <1>2. \A c \in Clients : Held(c)' = Held(c) /\ Charged(c)' = Charged(c)
    BY DEF Held, Charged
  <1>3. \A u \in Threads : u # t => (Excess(u)' <=> Excess(u))
    BY DEF Excess, Busy
  <1>4. count' \in [Clients -> Int]
    BY <1>1 DEF Balanced, Dec
  <1>5. ASSUME NEW c \in Clients
        PROVE  /\ IsFiniteSet(Excesses(c)')
               /\ count'[c] = Cardinality(Charged(c)) + Cardinality(Excesses(c)')
    <2>1. /\ IsFiniteSet(Charged(c)) /\ IsFiniteSet(Excesses(c))
          /\ count[c] = Cardinality(Charged(c)) + Cardinality(Excesses(c))
      BY DEF Balanced
    <2>2. Cardinality(Charged(c)) \in Nat /\ Cardinality(Excesses(c)) \in Nat
      BY <2>1, FS_CardinalityType
    <2>3. CASE c # ClientOf[b]
      <3>1. count'[c] = count[c]
        BY <2>3 DEF Balanced, Dec
      <3>2. Excesses(c)' = Excesses(c)
        BY <1>3, <2>3 DEF Excesses
      <3> QED
        BY <2>1, <3>1, <3>2
    <2>4. CASE c = ClientOf[b] /\ Excess(t)'
      <3>1. ~Excess(t) /\ thread'[t].on = b /\ count'[c] = count[c] + 1
        BY <1>1, <2>4 DEF Balanced
      <3>2. Excesses(c)' = Excesses(c) \cup {t} /\ t \notin Excesses(c)
        BY <1>3, <2>4, <3>1 DEF Excesses
      <3>3. IsFiniteSet(Excesses(c)') /\ Cardinality(Excesses(c)') = Cardinality(Excesses(c)) + 1
        BY <2>1, <3>2, FS_AddElement
      <3> QED
        BY <2>1, <2>2, <3>1, <3>3
    <2>5. CASE c = ClientOf[b] /\ ~Excess(t)'
      <3>1. Excess(t) /\ thread[t].on = b /\ count'[c] = count[c] - 1
        BY <1>1, <2>5 DEF Balanced, Dec
      <3>2. Excesses(c)' = Excesses(c) \ {t} /\ t \in Excesses(c)
        BY <1>3, <2>5, <3>1 DEF Excesses
      <3>3. IsFiniteSet(Excesses(c)') /\ Cardinality(Excesses(c)') = Cardinality(Excesses(c)) - 1
        BY <2>1, <3>2, FS_RemoveElement
      <3> QED
        BY <2>1, <2>2, <3>1, <3>3
    <2> QED
      BY <2>3, <2>4, <2>5
  <1> QED
    BY <1>2, <1>4, <1>5 DEF Balanced

\* What the only thread of b does to the slots when it becomes x.
OnlySlotOf(t, b, x) ==
    /\ \A d \in Bundles : d # b => (HasSlot(d)' <=> HasSlot(d))
    /\ HasSlot(b) <=> (thread[t].on = b /\ thread[t].then \in HoldPC)
    /\ HasSlot(b)' <=> (x.on = b /\ x.then \in HoldPC)
    /\ \A u \in Threads : u # t => thread'[u] = thread[u]
    /\ \A u \in Threads : u # t => (Excess(u)' <=> Excess(u))
    /\ Excess(t) <=> (thread[t].on = b /\ thread[t].then = "over")
    /\ Excess(t)' <=> (x.on = b /\ x.then = "over")
    /\ thread'[t] = x

(***************************************************************************)
(* A step of the only thread of a bundle decides on the bundle's slot.     *)
(***************************************************************************)
LEMMA OwnSlot ==
    ASSUME Worked, NEW t \in Threads, NEW b \in Bundles, NEW x \in ThreadType,
           thread[t].on \in {b, NoBundle}, x.on \in {b, NoBundle},
           \A u \in Threads : thread[u].on = b => u = t, ~InQueue(b),
           thread' = [thread EXCEPT ![t] = x], UNCHANGED queue
    PROVE  OnlySlotOf(t, b, x)
  <1>1. thread'[t] = x /\ \A u \in Threads : u # t => thread'[u] = thread[u]
    BY DEF Worked
  <1>2. b # NoBundle /\ NoBundle \notin Bundles
    BY RelayV1Assumption
  <1>3. \A u \in Threads : u # t => (Holding(u)' <=> Holding(u)) /\ (Excess(u)' <=> Excess(u))
    BY <1>1 DEF Holding, Excess, Busy
  <1>4. \A d : InQueue(d)' <=> InQueue(d)
    BY DEF InQueue
  <1>5. ASSUME NEW d \in Bundles, d # b
        PROVE  HasSlot(d)' <=> HasSlot(d)
    <2>1. thread[t].on # d /\ thread'[t].on # d
      BY <1>1, <1>2, <1>5
    <2>2. \A u \in Threads : (thread'[u].on = d /\ Holding(u)') <=> (thread[u].on = d /\ Holding(u))
      BY <1>1, <1>3, <2>1
    <2> QED
      BY <1>4, <2>2 DEF HasSlot
  <1>6. HasSlot(b) <=> (thread[t].on = b /\ thread[t].then \in HoldPC)
    BY <1>2 DEF HasSlot, Holding, Busy, HoldPC
  <1>7. HasSlot(b)' <=> (x.on = b /\ x.then \in HoldPC)
    <2>1. \A u \in Threads : thread'[u].on = b => u = t
      BY <1>1
    <2>2. ~InQueue(b)'
      BY <1>4
    <2>3. Holding(t)' <=> (x.on # NoBundle /\ x.then \in HoldPC)
      BY <1>1 DEF Holding, Busy, HoldPC
    <2> QED
      BY <1>1, <1>2, <2>1, <2>2, <2>3 DEF HasSlot
  <1>8. /\ Excess(t) <=> (thread[t].on = b /\ thread[t].then = "over")
        /\ Excess(t)' <=> (x.on = b /\ x.then = "over")
    BY <1>1, <1>2 DEF Excess, Busy
  <1> QED
    BY <1>1, <1>3, <1>5, <1>6, <1>7, <1>8 DEF OnlySlotOf

(***************************************************************************)
(* A busy thread is the only place of its bundle.                          *)
(***************************************************************************)
LEMMA OnlyPlace ==
    ASSUME Worked, NEW t \in Threads, Busy(t)
    PROVE  /\ thread[t] \in ThreadType /\ thread[t].on \in Bundles /\ thread[t].on \notin leaked
           /\ \A u \in Threads : thread[u].on = thread[t].on => u = t
           /\ ~InQueue(thread[t].on)
           /\ thread[t].plan # <<>> => thread[t].then \notin {"over", "fire"}
  <1>1. thread[t] \in ThreadType /\ thread[t].on \in Bundles
    BY DEF Worked, Busy, ThreadType
  <1>2. thread[t].on \notin leaked /\ (thread[t].plan # <<>> => thread[t].then \notin {"over", "fire"})
    BY DEF Worked, Sound
  <1>3. \A u \in Threads : thread[u].on = thread[t].on => u = t
    BY DEF Worked, OnePlace
  <1>4. ~InQueue(thread[t].on)
    BY DEF Worked, OnePlace, InQueue
  <1> QED
    BY <1>1, <1>2, <1>3, <1>4

(***************************************************************************)
(* A thread that goes on or stops with a slot as it had one.               *)
(***************************************************************************)
LEMMA SlotKept ==
    ASSUME Balanced, Worked, NEW t \in Threads, Busy(t), NEW x \in ThreadType,
           x.on \in {thread[t].on, NoBundle},
           thread' = [thread EXCEPT ![t] = x], UNCHANGED <<queue, count, leaked>>,
           thread[t].then \in HoldPC <=> (x.on # NoBundle /\ x.then \in HoldPC),
           thread[t].then = "over" <=> (x.on # NoBundle /\ x.then = "over")
    PROVE  Balanced'
  <1>1. /\ thread[t].on \in Bundles /\ thread[t].on # NoBundle
        /\ \A u \in Threads : thread[u].on = thread[t].on => u = t
        /\ ~InQueue(thread[t].on)
    BY OnlyPlace, RelayV1Assumption
  <1>2. PICK b \in Bundles : /\ b = thread[t].on /\ thread[t].on \in {b, NoBundle} /\ ~InQueue(b)
                           /\ \A u \in Threads : thread[u].on = b => u = t
    BY <1>1
  <1>3. OnlySlotOf(t, b, x)
    <2>1. /\ thread[t].on \in {b, NoBundle} /\ x.on \in {b, NoBundle} /\ ~InQueue(b)
          /\ \A u \in Threads : thread[u].on = b => u = t
          /\ UNCHANGED queue
      BY <1>1, <1>2
    <2> QED
      BY <2>1, OwnSlot
  <1>4. x.on = b <=> x.on # NoBundle
    BY <1>1, <1>2
  <1>5. \A d \in Bundles : HasSlot(d)' <=> HasSlot(d)
    BY <1>2, <1>3, <1>4 DEF OnlySlotOf
  <1>6. \A u \in Threads : Excess(u)' <=> Excess(u)
    BY <1>2, <1>3, <1>4 DEF OnlySlotOf
  <1>7. \A u \in Threads : Excess(u) => thread'[u].on = thread[u].on
    BY <1>2, <1>3, <1>4 DEF OnlySlotOf
  <1> QED
    BY <1>5, <1>6, <1>7, SlotsStay

(***************************************************************************)
(* A thread with a slot ends and gives it back.                            *)
(***************************************************************************)
LEMMA SlotGivenBack ==
    ASSUME Balanced, Worked, NEW t \in Threads, Busy(t), thread[t].then \in HoldPC,
           thread' = Stop(t), count' = Dec(thread[t].on), UNCHANGED <<queue, leaked>>
    PROVE  Balanced'
  <1>1. /\ thread[t].on \in Bundles /\ thread[t].on # NoBundle /\ thread[t].on \notin leaked
        /\ \A u \in Threads : thread[u].on = thread[t].on => u = t
        /\ ~InQueue(thread[t].on)
    BY OnlyPlace, RelayV1Assumption
  <1>2. PICK b \in Bundles : /\ b = thread[t].on /\ thread[t].on \in {b, NoBundle} /\ ~InQueue(b)
                           /\ \A u \in Threads : thread[u].on = b => u = t
    BY <1>1
  <1>3. Idle \in ThreadType /\ Idle.on = NoBundle /\ thread' = [thread EXCEPT ![t] = Idle]
    BY DEF Idle, ThreadType, Conts, Stop
  <1>4. OnlySlotOf(t, b, Idle)
    <2>1. /\ thread[t].on \in {b, NoBundle} /\ Idle.on \in {b, NoBundle} /\ ~InQueue(b)
          /\ \A u \in Threads : thread[u].on = b => u = t
          /\ Idle \in ThreadType /\ thread' = [thread EXCEPT ![t] = Idle] /\ UNCHANGED queue
      BY <1>1, <1>2, <1>3
    <2> QED
      BY <2>1, OwnSlot
  <1>5. HasSlot(b) /\ ~HasSlot(b)'
    BY <1>1, <1>2, <1>3, <1>4 DEF OnlySlotOf
  <1>6. ~Excess(t) /\ ~Excess(t)'
    BY <1>1, <1>2, <1>3, <1>4 DEF HoldPC, OnlySlotOf
  <1>7. \A d \in Bundles : HasSlot(d)' <=> (HasSlot(d) /\ d # b)
    BY <1>4, <1>5 DEF OnlySlotOf
  <1>8. /\ \A u \in Threads : Excess(u)' <=> Excess(u)
        /\ \A u \in Threads : Excess(u) => thread'[u].on = thread[u].on
    BY <1>4, <1>6 DEF OnlySlotOf
  <1> QED
    BY <1>1, <1>2, <1>5, <1>7, <1>8, SlotReturned

(***************************************************************************)
(* A thread that gives up returns its slot if it has one, unless it is the *)
(* pick-up that fails: then the slot is lost.                              *)
(***************************************************************************)
LEMMA GiveUpBalanced ==
    ASSUME Balanced, Worked, NEW t \in Threads, Busy(t), thread[t].plan # <<>>, GiveUp(t), UNCHANGED queue
    PROVE  Balanced'
  <1>1. /\ thread' = Stop(t)
        /\ count' = IF Releases(thread[t].then) THEN Dec(thread[t].on) ELSE count
        /\ leaked' = IF thread[t].then = "simulate" THEN leaked \cup {thread[t].on} ELSE leaked
    BY DEF GiveUp
  <1>2. /\ thread[t].on \in Bundles /\ thread[t].on # NoBundle /\ thread[t].on \notin leaked
        /\ \A u \in Threads : thread[u].on = thread[t].on => u = t
        /\ ~InQueue(thread[t].on)
        /\ thread[t].then \in {"inc", "done", "enqueue", "release", "simulate", "arm"}
    BY OnlyPlace, RelayV1Assumption DEF ThreadType, Conts
  <1>3. Idle \in ThreadType /\ Idle.on = NoBundle /\ thread' = [thread EXCEPT ![t] = Idle]
    BY <1>1 DEF Idle, ThreadType, Conts, Stop
  <1>4. CASE thread[t].then \in {"inc", "done"}
    <2>1. UNCHANGED <<count, leaked>> /\ thread[t].then \notin HoldPC /\ thread[t].then # "over"
      BY <1>1, <1>4 DEF Releases, HoldPC
    <2> QED
      BY <1>3, <2>1, SlotKept
  <1>5. CASE thread[t].then \in {"enqueue", "release", "arm"}
    <2>1. count' = Dec(thread[t].on) /\ UNCHANGED leaked /\ thread[t].then \in HoldPC
      BY <1>1, <1>5 DEF Releases, HoldPC
    <2> QED
      BY <1>1, <2>1, SlotGivenBack
  <1>6. CASE thread[t].then = "simulate"
    <2>1. PICK b \in Bundles : /\ b = thread[t].on /\ thread[t].on \in {b, NoBundle} /\ ~InQueue(b)
                             /\ \A u \in Threads : thread[u].on = b => u = t
      BY <1>2
    <2>2. UNCHANGED count /\ leaked' = leaked \cup {b} /\ thread[t].then \in HoldPC
      BY <1>1, <1>6, <2>1 DEF Releases, HoldPC
    <2>3. OnlySlotOf(t, b, Idle)
      <3>1. /\ thread[t].on \in {b, NoBundle} /\ Idle.on \in {b, NoBundle} /\ ~InQueue(b)
            /\ \A u \in Threads : thread[u].on = b => u = t
            /\ Idle \in ThreadType /\ thread' = [thread EXCEPT ![t] = Idle] /\ UNCHANGED queue
        BY <1>2, <1>3, <2>1
      <3> QED
        BY <3>1, OwnSlot
    <2>4. HasSlot(b) /\ ~HasSlot(b)'
      BY <1>2, <1>3, <2>1, <2>2, <2>3 DEF OnlySlotOf
    <2>5. ~Excess(t) /\ ~Excess(t)'
      BY <1>2, <1>3, <1>6, <2>1, <2>3 DEF OnlySlotOf
    <2>6. \A d \in Bundles : HasSlot(d)' <=> (HasSlot(d) /\ d # b)
      BY <2>3, <2>4 DEF OnlySlotOf
    <2>7. /\ \A u \in Threads : Excess(u)' <=> Excess(u)
          /\ \A u \in Threads : Excess(u) => thread'[u].on = thread[u].on
      BY <2>3, <2>5 DEF OnlySlotOf
    <2> QED
      BY <2>2, <2>4, <2>6, <2>7, SlotLost
  <1> QED
    BY <1>2, <1>4, <1>5, <1>6

(***************************************************************************)
(* Inc: the counter is raised before it is compared with the limit.        *)
(***************************************************************************)
LEMMA IncBalanced ==
    ASSUME Balanced, Worked, NEW t \in Threads, Inc(t)
    PROVE  Balanced'
  <1>1. /\ Busy(t) /\ thread[t].then = "inc" /\ UNCHANGED <<queue, leaked>>
        /\ count' = [count EXCEPT ![ClientOf[thread[t].on]] = count[ClientOf[thread[t].on]] + 1]
        /\ thread' = IF count[ClientOf[thread[t].on]] + 1 > MaxInFlightPerClient
                     THEN Go(t, thread[t].on, <<>>, "over") ELSE Go(t, thread[t].on, Queued, "enqueue")
    BY DEF Inc, At
  <1>2. /\ thread[t].on \in Bundles /\ thread[t].on # NoBundle /\ thread[t].on \notin leaked
        /\ \A u \in Threads : thread[u].on = thread[t].on => u = t
        /\ ~InQueue(thread[t].on)
    BY <1>1, OnlyPlace, RelayV1Assumption
  <1>3. PICK b \in Bundles : /\ b = thread[t].on /\ thread[t].on \in {b, NoBundle} /\ ~InQueue(b)
                           /\ \A u \in Threads : thread[u].on = b => u = t
    BY <1>2
  <1>4. count[ClientOf[b]] \in Int /\ MaxInFlightPerClient \in Nat
    BY RelayV1Assumption DEF Balanced
  <1>5. ASSUME NEW x \in ThreadType, thread' = [thread EXCEPT ![t] = x], x.on = b
        PROVE  OnlySlotOf(t, b, x)
    BY <1>1, <1>2, <1>3, <1>5, OwnSlot
  <1>6. CASE count[ClientOf[b]] + 1 > MaxInFlightPerClient
    <2> DEFINE x == [on |-> b, plan |-> <<>>, then |-> "over"]
    <2>1. x \in ThreadType /\ x.on = b /\ x.then = "over" /\ thread' = [thread EXCEPT ![t] = x]
      BY <1>1, <1>3, <1>6 DEF ThreadType, Conts, Go
    <2> HIDE DEF x
    <2>2. ~HasSlot(b) /\ ~HasSlot(b)' /\ ~Excess(t) /\ Excess(t)' /\ thread'[t].on = b
      BY <1>1, <1>3, <1>5, <2>1 DEF HoldPC, OnlySlotOf
    <2>3. \A d \in Bundles : HasSlot(d)' <=> HasSlot(d)
      BY <1>5, <2>1, <2>2 DEF OnlySlotOf
    <2>4. \A u \in Threads : u # t => thread'[u] = thread[u]
      BY <1>5, <2>1 DEF OnlySlotOf
    <2> QED
      BY <1>1, <1>3, <2>2, <2>3, <2>4, ExcessChanges
  <1>7. CASE ~(count[ClientOf[b]] + 1 > MaxInFlightPerClient)
    <2> DEFINE x == [on |-> b, plan |-> Queued, then |-> "enqueue"]
    <2>1. x \in ThreadType /\ x.on = b /\ x.then = "enqueue" /\ thread' = [thread EXCEPT ![t] = x]
      BY <1>1, <1>3, <1>7, PlansLead DEF ThreadType, Conts, Go
    <2> HIDE DEF x
    <2>2. ~HasSlot(b) /\ HasSlot(b)' /\ ~Excess(t) /\ ~Excess(t)'
      BY <1>1, <1>3, <1>5, <2>1 DEF HoldPC, OnlySlotOf
    <2>3. \A d \in Bundles : HasSlot(d)' <=> (HasSlot(d) \/ d = b)
      BY <1>5, <2>1, <2>2 DEF OnlySlotOf
    <2>4. /\ \A u \in Threads : Excess(u)' <=> Excess(u)
          /\ \A u \in Threads : Excess(u) => thread'[u].on = thread[u].on
      BY <1>5, <2>1, <2>2 DEF OnlySlotOf
    <2>5. count[ClientOf[b]] + 1 <= MaxInFlightPerClient
      BY <1>4, <1>7
    <2> QED
      BY <1>1, <1>2, <1>3, <2>2, <2>3, <2>4, <2>5, SlotTaken
  <1> QED
    BY <1>6, <1>7

(***************************************************************************)
(* The refused handler takes its excess back.                              *)
(***************************************************************************)
LEMMA OverBalanced ==
    ASSUME Balanced, Worked, NEW t \in Threads, Over(t)
    PROVE  Balanced'
  <1> DEFINE x == [on |-> thread[t].on, plan |-> Refuse, then |-> "done"]
  <1>1. /\ Busy(t) /\ thread[t].then = "over" /\ UNCHANGED <<queue, leaked>>
        /\ count' = Dec(thread[t].on) /\ thread' = [thread EXCEPT ![t] = x]
    BY DEF Over, At, Go
  <1>2. /\ thread[t].on \in Bundles /\ thread[t].on # NoBundle
        /\ \A u \in Threads : thread[u].on = thread[t].on => u = t
        /\ ~InQueue(thread[t].on)
    BY <1>1, OnlyPlace, RelayV1Assumption
  <1>3. x \in ThreadType /\ x.on = thread[t].on /\ x.then = "done"
    BY <1>2, PlansLead DEF ThreadType, Conts
  <1> HIDE DEF x
  <1>4. PICK b \in Bundles : /\ b = thread[t].on /\ thread[t].on \in {b, NoBundle} /\ ~InQueue(b)
                           /\ \A u \in Threads : thread[u].on = b => u = t
    BY <1>2
  <1>5. OnlySlotOf(t, b, x)
    <2>1. /\ thread[t].on \in {b, NoBundle} /\ x.on \in {b, NoBundle} /\ ~InQueue(b)
          /\ \A u \in Threads : thread[u].on = b => u = t
          /\ x \in ThreadType /\ thread' = [thread EXCEPT ![t] = x] /\ UNCHANGED queue
      BY <1>1, <1>2, <1>3, <1>4
    <2> QED
      BY <2>1, OwnSlot
  <1>6. ~HasSlot(b) /\ ~HasSlot(b)' /\ Excess(t) /\ ~Excess(t)'
    BY <1>1, <1>3, <1>4, <1>5 DEF HoldPC, OnlySlotOf
  <1>7. /\ \A d \in Bundles : HasSlot(d)' <=> HasSlot(d)
        /\ \A u \in Threads : u # t => thread'[u] = thread[u]
    BY <1>5, <1>6 DEF OnlySlotOf
  <1> QED
    BY <1>1, <1>4, <1>6, <1>7, ExcessChanges

(***************************************************************************)
(* A new record has neither a thread nor a place in the queue.             *)
(***************************************************************************)
LEMMA NewIsFree ==
    ASSUME Worked, NEW b \in Bundles, rec[b].state = "none"
    PROVE  (\A u \in Threads : thread[u].on # b) /\ ~InQueue(b)
  <1>1. ASSUME NEW u \in Threads, thread[u].on = b
        PROVE  FALSE
    <2>1. Busy(u)
      BY <1>1, RelayV1Assumption DEF Busy
    <2> QED
      BY <1>1, <2>1 DEF Worked, Sound
  <1>2. ~InQueue(b)
    BY DEF Worked, InQueue
  <1> QED
    BY <1>1, <1>2

(***************************************************************************)
(* Every step keeps the counters exact.                                    *)
(***************************************************************************)
LEMMA BalancedHolds ==
    ASSUME Balanced, Worked, [Next]_vars
    PROVE  Balanced'
  <1>1. ASSUME UNCHANGED <<thread, queue, count, leaked>>
        PROVE  Balanced'
    BY <1>1, SlotsStay DEF HasSlot, InQueue, Holding, Excess, Busy
  <1>2. ASSUME NEW b \in Bundles, Create(b)
        PROVE  Balanced'
    <2> DEFINE t == <<"submit", b>>
               x == [on |-> b, plan |-> Validate, then |-> "inc"]
    <2>1. /\ t \in Threads /\ thread[t].on = NoBundle /\ rec[b].state = "none"
          /\ UNCHANGED <<queue, count, leaked>>
          /\ thread' = thread \/ thread' = [thread EXCEPT ![t] = x]
      BY <1>2 DEF Create, Threads, Busy, Go
    <2> HIDE DEF t
    <2>2. CASE thread' = thread
      BY <1>1, <2>1, <2>2
    <2>3. CASE thread' = [thread EXCEPT ![t] = x]
      <3>1. x \in ThreadType /\ x.on = b /\ x.then = "inc"
        BY PlansLead DEF ThreadType, Conts
      <3> HIDE DEF x
      <3>2. /\ thread[t].on \in {b, NoBundle} /\ x.on \in {b, NoBundle} /\ ~InQueue(b)
            /\ \A u \in Threads : thread[u].on = b => u = t
        BY <2>1, <3>1, NewIsFree
      <3>3. OnlySlotOf(t, b, x)
        BY <2>1, <2>3, <3>1, <3>2, OwnSlot
      <3>4. thread[t].on # b
        BY <2>1, RelayV1Assumption
      <3>5. ~HasSlot(b) /\ ~HasSlot(b)' /\ ~Excess(t) /\ ~Excess(t)'
        BY <3>1, <3>3, <3>4 DEF OnlySlotOf, HoldPC
      <3>6. /\ \A d \in Bundles : HasSlot(d)' <=> HasSlot(d)
            /\ \A u \in Threads : Excess(u)' <=> Excess(u)
            /\ \A u \in Threads : Excess(u) => thread'[u].on = thread[u].on
        BY <3>3, <3>5 DEF OnlySlotOf
      <3> QED
        BY <2>1, <3>6, SlotsStay
    <2> QED
      BY <2>1, <2>2, <2>3
  <1>3. ASSUME NEW t \in Threads, StepSucceeds(t)
        PROVE  Balanced'
    <2> DEFINE x == [thread[t] EXCEPT !.plan = Tail(thread[t].plan)]
    <2>1. /\ Busy(t) /\ thread[t].plan # <<>>
          /\ thread' = [thread EXCEPT ![t] = x] /\ UNCHANGED <<queue, count, leaked>>
      BY <1>3 DEF StepSucceeds
    <2>2. thread[t] \in ThreadType /\ thread[t].on # NoBundle
      BY <2>1, OnlyPlace DEF Busy
    <2>3. x \in ThreadType /\ x.on = thread[t].on /\ x.then = thread[t].then
      <3>1. Tail(thread[t].plan) \in Seq(Operation)
        BY <2>1, <2>2 DEF ThreadType
      <3>2. \A y \in ThreadType : \A p : [y EXCEPT !.plan = p] = [on |-> y.on, plan |-> p, then |-> y.then]
        BY DEF ThreadType
      <3>3. x = [on |-> thread[t].on, plan |-> Tail(thread[t].plan), then |-> thread[t].then]
        BY <2>2, <3>2
      <3> QED
        BY <2>2, <3>1, <3>3 DEF ThreadType
    <2> HIDE DEF x
    <2> QED
      BY <2>1, <2>2, <2>3, SlotKept
  <1>4. ASSUME NEW t \in Threads, StepFails(t) \/ StepRefused(t)
        PROVE  Balanced'
    BY <1>4, GiveUpBalanced DEF StepFails, StepRefused
  <1>5. ASSUME NEW t \in Threads, Inc(t) \/ Over(t)
        PROVE  Balanced'
    BY <1>5, IncBalanced, OverBalanced
  <1>6. ASSUME NEW t \in Threads, Done(t)
        PROVE  Balanced'
    <2>1. /\ Busy(t) /\ thread[t].then = "done" /\ thread' = [thread EXCEPT ![t] = Idle]
          /\ UNCHANGED <<queue, count, leaked>>
      BY <1>6 DEF Done, At, Stop
    <2>2. Idle \in ThreadType /\ Idle.on = NoBundle
      BY DEF Idle, ThreadType, Conts
    <2> QED
      BY <2>1, <2>2, SlotKept DEF HoldPC
  <1>7. ASSUME NEW t \in Threads, Release(t)
        PROVE  Balanced'
    BY <1>7, SlotGivenBack DEF Release, At, HoldPC
  <1>8. ASSUME NEW t \in Threads, QueueFull(t) \/ Simulate(t) \/ Fire(t)
        PROVE  Balanced'
    <2>1. /\ Busy(t) /\ thread[t].plan = <<>> /\ thread[t].then \in {"enqueue", "simulate", "fire"}
          /\ UNCHANGED <<queue, count, leaked>>
      BY <1>8 DEF QueueFull, Simulate, Fire, At
    <2>2. Fire(t) => rec[thread[t].on].state = "retry_pending"
      BY PlanDone DEF Fire, Goal
    <2>3. \E plan \in Seq(Operation) : \E then \in HoldPC : thread' = Go(t, thread[t].on, plan, then)
      <3>1. CASE QueueFull(t)
        <4>1. \/ thread' = Go(t, thread[t].on, Overflow, "release")
              \/ thread' = Go(t, thread[t].on, DeadLetter("queued"), "release")
          BY <3>1 DEF QueueFull
        <4>2. Overflow \in Seq(Operation) /\ DeadLetter("queued") \in Seq(Operation) /\ "release" \in HoldPC
          BY PlansLead DEF HoldPC
        <4> QED
          BY <4>1, <4>2
      <3>2. CASE Simulate(t)
        <4>1. \/ \E v \in {"forwarded", "rejected"} : thread' = Go(t, thread[t].on, Decided(v), "release")
              \/ thread' = Go(t, thread[t].on, RetryLater, "arm")
              \/ thread' = Go(t, thread[t].on, DeadLetter("simulating"), "release")
          BY <3>2 DEF Simulate
        <4>2. /\ \A v \in {"forwarded", "rejected"} : Decided(v) \in Seq(Operation)
              /\ RetryLater \in Seq(Operation) /\ DeadLetter("simulating") \in Seq(Operation)
              /\ "release" \in HoldPC /\ "arm" \in HoldPC
          BY PlansLead DEF HoldPC
        <4> QED
          BY <4>1, <4>2
      <3>3. CASE Fire(t)
        <4>1. thread' = Go(t, thread[t].on, RetryNow, "enqueue")
          BY <2>2, <3>3 DEF Fire
        <4>2. RetryNow \in Seq(Operation) /\ "enqueue" \in HoldPC
          BY PlansLead DEF HoldPC
        <4> QED
          BY <4>1, <4>2
      <3> QED
        BY <1>8, <3>1, <3>2, <3>3
    <2>4. PICK plan \in Seq(Operation), then \in HoldPC : thread' = Go(t, thread[t].on, plan, then)
      BY <2>3
    <2> DEFINE x == [on |-> thread[t].on, plan |-> plan, then |-> then]
    <2>5. /\ x \in ThreadType /\ x.on = thread[t].on /\ x.then \in HoldPC /\ x.then # "over"
          /\ thread' = [thread EXCEPT ![t] = x]
      BY <2>1, <2>4, OnlyPlace DEF ThreadType, Conts, Go, HoldPC
    <2>6. thread[t].then \in HoldPC /\ thread[t].then # "over" /\ thread[t].on # NoBundle
      BY <2>1 DEF HoldPC, Busy
    <2> HIDE DEF x
    <2> QED
      BY <2>1, <2>5, <2>6, SlotKept
  <1>9. ASSUME NEW t \in Threads, Enqueue(t)
        PROVE  Balanced'
    <2>1. /\ Busy(t) /\ thread[t].then = "enqueue" /\ queue' = Append(queue, thread[t].on)
          /\ thread' = [thread EXCEPT ![t] = Idle] /\ UNCHANGED <<count, leaked>>
      BY <1>9 DEF Enqueue, At, Stop
    <2>2. thread[t].on \in Bundles /\ thread[t].on # NoBundle
      BY <2>1, OnlyPlace, RelayV1Assumption
    <2>3. /\ DOMAIN queue = 1..Len(queue) /\ Len(queue) \in Nat
          /\ DOMAIN queue' = 1..Len(queue) + 1 /\ queue'[Len(queue) + 1] = thread[t].on
          /\ \A i \in DOMAIN queue : queue'[i] = queue[i]
      BY <2>1, <2>2 DEF Worked
    <2>4. thread'[t] = Idle /\ \A u \in Threads : u # t => thread'[u] = thread[u]
      BY <2>1 DEF Worked
    <2>5. Idle.on = NoBundle
      BY DEF Idle
    <2>6. Holding(t) /\ ~Holding(t)' /\ ~Excess(t) /\ ~Excess(t)'
      BY <2>1, <2>2, <2>4, <2>5 DEF Holding, Excess, Busy
    <2>7. \A u \in Threads : u # t => (Holding(u)' <=> Holding(u)) /\ (Excess(u)' <=> Excess(u))
      BY <2>4 DEF Holding, Excess, Busy
    <2>8. ASSUME NEW d \in Bundles
          PROVE  HasSlot(d)' <=> HasSlot(d)
      <3>1. InQueue(d)' <=> (InQueue(d) \/ d = thread[t].on)
        <4>1. \A i \in DOMAIN queue' : i = Len(queue) + 1 \/ i \in DOMAIN queue
          BY <2>3
        <4>2. Len(queue) + 1 \in DOMAIN queue' /\ \A i \in DOMAIN queue : i \in DOMAIN queue'
          BY <2>3
        <4> QED
          BY <2>3, <4>1, <4>2 DEF InQueue
      <3>2. \A u \in Threads : (thread'[u].on = d /\ Holding(u)') <=> (u # t /\ thread[u].on = d /\ Holding(u))
        BY <2>4, <2>6, <2>7
      <3>3. d = thread[t].on => HasSlot(d)
        BY <2>6 DEF HasSlot
      <3> QED
        BY <3>1, <3>2, <3>3 DEF HasSlot
    <2>9. /\ \A u \in Threads : Excess(u)' <=> Excess(u)
          /\ \A u \in Threads : Excess(u) => thread'[u].on = thread[u].on
      BY <2>4, <2>6, <2>7
    <2> QED
      BY <2>1, <2>8, <2>9, SlotsStay
  <1>10. ASSUME NEW w \in Workers, Receive(w)
         PROVE  Balanced'
    <2> DEFINE t == <<"worker", w>>
               x == [on |-> Head(queue), plan |-> Pick, then |-> "simulate"]
    <2>1. /\ t \in Threads /\ thread[t].on = NoBundle /\ queue # <<>> /\ queue' = Tail(queue)
          /\ thread' = [thread EXCEPT ![t] = x] /\ UNCHANGED <<count, leaked>>
      BY <1>10 DEF Receive, Threads, Go, Busy
    <2> HIDE DEF t
    <2>2. /\ Len(queue) \in Nat \ {0} /\ DOMAIN queue = 1..Len(queue) /\ 1 \in DOMAIN queue
          /\ Head(queue) = queue[1] /\ queue[1] \in Bundles
          /\ DOMAIN queue' = 1..Len(queue) - 1
          /\ \A i \in DOMAIN queue' : queue'[i] = queue[i + 1] /\ i + 1 \in DOMAIN queue
      BY <2>1 DEF Worked
    <2>3. /\ thread'[t].on = queue[1] /\ thread'[t].then = "simulate"
          /\ \A u \in Threads : u # t => thread'[u] = thread[u]
      BY <2>1, <2>2 DEF Worked
    <2>4. ~Holding(t) /\ Holding(t)' /\ ~Excess(t) /\ ~Excess(t)'
      BY <2>1, <2>2, <2>3, RelayV1Assumption DEF Holding, Excess, Busy
    <2>5. \A u \in Threads : u # t => (Holding(u)' <=> Holding(u)) /\ (Excess(u)' <=> Excess(u))
      BY <2>3 DEF Holding, Excess, Busy
    <2>6. ASSUME NEW d \in Bundles
          PROVE  HasSlot(d)' <=> HasSlot(d)
      <3>1. InQueue(d) <=> (InQueue(d)' \/ d = queue[1])
        <4>1. \A i \in DOMAIN queue : i # 1 => i - 1 \in DOMAIN queue' /\ queue'[i - 1] = queue[i]
          <5> TAKE i \in DOMAIN queue
          <5> HAVE i # 1
          <5>1. i - 1 \in DOMAIN queue' /\ i - 1 + 1 = i
            BY <2>2
          <5> QED
            BY <2>2, <5>1
        <4> QED
          BY <2>2, <4>1 DEF InQueue
      <3>2. \A u \in Threads : (thread'[u].on = d /\ Holding(u)') <=>
                               ((u = t /\ d = queue[1]) \/ (thread[u].on = d /\ Holding(u)))
        BY <2>3, <2>4, <2>5
      <3> QED
        BY <2>1, <3>1, <3>2 DEF HasSlot
    <2>7. /\ \A u \in Threads : Excess(u)' <=> Excess(u)
          /\ \A u \in Threads : Excess(u) => thread'[u].on = thread[u].on
      BY <2>3, <2>4, <2>5
    <2> QED
      BY <2>1, <2>6, <2>7, SlotsStay
  <1>11. ASSUME NEW t \in Threads, ArmTimer(t)
         PROVE  Balanced'
    <2>1. /\ Busy(t) /\ thread[t].then = "arm" /\ thread[t].plan = <<>> /\ At(t, "arm")
          /\ UNCHANGED <<queue, count, leaked>>
      BY <1>11 DEF ArmTimer, At
    <2>2. /\ thread[t].on \in Bundles /\ t[1] = "worker"
      BY <2>1, PlanDone DEF Sound
    <2>3. PICK b \in Bundles : b = thread[t].on
      BY <2>2
    <2> DEFINE u == <<"timer", b>>
               x == [on |-> b, plan |-> <<>>, then |-> "fire"]
    <2>4. u \in Threads /\ u # t /\ u[1] = "timer"
      BY <2>2 DEF Threads
    <2>5. thread' = [thread EXCEPT ![u] = x, ![t] = Idle]
      BY <1>11, <2>3 DEF ArmTimer
    <2>6. ~Busy(u)
      <3> SUFFICES ASSUME Busy(u)
                   PROVE  FALSE
        OBVIOUS
      <3>1. u = <<"timer", thread[u].on>>
        BY <2>4 DEF Worked, Sound
      <3>2. thread[u].on = b
        BY <3>1
      <3> QED
        BY <2>3, <2>4, <3>2 DEF Worked, OnePlace
    <2> HIDE DEF u
    <2>7. /\ thread'[t] = Idle /\ thread'[u] = x /\ \A v \in Threads : v # t /\ v # u => thread'[v] = thread[v]
      <3> HIDE DEF x
      <3> QED
        BY <2>4, <2>5 DEF Worked
    <2>8. thread'[u].on = b /\ thread'[u].then = "fire" /\ thread'[t].on = NoBundle
      BY <2>7 DEF Idle
    <2>9. b # NoBundle
      BY RelayV1Assumption
    <2>10. /\ Holding(t) /\ ~Holding(t)' /\ ~Holding(u) /\ Holding(u)'
           /\ ~Excess(t) /\ ~Excess(t)' /\ ~Excess(u) /\ ~Excess(u)'
      BY <2>1, <2>6, <2>8, <2>9 DEF Holding, Excess, Busy
    <2>11. \A v \in Threads : v # t /\ v # u => (Holding(v)' <=> Holding(v)) /\ (Excess(v)' <=> Excess(v))
      BY <2>7 DEF Holding, Excess, Busy
    <2>12. ASSUME NEW d \in Bundles
           PROVE  HasSlot(d)' <=> HasSlot(d)
      <3>1. InQueue(d)' <=> InQueue(d)
        BY <2>1 DEF InQueue
      <3>2. CASE d = b
        <4>1. HasSlot(b)
          BY <2>3, <2>10 DEF HasSlot
        <4>2. \E v \in Threads : thread'[v].on = b /\ Holding(v)'
          BY <2>4, <2>8, <2>10
        <4>3. HasSlot(b)'
          BY <4>2 DEF HasSlot
        <4> QED
          BY <3>2, <4>1, <4>3 DEF HasSlot, InQueue
      <3>3. CASE d # b
        <4>1. \A v \in Threads : (thread'[v].on = d /\ Holding(v)') <=> (thread[v].on = d /\ Holding(v))
          BY <2>3, <2>7, <2>8, <2>10, <2>11, <3>3
        <4> QED
          BY <3>1, <4>1 DEF HasSlot
      <3> QED
        BY <3>2, <3>3
    <2>13. /\ \A v \in Threads : Excess(v)' <=> Excess(v)
           /\ \A v \in Threads : Excess(v) => thread'[v].on = thread[v].on
      BY <2>7, <2>10, <2>11
    <2> QED
      BY <2>1, <2>12, <2>13, SlotsStay
  <1>12. CASE Crash
    <2>1. /\ count' = [c \in Clients |-> 0] /\ leaked' = {} /\ queue' = <<>>
          /\ thread' = [t \in Threads |-> Idle]
      BY <1>12 DEF Crash
    <2>2. \A t \in Threads : thread'[t].on = NoBundle
      BY <2>1 DEF Idle
    <2>3. (\A b \in Bundles : ~HasSlot(b)') /\ \A t \in Threads : ~Excess(t)'
      BY <2>1, <2>2, RelayV1Assumption DEF HasSlot, InQueue, Excess, Busy
    <2>4. \A c \in Clients : Held(c)' = {} /\ Charged(c)' = {} /\ Excesses(c)' = {}
      BY <2>1, <2>3 DEF Held, Charged, Excesses
    <2>5. count' \in [Clients -> Int] /\ \A c \in Clients : count'[c] = 0
      BY <2>1
    <2>6. IsFiniteSet({}) /\ Cardinality({}) = 0
      BY FS_EmptySet
    <2>7. 0 <= MaxInFlightPerClient
      BY RelayV1Assumption
    <2>8. ASSUME NEW c \in Clients
          PROVE  /\ IsFiniteSet(Held(c)') /\ IsFiniteSet(Charged(c)') /\ IsFiniteSet(Excesses(c)')
                 /\ count'[c] = Cardinality(Charged(c)') + Cardinality(Excesses(c)')
                 /\ Cardinality(Held(c)') <= MaxInFlightPerClient
      <3>1. Held(c)' = {} /\ Charged(c)' = {} /\ Excesses(c)' = {}
        BY <2>4
      <3> HIDE DEF Held, Charged, Excesses
      <3> QED
        BY <2>5, <2>6, <2>7, <3>1
    <2> QED
      BY <2>5, <2>8 DEF Balanced
  <1>13. CASE UNCHANGED vars
    BY <1>1, <1>13 DEF vars
  <1> QED
    BY <1>2, <1>3, <1>4, <1>5, <1>6, <1>7, <1>8, <1>9, <1>10, <1>11, <1>12, <1>13
       DEF Next, ThreadStep

-----------------------------------------------------------------------------
(* The theorems. *)

(***************************************************************************)
(* The relay starts with nothing stored, nothing in work and no slot taken.*)
(***************************************************************************)
LEMMA InitHolds ==
    ASSUME Init
    PROVE  RelayInv
  <1>1. /\ rec = [b \in Bundles |-> NoRecord] /\ disk = rec /\ audit = [b \in Bundles |-> NoLine]
        /\ queue = <<>> /\ count = [c \in Clients |-> 0] /\ thread = [t \in Threads |-> Idle]
        /\ acked = {} /\ leaked = {} /\ givenUp = {}
    BY DEF Init
  <1>2. Written
    BY <1>1 DEF Written, Record, Line, NoRecord, NoLine
  <1>3. \A t \in Threads : thread[t].on = NoBundle /\ ~Busy(t)
    BY <1>1 DEF Idle, Busy
  <1>4. Worked
    <2>1. thread \in [Threads -> ThreadType]
      <3>1. Idle \in ThreadType
        BY DEF Idle, ThreadType, Conts
      <3> QED
        BY <1>1, <3>1
    <2>2. OnePlace
      BY <1>1, <1>3 DEF OnePlace
    <2>3. WorkOwned
      BY <1>1 DEF WorkOwned, NoRecord
    <2>4. DOMAIN queue = {} /\ queue \in Seq(Bundles)
      BY <1>1
    <2> QED
      BY <1>1, <1>3, <2>1, <2>2, <2>3, <2>4 DEF Worked
  <1>5. \A c \in Clients : Held(c) = {} /\ Charged(c) = {} /\ Excesses(c) = {}
    <2>1. \A b \in Bundles : ~HasSlot(b)
      BY <1>1, <1>3, RelayV1Assumption DEF HasSlot, InQueue
    <2> QED
      BY <1>1, <1>3, <2>1 DEF Held, Charged, Excesses, Excess
  <1>6. Balanced
    <2>1. count \in [Clients -> Int] /\ \A c \in Clients : count[c] = 0
      BY <1>1
    <2>2. IsFiniteSet({}) /\ Cardinality({}) = 0 /\ 0 <= MaxInFlightPerClient
      BY FS_EmptySet, RelayV1Assumption
    <2>3. ASSUME NEW c \in Clients
          PROVE  /\ IsFiniteSet(Held(c)) /\ IsFiniteSet(Charged(c)) /\ IsFiniteSet(Excesses(c))
                 /\ count[c] = Cardinality(Charged(c)) + Cardinality(Excesses(c))
                 /\ Cardinality(Held(c)) <= MaxInFlightPerClient
      <3>1. Held(c) = {} /\ Charged(c) = {} /\ Excesses(c) = {}
        BY <1>5
      <3> HIDE DEF Held, Charged, Excesses
      <3> QED
        BY <2>1, <2>2, <3>1
    <2> QED
      BY <2>1, <2>3 DEF Balanced
  <1> QED
    BY <1>2, <1>4, <1>6 DEF RelayInv

(***************************************************************************)
(* What is written, what is in work and what the counters say stay in step *)
(* through every operation, failure and crash.                             *)
(***************************************************************************)
THEOREM RelayStaysSound == Spec => []RelayInv
  <1>1. Init => RelayInv
    BY InitHolds
  <1>2. RelayInv /\ [Next]_vars => RelayInv'
    BY WrittenHolds, WorkedHolds, BalancedHolds DEF RelayInv
  <1> QED
    BY <1>1, <1>2, PTL DEF Spec

(***************************************************************************)
(* An answer of 202 is never taken back: the snapshot holds the bundle as  *)
(* queued or later, whatever writes fail and whenever the process dies, and*)
(* the audit file never runs ahead of the snapshot.                        *)
(***************************************************************************)
THEOREM AcceptedIsDurable == Spec => []AckedIsDurable
  <1>1. RelayInv => AckedIsDurable
    BY DEF RelayInv, Written, AckedIsDurable, Early
  <1> QED
    BY <1>1, RelayStaysSound, PTL

(***************************************************************************)
(* A bundle is counted in the queue when it is there, and once.            *)
(***************************************************************************)
LEMMA QueuedOnce ==
    ASSUME Worked, NEW b \in Bundles
    PROVE  /\ Queues(b) \in {0, 1}
           /\ Queues(b) > 0 <=> InQueue(b)
  <1> DEFINE Q == {i \in DOMAIN queue : queue[i] = b}
  <1>1. ASSUME ~InQueue(b)
        PROVE  Queues(b) = 0
    <2>1. Q = {}
      BY <1>1 DEF InQueue
    <2> QED
      BY <2>1, FS_EmptySet DEF Queues
  <1>2. ASSUME InQueue(b)
        PROVE  Queues(b) = 1
    <2>1. PICK i \in DOMAIN queue : queue[i] = b
      BY <1>2 DEF InQueue
    <2>2. Q = {i}
      BY <2>1 DEF Worked, OnePlace
    <2> QED
      BY <2>2, FS_Singleton DEF Queues
  <1> QED
    BY <1>1, <1>2

(***************************************************************************)
(* The counter of a client is exact, and no client has more bundles in     *)
(* flight than its limit, although Inc adds first and looks afterwards.    *)
(***************************************************************************)
THEOREM SlotsAlwaysBalance == Spec => []SlotsBalance
  <1>1. ASSUME RelayInv
        PROVE  SlotsBalance
    <2> SUFFICES ASSUME NEW c \in Clients,
                        NEW own, own = {b \in Bundles : ClientOf[b] = c}
                 PROVE  /\ count[c] = Cardinality({b \in own : Holds(b) \/ b \in leaked})
                              + Cardinality({t \in Threads : Busy(t) /\ thread[t].then = "over"
                                                             /\ thread[t].on \in own})
                        /\ Cardinality({b \in own : Holds(b)}) <= MaxInFlightPerClient
      BY DEF SlotsBalance
    <2>1. Worked /\ Balanced
      BY <1>1 DEF RelayInv
    <2>2. \A b \in Bundles : Holds(b) <=> HasSlot(b)
      BY <2>1, QueuedOnce DEF Holds, HasSlot
    <2>3. \A t \in Threads : Busy(t) => thread[t].on \in Bundles
      BY <2>1 DEF Worked, ThreadType, Busy
    <2>4. {b \in own : Holds(b) \/ b \in leaked} = Charged(c)
      BY <2>2 DEF Charged
    <2>5. {b \in own : Holds(b)} = Held(c)
      BY <2>2 DEF Held
    <2>6. {t \in Threads : Busy(t) /\ thread[t].then = "over" /\ thread[t].on \in own} = Excesses(c)
      BY <2>3 DEF Excesses, Excess
    <2> QED
      BY <2>1, <2>4, <2>5, <2>6 DEF Balanced
  <1> QED
    BY <1>1, RelayStaysSound, PTL

(***************************************************************************)
(* Handler, queue, worker and timer hand a bundle on: it is never in two   *)
(* of these places, and while its record is not terminal it is in one,     *)
(* unless its thread ended on an error or the process died.                *)
(***************************************************************************)
THEOREM WorkAlwaysHasOwner == Spec => []WorkHasOwner
  <1>1. ASSUME RelayInv
        PROVE  WorkHasOwner
    <2> SUFFICES ASSUME NEW b \in Bundles
                 PROVE  /\ Owners(b) <= 1
                        /\ rec[b].state \notin terminalStates \cup {"none"} =>
                             Owners(b) > 0 \/ b \in givenUp
      BY DEF WorkHasOwner
    <2> DEFINE T == {t \in Threads : thread[t].on = b}
    <2>1. Worked
      BY <1>1 DEF RelayInv
    <2>2. Queues(b) \in {0, 1} /\ (Queues(b) > 0 <=> InQueue(b))
      BY <2>1, QueuedOnce
    <2>3. CASE T = {}
      <3>1. Owners(b) = Queues(b)
        BY <2>2, <2>3, FS_EmptySet DEF Owners
      <3>2. rec[b].state \notin terminalStates \cup {"none"} => InQueue(b) \/ b \in givenUp
        BY <2>1, <2>3 DEF Worked, WorkOwned
      <3> QED
        BY <2>2, <3>1, <3>2
    <2>4. CASE T # {}
      <3>1. PICK t \in Threads : thread[t].on = b
        BY <2>4
      <3>2. T = {t}
        <4>1. Busy(t)
          BY <3>1, RelayV1Assumption DEF Busy
        <4> QED
          BY <2>1, <3>1, <4>1 DEF Worked, OnePlace
      <3>3. ~InQueue(b)
        BY <2>1, <3>1 DEF Worked, OnePlace, InQueue
      <3>4. Queues(b) = 0
        BY <2>2, <3>3
      <3>5. Cardinality(T) = 1
        BY <3>2, FS_Singleton
      <3>6. Owners(b) = Queues(b) + Cardinality(T)
        BY DEF Owners
      <3>7. Owners(b) = 1
        BY <3>4, <3>5, <3>6
      <3> QED
        BY <3>7
    <2> QED
      BY <2>3, <2>4
  <1> QED
    BY <1>1, RelayStaysSound, PTL

-----------------------------------------------------------------------------
(* The relay v2: the inductive invariant, part by part. *)

CallType ==
    {c \in [op : {"move", "count", "schedule", "result", "seal", "release"}, b : Bundle,
            from : BundleState \cup {"none"}, to : BundleState \cup {"none"}] :
        IF c.op = "move" THEN c.from \in BundleState /\ c.to \in BundleState
        ELSE c.from = "none" /\ c.to = "none"}

\* The places where a thread goes on with its own bundle.
OwnLabels == {"admit", "reserve", "push", "enqueue", "check", "simulate", "repush"}
LoopLabels == {"idle", "next", "repush", "done"}

JobType == [b : Bundle \cup {0}, plan : Seq(CallType),
            then : OwnLabels \cup LoopLabels, else : OwnLabels \cup LoopLabels]

\* A checkpoint is put after the move to completed only.
SealsLast(p) ==
    \A i \in 1..Len(p) : i > 1 /\ p[i].op = "seal" =>
        p[i - 1].op = "move" /\ p[i - 1].b = p[i].b /\ p[i - 1].to = "completed"

Moves(c, b, s) == c.op = "move" /\ c.b = b /\ c.from = s /\ ValidateTransition(s, c.to)
Does(c, op, b) == c.op = op /\ c.b = b

(***************************************************************************)
(* From call i on, the job takes bundle b out of state s: the call is a    *)
(* legal move of it, or its result or its retry is written first, or the   *)
(* thread goes on with the bundle when all calls are made.                 *)
(***************************************************************************)
Takes(j, i, b, s) ==
    \/ i \in 1..Len(j.plan) /\ Moves(j.plan[i], b, s)
    \/ /\ i \in 1..Len(j.plan) /\ i + 1 \in 1..Len(j.plan)
       /\ Does(j.plan[i], "result", b) /\ Moves(j.plan[i + 1], b, s)
    \/ s = "retry_pending" /\ i \in 1..Len(j.plan) /\ Does(j.plan[i], "schedule", b)
    \/ /\ s = "retry_pending" /\ i \in 1..Len(j.plan) /\ i + 1 \in 1..Len(j.plan)
       /\ Does(j.plan[i], "count", b) /\ Does(j.plan[i + 1], "schedule", b)
    \/ /\ i = Len(j.plan) + 1 /\ j.b = b
       /\ \/ s = "simulating" /\ j.then = "simulate"
          \/ s = "validated" /\ j.then \in {"admit", "reserve", "push", "enqueue"}

\* Where a bundle may rest without a thread.
Resting == {"none", "queued", "completed"}

\* After every move of a plan the bundle rests, or the job takes it on.
Linked(j) ==
    \A i \in 1..Len(j.plan) : j.plan[i].op = "move" =>
        j.plan[i].to \in Resting \/ Takes(j, i + 1, j.plan[i].b, j.plan[i].to)

JobOK(t, j) ==
    /\ j \in JobType
    /\ j.then \in OwnLabels \/ j.else \in OwnLabels => j.b \in Bundle
    /\ t = Loop => j.then \in LoopLabels /\ j.else \in LoopLabels
    /\ SealsLast(j.plan) /\ Linked(j)

V2Types ==
    /\ state \in [Bundle -> BundleState \cup {"none"}]
    /\ terminal \in [Bundle -> Decisions \cup {"none"}]
    /\ sealed \in [Bundle -> {0, 1}]
    /\ schedule \subseteq Bundle /\ claimed \subseteq Bundle /\ ready \in Seq(Bundle)
    /\ mode \in {"on", "draining", "stopped"} /\ errors \in Nat
    /\ DOMAIN job = Thread /\ \A t \in Thread : JobOK(t, job[t])

(***************************************************************************)
(* The terminal field says of the state whether it is decided; the         *)
(* checkpoint is put in the end, and by one thread.                        *)
(***************************************************************************)
DecidedStates == Decisions \cup {"persisted", "completed"}
SealsNow(j, b) == j.plan # <<>> /\ Does(j.plan[1], "seal", b)
V2Evidence ==
    /\ \A b \in Bundle : /\ terminal[b] # "none" <=> state[b] \in DecidedStates
                         /\ sealed[b] = 1 => state[b] = "completed"
    /\ \A t \in Thread, b \in Bundle : SealsNow(job[t], b) =>
          /\ state[b] = "completed" /\ sealed[b] = 0
          /\ \A u \in Thread \ {t} : ~SealsNow(job[u], b)

(***************************************************************************)
(* While no call fails and nobody stops the process, every bundle that     *)
(* does not rest is taken on by a thread, or waits for its retry, and what *)
(* the retry loop has claimed it looks at before it claims more.           *)
(***************************************************************************)
Calm == errors = 0 /\ mode # "stopped"
Drives(j, b) ==
    \/ Takes(j, 1, b, state[b])
    \/ state[b] = "validated" /\ j.b = b /\ j.then = "enqueue" /\ j.else = "enqueue"
V2Driven ==
    Calm => /\ \A b \in Bundle : state[b] \notin Resting =>
                  \/ \E t \in Thread : Drives(job[t], b)
                  \/ state[b] = "retry_pending" /\ b \in schedule \cup claimed
            /\ job[Loop].then = "idle" \/ job[Loop].else = "idle" => claimed = {}

V2Inv == V2Types /\ V2Evidence /\ V2Driven

\* A legal move decides a bundle once, and only a decided one is persisted or completed.
LEMMA LegalMoves ==
    ASSUME NEW from \in BundleState, NEW to, ValidateTransition(from, to)
    PROVE  /\ to \in BundleState /\ from # "completed"
           /\ to \in Decisions => from \notin DecidedStates
           /\ to \notin Decisions => (to \in DecidedStates <=> from \in DecidedStates)
  BY DEF ValidateTransition, allowedTransitionsV2, BundleState, Decisions, DecidedStates

\* What the calls are.
LEMMA CallFields ==
    ASSUME NEW b \in Bundle
    PROVE  /\ \A x, y \in BundleState :
                  /\ Advance(b, x, y) \in CallType /\ Advance(b, x, y).op = "move"
                  /\ Advance(b, x, y).b = b /\ Advance(b, x, y).from = x /\ Advance(b, x, y).to = y
           /\ \A op \in {"count", "schedule", "result", "seal", "release"} :
                  Plain(op, b) \in CallType /\ Plain(op, b).op = op /\ Plain(op, b).b = b
  BY DEF Advance, Plain, Call, CallType

\* The five calls that settle a bundle.
LEMMA SettlePlan ==
    ASSUME NEW b \in Bundle, NEW from \in BundleState, NEW d \in Decisions
    PROVE  LET p == settleBundle(b, from, d) IN
           /\ p \in Seq(CallType) /\ Len(p) = 5
           /\ p[1] = Advance(b, from, d) /\ p[2] = Advance(b, d, "persisted")
           /\ p[3] = Advance(b, "persisted", "completed")
           /\ p[4] = Plain("seal", b) /\ p[5] = Plain("release", b)
<1> DEFINE a1 == Advance(b, from, d)
           a2 == Advance(b, d, "persisted")
           a3 == Advance(b, "persisted", "completed")
           a4 == Plain("seal", b)
           a5 == Plain("release", b)
<1>1. a1 \in CallType /\ a2 \in CallType /\ a3 \in CallType /\ a4 \in CallType /\ a5 \in CallType
    <2>1. {d, "persisted", "completed"} \subseteq BundleState BY DEF BundleState, Decisions
    <2> QED BY <2>1, CallFields
<1>2. settleBundle(b, from, d) = <<a1>> \o <<a2, a3, a4, a5>> BY DEF settleBundle, finishTerminal
<1> HIDE DEF a1, a2, a3, a4, a5
<1>3. <<a1>> \in Seq(CallType) /\ <<a2, a3, a4, a5>> \in Seq(CallType) BY <1>1
<1> DEFINE p == <<a1>> \o <<a2, a3, a4, a5>>
<1>4. p \in Seq(CallType) /\ Len(p) = 5 BY <1>3, ConcatProperties
<1>5. \A i \in 1..5 : p[i] = IF i <= 1 THEN <<a1>>[i] ELSE <<a2, a3, a4, a5>>[i - 1]
    BY <1>3, ConcatProperties
<1>6. p[1] = a1 /\ p[2] = a2 /\ p[3] = a3 /\ p[4] = a4 /\ p[5] = a5 BY <1>5
<1> QED BY <1>2, <1>4, <1>6 DEF a1, a2, a3, a4, a5

\* The eight calls that decide a bundle after its simulation.
LEMMA DecidePlan ==
    ASSUME NEW b \in Bundle, NEW d \in Decisions
    PROVE  LET p == decideBundle(b, d) IN
           /\ p \in Seq(CallType) /\ Len(p) = 8
           /\ p[1] = Advance(b, "simulating", "simulated") /\ p[2] = Advance(b, "simulated", "scored")
           /\ p[3] = Advance(b, "scored", d) /\ p[4] = Plain("result", b)
           /\ p[5] = Advance(b, d, "persisted") /\ p[6] = Advance(b, "persisted", "completed")
           /\ p[7] = Plain("seal", b) /\ p[8] = Plain("release", b)
<1> DEFINE a1 == Advance(b, "simulating", "simulated")
           a2 == Advance(b, "simulated", "scored")
           a3 == Advance(b, "scored", d)
           a4 == Plain("result", b)
           a5 == Advance(b, d, "persisted")
           a6 == Advance(b, "persisted", "completed")
           a7 == Plain("seal", b)
           a8 == Plain("release", b)
<1>1. /\ a1 \in CallType /\ a2 \in CallType /\ a3 \in CallType /\ a4 \in CallType
      /\ a5 \in CallType /\ a6 \in CallType /\ a7 \in CallType /\ a8 \in CallType
    <2>1. {d, "simulating", "simulated", "scored", "persisted", "completed"} \subseteq BundleState
        BY DEF BundleState, Decisions
    <2> QED BY <2>1, CallFields
<1>2. decideBundle(b, d) = <<a1, a2, a3, a4>> \o <<a5, a6, a7, a8>>
    BY DEF decideBundle, finishTerminal
<1> HIDE DEF a1, a2, a3, a4, a5, a6, a7, a8
<1>3. <<a1, a2, a3, a4>> \in Seq(CallType) /\ <<a5, a6, a7, a8>> \in Seq(CallType) BY <1>1
<1> DEFINE p == <<a1, a2, a3, a4>> \o <<a5, a6, a7, a8>>
<1>4. p \in Seq(CallType) /\ Len(p) = 8 BY <1>3, ConcatProperties
<1>5. \A i \in 1..8 : p[i] = IF i <= 4 THEN <<a1, a2, a3, a4>>[i] ELSE <<a5, a6, a7, a8>>[i - 4]
    BY <1>3, ConcatProperties
<1>6. /\ p[1] = a1 /\ p[2] = a2 /\ p[3] = a3 /\ p[4] = a4
      /\ p[5] = a5 /\ p[6] = a6 /\ p[7] = a7 /\ p[8] = a8
    BY <1>5
<1> QED BY <1>2, <1>4, <1>6 DEF a1, a2, a3, a4, a5, a6, a7, a8

\* The three calls that put a bundle back to be tried again.
LEMMA RetryPlan ==
    ASSUME NEW b \in Bundle
    PROVE  LET p == retryLater(b) IN
           /\ p \in Seq(CallType) /\ Len(p) = 3
           /\ p[1] = Advance(b, "simulating", "retry_pending")
           /\ p[2] = Plain("count", b) /\ p[3] = Plain("schedule", b)
<1> DEFINE a1 == Advance(b, "simulating", "retry_pending")
           a2 == Plain("count", b)
           a3 == Plain("schedule", b)
<1>1. a1 \in CallType /\ a2 \in CallType /\ a3 \in CallType
    BY CallFields DEF BundleState
<1> HIDE DEF a1, a2, a3
<1>2. <<a1, a2, a3>> \in Seq(CallType) BY <1>1
<1> QED BY <1>2 DEF a1, a2, a3, retryLater

\* Legal moves that plans rely on.
LEMMA PlannedMoves ==
    /\ ValidateTransition("persisted", "completed") /\ ValidateTransition("simulating", "simulated")
    /\ ValidateTransition("simulated", "scored") /\ ValidateTransition("simulating", "retry_pending")
    /\ ValidateTransition("received", "validated") /\ ValidateTransition("validated", "rejected")
    /\ ValidateTransition("validated", "queued") /\ ValidateTransition("queued", "simulating")
    /\ ValidateTransition("simulating", "dead_letter") /\ ValidateTransition("queued", "rejected")
    /\ ValidateTransition("retry_pending", "queued")
    /\ ValidateTransition("retry_pending", "dead_letter")
    /\ \A d \in Decisions : ValidateTransition(d, "persisted")
    /\ \A d \in {"forwarded", "rejected"} : ValidateTransition("scored", d)
  BY DEF ValidateTransition, allowedTransitionsV2, BundleState, Decisions

\* A job that has the settling of a bundle to do.
LEMMA SettleJob ==
    ASSUME NEW j, NEW b \in Bundle, NEW from \in BundleState, NEW d \in Decisions,
           j.plan = settleBundle(b, from, d)
    PROVE  /\ j.plan \in Seq(CallType) /\ j.plan # <<>> /\ ~\E c \in Bundle : SealsNow(j, c)
           /\ SealsLast(j.plan) /\ Linked(j)
           /\ ValidateTransition(from, d) => Takes(j, 1, b, from)
<1> DEFINE p == j.plan
<1>1. /\ p \in Seq(CallType) /\ Len(p) = 5
      /\ p[1] = Advance(b, from, d) /\ p[2] = Advance(b, d, "persisted")
      /\ p[3] = Advance(b, "persisted", "completed")
      /\ p[4] = Plain("seal", b) /\ p[5] = Plain("release", b)
    BY SettlePlan
<1>2. {d, "persisted", "completed"} \subseteq BundleState BY DEF BundleState, Decisions
<1>3. /\ p[1].op = "move" /\ p[1].b = b /\ p[1].from = from /\ p[1].to = d
      /\ p[2].op = "move" /\ p[2].b = b /\ p[2].from = d /\ p[2].to = "persisted"
      /\ p[3].op = "move" /\ p[3].b = b /\ p[3].from = "persisted" /\ p[3].to = "completed"
      /\ p[4].op = "seal" /\ p[4].b = b /\ p[5].op = "release"
    BY <1>1, <1>2, CallFields
<1> HIDE DEF p
<1>4. \A i \in 1..Len(p) : i \in {1, 2, 3, 4, 5} BY <1>1
<1>5. SealsLast(p)
    <2> SUFFICES ASSUME NEW i \in 1..Len(p), i > 1, p[i].op = "seal"
                 PROVE  p[i - 1].op = "move" /\ p[i - 1].b = p[i].b /\ p[i - 1].to = "completed"
        BY DEF SealsLast
    <2>1. i = 4 BY <1>3, <1>4
    <2> QED BY <2>1, <1>3
<1>6. /\ d \notin Resting => Takes(j, 2, b, d)
      /\ Takes(j, 3, b, "persisted")
    BY <1>1, <1>3, PlannedMoves DEF Takes, Moves, p
<1>7. Linked(j)
    <2> SUFFICES ASSUME NEW i \in 1..Len(p), p[i].op = "move"
                 PROVE  p[i].to \in Resting \/ Takes(j, i + 1, p[i].b, p[i].to)
        BY DEF Linked, p
    <2>1. i \in {1, 2, 3} BY <1>3, <1>4
    <2>2. CASE i = 1 BY <2>2, <1>3, <1>6
    <2>3. CASE i = 2 BY <2>3, <1>3, <1>6
    <2>4. CASE i = 3 BY <2>4, <1>3 DEF Resting
    <2> QED BY <2>1, <2>2, <2>3, <2>4
<1>8. ValidateTransition(from, d) => Takes(j, 1, b, from) BY <1>1, <1>3 DEF Takes, Moves, p
<1>9. p # <<>>
    <2>1. Len(<<>>) = 0 OBVIOUS
    <2>2. Len(p) = 5 BY <1>1
    <2> QED BY <2>1, <2>2
<1>10. ~\E c \in Bundle : SealsNow(j, c) BY <1>3 DEF SealsNow, Does, p
<1> QED BY <1>1, <1>5, <1>7, <1>8, <1>9, <1>10 DEF p

\* A job that decides a bundle after its simulation.
LEMMA DecideJob ==
    ASSUME NEW j, NEW b \in Bundle, NEW d \in {"forwarded", "rejected"}, j.plan = decideBundle(b, d)
    PROVE  /\ j.plan \in Seq(CallType) /\ j.plan # <<>> /\ ~\E c \in Bundle : SealsNow(j, c)
           /\ SealsLast(j.plan) /\ Linked(j) /\ Takes(j, 1, b, "simulating")
<1> DEFINE p == j.plan
<1>1. /\ p \in Seq(CallType) /\ Len(p) = 8
      /\ p[1] = Advance(b, "simulating", "simulated") /\ p[2] = Advance(b, "simulated", "scored")
      /\ p[3] = Advance(b, "scored", d) /\ p[4] = Plain("result", b)
      /\ p[5] = Advance(b, d, "persisted") /\ p[6] = Advance(b, "persisted", "completed")
      /\ p[7] = Plain("seal", b) /\ p[8] = Plain("release", b)
    <2>1. d \in Decisions BY DEF Decisions
    <2> QED BY <2>1, DecidePlan
<1>2. {d, "simulating", "simulated", "scored", "persisted", "completed"} \subseteq BundleState
    BY DEF BundleState
<1>3. /\ p[1].op = "move" /\ p[1].b = b /\ p[1].from = "simulating" /\ p[1].to = "simulated"
      /\ p[2].op = "move" /\ p[2].b = b /\ p[2].from = "simulated" /\ p[2].to = "scored"
      /\ p[3].op = "move" /\ p[3].b = b /\ p[3].from = "scored" /\ p[3].to = d
      /\ p[4].op = "result" /\ p[4].b = b
      /\ p[5].op = "move" /\ p[5].b = b /\ p[5].from = d /\ p[5].to = "persisted"
      /\ p[6].op = "move" /\ p[6].b = b /\ p[6].from = "persisted" /\ p[6].to = "completed"
      /\ p[7].op = "seal" /\ p[7].b = b /\ p[8].op = "release"
    BY <1>1, <1>2, CallFields
<1> HIDE DEF p
<1>4. \A i \in 1..Len(p) : i \in {1, 2, 3, 4, 5, 6, 7, 8} BY <1>1
<1>5. SealsLast(p)
    <2> SUFFICES ASSUME NEW i \in 1..Len(p), i > 1, p[i].op = "seal"
                 PROVE  p[i - 1].op = "move" /\ p[i - 1].b = p[i].b /\ p[i - 1].to = "completed"
        BY DEF SealsLast
    <2>1. i = 7 BY <1>3, <1>4
    <2> QED BY <2>1, <1>3
<1>6. /\ Takes(j, 1, b, "simulating") /\ Takes(j, 2, b, "simulated") /\ Takes(j, 3, b, "scored")
      /\ Takes(j, 4, b, d) /\ Takes(j, 6, b, "persisted")
    <2>1. ValidateTransition(d, "persisted") /\ ValidateTransition("scored", d)
        BY PlannedMoves DEF Decisions
    <2> QED BY <1>1, <1>3, <2>1, PlannedMoves DEF Takes, Moves, Does, p
<1>7. Linked(j)
    <2> SUFFICES ASSUME NEW i \in 1..Len(p), p[i].op = "move"
                 PROVE  p[i].to \in Resting \/ Takes(j, i + 1, p[i].b, p[i].to)
        BY DEF Linked, p
    <2>1. i \in {1, 2, 3, 5, 6} BY <1>3, <1>4
    <2>2. CASE i = 1 BY <2>2, <1>3, <1>6
    <2>3. CASE i = 2 BY <2>3, <1>3, <1>6
    <2>4. CASE i = 3 BY <2>4, <1>3, <1>6
    <2>5. CASE i = 5 BY <2>5, <1>3, <1>6
    <2>6. CASE i = 6 BY <2>6, <1>3 DEF Resting
    <2> QED BY <2>1, <2>2, <2>3, <2>4, <2>5, <2>6
<1>8. p # <<>>
    <2>1. Len(<<>>) = 0 OBVIOUS
    <2>2. Len(p) = 8 BY <1>1
    <2> QED BY <2>1, <2>2
<1>9. ~\E c \in Bundle : SealsNow(j, c) BY <1>3 DEF SealsNow, Does, p
<1> QED BY <1>1, <1>5, <1>6, <1>7, <1>8, <1>9 DEF p

\* A job that puts a bundle back to be tried again.
LEMMA RetryJob ==
    ASSUME NEW j, NEW b \in Bundle, j.plan = retryLater(b)
    PROVE  /\ j.plan \in Seq(CallType) /\ j.plan # <<>> /\ ~\E c \in Bundle : SealsNow(j, c)
           /\ SealsLast(j.plan) /\ Linked(j) /\ Takes(j, 1, b, "simulating")
<1> DEFINE p == j.plan
<1>1. /\ p \in Seq(CallType) /\ Len(p) = 3
      /\ p[1] = Advance(b, "simulating", "retry_pending")
      /\ p[2] = Plain("count", b) /\ p[3] = Plain("schedule", b)
    BY RetryPlan
<1>2. {"simulating", "retry_pending"} \subseteq BundleState BY DEF BundleState
<1>3. /\ p[1].op = "move" /\ p[1].b = b /\ p[1].from = "simulating" /\ p[1].to = "retry_pending"
      /\ p[2].op = "count" /\ p[2].b = b /\ p[3].op = "schedule" /\ p[3].b = b
    BY <1>1, <1>2, CallFields
<1> HIDE DEF p
<1>4. \A i \in 1..Len(p) : i \in {1, 2, 3} BY <1>1
<1>5. SealsLast(p) BY <1>3, <1>4 DEF SealsLast
<1>6. Takes(j, 1, b, "simulating") /\ Takes(j, 2, b, "retry_pending")
    BY <1>1, <1>3, PlannedMoves DEF Takes, Moves, Does, p
<1>7. Linked(j)
    <2> SUFFICES ASSUME NEW i \in 1..Len(p), p[i].op = "move"
                 PROVE  p[i].to \in Resting \/ Takes(j, i + 1, p[i].b, p[i].to)
        BY DEF Linked, p
    <2>1. i = 1 BY <1>3, <1>4
    <2> QED BY <2>1, <1>3, <1>6
<1>8. p # <<>>
    <2>1. Len(<<>>) = 0 OBVIOUS
    <2>2. Len(p) = 3 BY <1>1
    <2> QED BY <2>1, <2>2
<1>9. ~\E c \in Bundle : SealsNow(j, c) BY <1>3 DEF SealsNow, Does, p
<1> QED BY <1>1, <1>5, <1>6, <1>7, <1>8, <1>9 DEF p

\* A job with one move to make.
LEMMA MoveJob ==
    ASSUME NEW j, NEW b \in Bundle, NEW from \in BundleState, NEW to \in BundleState,
           j.plan = <<Advance(b, from, to)>>,
           \/ to = "queued"
           \/ j.b = b /\ to = "validated" /\ j.then = "admit"
           \/ j.b = b /\ to = "simulating" /\ j.then = "simulate"
    PROVE  /\ j.plan \in Seq(CallType) /\ j.plan # <<>> /\ ~\E c \in Bundle : SealsNow(j, c)
           /\ SealsLast(j.plan) /\ Linked(j)
           /\ ValidateTransition(from, to) => Takes(j, 1, b, from)
<1>1. /\ j.plan \in Seq(CallType) /\ Len(j.plan) = 1 /\ j.plan[1] = Advance(b, from, to)
    BY CallFields
<1>2. j.plan[1].op = "move" /\ j.plan[1].b = b /\ j.plan[1].from = from /\ j.plan[1].to = to
    BY <1>1, CallFields
<1>3. to \in Resting \/ Takes(j, 2, b, to) BY <1>1 DEF Resting, Takes
<1>4. Linked(j)
    <2> SUFFICES ASSUME NEW i \in 1..Len(j.plan), j.plan[i].op = "move"
                 PROVE  j.plan[i].to \in Resting \/ Takes(j, i + 1, j.plan[i].b, j.plan[i].to)
        BY DEF Linked
    <2>1. i = 1 BY <1>1
    <2> QED BY <2>1, <1>2, <1>3
<1>5. SealsLast(j.plan) BY <1>1 DEF SealsLast
<1>6. ValidateTransition(from, to) => Takes(j, 1, b, from) BY <1>1, <1>2 DEF Takes, Moves
<1>7. j.plan # <<>> /\ ~\E c \in Bundle : SealsNow(j, c) BY <1>1, <1>2 DEF SealsNow, Does
<1> QED BY <1>1, <1>4, <1>5, <1>6, <1>7

\* A job with nothing, or only the release, to do.
LEMMA ShortJob ==
    ASSUME NEW j, j.plan = <<>> \/ \E b \in Bundle : j.plan = <<Plain("release", b)>>
    PROVE  /\ j.plan \in Seq(CallType) /\ ~\E c \in Bundle : SealsNow(j, c)
           /\ SealsLast(j.plan) /\ Linked(j)
<1>1. CASE j.plan = <<>> BY <1>1 DEF SealsNow, SealsLast, Linked
<1>2. CASE \E b \in Bundle : j.plan = <<Plain("release", b)>>
    <2>1. PICK b \in Bundle : j.plan = <<Plain("release", b)>> BY <1>2
    <2>2. /\ j.plan \in Seq(CallType) /\ Len(j.plan) = 1 /\ j.plan[1].op = "release"
        BY <2>1, CallFields
    <2>3. \A i \in 1..Len(j.plan) : i = 1 BY <2>2
    <2> QED BY <2>2, <2>3 DEF SealsNow, Does, SealsLast, Linked
<1> QED BY <1>1, <1>2

\* A job that has made its first call is one whose calls fit, and takes on what the rest of the
\* plan takes on.
LEMMA TailJob ==
    ASSUME NEW j \in JobType, j.plan # <<>>, SealsLast(j.plan), Linked(j),
           NEW k, k = [j EXCEPT !.plan = Tail(@)]
    PROVE  /\ k \in JobType /\ k.b = j.b /\ k.then = j.then /\ k.else = j.else
           /\ SealsLast(k.plan) /\ Linked(k)
           /\ \A b, s : Takes(j, 2, b, s) => Takes(k, 1, b, s)
           /\ \A b : SealsNow(k, b) =>
                 j.plan[1].op = "move" /\ j.plan[1].b = b /\ j.plan[1].to = "completed"
<1>1. j.plan \in Seq(CallType) BY DEF JobType
<1>2. k \in JobType /\ k.b = j.b /\ k.then = j.then /\ k.else = j.else /\ k.plan = Tail(j.plan)
    BY <1>1, HeadTailProperties DEF JobType
<1>3. /\ Len(k.plan) = Len(j.plan) - 1 /\ Len(j.plan) \in Nat /\ Len(j.plan) # 0
      /\ \A i \in 1..Len(k.plan) : k.plan[i] = j.plan[i + 1]
    BY <1>1, <1>2, HeadTailProperties, EmptySeq, LenProperties
<1>4. SealsLast(k.plan)
    <2> SUFFICES ASSUME NEW i \in 1..Len(k.plan), i > 1, k.plan[i].op = "seal"
                 PROVE  /\ k.plan[i - 1].op = "move" /\ k.plan[i - 1].b = k.plan[i].b
                        /\ k.plan[i - 1].to = "completed"
        BY DEF SealsLast
    <2>1. i + 1 \in 1..Len(j.plan) /\ i + 1 > 1 /\ (i + 1) - 1 = i /\ i - 1 \in 1..Len(k.plan)
        BY <1>3
    <2>2. j.plan[i + 1] = k.plan[i] /\ k.plan[i - 1] = j.plan[i]
        <3>1. (i - 1) + 1 = i OBVIOUS
        <3> QED BY <1>3, <2>1, <3>1
    <2>3. j.plan[i].op = "move" /\ j.plan[i].b = j.plan[i + 1].b /\ j.plan[i].to = "completed"
        BY <2>1, <2>2 DEF SealsLast
    <2> QED BY <2>2, <2>3
<1>5. ASSUME NEW i \in Nat \ {0}, NEW b, NEW s, Takes(j, i + 1, b, s) PROVE Takes(k, i, b, s)
    <2>1. i + 1 \in 1..Len(j.plan) => i \in 1..Len(k.plan) /\ k.plan[i] = j.plan[i + 1] BY <1>3
    <2>2. (i + 1) + 1 \in 1..Len(j.plan) =>
              i + 1 \in 1..Len(k.plan) /\ k.plan[i + 1] = j.plan[(i + 1) + 1]
        BY <1>3
    <2>3. i + 1 = Len(j.plan) + 1 => i = Len(k.plan) + 1 BY <1>3
    <2> QED BY <1>2, <1>5, <2>1, <2>2, <2>3 DEF Takes
<1>6. Linked(k)
    <2> SUFFICES ASSUME NEW i \in 1..Len(k.plan), k.plan[i].op = "move"
                 PROVE  k.plan[i].to \in Resting \/ Takes(k, i + 1, k.plan[i].b, k.plan[i].to)
        BY DEF Linked
    <2>1. i + 1 \in 1..Len(j.plan) /\ k.plan[i] = j.plan[i + 1] /\ i + 1 \in Nat \ {0} BY <1>3
    <2>2. k.plan[i].to \in Resting \/ Takes(j, (i + 1) + 1, k.plan[i].b, k.plan[i].to)
        BY <2>1 DEF Linked
    <2> QED BY <1>5, <2>1, <2>2
<1>7. ASSUME NEW b, NEW s, Takes(j, 2, b, s) PROVE Takes(k, 1, b, s)
    <2>1. PICK i \in Nat \ {0} : i = 1 OBVIOUS
    <2>2. i + 1 = 2 BY <2>1
    <2>3. Takes(j, i + 1, b, s) BY <1>7, <2>2
    <2>4. Takes(k, i, b, s) BY <1>5, <2>3
    <2> QED BY <2>1, <2>4
<1>8. ASSUME NEW b, SealsNow(k, b)
      PROVE  j.plan[1].op = "move" /\ j.plan[1].b = b /\ j.plan[1].to = "completed"
    <2>1. k.plan # <<>> /\ k.plan[1].op = "seal" /\ k.plan[1].b = b BY <1>8 DEF SealsNow, Does
    <2>2. 1 \in 1..Len(k.plan) BY <1>2, <1>3, <2>1, EmptySeq, LenProperties DEF JobType
    <2>3. 2 \in 1..Len(j.plan) /\ j.plan[2] = k.plan[1]
        <3>1. 1 + 1 = 2 OBVIOUS
        <3> QED BY <1>3, <2>2, <3>1
    <2>4. 2 > 1 /\ 2 - 1 = 1 OBVIOUS
    <2>5. j.plan[1].op = "move" /\ j.plan[1].b = j.plan[2].b /\ j.plan[1].to = "completed"
        BY <2>1, <2>3, <2>4 DEF SealsLast
    <2> QED BY <2>1, <2>3, <2>5
<1> QED BY <1>2, <1>4, <1>6, <1>7, <1>8

(***************************************************************************)
(* Steps that only turn a thread to something else.                        *)
(***************************************************************************)
Switch(t, j) ==
    /\ job' = [job EXCEPT ![t] = j]
    /\ UNCHANGED <<state, terminal, sealed>>
    /\ JobOK(t, j) /\ ~\E b \in Bundle : SealsNow(j, b)
    /\ schedule' \subseteq Bundle /\ claimed' \subseteq Bundle /\ ready' \in Seq(Bundle)
    /\ mode' \in {"on", "draining", "stopped"} /\ errors' \in Nat

\* What the thread had taken on it keeps or leaves to the schedule.
HandsOver(t, j) ==
    /\ Calm
    /\ \A b \in Bundle :
          /\ state[b] \notin Resting
          /\ Drives(job[t], b) \/ (state[b] = "retry_pending" /\ b \in schedule \cup claimed)
          => Drives(j, b) \/ (state[b] = "retry_pending" /\ b \in (schedule \cup claimed)')
    /\ IF t = Loop THEN j.then = "idle" \/ j.else = "idle" => claimed' = {} ELSE claimed' = claimed

\* A thread that turns to something else keeps the invariant if it hands over what it had.
LEMMA SwitchKeeps ==
    ASSUME V2Inv, NEW t \in Thread, NEW j, Switch(t, j), Calm' => HandsOver(t, j)
    PROVE  V2Inv'
<1> USE DEF V2Inv
<1>1. /\ job'[t] = j /\ DOMAIN job' = Thread
      /\ \A u \in Thread \ {t} : job'[u] = job[u]
      /\ \A u \in Thread : JobOK(u, job'[u])
    BY DEF Switch, V2Types
<1>2. V2Types' BY <1>1 DEF Switch, V2Types
<1>3. V2Evidence'
    <2>1. \A u \in Thread, b \in Bundle : SealsNow(job'[u], b) => u # t /\ SealsNow(job[u], b)
        BY <1>1 DEF Switch
    <2> QED BY <2>1 DEF Switch, V2Evidence
<1>4. V2Driven'
    <2> SUFFICES ASSUME Calm' PROVE V2Driven' BY DEF V2Driven
    <2>1. HandsOver(t, j) /\ state' = state BY DEF Switch
    <2>2. ASSUME NEW b \in Bundle, state[b] \notin Resting
          PROVE  \/ \E u \in Thread : Drives(job'[u], b)
                 \/ state[b] = "retry_pending" /\ b \in (schedule \cup claimed)'
        <3>1. \/ \E u \in Thread : Drives(job[u], b)
              \/ state[b] = "retry_pending" /\ b \in schedule \cup claimed
            BY <2>1, <2>2 DEF HandsOver, V2Driven
        <3>2. CASE Drives(job[t], b) \/ (state[b] = "retry_pending" /\ b \in schedule \cup claimed)
            BY <1>1, <2>1, <2>2, <3>2 DEF HandsOver
        <3>3. CASE \E u \in Thread \ {t} : Drives(job[u], b) BY <1>1, <3>3
        <3> QED BY <3>1, <3>2, <3>3
    <2>3. job'[Loop].then = "idle" \/ job'[Loop].else = "idle" => claimed' = {}
        <3>1. Loop \in Thread BY DEF Loop, Thread
        <3>2. CASE t = Loop BY <1>1, <2>1, <3>2 DEF HandsOver
        <3>3. CASE t # Loop
            BY <1>1, <2>1, <3>1, <3>3 DEF HandsOver, V2Driven
        <3> QED BY <3>2, <3>3
    <2>4. \A b \in Bundle, u \in Thread : Drives(job'[u], b) => Drives(job[u], b)'
        BY <2>1 DEF Drives, Takes, Moves
    <2> QED BY <2>1, <2>2, <2>3, <2>4 DEF V2Driven
<1> QED BY <1>2, <1>3, <1>4

\* Most leave the schedule alone.
LEMMA TurnKeeps ==
    ASSUME V2Inv, NEW t \in Thread, NEW j, Switch(t, j), UNCHANGED <<schedule, claimed>>,
           Calm' => Calm,
           Calm => \A b \in Bundle : state[b] \notin Resting /\ Drives(job[t], b) => Drives(j, b),
           t = Loop => j.then # "idle" /\ j.else # "idle"
    PROVE  V2Inv'
  BY SwitchKeeps DEF HandsOver

\* A push keeps a queue of bundles, and what it pushes out is one.
LEMMA PushKeepsQueue ==
    ASSUME ready \in Seq(Bundle), NEW b \in Bundle
    PROVE  Pushed(b) \in Seq(Bundle) /\ PushedOut \subseteq Bundle
<1> DEFINE room == IF PushedOut = {} THEN ready ELSE SubSeq(ready, 1, Len(ready) - 1)
           idx  == Cardinality({i \in DOMAIN room : room[i] > b})
<1>1. Len(ready) \in Nat /\ \A i \in 1..Len(ready) : ready[i] \in Bundle
    BY LenProperties
<1>2. PushedOut \subseteq Bundle
    <2>1. QueueCap \in Nat \ {0} BY RelayV2Assumption
    <2>2. Len(ready) >= QueueCap => Len(ready) \in 1..Len(ready) BY <1>1, <2>1
    <2> QED BY <1>1, <2>2 DEF PushedOut
<1>3. room \in Seq(Bundle)
    <2>1. Len(ready) - 1 \in Int /\ \A i \in 1..(Len(ready) - 1) : ready[i] \in Bundle BY <1>1
    <2>2. SubSeq(ready, 1, Len(ready) - 1) \in Seq(Bundle) BY <2>1, SubSeqProperties
    <2> QED BY <2>2
<1> HIDE DEF room
<1>4. Len(room) \in Nat /\ DOMAIN room = 1..Len(room) /\ \A i \in 1..Len(room) : room[i] \in Bundle
    BY <1>3, LenProperties
<1>5. idx \in Nat /\ idx <= Len(room)
    <2>1. IsFiniteSet(1..Len(room)) /\ Cardinality(1..Len(room)) = Len(room)
        <3>1. PICK one \in Int : one = 1 OBVIOUS
        <3>2. /\ IsFiniteSet(one..Len(room))
              /\ Cardinality(one..Len(room)) = IF one > Len(room) THEN 0 ELSE Len(room) - one + 1
            <4>1. Len(room) \in Int BY <1>4
            <4> QED BY <3>1, <4>1, FS_Interval
        <3> QED BY <1>4, <3>1, <3>2
    <2>2. {i \in DOMAIN room : room[i] > b} \subseteq 1..Len(room) BY <1>4
    <2> QED BY <2>1, <2>2, FS_Subset, FS_CardinalityType
<1> HIDE DEF idx
<1>6. SubSeq(room, 1, idx) \in Seq(Bundle)
    <2>1. idx \in Int /\ \A i \in 1..idx : room[i] \in Bundle BY <1>4, <1>5
    <2> QED BY <2>1, SubSeqProperties
<1>7. SubSeq(room, idx + 1, Len(room)) \in Seq(Bundle)
    <2>1. idx + 1 \in Int /\ Len(room) \in Int /\ \A i \in (idx + 1)..Len(room) : room[i] \in Bundle
        BY <1>4, <1>5
    <2> QED BY <2>1, SubSeqProperties
<1>8. <<b>> \in Seq(Bundle) OBVIOUS
<1>9. SubSeq(room, 1, idx) \o <<b>> \o SubSeq(room, idx + 1, Len(room)) \in Seq(Bundle)
    BY <1>6, <1>7, <1>8, ConcatProperties
<1> QED BY <1>2, <1>9 DEF Pushed, room, idx

\* What a job that has made its calls has taken on.
LEMMA TakenWhenReached ==
    ASSUME NEW t \in Thread, V2Inv, NEW label, Reached(t, label), NEW b \in Bundle, Drives(job[t], b)
    PROVE  /\ job[t].b = b
           /\ \/ state[b] = "simulating" /\ label = "simulate"
              \/ state[b] = "validated" /\ label \in {"admit", "reserve", "push", "enqueue"}
<1>1. job[t].plan = <<>> /\ job[t].then = label /\ Len(job[t].plan) = 0 BY DEF Reached
<1> QED BY <1>1 DEF Drives, Takes

\* Jobs without calls.
LEMMA IdleJob ==
    ASSUME NEW t \in Thread, NEW b \in Bundle \cup {0}, NEW then \in OwnLabels \cup LoopLabels,
           then \in OwnLabels => b \in Bundle, t = Loop => then \in LoopLabels,
           NEW j, j = Job(b, <<>>, then, then)
    PROVE  /\ JobOK(t, j) /\ ~\E c \in Bundle : SealsNow(j, c)
           /\ j.b = b /\ j.plan = <<>> /\ j.then = then /\ j.else = then
<1>1. j.b = b /\ j.plan = <<>> /\ j.then = then /\ j.else = then BY DEF Job
<1>2. /\ j.plan \in Seq(CallType) /\ ~\E c \in Bundle : SealsNow(j, c)
      /\ SealsLast(j.plan) /\ Linked(j)
    BY <1>1, ShortJob
<1>3. j \in JobType BY <1>2, <1>1 DEF JobType, Job
<1> QED BY <1>1, <1>2, <1>3 DEF JobOK

\* Jobs whose fields are right.
LEMMA JobIsOK ==
    ASSUME NEW t \in Thread, NEW b \in Bundle, NEW plan \in Seq(CallType),
           NEW then \in OwnLabels \cup LoopLabels, NEW else \in OwnLabels \cup LoopLabels,
           t = Loop => then \in LoopLabels /\ else \in LoopLabels,
           NEW j, j = Job(b, plan, then, else), SealsLast(plan), Linked(j)
    PROVE  JobOK(t, j)
  BY DEF JobOK, Job, JobType

\* Settle: the thread has the settling of a bundle to do, and nothing after it.
LEMMA SettleTurns ==
    ASSUME NEW t \in Thread, NEW b \in Bundle, NEW from \in BundleState, NEW d \in Decisions,
           Settle(t, b, from, d)
    PROVE  \E j : /\ job' = [job EXCEPT ![t] = j] /\ JobOK(t, j) /\ ~\E c \in Bundle : SealsNow(j, c)
                  /\ ValidateTransition(from, d) => Takes(j, 1, b, from)
                  /\ t = Loop => j.then = "next" /\ j.else = "next"
<1>1. PICK e : e = End(t) OBVIOUS
<1>2. PICK plan : plan = settleBundle(b, from, d) OBVIOUS
<1>3. PICK j : j = [e EXCEPT !.b = b, !.plan = plan] OBVIOUS
<1>4. job' = [job EXCEPT ![t] = j] BY <1>1, <1>2, <1>3 DEF Settle, Become
<1>5. /\ e \in JobType /\ e.then \in LoopLabels /\ e.else = e.then
      /\ IF t = Loop THEN e.then = "next" ELSE e.then = "idle"
    BY <1>1 DEF End, NoJob, Job, JobType, LoopLabels
<1>6. plan \in Seq(CallType) BY <1>2, SettlePlan
<1>7. j \in JobType /\ j.b = b /\ j.plan = plan /\ j.then = e.then /\ j.else = e.else
    BY <1>3, <1>5, <1>6 DEF JobType
<1>8. j.plan = settleBundle(b, from, d) BY <1>2, <1>7
<1>9. /\ SealsLast(j.plan) /\ Linked(j) /\ ~\E c \in Bundle : SealsNow(j, c)
      /\ ValidateTransition(from, d) => Takes(j, 1, b, from)
    BY <1>8, SettleJob
<1>10. JobOK(t, j)
    <2>1. j.b \in Bundle /\ j.then \in LoopLabels /\ j.else \in LoopLabels BY <1>5, <1>7
    <2> QED BY <1>7, <1>9, <2>1 DEF JobOK
<1>11. t = Loop => j.then = "next" /\ j.else = "next" BY <1>5, <1>7
<1> QED BY <1>4, <1>9, <1>10, <1>11

\* A thread that has made its calls and settles a bundle.
LEMMA SettleKeeps ==
    ASSUME V2Inv, NEW t \in Thread, NEW b \in Bundle, NEW from \in BundleState, NEW d \in Decisions,
           Settle(t, b, from, d), UNCHANGED <<state, terminal, sealed, schedule, claimed, mode>>,
           ready' \in Seq(Bundle), errors' \in Nat, errors' >= errors,
           \A c \in Bundle : state[c] \notin Resting /\ Drives(job[t], c) =>
               c = b /\ state[c] = from /\ ValidateTransition(from, d)
    PROVE  V2Inv'
<1>1. PICK j : /\ job' = [job EXCEPT ![t] = j] /\ JobOK(t, j) /\ ~\E c \in Bundle : SealsNow(j, c)
               /\ ValidateTransition(from, d) => Takes(j, 1, b, from)
               /\ t = Loop => j.then = "next" /\ j.else = "next"
    BY SettleTurns
<1>2. Switch(t, j) BY <1>1 DEF Switch, V2Inv, V2Types
<1>3. Calm' => Calm BY DEF Calm, V2Inv, V2Types
<1>4. \A c \in Bundle : state[c] \notin Resting /\ Drives(job[t], c) => Drives(j, c)
    BY <1>1 DEF Drives
<1>5. t = Loop => j.then # "idle" /\ j.else # "idle" BY <1>1
<1> QED BY <1>2, <1>3, <1>4, <1>5, TurnKeeps

\* The owner of a job whose thread goes on with it.
LEMMA OwnBundle ==
    ASSUME V2Inv, NEW t \in Thread, NEW label \in OwnLabels, Reached(t, label)
    PROVE  /\ job[t] \in JobType /\ job[t].b \in Bundle /\ JobOK(t, job[t])
           /\ label # "repush" => t # Loop
<1>1. JobOK(t, job[t]) /\ job[t].then = label BY DEF V2Inv, V2Types, Reached
<1> QED BY <1>1 DEF JobOK, OwnLabels, LoopLabels

\* A thread that has made its calls and goes on with its bundle elsewhere.
LEMMA RelabelKeeps ==
    ASSUME V2Inv, NEW t \in Thread, NEW label \in {"admit", "reserve"},
           NEW next \in {"reserve", "push"}, Reached(t, label),
           Become(t, [job[t] EXCEPT !.then = next]),
           UNCHANGED <<state, terminal, sealed, schedule, claimed, mode, ready, errors>>
    PROVE  V2Inv'
<1>1. /\ job[t] \in JobType /\ job[t].b \in Bundle /\ JobOK(t, job[t]) /\ t # Loop
      /\ job[t].plan = <<>>
    BY OwnBundle DEF OwnLabels, Reached
<1>2. PICK j : j = [job[t] EXCEPT !.then = next] OBVIOUS
<1>3. j \in JobType /\ j.b = job[t].b /\ j.plan = <<>> /\ j.then = next
    BY <1>1, <1>2 DEF JobType, OwnLabels
<1>4. SealsLast(j.plan) /\ Linked(j) /\ ~\E c \in Bundle : SealsNow(j, c) BY <1>3, ShortJob
<1>5. JobOK(t, j) BY <1>1, <1>3, <1>4 DEF JobOK
<1>6. Switch(t, j) BY <1>2, <1>4, <1>5 DEF Switch, Become, V2Inv, V2Types
<1>7. \A c \in Bundle : Drives(job[t], c) => Drives(j, c)
    <2> SUFFICES ASSUME NEW c \in Bundle, Drives(job[t], c) PROVE Drives(j, c) OBVIOUS
    <2>1. job[t].b = c /\ state[c] = "validated" BY TakenWhenReached
    <2>2. Takes(j, 1, c, "validated") BY <1>3, <2>1 DEF Takes
    <2> QED BY <2>1, <2>2 DEF Drives
<1> QED BY <1>1, <1>6, <1>7, TurnKeeps DEF Calm

\* scoreAdmission refuses the bundle or lets it pass: it stays in the thread's hands.
LEMMA AdmitKeeps == ASSUME V2Inv, NEW t \in Thread, Admit(t) PROVE V2Inv'
<1>1. /\ Reached(t, "admit")
      /\ UNCHANGED <<state, terminal, sealed, schedule, claimed, mode, ready, errors>>
    BY DEF Admit
<1>2. ready' \in Seq(Bundle) /\ errors' \in Nat /\ errors' >= errors
    BY <1>1 DEF V2Inv, V2Types
<1>3. job[t].b \in Bundle BY <1>1, OwnBundle DEF OwnLabels
<1>4. CASE Settle(t, job[t].b, "validated", "rejected")
    <2>1. \A c \in Bundle : Drives(job[t], c) => c = job[t].b /\ state[c] = "validated"
        BY <1>1, TakenWhenReached
    <2>2. "validated" \in BundleState /\ "rejected" \in Decisions BY DEF BundleState, Decisions
    <2> QED BY <1>1, <1>2, <1>3, <1>4, <2>1, <2>2, SettleKeeps, PlannedMoves
<1>5. CASE Become(t, [job[t] EXCEPT !.then = "reserve"])
    BY <1>1, <1>5, RelabelKeeps
<1> QED BY <1>4, <1>5 DEF Admit

\* The counter of the client is asked: refused or not, the thread keeps the bundle.
LEMMA ReserveKeeps == ASSUME V2Inv, NEW t \in Thread, ReserveInflight(t) PROVE V2Inv'
<1>1. /\ Reached(t, "reserve")
      /\ UNCHANGED <<state, terminal, sealed, schedule, claimed, mode, ready>>
    BY DEF ReserveInflight
<1>2. ready' \in Seq(Bundle) /\ errors \in Nat BY <1>1 DEF V2Inv, V2Types
<1>3. job[t].b \in Bundle BY <1>1, OwnBundle DEF OwnLabels
<1>4. CASE Settle(t, job[t].b, "validated", "rejected") /\ (errors' = errors \/ errors' = errors + 1)
    <2>1. \A c \in Bundle : Drives(job[t], c) => c = job[t].b /\ state[c] = "validated"
        BY <1>1, TakenWhenReached
    <2>2. "validated" \in BundleState /\ "rejected" \in Decisions BY DEF BundleState, Decisions
    <2>3. errors' \in Nat /\ errors' >= errors BY <1>2, <1>4
    <2> QED BY <1>1, <1>2, <1>3, <1>4, <2>1, <2>2, <2>3, SettleKeeps, PlannedMoves
<1>5. CASE Become(t, [job[t] EXCEPT !.then = "push"]) /\ UNCHANGED errors
    BY <1>1, <1>5, RelabelKeeps
<1> QED BY <1>4, <1>5 DEF ReserveInflight

\* The push: the bundle stays with the submission until its record says queued, also while it
\* settles the one pushed out.
LEMMA PushKeeps == ASSUME V2Inv, NEW t \in Thread, Push(t) PROVE V2Inv'
<1>1. /\ Reached(t, "push")
      /\ UNCHANGED <<state, terminal, sealed, schedule, claimed, mode, errors>>
    BY DEF Push
<1>2. job[t].b \in Bundle /\ t # Loop BY <1>1, OwnBundle DEF OwnLabels
<1>3. ready \in Seq(Bundle) /\ errors \in Nat BY DEF V2Inv, V2Types
<1>4. \A c \in Bundle : Drives(job[t], c) => c = job[t].b /\ state[c] = "validated"
    BY <1>1, TakenWhenReached
<1>5. CASE Settle(t, job[t].b, "validated", "rejected") /\ UNCHANGED ready
    <2>1. "validated" \in BundleState /\ "rejected" \in Decisions BY DEF BundleState, Decisions
    <2>2. ready' \in Seq(Bundle) /\ errors' \in Nat /\ errors' >= errors BY <1>1, <1>3, <1>5
    <2> QED BY <1>1, <1>2, <1>4, <1>5, <2>1, <2>2, SettleKeeps, PlannedMoves
<1>6. CASE /\ ready' = Pushed(job[t].b)
           /\ IF PushedOut = {} THEN Become(t, Job(job[t].b, <<>>, "enqueue", "enqueue"))
              ELSE \E v \in PushedOut :
                      Become(t, Job(job[t].b, settleBundle(v, "queued", "rejected"),
                                    "enqueue", "enqueue"))
    <2>1. ready' \in Seq(Bundle) /\ PushedOut \subseteq Bundle
        BY <1>2, <1>3, <1>6, PushKeepsQueue
    <2>2. PICK j : /\ job' = [job EXCEPT ![t] = j] /\ JobOK(t, j)
                   /\ ~\E c \in Bundle : SealsNow(j, c)
                   /\ j.b = job[t].b /\ j.then = "enqueue" /\ j.else = "enqueue"
        <3>1. CASE PushedOut = {}
            <4>1. Become(t, Job(job[t].b, <<>>, "enqueue", "enqueue"))
                BY <1>6, <3>1
            <4>2. PICK j : j = Job(job[t].b, <<>>, "enqueue", "enqueue") OBVIOUS
            <4>3. PICK label \in OwnLabels : label = "enqueue" BY DEF OwnLabels
            <4>4. j = Job(job[t].b, <<>>, label, label) BY <4>2, <4>3
            <4>5. /\ JobOK(t, j) /\ ~\E c \in Bundle : SealsNow(j, c)
                  /\ j.b = job[t].b /\ j.then = label /\ j.else = label
                BY <1>2, <4>4, IdleJob
            <4> QED BY <4>1, <4>2, <4>3, <4>5 DEF Become
        <3>2. CASE PushedOut # {}
            <4>1. PICK v \in PushedOut :
                      Become(t, Job(job[t].b, settleBundle(v, "queued", "rejected"),
                                    "enqueue", "enqueue"))
                BY <1>6, <3>2
            <4>2. PICK plan : plan = settleBundle(v, "queued", "rejected") OBVIOUS
            <4>3. PICK j : j = Job(job[t].b, plan, "enqueue", "enqueue") OBVIOUS
            <4>4. /\ j.b = job[t].b /\ j.plan = plan /\ j.then = "enqueue" /\ j.else = "enqueue"
                BY <4>3 DEF Job
            <4>5. /\ plan \in Seq(CallType) /\ ~\E c \in Bundle : SealsNow(j, c)
                  /\ SealsLast(j.plan) /\ Linked(j)
                <5>1. "queued" \in BundleState /\ "rejected" \in Decisions /\ v \in Bundle
                    BY <2>1 DEF BundleState, Decisions
                <5>2. j.plan = settleBundle(v, "queued", "rejected") BY <4>2, <4>4
                <5> QED BY <4>4, <5>1, <5>2, SettleJob
            <4>6. j \in JobType BY <1>2, <4>3, <4>5 DEF Job, JobType, OwnLabels
            <4>7. JobOK(t, j) BY <1>2, <4>4, <4>5, <4>6 DEF JobOK
            <4> QED BY <4>1, <4>2, <4>3, <4>4, <4>5, <4>7 DEF Become
        <3> QED BY <3>1, <3>2
    <2>3. Switch(t, j) BY <1>1, <2>1, <2>2 DEF Switch, V2Inv, V2Types
    <2>4. \A c \in Bundle : Drives(job[t], c) => Drives(j, c) BY <1>4, <2>2 DEF Drives
    <2> QED BY <1>1, <1>2, <2>3, <2>4, TurnKeeps DEF Calm
<1> QED BY <1>5, <1>6 DEF Push

\* The submission is about to mark its bundle as queued.
LEMMA MarkQueuedKeeps == ASSUME V2Inv, NEW t \in Thread, MarkQueued(t) PROVE V2Inv'
<1>1. /\ Reached(t, "enqueue")
      /\ UNCHANGED <<state, terminal, sealed, schedule, claimed, mode, ready, errors>>
    BY DEF MarkQueued
<1>2. job[t].b \in Bundle /\ t # Loop BY <1>1, OwnBundle DEF OwnLabels
<1>3. PICK b \in Bundle : b = job[t].b BY <1>2
<1>4. PICK plan : plan = <<Advance(b, "validated", "queued")>> OBVIOUS
<1>5. PICK j : j = Job(b, plan, "idle", "idle") OBVIOUS
<1>6. job' = [job EXCEPT ![t] = j] BY <1>3, <1>4, <1>5 DEF MarkQueued, Become
<1>7. j.b = b /\ j.plan = plan /\ j.then = "idle" /\ j.else = "idle" BY <1>5 DEF Job
<1>8. /\ plan \in Seq(CallType) /\ ~\E c \in Bundle : SealsNow(j, c)
      /\ SealsLast(j.plan) /\ Linked(j) /\ Takes(j, 1, b, "validated")
    <2>1. "validated" \in BundleState /\ "queued" \in BundleState BY DEF BundleState
    <2>2. j.plan = <<Advance(b, "validated", "queued")>> BY <1>4, <1>7
    <2> QED BY <1>7, <2>1, <2>2, MoveJob, PlannedMoves
<1>9. j \in JobType BY <1>5, <1>8 DEF Job, JobType, LoopLabels
<1>10. JobOK(t, j) BY <1>2, <1>7, <1>8, <1>9 DEF JobOK, LoopLabels, OwnLabels
<1>11. Switch(t, j) BY <1>1, <1>6, <1>8, <1>10 DEF Switch, V2Inv, V2Types
<1>12. \A c \in Bundle : Drives(job[t], c) => c = b /\ state[c] = "validated"
    BY <1>1, <1>3, TakenWhenReached
<1>13. \A c \in Bundle : Drives(job[t], c) => Drives(j, c) BY <1>8, <1>12 DEF Drives
<1> QED BY <1>1, <1>2, <1>11, <1>13, TurnKeeps DEF Calm

\* A thread becomes idle, done, or starts with nothing called yet.
LEMMA FreshKeeps ==
    ASSUME V2Inv, NEW t \in Thread, NEW b \in Bundle \cup {0}, NEW label \in OwnLabels \cup LoopLabels,
           label \in OwnLabels => b \in Bundle, t = Loop => label \in LoopLabels,
           Become(t, Job(b, <<>>, label, label)),
           UNCHANGED <<state, terminal, sealed, schedule, claimed>>,
           mode' \in {"on", "draining", "stopped"},
           ready' \in Seq(Bundle), errors' \in Nat, Calm' => Calm,
           Calm' => \A c \in Bundle : state[c] \notin Resting => ~Drives(job[t], c),
           Calm' /\ t = Loop /\ label = "idle" => claimed = {}
    PROVE  V2Inv'
<1>1. PICK j : j = Job(b, <<>>, label, label) OBVIOUS
<1>2. /\ JobOK(t, j) /\ ~\E c \in Bundle : SealsNow(j, c)
      /\ j.then = label /\ j.else = label
    BY <1>1, IdleJob
<1>3. Switch(t, j) BY <1>1, <1>2 DEF Switch, Become, V2Inv, V2Types
<1>4. Calm' => HandsOver(t, j) BY <1>2 DEF HandsOver
<1> QED BY <1>3, <1>4, SwitchKeeps

\* An idle thread has nothing taken on.
LEMMA IdleTakesNothing ==
    ASSUME V2Inv, NEW t \in Thread, NEW label, Reached(t, label),
           label \notin {"admit", "reserve", "push", "enqueue", "simulate"}, NEW c \in Bundle
    PROVE  ~Drives(job[t], c)
  BY TakenWhenReached

\* A thread without a job has made its calls.
LEMMA NoJobReached ==
    ASSUME NEW t, job[t] = NoJob
    PROVE  Reached(t, "idle") /\ job[t].else = "idle"
  BY DEF NoJob, Job, Reached

\* A thread ends its job, and the retry loop its batch.
LEMMA ReturnsKeeps ==
    ASSUME V2Inv, NEW t \in Thread, Returns(t) \/ (t = Loop /\ BatchDone) PROVE V2Inv'
<1>1. /\ Become(t, NoJob)
      /\ UNCHANGED <<state, terminal, sealed, schedule, ready, mode, claimed, errors>>
      /\ \/ Reached(t, "idle")
         \/ t = Loop /\ Reached(t, "next") /\ claimed = {}
    BY DEF Returns, BatchDone
<1>2. PICK z \in Bundle \cup {0} : z = 0 OBVIOUS
<1>3. PICK label \in OwnLabels \cup LoopLabels : label = "idle" BY DEF LoopLabels
<1>4. Become(t, Job(z, <<>>, label, label)) BY <1>1, <1>2, <1>3 DEF NoJob
<1>5. label \notin OwnLabels /\ label \in LoopLabels BY <1>3 DEF OwnLabels, LoopLabels
<1>6. \A c \in Bundle : ~Drives(job[t], c) BY <1>1, IdleTakesNothing
<1>7. Calm /\ t = Loop => claimed = {} BY <1>1 DEF V2Inv, V2Driven, Reached
<1> QED BY <1>1, <1>4, <1>5, <1>6, <1>7, FreshKeeps DEF V2Inv, V2Types, Calm

\* A loop ends after the stop.
LEMMA LoopEndsKeeps == ASSUME V2Inv, NEW t \in Thread, LoopEnds(t) PROVE V2Inv'
<1>1. /\ mode = "stopped" /\ Become(t, Job(0, <<>>, "done", "done"))
      /\ UNCHANGED <<state, terminal, sealed, schedule, ready, mode, claimed, errors>>
    BY DEF LoopEnds
<1>2. PICK z \in Bundle \cup {0} : z = 0 OBVIOUS
<1>3. PICK label \in OwnLabels \cup LoopLabels : label = "done" BY DEF LoopLabels
<1>4. Become(t, Job(z, <<>>, label, label)) BY <1>1, <1>2, <1>3
<1>5. label \notin OwnLabels /\ label \in LoopLabels /\ label # "idle"
    BY <1>3 DEF OwnLabels, LoopLabels
<1>6. ~Calm' BY <1>1 DEF Calm
<1> QED BY <1>1, <1>4, <1>5, <1>6, FreshKeeps DEF V2Inv, V2Types

\* A worker pops a bundle, or drops it after the stop.
LEMMA PopKeeps == ASSUME V2Inv, NEW t \in Thread, Pop(t) PROVE V2Inv'
<1>1. /\ job[t] = NoJob /\ ready # <<>> /\ ready' = Tail(ready) /\ t[1] = "worker"
      /\ UNCHANGED <<state, terminal, sealed, schedule, mode, claimed, errors>>
      /\ Become(t, IF mode = "stopped" THEN Job(0, <<>>, "done", "done")
                   ELSE Job(Head(ready), <<>>, "check", "check"))
    BY DEF Pop
<1>2. ready' \in Seq(Bundle) /\ Head(ready) \in Bundle
    BY <1>1, HeadTailProperties DEF V2Inv, V2Types
<1>3. t # Loop BY <1>1 DEF Loop
<1>4. \A c \in Bundle : ~Drives(job[t], c) BY <1>1, NoJobReached, IdleTakesNothing
<1>5. PICK z \in Bundle \cup {0} : z = IF mode = "stopped" THEN 0 ELSE Head(ready) BY <1>2
<1>6. PICK label \in OwnLabels \cup LoopLabels :
          label = IF mode = "stopped" THEN "done" ELSE "check"
    BY DEF OwnLabels, LoopLabels
<1>7. Become(t, Job(z, <<>>, label, label)) BY <1>1, <1>5, <1>6
<1>8. label \in OwnLabels => z \in Bundle BY <1>2, <1>5, <1>6 DEF OwnLabels
<1>9. /\ mode' \in {"on", "draining", "stopped"} /\ errors' \in Nat /\ (Calm' => Calm)
    BY <1>1 DEF V2Inv, V2Types, Calm
<1> QED BY <1>1, <1>2, <1>3, <1>4, <1>7, <1>8, <1>9, FreshKeeps

\* A worker gives the bundle up, rejects it or picks it: it has rested as queued.
LEMMA CheckKeeps == ASSUME V2Inv, NEW t \in Thread, Check(t) PROVE V2Inv'
<1>1. /\ Reached(t, "check")
      /\ UNCHANGED <<state, terminal, sealed, schedule, ready, mode, claimed>>
    BY DEF Check
<1>2. job[t].b \in Bundle /\ t # Loop BY <1>1, OwnBundle DEF OwnLabels
<1>3. /\ ready' \in Seq(Bundle) /\ errors \in Nat /\ mode' \in {"on", "draining", "stopped"}
    BY <1>1 DEF V2Inv, V2Types
<1>4. \A c \in Bundle : ~Drives(job[t], c) BY <1>1, IdleTakesNothing
<1>5. PICK z \in Bundle \cup {0} : z = 0 OBVIOUS
<1>6. CASE mode = "stopped" /\ Become(t, Job(0, <<>>, "done", "done")) /\ UNCHANGED errors
    <2>1. PICK label \in OwnLabels \cup LoopLabels : label = "done" BY DEF LoopLabels
    <2>2. Become(t, Job(z, <<>>, label, label)) BY <1>5, <1>6, <2>1
    <2>3. label \notin OwnLabels BY <2>1 DEF OwnLabels
    <2>4. ~Calm' BY <1>1, <1>6 DEF Calm
    <2> QED BY <1>1, <1>2, <1>3, <1>4, <1>6, <2>2, <2>3, <2>4, FreshKeeps
<1>7. CASE errors' = errors + 1 /\ Become(t, NoJob)
    <2>1. PICK label \in OwnLabels \cup LoopLabels : label = "idle" BY DEF LoopLabels
    <2>2. Become(t, Job(z, <<>>, label, label)) BY <1>5, <1>7, <2>1 DEF NoJob
    <2>3. label \notin OwnLabels BY <2>1 DEF OwnLabels
    <2>4. ~Calm' /\ errors' \in Nat BY <1>3, <1>7 DEF Calm
    <2> QED BY <1>1, <1>2, <1>3, <1>4, <2>2, <2>3, <2>4, FreshKeeps
<1>8. CASE Settle(t, job[t].b, "queued", "rejected") /\ UNCHANGED errors
    <2>1. "queued" \in BundleState /\ "rejected" \in Decisions BY DEF BundleState, Decisions
    <2>2. errors' \in Nat /\ errors' >= errors BY <1>3, <1>8
    <2> QED BY <1>1, <1>2, <1>3, <1>4, <1>8, <2>1, <2>2, SettleKeeps
<1>9. CASE /\ Become(t, Job(job[t].b, <<Advance(job[t].b, "queued", "simulating")>>, "simulate", "idle"))
           /\ UNCHANGED errors
    <2>1. PICK b \in Bundle : b = job[t].b BY <1>2
    <2>2. PICK plan : plan = <<Advance(b, "queued", "simulating")>> OBVIOUS
    <2>3. PICK j : j = Job(b, plan, "simulate", "idle") OBVIOUS
    <2>4. job' = [job EXCEPT ![t] = j] BY <1>9, <2>1, <2>2, <2>3 DEF Become
    <2>5. j.b = b /\ j.plan = plan /\ j.then = "simulate" /\ j.else = "idle" BY <2>3 DEF Job
    <2>6. /\ plan \in Seq(CallType) /\ ~\E c \in Bundle : SealsNow(j, c)
          /\ SealsLast(j.plan) /\ Linked(j)
        <3>1. "queued" \in BundleState /\ "simulating" \in BundleState BY DEF BundleState
        <3>2. j.plan = <<Advance(b, "queued", "simulating")>> BY <2>2, <2>5
        <3> QED BY <2>5, <3>1, <3>2, MoveJob
    <2>7. j \in JobType BY <2>3, <2>6 DEF Job, JobType, OwnLabels, LoopLabels
    <2>8. JobOK(t, j) BY <1>2, <2>5, <2>6, <2>7 DEF JobOK
    <2>9. Switch(t, j) BY <1>1, <1>9, <2>4, <2>6, <2>8 DEF Switch, V2Inv, V2Types
    <2> QED BY <1>1, <1>2, <1>4, <1>9, <2>9, TurnKeeps DEF Calm
<1> QED BY <1>6, <1>7, <1>8, <1>9 DEF Check

\* The simulation decides the bundle, puts it back or gives it up: the worker keeps it.
LEMMA ProcessKeeps == ASSUME V2Inv, NEW t \in Thread, Process(t) PROVE V2Inv'
<1>1. /\ Reached(t, "simulate")
      /\ UNCHANGED <<state, terminal, sealed, schedule, ready, mode, claimed, errors>>
    BY DEF Process
<1>2. job[t].b \in Bundle /\ t # Loop BY <1>1, OwnBundle DEF OwnLabels
<1>3. PICK b \in Bundle : b = job[t].b BY <1>2
<1>4. \A c \in Bundle : Drives(job[t], c) => c = b /\ state[c] = "simulating"
    BY <1>1, <1>3, TakenWhenReached
<1>5. ASSUME NEW plan, Become(t, Job(b, plan, "idle", "idle")),
             \/ \E d \in {"forwarded", "rejected"} : plan = decideBundle(b, d)
             \/ plan = retryLater(b)
      PROVE  V2Inv'
    <2>1. PICK j : j = Job(b, plan, "idle", "idle") OBVIOUS
    <2>2. job' = [job EXCEPT ![t] = j] BY <1>5, <2>1 DEF Become
    <2>3. j.b = b /\ j.plan = plan /\ j.then = "idle" /\ j.else = "idle" BY <2>1 DEF Job
    <2>4. /\ j.plan \in Seq(CallType) /\ ~\E c \in Bundle : SealsNow(j, c)
          /\ SealsLast(j.plan) /\ Linked(j) /\ Takes(j, 1, b, "simulating")
        BY <1>5, <2>3, DecideJob, RetryJob
    <2>5. j \in JobType BY <2>1, <2>3, <2>4 DEF Job, JobType, LoopLabels
    <2>6. JobOK(t, j) BY <1>2, <2>3, <2>4, <2>5 DEF JobOK, LoopLabels, OwnLabels
    <2>7. Switch(t, j) BY <1>1, <2>2, <2>4, <2>6 DEF Switch, V2Inv, V2Types
    <2>8. \A c \in Bundle : Drives(job[t], c) => Drives(j, c) BY <1>4, <2>4 DEF Drives
    <2> QED BY <1>1, <1>2, <2>7, <2>8, TurnKeeps DEF Calm
<1>6. CASE \E d \in {"forwarded", "rejected"} : Become(t, Job(b, decideBundle(b, d), "idle", "idle"))
    BY <1>5, <1>6
<1>7. CASE Become(t, Job(b, retryLater(b), "idle", "idle")) BY <1>5, <1>7
<1>8. CASE Settle(t, b, "simulating", "dead_letter")
    <2>1. "simulating" \in BundleState /\ "dead_letter" \in Decisions BY DEF BundleState, Decisions
    <2>2. ready' \in Seq(Bundle) /\ errors' \in Nat /\ errors' >= errors
        BY <1>1 DEF V2Inv, V2Types
    <2> QED BY <1>1, <1>4, <1>8, <2>1, <2>2, SettleKeeps, PlannedMoves
<1> QED BY <1>3, <1>6, <1>7, <1>8 DEF Process

\* The retry loop claims what is due, having looked at all that it claimed before.
LEMMA ClaimKeeps == ASSUME V2Inv, ClaimDueRetries PROVE V2Inv'
<1>1. /\ Reached(Loop, "idle") /\ UNCHANGED <<state, terminal, sealed, ready, mode>>
      /\ Loop \in Thread
    BY DEF ClaimDueRetries, Loop, Thread
<1>2. PICK due \in SUBSET schedule :
          /\ schedule' = schedule \ due
          /\ \/ claimed' = due /\ Become(Loop, End(Loop)) /\ UNCHANGED errors
             \/ errors' = errors + 1 /\ UNCHANGED <<claimed, job>>
    BY DEF ClaimDueRetries
<1>3. /\ schedule \subseteq Bundle /\ claimed \subseteq Bundle /\ errors \in Nat
      /\ ready \in Seq(Bundle) /\ mode \in {"on", "draining", "stopped"}
      /\ DOMAIN job = Thread /\ \A t \in Thread : JobOK(t, job[t])
    BY DEF V2Inv, V2Types
<1>4. CASE claimed' = due /\ Become(Loop, End(Loop)) /\ UNCHANGED errors
    <2>1. PICK z \in Bundle \cup {0} : z = 0 OBVIOUS
    <2>2. PICK label \in OwnLabels \cup LoopLabels : label = "next" BY DEF LoopLabels
    <2>3. PICK j : j = Job(z, <<>>, label, label) OBVIOUS
    <2>4. label \in LoopLabels /\ label \notin OwnLabels BY <2>2 DEF LoopLabels, OwnLabels
    <2>5. /\ JobOK(Loop, j) /\ j.then = label /\ j.else = label
          /\ ~\E c \in Bundle : SealsNow(j, c)
        BY <1>1, <2>3, <2>4, IdleJob
    <2>6. job' = [job EXCEPT ![Loop] = j] BY <1>4, <2>1, <2>2, <2>3 DEF Become, End
    <2>7. Switch(Loop, j)
        <3>1. schedule' \subseteq Bundle /\ claimed' \subseteq Bundle BY <1>2, <1>3, <1>4
        <3>2. ready' \in Seq(Bundle) /\ mode' \in {"on", "draining", "stopped"} /\ errors' \in Nat
            BY <1>1, <1>3, <1>4
        <3> QED BY <1>1, <2>5, <2>6, <3>1, <3>2 DEF Switch
    <2>8. \A c \in Bundle : ~Drives(job[Loop], c) BY <1>1, IdleTakesNothing
    <2>9. Calm' => HandsOver(Loop, j)
        <3> SUFFICES ASSUME Calm' PROVE HandsOver(Loop, j) OBVIOUS
        <3>1. Calm BY <1>1, <1>4 DEF Calm
        <3>2. claimed = {} BY <1>1, <3>1 DEF V2Inv, V2Driven, Reached
        <3>3. schedule \cup claimed = (schedule \cup claimed)' BY <1>2, <1>4, <3>2
        <3>4. j.then # "idle" /\ j.else # "idle" BY <2>2, <2>5
        <3>5. \A b \in Bundle : b \in schedule \cup claimed => b \in (schedule \cup claimed)'
            BY <3>3
        <3> QED BY <2>8, <3>1, <3>4, <3>5 DEF HandsOver
    <2> QED BY <1>1, <2>7, <2>9, SwitchKeeps
<1>5. CASE errors' = errors + 1 /\ UNCHANGED <<claimed, job>>
    <2>1. ~Calm' BY <1>3, <1>5 DEF Calm
    <2>2. V2Types' BY <1>1, <1>2, <1>3, <1>5 DEF V2Inv, V2Types
    <2>3. V2Evidence' BY <1>1, <1>5 DEF V2Inv, V2Evidence
    <2> QED BY <2>1, <2>2, <2>3 DEF V2Inv, V2Driven
<1> QED BY <1>2, <1>4, <1>5

\* The retry loop takes on what it claimed and what still waits for its retry.
LEMMA ProcessRetryKeeps == ASSUME V2Inv, NEW b \in Bundle, ProcessRetry(b) PROVE V2Inv'
<1>1. /\ Reached(Loop, "next") /\ claimed' = claimed \ {b} /\ Loop \in Thread
      /\ UNCHANGED <<state, terminal, sealed, schedule, ready, mode>>
    BY DEF ProcessRetry, Loop, Thread
<1>2. /\ schedule \subseteq Bundle /\ claimed \subseteq Bundle /\ errors \in Nat
      /\ ready \in Seq(Bundle) /\ mode \in {"on", "draining", "stopped"}
      /\ DOMAIN job = Thread /\ \A t \in Thread : JobOK(t, job[t])
    BY DEF V2Inv, V2Types
<1>3. CASE (state[b] # "retry_pending" \/ errors' = errors + 1) /\ UNCHANGED job
           /\ errors' \in {errors, errors + 1}
    <2>1. V2Types' BY <1>1, <1>2, <1>3 DEF V2Inv, V2Types
    <2>2. V2Evidence' BY <1>1, <1>3 DEF V2Inv, V2Evidence
    <2>3. V2Driven'
        <3> SUFFICES ASSUME Calm' PROVE V2Driven' BY DEF V2Driven
        <3>1. Calm /\ state[b] # "retry_pending" BY <1>1, <1>2, <1>3 DEF Calm
        <3>2. ASSUME NEW c \in Bundle, state[c] \notin Resting
              PROVE  \/ \E t \in Thread : Drives(job[t], c)
                     \/ state[c] = "retry_pending" /\ c \in (schedule \cup claimed)'
            BY <1>1, <3>1, <3>2 DEF V2Inv, V2Driven
        <3>3. job[Loop].then = "idle" \/ job[Loop].else = "idle" => claimed' = {}
            BY <1>1, <3>1 DEF V2Inv, V2Driven
        <3>4. \A c \in Bundle, t \in Thread : Drives(job[t], c) => Drives(job[t], c)'
            BY <1>1, <1>3 DEF Drives, Takes, Moves
        <3> QED BY <1>1, <1>3, <3>2, <3>3, <3>4 DEF V2Driven
    <2> QED BY <2>1, <2>2, <2>3 DEF V2Inv
<1>4. ASSUME UNCHANGED errors, state[b] = "retry_pending",
             NEW j, job' = [job EXCEPT ![Loop] = j], JobOK(Loop, j),
             ~\E c \in Bundle : SealsNow(j, c), Takes(j, 1, b, "retry_pending"),
             j.then # "idle", j.else # "idle"
      PROVE  V2Inv'
    <2>1. Switch(Loop, j) BY <1>1, <1>2, <1>4 DEF Switch
    <2>2. \A c \in Bundle : ~Drives(job[Loop], c) BY <1>1, IdleTakesNothing
    <2>3. Drives(j, b) BY <1>4 DEF Drives
    <2>4. \A c \in (schedule \cup claimed) \ {b} : c \in (schedule \cup claimed)' BY <1>1
    <2>5. Calm' => HandsOver(Loop, j)
        BY <1>1, <1>4, <2>2, <2>3, <2>4 DEF HandsOver, Calm
    <2> QED BY <1>1, <2>1, <2>5, SwitchKeeps
<1>5. CASE state[b] = "retry_pending" /\ UNCHANGED errors /\ Settle(Loop, b, "retry_pending", "dead_letter")
    <2>1. "retry_pending" \in BundleState /\ "dead_letter" \in Decisions
        BY DEF BundleState, Decisions
    <2>2. PICK j : /\ job' = [job EXCEPT ![Loop] = j] /\ JobOK(Loop, j)
                   /\ ~\E c \in Bundle : SealsNow(j, c)
                   /\ Takes(j, 1, b, "retry_pending") /\ j.then = "next" /\ j.else = "next"
        BY <1>1, <1>5, <2>1, SettleTurns, PlannedMoves
    <2> QED BY <1>4, <1>5, <2>2
<1>6. CASE /\ state[b] = "retry_pending" /\ UNCHANGED errors
           /\ Become(Loop, Job(b, <<Advance(b, "retry_pending", "queued")>>, "repush", "next"))
    <2>1. PICK plan : plan = <<Advance(b, "retry_pending", "queued")>> OBVIOUS
    <2>2. PICK j : j = Job(b, plan, "repush", "next") OBVIOUS
    <2>3. job' = [job EXCEPT ![Loop] = j] BY <1>6, <2>1, <2>2 DEF Become
    <2>4. j.b = b /\ j.plan = plan /\ j.then = "repush" /\ j.else = "next" BY <2>2 DEF Job
    <2>5. /\ j.plan \in Seq(CallType) /\ ~\E c \in Bundle : SealsNow(j, c)
          /\ SealsLast(j.plan) /\ Linked(j) /\ Takes(j, 1, b, "retry_pending")
        <3>1. "retry_pending" \in BundleState /\ "queued" \in BundleState BY DEF BundleState
        <3>2. j.plan = <<Advance(b, "retry_pending", "queued")>> BY <2>1, <2>4
        <3> QED BY <3>1, <3>2, MoveJob, PlannedMoves
    <2>6. j \in JobType BY <2>2, <2>4, <2>5 DEF Job, JobType, OwnLabels, LoopLabels
    <2>7. JobOK(Loop, j) BY <2>4, <2>5, <2>6 DEF JobOK, LoopLabels
    <2> QED BY <1>4, <1>6, <2>3, <2>4, <2>5, <2>7
<1> QED BY <1>3, <1>5, <1>6 DEF ProcessRetry

\* The retry loop pushes a queued bundle or wants it dead, which is refused.
LEMMA RepushKeeps == ASSUME V2Inv, Repush PROVE V2Inv'
<1>1. /\ Reached(Loop, "repush") /\ Loop \in Thread
      /\ UNCHANGED <<state, terminal, sealed, schedule, mode, claimed, errors>>
    BY DEF Repush, Loop, Thread
<1>2. job[Loop].b \in Bundle BY <1>1, OwnBundle DEF OwnLabels
<1>3. \A c \in Bundle : ~Drives(job[Loop], c) BY <1>1, IdleTakesNothing
<1>4. ready \in Seq(Bundle) /\ errors' \in Nat /\ errors' >= errors
      /\ mode' \in {"on", "draining", "stopped"} /\ (Calm' => Calm)
    BY <1>1 DEF V2Inv, V2Types, Calm
<1>5. "queued" \in BundleState /\ "dead_letter" \in Decisions /\ "rejected" \in Decisions
    BY DEF BundleState, Decisions
<1>6. CASE Settle(Loop, job[Loop].b, "queued", "dead_letter") /\ UNCHANGED ready
    <2>1. ready' \in Seq(Bundle) BY <1>4, <1>6
    <2> QED BY <1>1, <1>2, <1>3, <1>4, <1>5, <1>6, <2>1, SettleKeeps
<1>7. CASE ready' = Pushed(job[Loop].b) /\ Become(Loop, End(Loop))
    <2>1. PICK z \in Bundle \cup {0} : z = 0 OBVIOUS
    <2>2. PICK label \in OwnLabels \cup LoopLabels : label = "next" BY DEF LoopLabels
    <2>3. Become(Loop, Job(z, <<>>, label, label)) BY <1>7, <2>1, <2>2 DEF End
    <2>4. label \in LoopLabels /\ label \notin OwnLabels /\ label # "idle"
        BY <2>2 DEF LoopLabels, OwnLabels
    <2>5. ready' \in Seq(Bundle) BY <1>2, <1>4, <1>7, PushKeepsQueue
    <2> QED BY <1>1, <1>3, <1>4, <2>3, <2>4, <2>5, FreshKeeps
<1>8. CASE ready' = Pushed(job[Loop].b) /\ \E v \in PushedOut : Settle(Loop, v, "queued", "rejected")
    <2>1. PICK v \in PushedOut : Settle(Loop, v, "queued", "rejected") BY <1>8
    <2>2. ready' \in Seq(Bundle) /\ v \in Bundle BY <1>2, <1>4, <1>8, <2>1, PushKeepsQueue
    <2> QED BY <1>1, <1>3, <1>4, <1>5, <2>1, <2>2, SettleKeeps
<1> QED BY <1>6, <1>7, <1>8 DEF Repush

\* Drain and Stop change the mode only.
LEMMA ModeKeeps == ASSUME V2Inv, Drain \/ StopService PROVE V2Inv'
<1>1. /\ UNCHANGED <<state, terminal, sealed, schedule, ready, claimed, job, errors>>
      /\ mode' \in {"draining", "stopped"} /\ (mode' = "draining" => mode = "on")
    BY DEF Drain, StopService
<1>2. V2Types' BY <1>1 DEF V2Inv, V2Types
<1>3. V2Evidence' BY <1>1 DEF V2Inv, V2Evidence
<1>4. V2Driven'
    <2> SUFFICES ASSUME Calm' PROVE V2Driven' BY DEF V2Driven
    <2>1. Calm BY <1>1 DEF Calm
    <2>2. \A c \in Bundle, t \in Thread : Drives(job[t], c) => Drives(job[t], c)'
        BY <1>1 DEF Drives, Takes, Moves
    <2> QED BY <1>1, <2>1, <2>2 DEF V2Inv, V2Driven
<1> QED BY <1>2, <1>3, <1>4 DEF V2Inv

\* A new bundle is accepted by the ledger, and its submission takes it on.
LEMMA CreateKeeps ==
    ASSUME V2Inv, NEW b \in Bundle, CreateBundle(b)
    PROVE  V2Inv' /\ Ledger!Accept(b)
<1>1. PICK t \in Thread : t = <<"submit", b>> BY DEF Thread
<1>2. /\ job[t] = NoJob /\ state[b] = "none" /\ state' = [state EXCEPT ![b] = "received"]
      /\ UNCHANGED <<terminal, sealed, schedule, ready, mode, claimed>>
      /\ \/ /\ Become(t, Job(b, <<Advance(b, "received", "validated")>>, "admit", "idle"))
            /\ UNCHANGED errors
         \/ errors' = errors + 1 /\ UNCHANGED job
    BY <1>1 DEF CreateBundle
<1>3. /\ schedule \subseteq Bundle /\ claimed \subseteq Bundle /\ errors \in Nat
      /\ ready \in Seq(Bundle) /\ mode \in {"on", "draining", "stopped"}
      /\ DOMAIN job = Thread /\ \A u \in Thread : JobOK(u, job[u])
      /\ state \in [Bundle -> BundleState \cup {"none"}]
    BY DEF V2Inv, V2Types
<1>4. t # Loop BY <1>1 DEF Loop
<1>5. /\ state'[b] = "received" /\ \A c \in Bundle \ {b} : state'[c] = state[c]
      /\ state' \in [Bundle -> BundleState \cup {"none"}]
    BY <1>2, <1>3 DEF BundleState
<1>6. Ledger!Accept(b)
    <2>1. b \notin {c \in Bundle : state[c] # "none"} BY <1>2
    <2>2. {c \in Bundle : state[c] # "none"}' = {c \in Bundle : state[c] # "none"} \cup {b}
        BY <1>5
    <2> QED BY <1>2, <2>1, <2>2 DEF Ledger!Accept
<1>7. PICK plan : plan = <<Advance(b, "received", "validated")>> OBVIOUS
<1>8. PICK j : j = Job(b, plan, "admit", "idle") OBVIOUS
<1>9. j.b = b /\ j.plan = plan /\ j.then = "admit" /\ j.else = "idle" BY <1>8 DEF Job
<1>10. /\ j.plan \in Seq(CallType) /\ ~\E c \in Bundle : SealsNow(j, c)
       /\ SealsLast(j.plan) /\ Linked(j) /\ Takes(j, 1, b, "received")
    <2>1. "received" \in BundleState /\ "validated" \in BundleState BY DEF BundleState
    <2>2. j.plan = <<Advance(b, "received", "validated")>> BY <1>7, <1>9
    <2> QED BY <1>9, <2>1, <2>2, MoveJob, PlannedMoves
<1>11. j \in JobType BY <1>8, <1>9, <1>10 DEF Job, JobType, OwnLabels, LoopLabels
<1>12. JobOK(t, j) BY <1>4, <1>9, <1>10, <1>11 DEF JobOK
<1>13. \/ job' = [job EXCEPT ![t] = j] /\ UNCHANGED errors
       \/ job' = job /\ errors' = errors + 1
    BY <1>2, <1>7, <1>8 DEF Become
<1>14. /\ DOMAIN job' = Thread /\ \A u \in Thread \ {t} : job'[u] = job[u]
       /\ job'[t] \in {j, job[t]} /\ errors' \in Nat
    BY <1>3, <1>13
<1>15. V2Types' BY <1>2, <1>3, <1>5, <1>12, <1>14 DEF V2Inv, V2Types
<1>16. V2Evidence'
    <2>1. \A u \in Thread, c \in Bundle : SealsNow(job'[u], c) => SealsNow(job[u], c)
        BY <1>10, <1>14
    <2>2. "received" \notin DecidedStates /\ "none" \notin DecidedStates
        BY DEF DecidedStates, Decisions
    <2>3. terminal' = terminal /\ sealed' = sealed BY <1>2
    <2>4. \A c \in Bundle : /\ terminal'[c] # "none" <=> state'[c] \in DecidedStates
                            /\ sealed'[c] = 1 => state'[c] = "completed"
        BY <1>2, <1>5, <2>2, <2>3 DEF V2Inv, V2Evidence
    <2>5. ASSUME NEW u \in Thread, NEW c \in Bundle, SealsNow(job'[u], c)
          PROVE  /\ state'[c] = "completed" /\ sealed'[c] = 0
                 /\ \A w \in Thread \ {u} : ~SealsNow(job'[w], c)
        <3>1. /\ state[c] = "completed" /\ sealed[c] = 0
              /\ \A w \in Thread \ {u} : ~SealsNow(job[w], c)
            BY <2>1, <2>5 DEF V2Inv, V2Evidence
        <3>2. c # b BY <1>2, <3>1
        <3> QED BY <1>5, <2>1, <2>3, <3>1, <3>2
    <2> QED BY <2>4, <2>5 DEF V2Evidence
<1>17. V2Driven'
    <2> SUFFICES ASSUME Calm' PROVE V2Driven' BY DEF V2Driven
    <2>1. Calm /\ job' = [job EXCEPT ![t] = j] BY <1>2, <1>3, <1>13 DEF Calm
    <2>2. \A c \in Bundle : ~Drives(job[t], c) BY <1>2, NoJobReached, IdleTakesNothing
    <2>3. Drives(j, b)' BY <1>5, <1>10 DEF Drives, Takes, Moves
    <2>4. \A c \in Bundle \ {b}, u \in Thread : Drives(job[u], c) => u # t /\ Drives(job[u], c)'
        BY SMTT(30), <1>5, <1>14, <2>2 DEF Drives, Takes, Moves
    <2>5. ASSUME NEW c \in Bundle, state'[c] \notin Resting
          PROVE  \/ \E u \in Thread : Drives(job[u], c)'
                 \/ state'[c] = "retry_pending" /\ c \in (schedule \cup claimed)'
        <3>1. CASE c = b
            <4>1. job'[t] = j BY <1>3, <2>1
            <4>2. Drives(job[t], b)' BY <2>3, <4>1 DEF Drives, Takes, Moves
            <4> QED BY <3>1, <4>2
        <3>2. CASE c # b
            BY <1>2, <1>5, <2>1, <2>4, <2>5, <3>2 DEF V2Inv, V2Driven
        <3> QED BY <3>1, <3>2
    <2>6. job'[Loop].then = "idle" \/ job'[Loop].else = "idle" => claimed' = {}
        <3>1. Loop \in Thread BY DEF Loop, Thread
        <3> QED BY <1>2, <1>4, <1>14, <2>1, <3>1 DEF V2Inv, V2Driven
    <2> QED BY <2>5, <2>6 DEF V2Driven
<1> QED BY <1>6, <1>15, <1>16, <1>17 DEF V2Inv

\* The call at the head of a plan.
LEMMA HeadCall ==
    ASSUME V2Inv, NEW t \in Thread, job[t].plan # <<>>, NEW c, c = Head(job[t].plan)
    PROVE  /\ c \in CallType /\ c.b \in Bundle /\ c = job[t].plan[1]
           /\ 1 \in 1..Len(job[t].plan)
           /\ job[t] \in JobType /\ JobOK(t, job[t])
<1>1. JobOK(t, job[t]) /\ job[t] \in JobType BY DEF V2Inv, V2Types, JobOK
<1>2. job[t].plan \in Seq(CallType) BY <1>1 DEF JobType
<1>3. c \in CallType /\ c = job[t].plan[1] BY <1>2
<1>4. Len(job[t].plan) \in Nat \ {0} BY <1>2, EmptySeq
<1> QED BY <1>1, <1>3, <1>4 DEF CallType

\* After an error a thread has to settle a retry, to release, or nothing to do.
LEMMA ErrorTurns ==
    ASSUME V2Inv, NEW t \in Thread, job[t].plan # <<>>, NEW c, c = Head(job[t].plan),
           NEW emitted \in BOOLEAN, AfterError(t, c, emitted)
    PROVE  \E j : /\ job' = [job EXCEPT ![t] = j] /\ JobOK(t, j)
                  /\ ~\E b \in Bundle : SealsNow(j, b)
                  /\ c.op = "move" /\ ~emitted =>
                        /\ j.plan = <<>> /\ j.b = job[t].b
                        /\ j.then = job[t].else /\ j.else = job[t].else
<1>1. /\ c \in CallType /\ c.b \in Bundle /\ job[t] \in JobType /\ JobOK(t, job[t])
    BY HeadCall
<1>2. PICK o : o = job[t] OBVIOUS
<1>3. CASE c.op = "schedule"
    <2>1. PICK plan : plan = settleBundle(c.b, "retry_pending", "dead_letter") OBVIOUS
    <2>2. PICK j : j = [o EXCEPT !.plan = plan] OBVIOUS
    <2>3. job' = [job EXCEPT ![t] = j]
        <3>1. Become(t, [job[t] EXCEPT !.plan = settleBundle(c.b, "retry_pending", "dead_letter")])
            <4>1. ~Deferred(c, emitted) BY <1>1, <1>3 DEF Deferred, CallType
            <4> QED BY <1>3, <4>1 DEF AfterError
        <3> QED BY <1>2, <2>1, <2>2, <3>1 DEF Become
    <2>4. "retry_pending" \in BundleState /\ "dead_letter" \in Decisions
        BY DEF BundleState, Decisions
    <2>5. plan \in Seq(CallType) BY <1>1, <2>1, <2>4, SettlePlan
    <2>6. j \in JobType /\ j.b = o.b /\ j.plan = plan /\ j.then = o.then /\ j.else = o.else
        BY <1>1, <1>2, <2>2, <2>5 DEF JobType
    <2>7. j.plan = settleBundle(c.b, "retry_pending", "dead_letter") BY <2>1, <2>6
    <2>8. /\ SealsLast(j.plan) /\ Linked(j) /\ ~\E b \in Bundle : SealsNow(j, b)
        BY <1>1, <2>4, <2>7, SettleJob
    <2>9. JobOK(t, j) BY <1>1, <1>2, <2>6, <2>8 DEF JobOK
    <2> QED BY <1>3, <2>3, <2>8, <2>9
<1>4. CASE c.op # "schedule"
    <2>1. PICK plan : /\ plan = <<>> \/ \E b \in Bundle : plan = <<Plain("release", b)>>
                      /\ Become(t, [job[t] EXCEPT !.plan = plan, !.then = job[t].else])
                      /\ c.op = "move" /\ ~emitted => plan = <<>>
        <3>1. CASE Deferred(c, emitted)
            <4>1. Become(t, [job[t] EXCEPT !.plan = <<Plain("release", c.b)>>, !.then = job[t].else])
                BY <1>4, <3>1 DEF AfterError
            <4>2. ~(c.op = "move" /\ ~emitted) BY <3>1 DEF Deferred
            <4> QED BY <1>1, <4>1, <4>2
        <3>2. CASE ~Deferred(c, emitted) BY <1>4, <3>2 DEF AfterError
        <3> QED BY <3>1, <3>2
    <2>2. PICK label : label = o.else OBVIOUS
    <2>3. PICK j : j = [o EXCEPT !.plan = plan, !.then = label] OBVIOUS
    <2>4. job' = [job EXCEPT ![t] = j] BY <1>2, <2>1, <2>2, <2>3 DEF Become
    <2>5. plan \in Seq(CallType)
        <3>1. CASE plan = <<>> BY <3>1
        <3>2. CASE \E b \in Bundle : plan = <<Plain("release", b)>>
            <4>1. PICK b \in Bundle : plan = <<Plain("release", b)>> BY <3>2
            <4>2. Plain("release", b) \in CallType BY CallFields
            <4> QED BY <4>1, <4>2
        <3> QED BY <2>1, <3>1, <3>2
    <2>6. label \in OwnLabels \cup LoopLabels BY <1>1, <1>2, <2>2 DEF JobType
    <2>7. j \in JobType /\ j.b = o.b /\ j.plan = plan /\ j.then = label /\ j.else = o.else
        BY <1>1, <1>2, <2>3, <2>5, <2>6 DEF JobType
    <2>8. j.plan = <<>> \/ \E b \in Bundle : j.plan = <<Plain("release", b)>> BY <2>1, <2>7
    <2>9. /\ SealsLast(j.plan) /\ Linked(j) /\ ~\E b \in Bundle : SealsNow(j, b)
        BY <2>8, ShortJob
    <2>10. JobOK(t, j) BY <1>1, <1>2, <2>2, <2>7, <2>9 DEF JobOK
    <2> QED BY <1>2, <2>1, <2>2, <2>4, <2>7, <2>9, <2>10
<1> QED BY <1>3, <1>4

\* What a call that takes effect does.
LEMMA Effects ==
    ASSUME V2Inv, NEW c \in CallType, TakesEffect(c)
    PROVE  /\ state' = IF c.op = "move" THEN [state EXCEPT ![c.b] = c.to] ELSE state
           /\ terminal' = IF c.op = "move" /\ c.to \in Decisions
                          THEN [terminal EXCEPT ![c.b] = c.to] ELSE terminal
           /\ sealed' = IF c.op = "seal" THEN [sealed EXCEPT ![c.b] = @ + 1] ELSE sealed
           /\ schedule' = IF c.op = "schedule" THEN schedule \cup {c.b} ELSE schedule
<1>1. /\ state \in [Bundle -> BundleState \cup {"none"}]
      /\ terminal \in [Bundle -> Decisions \cup {"none"}]
      /\ sealed \in [Bundle -> {0, 1}] /\ c.b \in Bundle
    BY DEF V2Inv, V2Types, CallType
<1>2. state' = [state EXCEPT ![c.b] = IF c.op = "move" THEN c.to ELSE @]
    BY DEF TakesEffect, TransitionBundle
<1>3. terminal' = [terminal EXCEPT ![c.b] = IF c.op = "move" /\ c.to \in Decisions THEN c.to ELSE @]
    BY DEF TakesEffect, TransitionBundle
<1>4. sealed' = [sealed EXCEPT ![c.b] = IF c.op = "seal" THEN @ + 1 ELSE @]
    BY DEF TakesEffect, PutCheckpoint
<1>5. schedule' = IF c.op = "schedule" THEN schedule \cup {c.b} ELSE schedule
    BY DEF TakesEffect, ScheduleRetry
<1>6. state' = IF c.op = "move" THEN [state EXCEPT ![c.b] = c.to] ELSE state BY <1>1, <1>2
<1>7. terminal' = IF c.op = "move" /\ c.to \in Decisions
                  THEN [terminal EXCEPT ![c.b] = c.to] ELSE terminal
    BY <1>1, <1>3
<1>8. sealed' = IF c.op = "seal" THEN [sealed EXCEPT ![c.b] = @ + 1] ELSE sealed BY <1>1, <1>4
<1> QED BY <1>5, <1>6, <1>7, <1>8

(***************************************************************************)
(* A call that takes effect keeps the types and the evidence, and is a     *)
(* decision, a seal or nothing to the ledger.                              *)
(***************************************************************************)
LEMMA EffectKeeps ==
    ASSUME V2Inv, NEW t \in Thread, job[t].plan # <<>>, NEW c, c = Head(job[t].plan),
           StoreAccepts(c), TakesEffect(c),
           NEW j, job' = [job EXCEPT ![t] = j], JobOK(t, j),
           \A b \in Bundle : SealsNow(j, b) => c.op = "move" /\ c.b = b /\ c.to = "completed",
           UNCHANGED <<ready, mode, claimed>>, errors' \in Nat
    PROVE  V2Types' /\ V2Evidence' /\ (Ledger!Next \/ UNCHANGED Ledger!vars)
<1>1. /\ c \in CallType /\ c.b \in Bundle /\ c = job[t].plan[1]
      /\ job[t] \in JobType /\ JobOK(t, job[t])
    BY HeadCall
<1>2. /\ state \in [Bundle -> BundleState \cup {"none"}]
      /\ terminal \in [Bundle -> Decisions \cup {"none"}]
      /\ sealed \in [Bundle -> {0, 1}]
      /\ schedule \subseteq Bundle /\ claimed \subseteq Bundle /\ ready \in Seq(Bundle)
      /\ mode \in {"on", "draining", "stopped"}
      /\ DOMAIN job = Thread /\ \A u \in Thread : JobOK(u, job[u])
    BY DEF V2Inv, V2Types
<1>3. /\ job'[t] = j /\ DOMAIN job' = Thread /\ \A u \in Thread \ {t} : job'[u] = job[u]
      /\ \A u \in Thread : JobOK(u, job'[u])
    BY <1>2
<1>4. /\ \A b \in Bundle : /\ terminal[b] # "none" <=> state[b] \in DecidedStates
                           /\ sealed[b] = 1 => state[b] = "completed"
      /\ \A u \in Thread, b \in Bundle : SealsNow(job[u], b) =>
            /\ state[b] = "completed" /\ sealed[b] = 0
            /\ \A w \in Thread \ {u} : ~SealsNow(job[w], b)
    BY DEF V2Inv, V2Evidence
<1>5. /\ state' = IF c.op = "move" THEN [state EXCEPT ![c.b] = c.to] ELSE state
      /\ terminal' = IF c.op = "move" /\ c.to \in Decisions
                     THEN [terminal EXCEPT ![c.b] = c.to] ELSE terminal
      /\ sealed' = IF c.op = "seal" THEN [sealed EXCEPT ![c.b] = @ + 1] ELSE sealed
      /\ schedule' = IF c.op = "schedule" THEN schedule \cup {c.b} ELSE schedule
    BY <1>1, Effects
<1>6. schedule' \subseteq Bundle BY <1>1, <1>2, <1>5
<1>7. CASE c.op = "move"
    <2>1. PICK b \in Bundle : b = c.b BY <1>1
    <2>2. PICK from \in BundleState, to \in BundleState : from = c.from /\ to = c.to BY <1>1, <1>7 DEF CallType
    <2>3. state[b] = from /\ ValidateTransition(from, to)
        BY <1>7, <2>1, <2>2 DEF StoreAccepts
    <2>4. /\ to \in BundleState /\ from # "completed"
          /\ to \in Decisions => from \notin DecidedStates
          /\ to \notin Decisions => (to \in DecidedStates <=> from \in DecidedStates)
        BY <2>3, LegalMoves
    <2>5. /\ state'[b] = to /\ \A x \in Bundle \ {b} : state'[x] = state[x]
          /\ state' \in [Bundle -> BundleState \cup {"none"}] /\ sealed' = sealed
        BY <1>2, <1>5, <1>7, <2>1, <2>2, <2>4
    <2>6. /\ terminal'[b] = IF to \in Decisions THEN to ELSE terminal[b]
          /\ \A x \in Bundle \ {b} : terminal'[x] = terminal[x]
          /\ terminal' \in [Bundle -> Decisions \cup {"none"}]
        BY <1>2, <1>5, <1>7, <2>1, <2>2
    <2>7. V2Types' BY <1>2, <1>3, <1>6, <2>5, <2>6 DEF V2Types
    <2>8. sealed[b] = 0 /\ "none" \notin Decisions /\ "none" \notin BundleState
          /\ Decisions \subseteq DecidedStates
        BY <1>2, <1>4, <2>3, <2>4 DEF Decisions, BundleState, DecidedStates
    <2>9. \A x \in Bundle : /\ terminal'[x] # "none" <=> state'[x] \in DecidedStates
                            /\ sealed'[x] = 1 => state'[x] = "completed"
        <3> SUFFICES ASSUME NEW x \in Bundle
                     PROVE  /\ terminal'[x] # "none" <=> state'[x] \in DecidedStates
                            /\ sealed'[x] = 1 => state'[x] = "completed"
            OBVIOUS
        <3>1. CASE x # b BY <1>4, <2>5, <2>6, <3>1
        <3>2. CASE x = b
            <4>1. terminal[b] # "none" <=> from \in DecidedStates BY <1>4, <2>3
            <4> QED BY <2>4, <2>5, <2>6, <2>8, <3>2, <4>1
        <3> QED BY <3>1, <3>2
    <2>10. ASSUME NEW u \in Thread, NEW x \in Bundle, SealsNow(job'[u], x)
           PROVE  /\ state'[x] = "completed" /\ sealed'[x] = 0
                  /\ \A w \in Thread \ {u} : ~SealsNow(job'[w], x)
        <3>1. CASE u = t
            <4>1. x = b /\ to = "completed" BY <1>3, <2>1, <2>2, <2>10, <3>1
            <4>2. \A w \in Thread \ {t} : ~SealsNow(job[w], b) BY <1>4, <2>3, <2>4
            <4> QED BY <1>3, <2>5, <2>8, <3>1, <4>1, <4>2
        <3>2. CASE u # t
            <4>1. /\ SealsNow(job[u], x) /\ state[x] = "completed" /\ sealed[x] = 0
                  /\ \A w \in Thread \ {u} : ~SealsNow(job[w], x)
                BY <1>3, <1>4, <2>10, <3>2
            <4>2. x # b BY <2>3, <2>4, <4>1
            <4>3. ~SealsNow(job'[t], x) BY <1>3, <2>1, <4>2
            <4> QED BY <1>3, <2>5, <4>1, <4>2, <4>3
        <3> QED BY <3>1, <3>2
    <2>11. V2Evidence' BY <2>9, <2>10 DEF V2Evidence
    <2>12. {x \in Bundle : state[x] # "none"}' = {x \in Bundle : state[x] # "none"}
        BY <2>3, <2>4, <2>5, <2>8
    <2>13. CASE to \in Decisions
        <3>1. terminal[b] = "none" BY <1>4, <2>3, <2>4, <2>13
        <3>2. b \in {x \in Bundle : state[x] # "none"} BY <2>3, <2>8
        <3>3. terminal' = [terminal EXCEPT ![b] = to] BY <1>5, <1>7, <2>1, <2>2, <2>13
        <3>4. Ledger!Decide(b, to) BY <2>5, <2>12, <3>1, <3>2, <3>3 DEF Ledger!Decide
        <3> QED BY <2>7, <2>11, <2>13, <3>4 DEF Ledger!Next
    <2>14. CASE to \notin Decisions
        <3>1. terminal' = terminal BY <1>5, <1>7, <2>2, <2>14
        <3> QED BY <2>5, <2>7, <2>11, <2>12, <3>1 DEF Ledger!vars
    <2> QED BY <2>13, <2>14
<1>8. CASE c.op = "seal"
    <2>1. PICK b \in Bundle : b = c.b BY <1>1
    <2>2. SealsNow(job[t], b) BY <1>1, <1>8, <2>1 DEF SealsNow, Does
    <2>3. /\ state[b] = "completed" /\ sealed[b] = 0
          /\ \A w \in Thread \ {t} : ~SealsNow(job[w], b)
        BY <1>4, <2>2
    <2>4. state' = state /\ terminal' = terminal /\ sealed' = [sealed EXCEPT ![b] = 1]
        BY <1>2, <1>5, <1>8, <2>1, <2>3
    <2>5. /\ sealed' \in [Bundle -> {0, 1}] /\ \A x \in Bundle \ {b} : sealed'[x] = sealed[x]
        BY <1>2, <2>4
    <2>6. V2Types' BY <1>2, <1>3, <1>6, <2>4, <2>5 DEF V2Types
    <2>7. \A x \in Bundle : ~SealsNow(job'[t], x) BY <1>3, <1>8
    <2>8. ASSUME NEW u \in Thread, NEW x \in Bundle, SealsNow(job'[u], x)
          PROVE  /\ state'[x] = "completed" /\ sealed'[x] = 0
                 /\ \A w \in Thread \ {u} : ~SealsNow(job'[w], x)
        <3>1. u # t /\ SealsNow(job[u], x) BY <1>3, <2>7, <2>8
        <3>2. /\ state[x] = "completed" /\ sealed[x] = 0 /\ x # b
              /\ \A w \in Thread \ {u} : ~SealsNow(job[w], x)
            BY <1>4, <2>3, <3>1
        <3> QED BY <1>3, <2>4, <2>5, <2>7, <3>2
    <2>9. \A x \in Bundle : /\ terminal'[x] # "none" <=> state'[x] \in DecidedStates
                            /\ sealed'[x] = 1 => state'[x] = "completed"
        BY <1>4, <2>3, <2>4, <2>5
    <2>10. V2Evidence' BY <2>8, <2>9 DEF V2Evidence
    <2>11. terminal[b] # "none" BY <1>4, <2>3 DEF DecidedStates
    <2>12. {x \in Bundle : state[x] # "none"}' = {x \in Bundle : state[x] # "none"} BY <2>4
    <2>13. Ledger!Seal(b) BY <2>3, <2>4, <2>11, <2>12 DEF Ledger!Seal
    <2> QED BY <2>6, <2>10, <2>13 DEF Ledger!Next
<1>9. CASE c.op \notin {"move", "seal"}
    <2>1. state' = state /\ terminal' = terminal /\ sealed' = sealed BY <1>5, <1>9
    <2>2. V2Types' BY <1>2, <1>3, <1>6, <2>1 DEF V2Types
    <2>3. \A u \in Thread, x \in Bundle : SealsNow(job'[u], x) => SealsNow(job[u], x) /\ u # t
        BY <1>3, <1>9
    <2>4. V2Evidence' BY <1>4, <2>1, <2>3 DEF V2Evidence
    <2> QED BY <2>1, <2>2, <2>4 DEF Ledger!vars
<1> QED BY <1>7, <1>8, <1>9

\* A refused move ends the plan; what is in the state the plan expected is not refused.
LEMMA RefusedKeeps == ASSUME V2Inv, NEW t \in Thread, Refused(t) PROVE V2Inv'
<1>1. PICK c : c = Head(job[t].plan) OBVIOUS
<1>2. /\ job[t].plan # <<>> /\ ~StoreAccepts(c) /\ AfterError(t, c, FALSE)
      /\ UNCHANGED <<state, terminal, retried, sealed, inflight, schedule>>
      /\ UNCHANGED <<ready, mode, claimed, errors>>
    BY <1>1 DEF Refused, HasNoEffect
<1>3. /\ c \in CallType /\ c = job[t].plan[1] /\ JobOK(t, job[t])
    BY <1>1, <1>2, HeadCall
<1>4. c.op = "move" BY <1>2 DEF StoreAccepts
<1>5. PICK j : /\ job' = [job EXCEPT ![t] = j] /\ JobOK(t, j)
               /\ ~\E b \in Bundle : SealsNow(j, b)
               /\ j.plan = <<>> /\ j.b = job[t].b
               /\ j.then = job[t].else /\ j.else = job[t].else
    BY ZenonT(60), <1>1, <1>2, <1>4, ErrorTurns
<1>6. Switch(t, j) BY <1>2, <1>5 DEF Switch, V2Inv, V2Types
<1>7. \A b \in Bundle : Drives(job[t], b) => Drives(j, b)
    <2> SUFFICES ASSUME NEW b \in Bundle, Drives(job[t], b) PROVE Drives(j, b) OBVIOUS
    <2>1. CASE Takes(job[t], 1, b, state[b])
        <3>1. ~Moves(c, b, state[b]) BY <1>2 DEF Moves, StoreAccepts
        <3>2. Len(job[t].plan) # 0
            <4>1. job[t].plan \in Seq(CallType) BY <1>3 DEF JobOK, JobType
            <4> QED BY <1>2, <4>1, EmptySeq
        <3> QED BY <1>3, <1>4, <2>1, <3>1, <3>2 DEF Takes, Does
    <2>2. CASE /\ state[b] = "validated" /\ job[t].b = b
               /\ job[t].then = "enqueue" /\ job[t].else = "enqueue"
        BY <1>5, <2>2 DEF Drives
    <2> QED BY <2>1, <2>2 DEF Drives
<1>8. Calm' => HandsOver(t, j)
    <2> SUFFICES ASSUME Calm' PROVE HandsOver(t, j) OBVIOUS
    <2>1. Calm BY <1>2 DEF Calm
    <2>2. t = Loop => (j.then = "idle" \/ j.else = "idle" => claimed' = {})
        BY <1>2, <1>5, <2>1 DEF V2Inv, V2Driven
    <2> QED BY <1>2, <1>7, <2>1, <2>2 DEF HandsOver
<1> QED BY <1>6, <1>8, SwitchKeeps

\* A failing call keeps the types and the evidence, whether it took effect or not.
LEMMA FailsKeeps ==
    ASSUME V2Inv, NEW t \in Thread, Fails(t)
    PROVE  V2Inv' /\ (Ledger!Next \/ UNCHANGED Ledger!vars)
<1>1. PICK c : c = Head(job[t].plan) OBVIOUS
<1>2. /\ job[t].plan # <<>> /\ StoreAccepts(c) /\ errors' = errors + 1
      /\ UNCHANGED <<ready, mode, claimed>>
      /\ \/ HasNoEffect /\ AfterError(t, c, FALSE)
         \/ TakesEffect(c) /\ \E emitted \in BOOLEAN : AfterError(t, c, emitted)
    BY <1>1 DEF Fails
<1>3. errors' \in Nat /\ ~Calm' BY <1>2 DEF V2Inv, V2Types, Calm
<1>4. CASE HasNoEffect /\ AfterError(t, c, FALSE)
    <2>1. PICK j : job' = [job EXCEPT ![t] = j] /\ JobOK(t, j) /\ ~\E b \in Bundle : SealsNow(j, b)
        BY <1>1, <1>2, <1>4, ErrorTurns
    <2>2. UNCHANGED <<state, terminal, sealed, schedule>> BY <1>4 DEF HasNoEffect
    <2>3. Switch(t, j) BY <1>2, <1>3, <2>1, <2>2 DEF Switch, V2Inv, V2Types
    <2>4. V2Inv' BY <1>3, <2>3, SwitchKeeps
    <2>5. UNCHANGED Ledger!vars BY <2>2 DEF Ledger!vars
    <2> QED BY <2>4, <2>5
<1>5. CASE TakesEffect(c) /\ \E emitted \in BOOLEAN : AfterError(t, c, emitted)
    <2>1. PICK emitted \in BOOLEAN : AfterError(t, c, emitted) BY <1>5
    <2>2. PICK j : job' = [job EXCEPT ![t] = j] /\ JobOK(t, j) /\ ~\E b \in Bundle : SealsNow(j, b)
        BY <1>1, <1>2, <2>1, ErrorTurns
    <2>3. V2Types' /\ V2Evidence' /\ (Ledger!Next \/ UNCHANGED Ledger!vars)
        BY <1>1, <1>2, <1>3, <1>5, <2>2, EffectKeeps
    <2> QED BY <1>3, <2>3 DEF V2Inv, V2Driven
<1> QED BY <1>2, <1>4, <1>5

\* A call that succeeds: after a move the bundle rests, or the rest of the plan takes it on.
LEMMA SucceedsKeeps ==
    ASSUME V2Inv, NEW t \in Thread, Succeeds(t)
    PROVE  V2Inv' /\ (Ledger!Next \/ UNCHANGED Ledger!vars)
<1>1. PICK c : c = Head(job[t].plan) OBVIOUS
<1>2. /\ job[t].plan # <<>> /\ StoreAccepts(c) /\ TakesEffect(c)
      /\ UNCHANGED <<ready, mode, claimed, errors>>
      /\ Become(t, [job[t] EXCEPT !.plan = Tail(@)])
    BY <1>1 DEF Succeeds
<1>3. /\ c \in CallType /\ c.b \in Bundle /\ c = job[t].plan[1] /\ 1 \in 1..Len(job[t].plan)
      /\ job[t] \in JobType /\ JobOK(t, job[t])
    BY <1>1, <1>2, HeadCall
<1>4. PICK o : o = job[t] OBVIOUS
<1>5. PICK j : j = [o EXCEPT !.plan = Tail(@)] OBVIOUS
<1>6. /\ j \in JobType /\ j.b = o.b /\ j.then = o.then /\ j.else = o.else
      /\ SealsLast(j.plan) /\ Linked(j)
      /\ \A b, s : Takes(o, 2, b, s) => Takes(j, 1, b, s)
      /\ \A b : SealsNow(j, b) =>
            o.plan[1].op = "move" /\ o.plan[1].b = b /\ o.plan[1].to = "completed"
    <2>1. o \in JobType /\ o.plan # <<>> /\ SealsLast(o.plan) /\ Linked(o)
        BY <1>2, <1>3, <1>4 DEF JobOK
    <2> QED BY <1>5, <2>1, TailJob
<1>7. job' = [job EXCEPT ![t] = j] BY <1>2, <1>4, <1>5 DEF Become
<1>8. JobOK(t, j) BY <1>3, <1>4, <1>6 DEF JobOK
<1>9. \A b \in Bundle : SealsNow(j, b) => c.op = "move" /\ c.b = b /\ c.to = "completed"
    BY <1>3, <1>4, <1>6
<1>10. errors' \in Nat BY <1>2 DEF V2Inv, V2Types
<1>11. V2Types' /\ V2Evidence' /\ (Ledger!Next \/ UNCHANGED Ledger!vars)
    BY <1>1, <1>2, <1>7, <1>8, <1>9, <1>10, EffectKeeps
<1>12. V2Driven'
    <2> SUFFICES ASSUME Calm' PROVE V2Driven' BY DEF V2Driven
    <2>1. Calm BY <1>2 DEF Calm
    <2>2. /\ state' = IF c.op = "move" THEN [state EXCEPT ![c.b] = c.to] ELSE state
          /\ schedule' = IF c.op = "schedule" THEN schedule \cup {c.b} ELSE schedule
        BY <1>2, <1>3, Effects
    <2>3. /\ job'[t] = j /\ \A u \in Thread \ {t} : job'[u] = job[u]
          /\ state \in [Bundle -> BundleState \cup {"none"}]
        BY <1>7 DEF V2Inv, V2Types
    <2>4. ASSUME NEW b \in Bundle, state'[b] \notin Resting
          PROVE  \/ \E u \in Thread : \/ Takes(job'[u], 1, b, state'[b])
                                      \/ /\ state'[b] = "validated" /\ job'[u].b = b
                                         /\ job'[u].then = "enqueue" /\ job'[u].else = "enqueue"
                 \/ state'[b] = "retry_pending" /\ b \in (schedule \cup claimed)'
        <3>1. CASE c.op = "move" /\ c.b = b
            <4>1. state'[b] = c.to BY <2>2, <2>3, <3>1
            <4>2. c.to \in Resting \/ Takes(o, 1 + 1, b, c.to)
                BY <1>3, <1>4, <3>1 DEF JobOK, Linked
            <4>3. 1 + 1 = 2 OBVIOUS
            <4>4. Takes(j, 1, b, c.to) BY <1>6, <2>4, <4>1, <4>2, <4>3
            <4> QED BY <2>3, <4>1, <4>4
        <3>2. CASE ~(c.op = "move" /\ c.b = b)
            <4>1. state'[b] = state[b] BY <2>2, <2>3, <3>2
            <4>2. \/ \E u \in Thread : Drives(job[u], b)
                  \/ state[b] = "retry_pending" /\ b \in schedule \cup claimed
                BY <2>1, <2>4, <4>1 DEF V2Inv, V2Driven
            <4>3. CASE state[b] = "retry_pending" /\ b \in schedule \cup claimed
                BY <1>2, <2>2, <4>1, <4>3
            <4>4. CASE \E u \in Thread \ {t} : Drives(job[u], b)
                BY <2>3, <4>1, <4>4 DEF Drives
            <4>5. CASE Takes(job[t], 1, b, state[b])
                <5>1. ~Moves(c, b, state[b]) BY <3>2 DEF Moves
                <5>2. 1 + 1 = 2 /\ Len(o.plan) # 0
                    <6>1. o.plan \in Seq(CallType) BY <1>3, <1>4 DEF JobType
                    <6> QED BY <1>2, <1>4, <6>1, EmptySeq
                <5>3. CASE c.op = "schedule" /\ c.b = b /\ state[b] = "retry_pending"
                    BY <2>2, <4>1, <5>3
                <5>4. CASE /\ 2 \in 1..Len(o.plan)
                           /\ \/ Moves(o.plan[2], b, state[b])
                              \/ state[b] = "retry_pending" /\ Does(o.plan[2], "schedule", b)
                    <6>1. Takes(o, 2, b, state[b]) BY <5>4 DEF Takes
                    <6>2. Takes(j, 1, b, state[b]) BY <1>6, <6>1
                    <6> QED BY <2>3, <4>1, <6>2
                <5>5. \/ 2 \in 1..Len(o.plan) /\ Moves(o.plan[2], b, state[b])
                      \/ /\ state[b] = "retry_pending"
                         /\ \/ Does(c, "schedule", b)
                            \/ 2 \in 1..Len(o.plan) /\ Does(o.plan[2], "schedule", b)
                    <6>1. o.plan[1] = c /\ job[t] = o BY <1>3, <1>4
                    <6> QED BY <4>5, <5>1, <5>2, <6>1 DEF Takes
                <5> QED BY <5>3, <5>4, <5>5 DEF Does
            <4>6. CASE /\ state[b] = "validated" /\ job[t].b = b
                       /\ job[t].then = "enqueue" /\ job[t].else = "enqueue"
                BY <1>4, <1>6, <2>3, <4>1, <4>6
            <4> QED BY <4>2, <4>3, <4>4, <4>5, <4>6 DEF Drives
        <3> QED BY <3>1, <3>2
    <2>5. job'[Loop].then = "idle" \/ job'[Loop].else = "idle" => claimed' = {}
        <3>1. Loop \in Thread BY DEF Loop, Thread
        <3>2. job'[Loop].then = job[Loop].then /\ job'[Loop].else = job[Loop].else
            BY <1>4, <1>6, <2>3, <3>1
        <3> QED BY <1>2, <2>1, <3>2 DEF V2Inv, V2Driven
    <2> QED BY <2>4, <2>5 DEF V2Driven, Drives, Takes, Moves
<1> QED BY <1>11, <1>12 DEF V2Inv

\* At the start there are no bundles and no jobs.
LEMMA V2Starts == RelayV2Init => V2Inv /\ Ledger!Init
<1> SUFFICES ASSUME RelayV2Init PROVE V2Inv /\ Ledger!Init OBVIOUS
<1>1. /\ state = [b \in Bundle |-> "none"] /\ terminal = [b \in Bundle |-> "none"]
      /\ sealed = [b \in Bundle |-> 0] /\ schedule = {} /\ claimed = {} /\ ready = <<>>
      /\ mode = "on" /\ job = [t \in Thread |-> NoJob] /\ errors = 0
    BY DEF RelayV2Init
<1>2. ASSUME NEW t \in Thread
      PROVE  JobOK(t, job[t]) /\ \A b \in Bundle : ~SealsNow(job[t], b)
    <2>1. PICK z \in Bundle \cup {0} : z = 0 OBVIOUS
    <2>2. PICK label \in OwnLabels \cup LoopLabels : label = "idle" BY DEF LoopLabels
    <2>3. PICK j : j = Job(z, <<>>, label, label) OBVIOUS
    <2>4. label \notin OwnLabels /\ label \in LoopLabels BY <2>2 DEF OwnLabels, LoopLabels
    <2>5. JobOK(t, j) /\ ~\E c \in Bundle : SealsNow(j, c) BY <2>3, <2>4, IdleJob
    <2>6. job[t] = j BY <1>1, <2>1, <2>2, <2>3 DEF NoJob
    <2> QED BY <2>5, <2>6
<1>3. V2Types BY <1>1, <1>2 DEF V2Types
<1>4. V2Evidence BY <1>1, <1>2 DEF V2Evidence, DecidedStates, Decisions
<1>5. V2Driven BY <1>1 DEF V2Driven, Resting
<1>6. {b \in Bundle : state[b] # "none"} = {} BY <1>1
<1>7. Ledger!Init BY <1>1, <1>6 DEF Ledger!Init
<1> QED BY <1>3, <1>4, <1>5, <1>7 DEF V2Inv

\* A step that leaves records and checkpoints alone is nothing to the ledger.
LEMMA LedgerSleeps ==
    ASSUME UNCHANGED <<state, terminal, sealed>> PROVE UNCHANGED Ledger!vars
  BY DEF Ledger!vars

\* Every step of the relay v2 keeps the invariant and is one of the ledger, or nothing to it.
LEMMA V2StepKeeps ==
    V2Inv /\ [RelayV2Next]_relayV2Vars => V2Inv' /\ (Ledger!Next \/ UNCHANGED Ledger!vars)
<1> SUFFICES ASSUME V2Inv, [RelayV2Next]_relayV2Vars
             PROVE  V2Inv' /\ (Ledger!Next \/ UNCHANGED Ledger!vars)
    OBVIOUS
<1>1. CASE \E b \in Bundle : CreateBundle(b) BY <1>1, CreateKeeps DEF Ledger!Next
<1>2. CASE \E b \in Bundle : ProcessRetry(b)
    BY <1>2, ProcessRetryKeeps, LedgerSleeps DEF ProcessRetry
<1>3. CASE \E t \in Thread : Succeeds(t) BY <1>3, SucceedsKeeps
<1>4. CASE \E t \in Thread : Refused(t)
    BY <1>4, RefusedKeeps, LedgerSleeps DEF Refused, HasNoEffect
<1>5. CASE \E t \in Thread : Fails(t) BY <1>5, FailsKeeps
<1>6. CASE \E t \in Thread : Returns(t) BY <1>6, ReturnsKeeps, LedgerSleeps DEF Returns
<1>7. CASE \E t \in Thread : LoopEnds(t) BY <1>7, LoopEndsKeeps, LedgerSleeps DEF LoopEnds
<1>8. CASE \E t \in Thread : Admit(t) BY <1>8, AdmitKeeps, LedgerSleeps DEF Admit
<1>9. CASE \E t \in Thread : ReserveInflight(t)
    BY <1>9, ReserveKeeps, LedgerSleeps DEF ReserveInflight
<1>10. CASE \E t \in Thread : Push(t) BY <1>10, PushKeeps, LedgerSleeps DEF Push
<1>11. CASE \E t \in Thread : MarkQueued(t) BY <1>11, MarkQueuedKeeps, LedgerSleeps DEF MarkQueued
<1>12. CASE \E t \in Thread : Pop(t) BY <1>12, PopKeeps, LedgerSleeps DEF Pop
<1>13. CASE \E t \in Thread : Check(t) BY <1>13, CheckKeeps, LedgerSleeps DEF Check
<1>14. CASE \E t \in Thread : Process(t) BY <1>14, ProcessKeeps, LedgerSleeps DEF Process
<1>15. CASE ClaimDueRetries BY <1>15, ClaimKeeps, LedgerSleeps DEF ClaimDueRetries
<1>16. CASE Repush BY <1>16, RepushKeeps, LedgerSleeps DEF Repush
<1>17. CASE BatchDone
    <2>1. Loop \in Thread BY DEF Loop, Thread
    <2> QED BY <1>17, <2>1, ReturnsKeeps, LedgerSleeps DEF BatchDone
<1>18. CASE Drain \/ StopService BY <1>18, ModeKeeps, LedgerSleeps DEF Drain, StopService
<1>19. CASE UNCHANGED relayV2Vars
    <2>1. V2Types' BY <1>19 DEF relayV2Vars, V2Inv, V2Types
    <2>2. V2Evidence' BY <1>19 DEF relayV2Vars, V2Inv, V2Evidence
    <2>3. \A c \in Bundle, t \in Thread : Drives(job[t], c) => Drives(job[t], c)'
        BY <1>19 DEF relayV2Vars, Drives, Takes, Moves
    <2>4. V2Driven' BY <1>19, <2>3 DEF relayV2Vars, V2Inv, V2Driven, Calm
    <2>5. UNCHANGED <<state, terminal, sealed>> BY <1>19 DEF relayV2Vars
    <2> QED BY <2>1, <2>2, <2>4, <2>5, LedgerSleeps DEF V2Inv
<1> QED BY <1>1, <1>2, <1>3, <1>4, <1>5, <1>6, <1>7, <1>8, <1>9, <1>10, <1>11, <1>12, <1>13, <1>14,
           <1>15, <1>16, <1>17, <1>18, <1>19 DEF RelayV2Next

\* What a thread has taken on is in its hands.
LEMMA DrivenIsOwned == V2Inv => ForgottenIsQueued
<1> SUFFICES ASSUME V2Inv, errors = 0, mode # "stopped", NEW b \in Bundle,
                    state[b] \in BundleState \ {"queued", "completed"}
             PROVE  Owned(b)
    BY DEF ForgottenIsQueued
<1>1. state[b] \notin Resting BY DEF Resting, BundleState
<1>2. \/ \E t \in Thread : Drives(job[t], b)
      \/ state[b] = "retry_pending" /\ b \in schedule \cup claimed
    BY <1>1 DEF V2Inv, V2Driven, Calm
<1>3. CASE \E t \in Thread : Drives(job[t], b)
    <2>1. PICK t \in Thread : Drives(job[t], b) BY <1>3
    <2>2. job[t].plan \in Seq(CallType) BY DEF V2Inv, V2Types, JobOK, JobType
    <2>3. DOMAIN job[t].plan = 1..Len(job[t].plan) BY <2>2, LenProperties
    <2>4. job[t].b = b \/ (1 \in DOMAIN job[t].plan /\ job[t].plan[1].b = b)
        BY <2>1, <2>3 DEF Drives, Takes, Moves, Does
    <2> QED BY <2>1, <2>4 DEF Owned
<1>4. CASE b \in schedule \cup claimed BY <1>4 DEF Owned
<1> QED BY <1>2, <1>3, <1>4

(***************************************************************************)
(* The relay v2 implements the ledger of bundles for any bundles, workers  *)
(* and limits, and any number of failing calls; and while no call fails    *)
(* and nobody stops it, it forgets a bundle only as queued.                *)
(***************************************************************************)
THEOREM V2AlwaysKeepsTheLedger == RelayV2Spec => V2KeepsTheLedger
<1>1. RelayV2Init => V2Inv /\ Ledger!Init BY V2Starts
<1>2. V2Inv /\ [RelayV2Next]_relayV2Vars => V2Inv' BY V2StepKeeps
<1>3. V2Inv /\ [RelayV2Next]_relayV2Vars => [Ledger!Next]_(Ledger!vars) BY V2StepKeeps
<1>4. V2Inv => ForgottenIsQueued BY DrivenIsOwned
<1> QED BY <1>1, <1>2, <1>3, <1>4, PTL DEF RelayV2Spec, V2KeepsTheLedger, Ledger!Spec

-----------------------------------------------------------------------------
(* The txpool builder v1: the inductive invariant, part by part. *)

FileNames == {"snapshot", "candidate", "trace"}
LivePlaces == {"startup", "header", "pool", "recheck"}
BuiltPlaces == {"snapshot", "candidate", "trace", "compare"}

\* The candidate that buildCandidate makes of a snapshot under some settings.
CandidateOf(snap, cfg) ==
    LET c == buildCandidate(snap.pending, cfg.limits[1], cfg.limits[2])
    IN  [snapshot |-> fingerprint(snap), digest |-> Digest(cfg),
         order |-> c.order, gas |-> c.gas, revenue |-> c.revenue, stop |-> c.stop]

IsSnapshot(s) ==
    s = [before |-> s.before, after |-> s.after, raw |-> s.raw, pending |-> s.pending,
         queued |-> s.queued, at |-> s.at, base |-> s.base]

OneHead(snap, cfg) == cfg.strict /\ ~cfg.replay => snap.base = BaseFee[snap.at]

(***************************************************************************)
(* What a run carries from place to place, and what is known of it.        *)
(***************************************************************************)
RunCarries ==
    /\ "pc" \in DOMAIN run
    /\ run.pc # "idle" => "cfg" \in DOMAIN run
    /\ run.pc \in {"build"} \cup BuiltPlaces =>
          "snap" \in DOMAIN run /\ IsSnapshot(run.snap) /\ OneHead(run.snap, run.cfg)
    /\ run.pc \in BuiltPlaces => "cand" \in DOMAIN run /\ run.cand = CandidateOf(run.snap, run.cfg)

(***************************************************************************)
(* A live run knows a block that the node has passed, and the pool was     *)
(* fetched no earlier.                                                     *)
(***************************************************************************)
CaptureInOrder ==
    /\ run.pc = "load" => run.cfg.replay
    /\ run.pc \in LivePlaces => ~run.cfg.replay
    /\ run.pc \in {"header", "pool", "recheck"} => run.before \in 1..head
    /\ run.pc \in {"pool", "recheck"} => run.base = BaseFee[run.before]
    /\ run.pc = "recheck" => run.at \in run.before..head

(***************************************************************************)
(* A replay that does not write still has the snapshot on disk in hand.    *)
(***************************************************************************)
ReplayInHand ==
    /\ run.pc \in FileNames => ~run.cfg.noWrite
    /\ run.pc \in {"build", "compare"} /\ run.cfg.replay /\ run.cfg.noWrite =>
          files.snapshot # Absent /\ run.snap = files.snapshot

(***************************************************************************)
(* The files of the run under way are written in order, each once, and     *)
(* hold what the run carries.                                              *)
(***************************************************************************)
WrittenInOrder ==
    /\ DOMAIN files = FileNames /\ stamp \in [FileNames -> 0..runs]
    /\ run.pc \in LivePlaces \cup {"load", "build", "snapshot"} => \A f \in FileNames : stamp[f] < runs
    /\ run.pc = "candidate" =>
          stamp.snapshot = runs /\ stamp.candidate < runs /\ files.snapshot = run.snap
    /\ run.pc = "trace" =>
          /\ stamp.snapshot = runs /\ stamp.candidate = runs /\ stamp.trace < runs
          /\ files.candidate = run.cand

(***************************************************************************)
(* The contents of the files and of what was built.                        *)
(***************************************************************************)
ContentsFit ==
    /\ stamp.snapshot >= stamp.candidate /\ stamp.candidate >= stamp.trace
    /\ files.snapshot # Absent => IsSnapshot(files.snapshot)
    /\ stamp.candidate > 0 /\ stamp.candidate = stamp.snapshot =>
          files.candidate = CandidateOf(files.snapshot, files.candidate.digest)
    /\ stamp.trace > 0 /\ stamp.trace = stamp.candidate => files.trace.of = files.candidate

BuiltFits ==
    \A x \in built : x.cand = CandidateOf(x.snap, x.cand.digest) /\ OneHead(x.snap, x.cand.digest)

BuilderInv ==
    /\ BuilderTypeOK /\ RunCarries /\ CaptureInOrder /\ ReplayInHand /\ WrittenInOrder
    /\ ContentsFit /\ BuiltFits

\* A file that was written is not absent.
LEMMA AbsentIsNothing ==
    /\ \A s : IsSnapshot(s) => s # Absent
    /\ \A s, cfg : CandidateOf(s, cfg) # Absent
    /\ \A c : [of |-> c] # Absent
<1>1. ASSUME NEW s, IsSnapshot(s) PROVE s # Absent
    <2>1. DOMAIN s = {"before", "after", "raw", "pending", "queued", "at", "base"} BY <1>1 DEF IsSnapshot
    <2>2. DOMAIN Absent = {"absent"} BY DEF Absent
    <2> QED BY <2>1, <2>2
<1>2. ASSUME NEW s, NEW cfg PROVE CandidateOf(s, cfg) # Absent
    <2>1. DOMAIN CandidateOf(s, cfg) = {"snapshot", "digest", "order", "gas", "revenue", "stop"}
        BY DEF CandidateOf
    <2>2. DOMAIN Absent = {"absent"} BY DEF Absent
    <2> QED BY <2>1, <2>2
<1>3. ASSUME NEW c PROVE [of |-> c] # Absent
    <2>1. DOMAIN [of |-> c] = {"of"} OBVIOUS
    <2>2. DOMAIN Absent = {"absent"} BY DEF Absent
    <2> QED BY <2>1, <2>2
<1> QED BY <1>1, <1>2, <1>3

\* At the start there are no runs and no files.
LEMMA BuilderStarts == BuilderInit => BuilderInv
<1> SUFFICES ASSUME BuilderInit PROVE BuilderInv OBVIOUS
<1>1. /\ head = 1 /\ runs = 0 /\ built = {} /\ run.pc = "idle" /\ DOMAIN run = {"pc"}
      /\ DOMAIN files = FileNames /\ DOMAIN stamp = FileNames
      /\ \A f \in FileNames : stamp[f] = 0 /\ files[f] = Absent
    BY DEF BuilderInit, FileNames, NoRun
<1>2. BuilderTypeOK BY <1>1, BuilderAssumption DEF BuilderTypeOK
<1>3. WrittenInOrder
    <2>1. stamp \in [FileNames -> 0..runs] BY <1>1 DEF BuilderInit, FileNames
    <2> QED BY <1>1, <2>1 DEF WrittenInOrder, FileNames, LivePlaces
<1>4. ContentsFit BY <1>1 DEF ContentsFit, FileNames
<1>5. RunCarries /\ CaptureInOrder /\ ReplayInHand /\ BuiltFits
    BY <1>1 DEF RunCarries, CaptureInOrder, ReplayInHand, BuiltFits, BuiltPlaces, LivePlaces, FileNames
<1> QED BY <1>2, <1>3, <1>4, <1>5 DEF BuilderInv

\* A new run is newer than all files.
LEMMA StartKeeps == ASSUME BuilderInv, NEW cfg \in Configs, Start(cfg) PROVE BuilderInv'
<1> USE DEF BuilderInv
<1>1. /\ run'.pc \in {"load", "startup"} /\ (run'.pc = "load" <=> cfg.replay)
      /\ run'.cfg = cfg /\ DOMAIN run' = {"pc", "cfg"}
    BY DEF Start
<1>2. runs \in Nat /\ runs' = runs + 1 /\ runs < MaxRuns /\ head' = head /\ files' = files /\ stamp' = stamp /\ built' = built
    BY DEF Start, BuilderTypeOK
<1>3. BuilderTypeOK'
    <2>1. MaxRuns \in Nat /\ MaxHead \in Nat BY BuilderAssumption
    <2>2. runs' \in 0..MaxRuns BY <1>2, <2>1
    <2>3. \A f \in DOMAIN stamp : stamp[f] \in 0..runs' BY <1>2 DEF BuilderTypeOK
    <2> QED BY <1>1, <1>2, <2>2, <2>3 DEF BuilderTypeOK
<1>4. RunCarries' BY <1>1 DEF RunCarries, BuiltPlaces
<1>5. CaptureInOrder' BY <1>1 DEF CaptureInOrder, LivePlaces
<1>6. ReplayInHand' BY <1>1 DEF ReplayInHand, FileNames
<1>7. WrittenInOrder'
    <2>1. \A f \in FileNames : stamp[f] \in 0..runs BY DEF WrittenInOrder
    <2>2. \A f \in FileNames : stamp[f] < runs' /\ stamp[f] \in 0..runs' BY <2>1, <1>2
    <2>3. stamp' \in [FileNames -> 0..runs'] BY <2>2, <1>2 DEF WrittenInOrder
    <2> QED BY <1>1, <1>2, <2>2, <2>3 DEF WrittenInOrder
<1>8. ContentsFit' BY <1>2 DEF ContentsFit, CandidateOf, fingerprint, Digest, IsSnapshot
<1>9. BuiltFits' BY <1>2 DEF BuiltFits, OneHead
<1> QED BY <1>3, <1>4, <1>5, <1>6, <1>7, <1>8, <1>9

\* A step that writes nothing and whose run goes on keeps what is known of the files.
LEMMA FilesKept ==
    ASSUME BuilderInv, UNCHANGED <<files, stamp, runs>>,
           run'.pc \in LivePlaces \cup {"load", "build", "snapshot"} =>
               run.pc \in LivePlaces \cup {"load", "build", "snapshot"},
           run'.pc \notin {"candidate", "trace"}
    PROVE  WrittenInOrder' /\ ContentsFit'
<1>1. WrittenInOrder' BY DEF BuilderInv, WrittenInOrder
<1>2. ContentsFit' BY DEF BuilderInv, ContentsFit, CandidateOf, fingerprint, Digest, IsSnapshot
<1> QED BY <1>1, <1>2

\* A run that fails leaves the files as they are.
LEMMA FailKeeps == ASSUME BuilderInv, Fail PROVE BuilderInv'
<1> USE DEF BuilderInv
<1>1. run'.pc = "failed" /\ run'.cfg = run.cfg /\ DOMAIN run' = DOMAIN run /\ run.pc # "idle"
    BY DEF Fail, RunCarries
<1>2. WrittenInOrder' /\ ContentsFit' BY <1>1, FilesKept DEF Fail, LivePlaces
<1>3. BuilderTypeOK' BY <1>1 DEF Fail, BuilderTypeOK
<1>4. RunCarries' /\ CaptureInOrder' /\ ReplayInHand'
    BY <1>1 DEF RunCarries, BuiltPlaces, CaptureInOrder, LivePlaces, ReplayInHand, FileNames
<1>5. BuiltFits' BY DEF Fail, BuiltFits, OneHead
<1> QED BY <1>2, <1>3, <1>4, <1>5

\* The steps of a capture: a strict run that gets to its snapshot saw one head throughout.
LEMMA CaptureKeeps ==
    ASSUME BuilderInv, StartupChecks \/ FetchHeader \/ FetchPool \/ Capture
    PROVE  BuilderInv'
<1> USE DEF BuilderInv
<1>1. /\ UNCHANGED <<head, files, runs, stamp, built>>
      /\ run.pc \in LivePlaces /\ run'.cfg = run.cfg
      /\ "pc" \in DOMAIN run' /\ "cfg" \in DOMAIN run'
    BY DEF StartupChecks, FetchHeader, FetchPool, Capture, LivePlaces, RunCarries
<1>2. run'.pc \in {"header", "pool", "recheck", "build", "failed"}
    BY DEF StartupChecks, FetchHeader, FetchPool, Capture, RunCarries
<1>3. WrittenInOrder' /\ ContentsFit' BY <1>1, <1>2, FilesKept DEF LivePlaces
<1>4. BuilderTypeOK' BY <1>1, <1>2 DEF BuilderTypeOK, LivePlaces
<1>5. BuiltFits' BY <1>1 DEF BuiltFits, OneHead
<1>6. ~run.cfg.replay BY <1>1 DEF CaptureInOrder
<1>7. head \in 1..MaxHead /\ MaxHead \in Nat BY BuilderAssumption DEF BuilderTypeOK
<1>8. CASE run'.pc = "failed"
    BY <1>1, <1>3, <1>4, <1>5, <1>8
       DEF RunCarries, BuiltPlaces, CaptureInOrder, LivePlaces, ReplayInHand, FileNames
<1>9. CASE run'.pc = "build"
    <2>1. Capture /\ run.pc = "recheck" BY <1>9 DEF StartupChecks, FetchHeader, FetchPool, Capture
    <2>2. PICK snap : /\ snap = [before |-> run.before, after |-> head, raw |-> run.raw,
                                 pending |-> snap.pending, queued |-> snap.queued, at |-> run.at,
                                 base |-> run.base]
                      /\ run' = [pc |-> "build", cfg |-> run.cfg, snap |-> snap]
                      /\ ~DriftRefused(head)
        <3> DEFINE entries == IF run.cfg.includeQueued THEN run.raw.queued ELSE <<>>
                   txs == normalizePool(run.raw.pending, run.base, BlockGas, run.cfg.rejectOnPartial).txs
                   more == normalizePool(entries, run.base, BlockGas, run.cfg.rejectOnPartial).txs
                   new == [before |-> run.before, after |-> head, raw |-> run.raw,
                           pending |-> txs, queued |-> more, at |-> run.at, base |-> run.base]
        <3>1. new.pending = txs /\ new.queued = more OBVIOUS
        <3>2. [run EXCEPT !.pc = "failed"].pc # "build" BY DEF RunCarries
        <3>3. run' = [pc |-> "build", cfg |-> run.cfg, snap |-> new] /\ ~DriftRefused(head)
            BY <2>1, <3>2, <1>9 DEF Capture
        <3> QED BY <3>1, <3>3
    <2>3. IsSnapshot(snap) /\ snap.before = run.before /\ snap.after = head /\ snap.at = run.at
          /\ snap.base = run.base
        BY <2>2 DEF IsSnapshot
    <2>4. OneHead(snap, run.cfg)
        <3> SUFFICES ASSUME run.cfg.strict PROVE snap.base = BaseFee[snap.at] BY DEF OneHead
        <3>1. head = run.before BY <2>2 DEF DriftRefused
        <3>2. run.at \in run.before..head /\ run.base = BaseFee[run.before]
            BY <2>1 DEF CaptureInOrder
        <3>3. run.at = run.before BY <3>1, <3>2, <1>7
        <3> QED BY <2>3, <3>2, <3>3
    <2>5. run'.snap = snap /\ "snap" \in DOMAIN run' BY <2>2
    <2>6. RunCarries' BY <1>1, <1>9, <2>3, <2>4, <2>5 DEF RunCarries, BuiltPlaces, OneHead
    <2>7. CaptureInOrder' BY <1>9 DEF CaptureInOrder, LivePlaces
    <2>8. ReplayInHand' BY <1>1, <1>6, <1>9 DEF ReplayInHand, FileNames
    <2> QED BY <1>3, <1>4, <1>5, <2>6, <2>7, <2>8
<1>10. CASE run'.pc \in {"header", "pool", "recheck"}
    <2>1. RunCarries' BY <1>1, <1>10 DEF RunCarries, BuiltPlaces
    <2>2. ReplayInHand' BY <1>10 DEF ReplayInHand, FileNames
    <2>3. CASE StartupChecks
        <3>1. run'.pc = "header" /\ run'.before = head BY <2>3 DEF StartupChecks
        <3>2. CaptureInOrder' BY <1>1, <1>6, <1>7, <3>1 DEF CaptureInOrder, LivePlaces
        <3> QED BY <1>3, <1>4, <1>5, <2>1, <2>2, <3>2
    <2>4. CASE FetchHeader
        <3>1. run'.pc = "pool" /\ run'.before = run.before /\ run'.base = BaseFee[run.before]
              /\ run.pc = "header"
            BY <2>4 DEF FetchHeader
        <3>2. CaptureInOrder' BY <1>1, <1>6, <3>1 DEF CaptureInOrder, LivePlaces
        <3> QED BY <1>3, <1>4, <1>5, <2>1, <2>2, <3>2
    <2>5. CASE FetchPool
        <3>1. run'.pc = "recheck" /\ run'.before = run.before /\ run'.base = run.base
              /\ run'.at = head /\ run.pc = "pool"
            BY <2>5 DEF FetchPool
        <3>2. head \in run.before..head BY <1>7, <3>1 DEF CaptureInOrder
        <3>3. CaptureInOrder' BY <1>1, <1>6, <3>1, <3>2 DEF CaptureInOrder, LivePlaces
        <3> QED BY <1>3, <1>4, <1>5, <2>1, <2>2, <3>3
    <2>6. CASE Capture BY <2>6, <1>10 DEF Capture, RunCarries
    <2> QED BY <2>3, <2>4, <2>5, <2>6
<1> QED BY <1>2, <1>8, <1>9, <1>10

\* A replay takes the snapshot on disk in hand.
LEMMA LoadKeeps == ASSUME BuilderInv, Load PROVE BuilderInv'
<1> USE DEF BuilderInv
<1>1. /\ UNCHANGED <<head, files, runs, stamp, built>>
      /\ run.pc = "load" /\ run'.cfg = run.cfg /\ run'.pc \in {"build", "failed"}
      /\ "pc" \in DOMAIN run' /\ "cfg" \in DOMAIN run'
    BY DEF Load, RunCarries
<1>2. WrittenInOrder' /\ ContentsFit' BY <1>1, FilesKept DEF LivePlaces
<1>3. BuilderTypeOK' BY <1>1 DEF BuilderTypeOK
<1>4. BuiltFits' BY <1>1 DEF BuiltFits, OneHead
<1>5. CaptureInOrder' BY <1>1 DEF CaptureInOrder, LivePlaces
<1>6. run.cfg.replay BY <1>1 DEF CaptureInOrder
<1>7. run'.pc = "build" =>
          files.snapshot # Absent /\ run'.snap = files.snapshot /\ "snap" \in DOMAIN run'
    BY DEF Load, RunCarries
<1>8. ReplayInHand' BY <1>1, <1>7 DEF ReplayInHand, FileNames
<1>9. RunCarries'
    BY <1>1, <1>6, <1>7 DEF RunCarries, BuiltPlaces, OneHead, ContentsFit
<1> QED BY <1>2, <1>3, <1>4, <1>5, <1>8, <1>9

\* What is built is the candidate of the snapshot in hand under the settings of the run.
LEMMA BuildKeeps == ASSUME BuilderInv, Build PROVE BuilderInv'
<1> USE DEF BuilderInv
<1>1. /\ UNCHANGED <<head, files, runs, stamp>> /\ run.pc = "build"
      /\ run' = [pc |-> IF run.cfg.noWrite THEN "compare" ELSE "snapshot", cfg |-> run.cfg,
                 snap |-> run.snap, cand |-> CandidateOf(run.snap, run.cfg)]
      /\ built' = built \cup {[snap |-> run.snap, cand |-> CandidateOf(run.snap, run.cfg)]}
    BY DEF Build, CandidateOf
<1>2. /\ run'.cfg = run.cfg /\ run'.snap = run.snap /\ run'.cand = CandidateOf(run.snap, run.cfg)
      /\ run'.pc \in {"compare", "snapshot"} /\ (run'.pc = "compare" <=> run.cfg.noWrite)
      /\ DOMAIN run' = {"pc", "cfg", "snap", "cand"}
    BY <1>1
<1>3. WrittenInOrder' /\ ContentsFit' BY <1>1, <1>2, FilesKept DEF LivePlaces
<1>4. BuilderTypeOK' BY <1>1, <1>2 DEF BuilderTypeOK
<1>5. CaptureInOrder' BY <1>2 DEF CaptureInOrder, LivePlaces
<1>6. RunCarries' BY <1>1, <1>2 DEF RunCarries, BuiltPlaces, OneHead
<1>7. ReplayInHand' BY <1>1, <1>2 DEF ReplayInHand, FileNames
<1>8. BuiltFits'
    <2>1. CandidateOf(run.snap, run.cfg).digest = run.cfg BY DEF CandidateOf, Digest
    <2>2. OneHead(run.snap, run.cfg) BY <1>1 DEF RunCarries
    <2> DEFINE new == [snap |-> run.snap, cand |-> CandidateOf(run.snap, run.cfg)]
    <2>3. /\ new.cand = CandidateOf(new.snap, new.cand.digest)
          /\ OneHead(new.snap, new.cand.digest)
        BY <2>1, <2>2
    <2>4. \A x \in built' : x \in built \/ x = new BY <1>1
    <2> QED BY <2>3, <2>4 DEF BuiltFits, OneHead
<1> QED BY <1>3, <1>4, <1>5, <1>6, <1>7, <1>8

\* A comparison only ends the run.
LEMMA CompareKeeps == ASSUME BuilderInv, Compare PROVE BuilderInv'
<1> USE DEF BuilderInv
<1>1. /\ UNCHANGED <<head, files, runs, stamp, built>>
      /\ run'.pc \in {"failed", "done"} /\ run'.cfg = run.cfg /\ DOMAIN run' = DOMAIN run
      /\ run.pc = "compare"
    BY DEF Compare, RunCarries
<1>2. WrittenInOrder' /\ ContentsFit' BY <1>1, FilesKept DEF LivePlaces
<1>3. BuilderTypeOK' BY <1>1 DEF BuilderTypeOK
<1>4. RunCarries' /\ CaptureInOrder' /\ ReplayInHand'
    BY <1>1 DEF RunCarries, BuiltPlaces, CaptureInOrder, LivePlaces, ReplayInHand, FileNames
<1>5. BuiltFits' BY <1>1 DEF BuiltFits, OneHead
<1> QED BY <1>2, <1>3, <1>4, <1>5

\* A new block leaves what the run has seen in the past.
LEMMA NewBlockKeeps == ASSUME BuilderInv, NewBlock PROVE BuilderInv'
<1> USE DEF BuilderInv
<1>1. head' = head + 1 /\ head < MaxHead /\ UNCHANGED <<run, files, runs, stamp, built>>
    BY DEF NewBlock
<1>2. head \in 1..MaxHead /\ MaxHead \in Nat BY BuilderAssumption DEF BuilderTypeOK
<1>3. head' \in 1..MaxHead BY <1>1, <1>2
<1>4. BuilderTypeOK' BY <1>1, <1>3 DEF BuilderTypeOK
<1>5. CaptureInOrder' BY <1>1, <1>2 DEF CaptureInOrder, LivePlaces
<1>6. RunCarries' /\ ReplayInHand' /\ BuiltFits'
    BY <1>1 DEF RunCarries, BuiltPlaces, ReplayInHand, BuiltFits, OneHead
<1>7. WrittenInOrder' /\ ContentsFit' BY <1>1 DEF WrittenInOrder, ContentsFit
<1> QED BY <1>4, <1>5, <1>6, <1>7

\* A file is replaced by what the run carries, and those after it are older until they are too.
LEMMA WriteKeeps == ASSUME BuilderInv, NEW f \in FileNames, Write(f) PROVE BuilderInv'
<1> USE DEF BuilderInv
<1>1. /\ UNCHANGED <<head, runs, built>> /\ run.pc = f
      /\ files' = [files EXCEPT ![f] = Content(f)] /\ stamp' = [stamp EXCEPT ![f] = runs]
      /\ run' = [run EXCEPT !.pc = NextFile(f)]
    BY DEF Write
<1>2. /\ run'.pc = NextFile(f) /\ DOMAIN run' = DOMAIN run /\ run'.cfg = run.cfg
      /\ "cfg" \in DOMAIN run
    BY <1>1 DEF RunCarries, FileNames
<1>3. /\ "snap" \in DOMAIN run /\ "cand" \in DOMAIN run /\ IsSnapshot(run.snap)
      /\ OneHead(run.snap, run.cfg) /\ run.cand = CandidateOf(run.snap, run.cfg)
      /\ run'.snap = run.snap /\ run'.cand = run.cand
    BY <1>1 DEF RunCarries, BuiltPlaces, FileNames
<1>4. run'.pc \in {"candidate", "trace", "compare"} BY <1>2 DEF NextFile, FileNames
<1>5. RunCarries' BY <1>2, <1>3, <1>4 DEF RunCarries, OneHead
<1>6. CaptureInOrder' BY <1>4 DEF CaptureInOrder, LivePlaces
<1>7. ~run.cfg.noWrite BY <1>1 DEF ReplayInHand
<1>8. ReplayInHand' BY <1>2, <1>7 DEF ReplayInHand
<1>9. BuiltFits' BY <1>1 DEF BuiltFits, OneHead
<1>10. /\ runs \in Nat /\ runs # 0 /\ stamp \in [FileNames -> 0..runs] /\ DOMAIN files = FileNames
       /\ run.pc = "snapshot" => \A g \in FileNames : stamp[g] < runs
    <2>1. runs \in Nat BY DEF BuilderTypeOK
    <2>2. \E g \in FileNames : stamp[g] < runs /\ stamp[g] \in 0..runs
        BY <1>1 DEF WrittenInOrder, FileNames, LivePlaces
    <2> QED BY <2>1, <2>2 DEF WrittenInOrder
<1>11. Content(f) # Absent
    BY <1>3, AbsentIsNothing DEF Content, FileNames
<1>12. /\ stamp'[f] = runs /\ files'[f] = Content(f)
       /\ \A g \in FileNames \ {f} : stamp'[g] = stamp[g] /\ files'[g] = files[g]
       /\ DOMAIN files' = FileNames /\ stamp' \in [FileNames -> 0..runs]
    BY <1>1, <1>10
<1>13. BuilderTypeOK'
    <2>1. \A g \in FileNames : stamp'[g] \in 0..runs /\ (stamp'[g] = 0 <=> files'[g] = Absent)
        BY <1>10, <1>11, <1>12 DEF BuilderTypeOK
    <2>2. DOMAIN stamp' = FileNames BY <1>12
    <2> QED BY <1>1, <1>2, <1>4, <2>1, <2>2 DEF BuilderTypeOK, FileNames
<1>14. /\ stamp.snapshot \in 0..runs /\ stamp.candidate \in 0..runs /\ stamp.trace \in 0..runs
    BY <1>10 DEF FileNames
<1>15. CASE f = "snapshot"
    <2>1. /\ run'.pc = "candidate" /\ stamp'.snapshot = runs /\ files'.snapshot = run.snap
          /\ stamp'.candidate = stamp.candidate /\ stamp'.trace = stamp.trace
          /\ files'.candidate = files.candidate /\ files'.trace = files.trace
        BY <1>2, <1>12, <1>15 DEF NextFile, Content, FileNames
    <2>2. stamp.candidate < runs BY <1>1, <1>10, <1>15 DEF FileNames
    <2>3. WrittenInOrder' BY <1>1, <1>3, <1>12, <2>1, <2>2 DEF WrittenInOrder, LivePlaces
    <2>4. ContentsFit' BY <1>3, <1>14, <2>1, <2>2 DEF ContentsFit
    <2> QED BY <1>5, <1>6, <1>8, <1>9, <1>13, <2>3, <2>4
<1>16. CASE f = "candidate"
    <2>1. /\ run'.pc = "trace" /\ stamp'.candidate = runs /\ files'.candidate = run.cand
          /\ stamp'.snapshot = stamp.snapshot /\ stamp'.trace = stamp.trace
          /\ files'.snapshot = files.snapshot /\ files'.trace = files.trace
        BY <1>2, <1>12, <1>16 DEF NextFile, Content, FileNames
    <2>2. stamp.snapshot = runs /\ stamp.candidate < runs /\ files.snapshot = run.snap
        BY <1>1, <1>16 DEF WrittenInOrder
    <2>3. stamp.trace < runs BY <1>14, <2>2 DEF ContentsFit
    <2>4. WrittenInOrder' BY <1>1, <1>3, <1>12, <2>1, <2>2, <2>3 DEF WrittenInOrder, LivePlaces
    <2>5. run.cand = CandidateOf(run.snap, run.cand.digest)
        <3>1. CandidateOf(run.snap, run.cfg).digest = run.cfg BY DEF CandidateOf, Digest
        <3> QED BY <1>3, <3>1
    <2>6. ContentsFit' BY <1>14, <2>1, <2>2, <2>3, <2>5 DEF ContentsFit
    <2> QED BY <1>5, <1>6, <1>8, <1>9, <1>13, <2>4, <2>6
<1>17. CASE f = "trace"
    <2>1. /\ run'.pc = "compare" /\ stamp'.trace = runs /\ files'.trace = [of |-> run.cand]
          /\ stamp'.snapshot = stamp.snapshot /\ stamp'.candidate = stamp.candidate
          /\ files'.snapshot = files.snapshot /\ files'.candidate = files.candidate
        BY <1>2, <1>12, <1>17 DEF NextFile, Content, FileNames
    <2>2. stamp.snapshot = runs /\ stamp.candidate = runs /\ files.candidate = run.cand
        BY <1>1, <1>17 DEF WrittenInOrder
    <2>3. WrittenInOrder' BY <1>1, <1>12, <2>1 DEF WrittenInOrder, LivePlaces
    <2>4. files'.trace.of = run.cand BY <2>1
    <2>5. ContentsFit' BY <1>10, <1>14, <2>1, <2>2, <2>4 DEF ContentsFit
    <2> QED BY <1>5, <1>6, <1>8, <1>9, <1>13, <2>3, <2>5
<1> QED BY <1>15, <1>16, <1>17 DEF FileNames

\* Every step of the txpool builder v1 keeps the invariant.
LEMMA BuilderStepKeeps == BuilderInv /\ [BuilderNext]_builderVars => BuilderInv'
<1> SUFFICES ASSUME BuilderInv, [BuilderNext]_builderVars PROVE BuilderInv' OBVIOUS
<1>1. CASE \E cfg \in Configs : Start(cfg) BY <1>1, StartKeeps
<1>2. CASE Execute
    <2>1. CASE \E f \in {"snapshot", "candidate", "trace"} : Write(f)
        BY <2>1, WriteKeeps DEF FileNames
    <2>2. CASE StartupChecks \/ FetchHeader \/ FetchPool \/ Capture BY <2>2, CaptureKeeps
    <2>3. CASE Load BY <2>3, LoadKeeps
    <2>4. CASE Build BY <2>4, BuildKeeps
    <2>5. CASE Compare BY <2>5, CompareKeeps
    <2> QED BY <1>2, <2>1, <2>2, <2>3, <2>4, <2>5 DEF Execute
<1>3. CASE Fail BY <1>3, FailKeeps
<1>4. CASE NewBlock BY <1>4, NewBlockKeeps
<1>5. CASE UNCHANGED builderVars
    BY <1>5 DEF builderVars, BuilderInv, BuilderTypeOK, RunCarries, CaptureInOrder, ReplayInHand,
                WrittenInOrder, ContentsFit, BuiltFits, OneHead
<1> QED BY <1>1, <1>2, <1>3, <1>4, <1>5 DEF BuilderNext

\* The invariant says that runs are reproducible.
LEMMA InvReproduces == BuilderInv => RunsReproduce
<1> SUFFICES ASSUME BuilderInv PROVE RunsReproduce OBVIOUS
<1> USE DEF BuilderInv
<1>1. FilesBelong
    <2>1. ASSUME stamp.candidate > 0, stamp.candidate = stamp.snapshot
          PROVE  files.candidate.snapshot = fingerprint(files.snapshot)
        <3>1. files.candidate = CandidateOf(files.snapshot, files.candidate.digest)
            BY <2>1 DEF ContentsFit
        <3>2. CandidateOf(files.snapshot, files.candidate.digest).snapshot
                  = fingerprint(files.snapshot)
            BY DEF CandidateOf
        <3> QED BY <3>1, <3>2
    <2> QED BY <2>1 DEF FilesBelong, ContentsFit
<1>2. IdentityDecides
    <2> SUFFICES ASSUME NEW a \in built, NEW b \in built, a.cand.snapshot = b.cand.snapshot,
                        a.cand.digest.limits = b.cand.digest.limits
                 PROVE  a.cand.order = b.cand.order
        BY DEF IdentityDecides
    <2> DEFINE c(x) == buildCandidate(x.snap.pending, x.cand.digest.limits[1],
                                      x.cand.digest.limits[2])
    <2>1. \A x \in built : x.cand.snapshot = fingerprint(x.snap) /\ x.cand.order = c(x).order
        <3> SUFFICES ASSUME NEW x \in built
                     PROVE  x.cand.snapshot = fingerprint(x.snap) /\ x.cand.order = c(x).order
            OBVIOUS
        <3>1. x.cand = CandidateOf(x.snap, x.cand.digest) BY DEF BuiltFits
        <3>2. /\ CandidateOf(x.snap, x.cand.digest).snapshot = fingerprint(x.snap)
              /\ CandidateOf(x.snap, x.cand.digest).order = c(x).order
            BY DEF CandidateOf
        <3> QED BY <3>1, <3>2
    <2>2. a.snap.pending = b.snap.pending
        <3>1. fingerprint(a.snap) = fingerprint(b.snap) BY <2>1
        <3>2. fingerprint(a.snap).pending = fingerprint(b.snap).pending BY <3>1
        <3> QED BY <3>2 DEF fingerprint
    <2>3. c(a) = c(b) BY <2>2
    <2> QED BY <2>1, <2>3
<1>3. StrictMeansOneHead BY DEF BuiltFits, OneHead, StrictMeansOneHead
<1>4. ReplayReproduces
    <2> SUFFICES ASSUME ReplayUnderComparison
                 PROVE  Differences(files.candidate, run.cand) \subseteq {"digest"}
        BY DEF ReplayReproduces
    <2>1. /\ run.pc = "compare" /\ run.cfg.replay /\ run.cfg.noWrite
          /\ stamp.candidate = stamp.snapshot /\ files.candidate.digest.limits = run.cfg.limits
        BY DEF ReplayUnderComparison
    <2>2. files.snapshot # Absent /\ run.snap = files.snapshot BY <2>1 DEF ReplayInHand
    <2>3. stamp.candidate > 0
        <3>1. "snapshot" \in DOMAIN stamp /\ stamp.snapshot \in 0..runs
            BY DEF WrittenInOrder, FileNames
        <3>2. stamp.snapshot # 0 BY <2>2, <3>1 DEF BuilderTypeOK
        <3> QED BY <2>1, <3>1, <3>2
    <2>4. files.candidate = CandidateOf(run.snap, files.candidate.digest)
        BY <2>1, <2>2, <2>3 DEF ContentsFit
    <2>5. run.cand = CandidateOf(run.snap, run.cfg) BY <2>1 DEF RunCarries, BuiltPlaces
    <2> DEFINE c(cfg) == buildCandidate(run.snap.pending, cfg.limits[1], cfg.limits[2])
    <2> DEFINE Parts(d, e) == /\ d.snapshot = fingerprint(run.snap) /\ d.order = e.order
                             /\ d.gas = e.gas /\ d.revenue = e.revenue /\ d.stop = e.stop
    <2>6. \A cfg : Parts(CandidateOf(run.snap, cfg), c(cfg)) BY DEF CandidateOf
    <2>7. c(files.candidate.digest) = c(run.cfg) BY <2>1
    <2> HIDE DEF c
    <2>8. Parts(files.candidate, c(run.cfg)) BY <2>4, <2>6, <2>7
    <2>9. Parts(run.cand, c(run.cfg)) BY <2>5, <2>6
    <2>10. /\ files.candidate.snapshot = run.cand.snapshot /\ files.candidate.order = run.cand.order
           /\ files.candidate.gas = run.cand.gas /\ files.candidate.revenue = run.cand.revenue
           /\ files.candidate.stop = run.cand.stop
        BY <2>8, <2>9
    <2> QED BY <2>10 DEF Differences
<1> QED BY <1>1, <1>2, <1>3, <1>4 DEF RunsReproduce

(***************************************************************************)
(* However runs of the txpool builder v1 follow each other, fail or die    *)
(* between their writes, and whatever pools and settings they are given:   *)
(* files found together belong together, the identity of a snapshot        *)
(* decides what is selected from it, a strict run has scored with the base *)
(* fee of the block that its pool is of, and a replay reproduces its       *)
(* candidate up to the digest of the settings.                             *)
(***************************************************************************)
THEOREM RunsAlwaysReproduce == BuilderSpec => []RunsReproduce
<1>1. BuilderInit => BuilderInv BY BuilderStarts
<1>2. BuilderInv /\ [BuilderNext]_builderVars => BuilderInv' BY BuilderStepKeeps
<1>3. BuilderInv => RunsReproduce BY InvReproduces
<1> QED BY <1>1, <1>2, <1>3, PTL DEF BuilderSpec
==============================================================================
