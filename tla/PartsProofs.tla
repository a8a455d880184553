---------------------------- MODULE PartsProofs ----------------------------
(***************************************************************************)
(* Proofs about four parts of the relay v3: the shared values of the       *)
(* control policy, for any number of readers and changes; the NATS client, *)
(* for any number of consumers, pingers and frames; the control loop, for  *)
(* any configuration, situations and submissions; and the two state stores,*)
(* for any bundles, hashes, clients and limits.                            *)
(***************************************************************************)
EXTENDS PolicyCell, NatsBroker, ControlPolicy, StateStores, FunctionTheorems,
        SequenceTheorems, FiniteSetTheorems, WellFoundedInduction, TLAPS

-----------------------------------------------------------------------------
(* The shared values of the control policy. *)

Early == {"revision", "pressure", "confidence"}
Late == {"minNet", "minSlack", "maxAge", "backoff", "pct", "floor"}

(***************************************************************************)
(* The names of the fields.                                                *)
(***************************************************************************)
LEMMA FieldNames ==
    /\ ToSet(Params) = Late
    /\ ToSet(Signals) \union {"revision"} = Early
    /\ Fields = Early \union Late
    /\ Early \intersect Late = {}
  BY DEF Fields, Params, Signals, ToSet, Early, Late

(***************************************************************************)
(* Adapt stores every field once, the parameters first.                    *)
(***************************************************************************)
LEMMA StoreOrderIs ==
    /\ StoreOrder \in Seq(Fields) /\ Len(StoreOrder) = 9
    /\ \A i \in 1..9 : StoreOrder[i] \in Fields
    /\ \A i \in 1..9 : (i <= 6 => StoreOrder[i] \in Late) /\ (i > 6 => StoreOrder[i] \in Early)
    /\ \A i, j \in 1..9 : StoreOrder[i] = StoreOrder[j] => i = j
    /\ \A f \in Fields : \E i \in 1..9 : StoreOrder[i] = f
  BY FieldNames DEF StoreOrder, Params, Signals, Early, Late

(***************************************************************************)
(* Snapshot loads the revision and the signals first.                      *)
(***************************************************************************)
LEMMA LoadOrderIs ==
    /\ LoadOrder \in Seq(Fields) /\ Len(LoadOrder) = 9
    /\ \A i \in 1..9 : LoadOrder[i] \in Fields
    /\ \A i \in 1..9 : (i <= 3 => LoadOrder[i] \in Early) /\ (i > 3 => LoadOrder[i] \in Late)
    /\ \A i, j \in 1..9 : LoadOrder[i] = LoadOrder[j] => i = j
    /\ \A f \in Fields : \E i \in 1..9 : LoadOrder[i] = f
  BY FieldNames DEF LoadOrder, Params, Signals, Early, Late

(***************************************************************************)
(* What is left of a list after its first n elements are done.             *)
(***************************************************************************)
Rest(q, n) == SubSeq(q, n + 1, Len(q))

(***************************************************************************)
(* A step on such a list takes its head and leaves its tail.               *)
(***************************************************************************)
LEMMA RestSteps ==
    ASSUME NEW S, NEW q \in Seq(S), NEW n \in 0..Len(q)
    PROVE  /\ Rest(q, n) = <<>> <=> n = Len(q)
           /\ n < Len(q) => Head(Rest(q, n)) = q[n + 1] /\ Tail(Rest(q, n)) = Rest(q, n + 1)
           /\ Rest(q, 0) = q
  BY DEF Rest

(***************************************************************************)
(* The same for the two lists of nine fields.                              *)
(***************************************************************************)
LEMMA RestOfOrder ==
    ASSUME NEW q \in {StoreOrder, LoadOrder}, NEW n \in 0..9
    PROVE  /\ Rest(q, n) = <<>> <=> n = 9
           /\ n < 9 => Head(Rest(q, n)) = q[n + 1] /\ Tail(Rest(q, n)) = Rest(q, n + 1)
           /\ Rest(q, 0) = q
  <1>1. q \in Seq(Fields) /\ Len(q) = 9
    BY StoreOrderIs, LoadOrderIs
  <1>2. n \in 0..Len(q)
    BY <1>1
  <1>3. /\ Rest(q, n) = <<>> <=> n = Len(q)
        /\ n < Len(q) => Head(Rest(q, n)) = q[n + 1] /\ Tail(Rest(q, n)) = Rest(q, n + 1)
        /\ Rest(q, 0) = q
    BY <1>1, <1>2, RestSteps
  <1> QED
    BY <1>1, <1>3

(***************************************************************************)
(* Adapt has stored the first n fields of a policy: they are one ahead.    *)
(***************************************************************************)
Stored(n, v) ==
    /\ toStore = Rest(StoreOrder, n)
    /\ \A i \in 1..9 : cell[StoreOrder[i]] = IF i <= n THEN v + 1 ELSE v

(***************************************************************************)
(* A reader has loaded the first n fields.  What it has of the revision    *)
(* and the signals is not ahead of any parameter it will find, nor of any  *)
(* that it has.                                                            *)
(***************************************************************************)
Loaded(r, n) ==
    /\ toLoad[r] = Rest(LoadOrder, n)
    /\ \A i \in 1..n : i <= 3 => \A p \in Late : got[r][LoadOrder[i]] <= cell[p]
    /\ \A i \in 1..n : i > 3 => \A e \in Early : got[r][LoadOrder[i]] >= got[r][e]

CellInv ==
    /\ cell \in [Fields -> Nat] /\ got \in [Readers -> [Fields -> Nat]]
    /\ DOMAIN toLoad = Readers
    /\ \E n \in 0..9, v \in Nat : Stored(n, v)
    /\ \A r \in Readers : \E n \in 0..9 : Loaded(r, n)

(***************************************************************************)
(* At any moment the parameters are at least as new as the rest.           *)
(***************************************************************************)
LEMMA ParamsAhead ==
    ASSUME CellInv, NEW e \in Early, NEW p \in Late
    PROVE  cell[e] <= cell[p]
  <1>1. PICK n \in 0..9, v \in Nat : Stored(n, v)
    BY DEF CellInv
  <1>2. PICK i \in 1..9 : StoreOrder[i] = e
    BY StoreOrderIs, FieldNames
  <1>3. PICK j \in 1..9 : StoreOrder[j] = p
    BY StoreOrderIs, FieldNames
  <1>4. i > 6 /\ j <= 6
    BY <1>2, <1>3, StoreOrderIs, FieldNames
  <1> QED
    BY <1>1, <1>2, <1>3, <1>4 DEF Stored

(***************************************************************************)
(* A change begins: nothing is stored yet.                                 *)
(***************************************************************************)
LEMMA BeginChangeKeeps ==
    ASSUME CellInv, BeginChange
    PROVE  CellInv'
  <1>1. PICK n \in 0..9, v \in Nat : Stored(n, v)
    BY DEF CellInv
  <1>2. n = 9
    BY <1>1, RestOfOrder DEF Stored, BeginChange
  <1>3. Stored(0, v + 1)'
    BY <1>1, <1>2, RestOfOrder DEF Stored, BeginChange
  <1>4. \A r \in Readers, m \in 0..9 : Loaded(r, m) => Loaded(r, m)'
    BY DEF Loaded, BeginChange
  <1> QED
    BY <1>3, <1>4 DEF CellInv, BeginChange

(***************************************************************************)
(* One more field is stored: values only grow, so no reader notices.       *)
(***************************************************************************)
LEMMA StoreNextKeeps ==
    ASSUME CellInv, StoreNext
    PROVE  CellInv'
  <1>1. PICK n \in 0..9, v \in Nat : Stored(n, v)
    BY DEF CellInv
  <1>2. n < 9 /\ Head(toStore) = StoreOrder[n + 1] /\ Tail(toStore) = Rest(StoreOrder, n + 1)
    <2>1. toStore = Rest(StoreOrder, n) /\ toStore # <<>>
      BY <1>1 DEF Stored, StoreNext
    <2>2. /\ Rest(StoreOrder, n) = <<>> <=> n = 9
          /\ n < 9 => /\ Head(Rest(StoreOrder, n)) = StoreOrder[n + 1]
                      /\ Tail(Rest(StoreOrder, n)) = Rest(StoreOrder, n + 1)
      BY RestOfOrder
    <2> QED
      BY <2>1, <2>2
  <1>3. StoreOrder[n + 1] \in Fields
    BY <1>2, StoreOrderIs
  <1>4. cell' \in [Fields -> Nat] /\ \A f \in Fields : cell'[f] >= cell[f]
    BY <1>2, <1>3 DEF StoreNext, CellInv
  <1>5. Stored(n + 1, v)'
    <2>1. toStore' = Rest(StoreOrder, n + 1)
      BY <1>2 DEF StoreNext
    <2>2. ASSUME NEW i \in 1..9
          PROVE  cell'[StoreOrder[i]] = IF i <= n + 1 THEN v + 1 ELSE v
      <3>1. StoreOrder[i] \in Fields /\ (StoreOrder[i] = StoreOrder[n + 1] => i = n + 1)
        BY <1>2, StoreOrderIs
      <3> QED
        <4>1. cell' = [cell EXCEPT ![StoreOrder[n + 1]] = @ + 1] /\ cell \in [Fields -> Nat]
          BY <1>2 DEF StoreNext, CellInv
        <4>2. cell[StoreOrder[i]] = IF i <= n THEN v + 1 ELSE v
          BY <1>1 DEF Stored
        <4>3. CASE i = n + 1
          BY <4>1, <4>2, <4>3, <1>3
        <4>4. CASE i # n + 1
          BY <4>1, <4>2, <4>4, <3>1
        <4> QED
          BY <4>3, <4>4
    <2> QED
      BY <2>1, <2>2 DEF Stored
  <1>6. ASSUME NEW r \in Readers
        PROVE  \E m \in 0..9 : Loaded(r, m)'
    <2>1. PICK m \in 0..9 : Loaded(r, m)
      BY DEF CellInv
    <2>2. \A i \in 1..m : got[r][LoadOrder[i]] \in Nat
      <3>1. \A i \in 1..m : LoadOrder[i] \in Fields
        BY LoadOrderIs
      <3> QED
        BY <3>1 DEF CellInv
    <2>3. \A p \in Late : cell[p] \in Nat /\ cell'[p] \in Nat /\ cell'[p] >= cell[p]
      BY <1>4, FieldNames DEF CellInv
    <2>4. Loaded(r, m)'
      BY <2>1, <2>2, <2>3 DEF Loaded, StoreNext
    <2> QED
      BY <2>4
  <1>7. n + 1 \in 0..9
    BY <1>2
  <1> QED
    BY <1>4, <1>5, <1>6, <1>7 DEF CellInv, StoreNext

(***************************************************************************)
(* A reader begins: it has loaded nothing.                                 *)
(***************************************************************************)
LEMMA BeginSnapshotKeeps ==
    ASSUME CellInv, NEW r \in Readers, BeginSnapshot(r)
    PROVE  CellInv'
  <1>1. \A n \in 0..9, v \in Nat : Stored(n, v) => Stored(n, v)'
    BY DEF Stored, BeginSnapshot
  <1>2. Loaded(r, 0)'
    BY RestOfOrder DEF Loaded, BeginSnapshot, CellInv
  <1>3. \A q \in Readers \ {r}, n \in 0..9 : Loaded(q, n) => Loaded(q, n)'
    BY DEF Loaded, BeginSnapshot, CellInv
  <1>4. \A q \in Readers : \E n \in 0..9 : Loaded(q, n)'
    BY <1>2, <1>3 DEF CellInv
  <1>5. DOMAIN toLoad' = Readers
    BY DEF BeginSnapshot, CellInv
  <1> QED
    BY <1>1, <1>4, <1>5 DEF CellInv, BeginSnapshot

(***************************************************************************)
(* A reader loads one more field: the revision or a signal is not ahead of *)
(* the parameters that are stored, and a parameter is not behind what the  *)
(* reader already has.                                                     *)
(***************************************************************************)
LEMMA LoadNextKeeps ==
    ASSUME CellInv, NEW r \in Readers, LoadNext(r)
    PROVE  CellInv'
  <1>1. PICK n \in 0..9 : Loaded(r, n)
    BY DEF CellInv
  <1> DEFINE f == LoadOrder[n + 1]
  <1>2. n < 9 /\ Head(toLoad[r]) = f /\ Tail(toLoad[r]) = Rest(LoadOrder, n + 1)
    <2>1. toLoad[r] = Rest(LoadOrder, n) /\ toLoad[r] # <<>>
      BY <1>1 DEF Loaded, LoadNext
    <2>2. /\ Rest(LoadOrder, n) = <<>> <=> n = 9
          /\ n < 9 => /\ Head(Rest(LoadOrder, n)) = LoadOrder[n + 1]
                      /\ Tail(Rest(LoadOrder, n)) = Rest(LoadOrder, n + 1)
      BY RestOfOrder
    <2> QED
      BY <2>1, <2>2
  <1>3. f \in Fields /\ n + 1 \in 1..9
    BY <1>2, LoadOrderIs
  <1>4. got' = [got EXCEPT ![r][f] = cell[f]] /\ UNCHANGED <<cell, toStore>>
    BY <1>2 DEF LoadNext
  <1>5. got' \in [Readers -> [Fields -> Nat]] /\ DOMAIN toLoad' = Readers
    <2>1. cell[f] \in Nat /\ got[r] \in [Fields -> Nat]
      BY <1>3 DEF CellInv
    <2>2. got' \in [Readers -> [Fields -> Nat]]
      BY <2>1, <1>3, <1>4 DEF CellInv
    <2> QED
      BY <2>2 DEF CellInv, LoadNext
  <1>6. \A i \in 1..n : LoadOrder[i] # f /\ LoadOrder[i] \in Fields
    BY <1>2, <1>3, LoadOrderIs
  <1>7. toLoad'[r] = Rest(LoadOrder, n + 1)
    BY <1>2 DEF LoadNext, CellInv
  <1>8. got'[r][f] = cell[f] /\ \A g \in Fields \ {f} : got'[r][g] = got[r][g]
    BY <1>3, <1>4 DEF CellInv
  <1> HIDE DEF f
  <1>9. \A i \in 1..n + 1 : i <= 3 => \A p \in Late : got'[r][LoadOrder[i]] <= cell'[p]
    <2> SUFFICES ASSUME NEW i \in 1..n + 1, i <= 3, NEW p \in Late
                 PROVE  got'[r][LoadOrder[i]] <= cell[p]
      BY <1>4
    <2>1. CASE i <= n
      BY <2>1, <1>1, <1>6, <1>8 DEF Loaded
    <2>2. CASE i = n + 1
      <3>1. f \in Early /\ LoadOrder[i] = f
        BY <2>2, <1>2, LoadOrderIs DEF f
      <3> QED
        BY <3>1, <1>8, ParamsAhead
    <2> QED
      BY <2>1, <2>2
  <1>10. \A i \in 1..n + 1 : i > 3 => \A e \in Early : got'[r][LoadOrder[i]] >= got'[r][e]
    <2> SUFFICES ASSUME NEW i \in 1..n + 1, i > 3, NEW e \in Early
                 PROVE  got'[r][LoadOrder[i]] >= got'[r][e]
      OBVIOUS
    <2>1. PICK j \in 1..3 : LoadOrder[j] = e
      BY LoadOrderIs, FieldNames
    <2>2. f \in Late /\ e # f /\ e \in Fields
      BY <1>2, LoadOrderIs, FieldNames DEF f
    <2>3. got'[r][e] = got[r][e]
      BY <2>2, <1>8
    <2>4. CASE i <= n
      BY <2>3, <2>4, <1>1, <1>6, <1>8 DEF Loaded
    <2>5. CASE i = n + 1
      <3>1. LoadOrder[i] = f /\ j \in 1..n
        BY <2>5 DEF f
      <3>2. got[r][e] <= cell[f]
        BY <3>1, <2>1, <2>2, <1>1 DEF Loaded
      <3>3. got[r][e] \in Nat /\ cell[f] \in Nat
        BY <2>2, <1>3 DEF CellInv
      <3> QED
        BY <3>1, <3>2, <3>3, <2>3, <1>8
    <2> QED
      BY <2>4, <2>5
  <1>11. Loaded(r, n + 1)'
    BY <1>7, <1>9, <1>10 DEF Loaded
  <1>12. ASSUME NEW q \in Readers
         PROVE  \E m \in 0..9 : Loaded(q, m)'
    <2>1. CASE q = r
      BY <2>1, <1>11, <1>2
    <2>2. CASE q # r
      <3>1. PICK m \in 0..9 : Loaded(q, m)
        BY DEF CellInv
      <3>2. toLoad'[q] = toLoad[q] /\ got'[q] = got[q]
        BY <2>2, <1>4 DEF LoadNext, CellInv
      <3>3. Loaded(q, m)'
        BY <3>1, <3>2, <1>4 DEF Loaded
      <3> QED
        BY <3>3
    <2> QED
      BY <2>1, <2>2
  <1>13. \A m \in 0..9, v \in Nat : Stored(m, v) => Stored(m, v)'
    BY <1>4 DEF Stored
  <1> QED
    BY <1>4, <1>5, <1>12, <1>13 DEF CellInv

(***************************************************************************)
(* However Adapt and its readers interleave, no parameter of a snapshot is *)
(* older than its revision, its pressure or its confidence.                *)
(***************************************************************************)
THEOREM SnapshotParamsNotOlder == CellSpec => []ParamsNotOlder
  <1>1. CellInit => CellInv
    <2> SUFFICES ASSUME CellInit PROVE CellInv
      OBVIOUS
    <2>1. /\ cell \in [Fields -> Nat] /\ got \in [Readers -> [Fields -> Nat]]
          /\ DOMAIN toLoad = Readers
      BY DEF CellInit
    <2>2. \A f \in Fields : cell[f] = 1
      BY DEF CellInit
    <2>3. Stored(9, 0)
      <3>1. toStore = Rest(StoreOrder, 9)
        BY RestOfOrder DEF CellInit
      <3> QED
        BY <3>1, <2>2, StoreOrderIs DEF Stored
    <2>4. ASSUME NEW r \in Readers
          PROVE  Loaded(r, 9)
      <3>1. \A f \in Fields : got[r][f] = 1
        BY <2>2 DEF CellInit
      <3>2. toLoad[r] = Rest(LoadOrder, 9)
        BY RestOfOrder DEF CellInit
      <3> QED
        BY <3>1, <3>2, <2>2, LoadOrderIs, FieldNames DEF Loaded
    <2> QED
      BY <2>1, <2>3, <2>4 DEF CellInv
  <1>2. CellInv /\ [CellNext]_cellVars => CellInv'
    <2>1. CellInv /\ UNCHANGED cellVars => CellInv'
      BY DEF CellInv, cellVars, Stored, Loaded
    <2> QED
      BY <2>1, BeginChangeKeeps, StoreNextKeeps, BeginSnapshotKeeps, LoadNextKeeps DEF CellNext
  <1>3. CellInv => ParamsNotOlder
    <2> SUFFICES ASSUME CellInv, NEW r \in Readers, toLoad[r] = <<>>,
                        NEW p \in Late, NEW e \in Early
                 PROVE  got[r][p] >= got[r][e]
      BY FieldNames DEF ParamsNotOlder
    <2>1. PICK n \in 0..9 : Loaded(r, n)
      BY DEF CellInv
    <2>2. n = 9
      BY <2>1, RestOfOrder DEF Loaded
    <2>3. PICK i \in 1..9 : LoadOrder[i] = p
      BY LoadOrderIs, FieldNames
    <2>4. i > 3
      BY <2>3, LoadOrderIs, FieldNames
    <2> QED
      BY <2>1, <2>2, <2>3, <2>4 DEF Loaded
  <1> QED
    BY <1>1, <1>2, <1>3, PTL DEF CellSpec

-----------------------------------------------------------------------------
(* The NATS client: pings. *)

(***************************************************************************)
(* A pinger that waits and has an answer has had it since it registered:   *)
(* its channel is new, so answers to earlier calls are not in it.          *)
(***************************************************************************)
PingInv ==
    /\ heard \in Nat /\ since \in [Pingers -> Nat]
    /\ ping \in [Pingers -> {"idle", "waiting", "ok", "failed"}]
    /\ pingWait \subseteq Pingers
    /\ \A p \in Pingers :
          /\ since[p] <= heard
          /\ ping[p] = "ok" => heard > since[p]
          /\ ping[p] = "waiting" /\ p \in wait => heard > since[p]

(***************************************************************************)
(* The calls of a pinger, from the question to the return.                 *)
(***************************************************************************)
LEMMA PingerKeeps ==
    ASSUME PingInv, NEW p \in Pingers,
           Ping(p) \/ PingAnswered(p) \/ PingTimesOut(p) \/ PingReturns(p)
    PROVE  PingInv'
  <1> USE DEF PingInv
  <1>1. CASE Ping(p)
    BY <1>1 DEF Ping
  <1>2. CASE PingAnswered(p)
    BY <1>2 DEF PingAnswered
  <1>3. CASE PingTimesOut(p)
    BY <1>3 DEF PingTimesOut
  <1>4. CASE PingReturns(p)
    BY <1>4 DEF PingReturns
  <1> QED
    BY <1>1, <1>2, <1>3, <1>4

(***************************************************************************)
(* A PONG makes heard exceed what every waiting pinger had registered.     *)
(***************************************************************************)
LEMMA ReadPongKeeps ==
    ASSUME PingInv, ReadPong
    PROVE  PingInv'
  BY DEF PingInv, ReadPong

(***************************************************************************)
(* Everything else leaves pingers alone.                                   *)
(***************************************************************************)
LEMMA OthersLeavePings ==
    ASSUME NatsNext,
           ~ReadPong,
           \A p \in Pingers : ~(Ping(p) \/ PingAnswered(p) \/ PingTimesOut(p) \/ PingReturns(p))
    PROVE  UNCHANGED <<pingWait, wait, ping, heard, since>>
  BY DEF NatsNext, Subscribe, Receive, ConsumerClose, BrokerClose, ServerPong, ServerSends,
         HangUp, ReadPing, ReadMsg, Deliver, ReadErr, ReadEOF, ReadClosed

(***************************************************************************)
(* A Ping that succeeds was answered by a PONG that the read loop read     *)
(* after the call had registered, for any number of pingers whose earlier  *)
(* calls timed out.                                                        *)
(***************************************************************************)
THEOREM PingsHeardSomething == NatsSpec => []PingHeardSomething
  <1>1. NatsInit => PingInv
    BY DEF NatsInit, PingInv
  <1>2. PingInv /\ [NatsNext]_natsVars => PingInv'
    <2> SUFFICES ASSUME PingInv, [NatsNext]_natsVars PROVE PingInv'
      OBVIOUS
    <2>1. CASE UNCHANGED <<pingWait, wait, ping, heard, since>>
      BY <2>1 DEF PingInv
    <2>2. UNCHANGED natsVars => UNCHANGED <<pingWait, wait, ping, heard, since>>
      BY DEF natsVars
    <2> QED
      BY <2>1, <2>2, PingerKeeps, ReadPongKeeps, OthersLeavePings
  <1>3. PingInv => PingHeardSomething
    BY DEF PingInv, PingHeardSomething
  <1> QED
    BY <1>1, <1>2, <1>3, PTL DEF NatsSpec

-----------------------------------------------------------------------------
(* The NATS client: panics. *)

Frame == [kind : {"PONG", "PING", "ERR", "MSG"}, for : Consumers \union {"none"}]

(***************************************************************************)
(* The consumer that the read loop delivers to exists.                     *)
(***************************************************************************)
ReaderTyped ==
    /\ chan \in [Consumers -> [len : Nat, closed : BOOLEAN]]
    /\ frames \in Seq(Frame)
    /\ \A i \in 1..Len(frames) : frames[i].kind = "MSG" => frames[i].for \in Consumers
    /\ reader.at = "deliver" => reader.for \in Consumers

(***************************************************************************)
(* Until a caller closes something, either the client is open and so are   *)
(* all channels, or the read loop has closed it and ended.                 *)
(***************************************************************************)
CalmUntilClose ==
    userClosed = {} =>
        /\ ~panicked
        /\ \/ ~closed /\ \A c \in Consumers : ~chan[c].closed
           \/ closed /\ reader = Stopped

(***************************************************************************)
(* Subscribing, receiving and closing a consumer touch its channel only.   *)
(***************************************************************************)
LEMMA CallersTyped ==
    ASSUME ReaderTyped, NEW c \in Consumers, Subscribe(c) \/ Receive(c) \/ ConsumerClose(c)
    PROVE  ReaderTyped'
  <1> USE DEF ReaderTyped
  <1>1. CASE Subscribe(c)
    BY <1>1 DEF Subscribe
  <1>2. CASE Receive(c)
    BY <1>2 DEF Receive
  <1>3. CASE ConsumerClose(c)
    BY <1>3 DEF ConsumerClose, CloseChannels
  <1> QED
    BY <1>1, <1>2, <1>3

(***************************************************************************)
(* The server only sends messages of subscriptions that exist.             *)
(***************************************************************************)
LEMMA ServerTyped ==
    ASSUME ReaderTyped, ServerPong \/ ServerSends
    PROVE  ReaderTyped'
  <1>1. UNCHANGED <<chan, reader>>
    BY DEF ServerPong, ServerSends
  <1>2. PICK f \in Frame : /\ frames' = Append(frames, f)
                           /\ f.kind = "MSG" => f.for \in Consumers
    <2>1. CASE ServerPong
      BY <2>1 DEF ServerPong, Send, Frame
    <2>2. CASE \E kind \in {"ERR", "PING"} : Send([kind |-> kind, for |-> "none"])
      BY <2>2 DEF Send, Frame
    <2>3. CASE \E c \in Consumers : Send([kind |-> "MSG", for |-> c])
      BY <2>3 DEF Send, Frame
    <2> QED
      BY <2>1, <2>2, <2>3 DEF ServerSends
  <1> QED
    BY <1>1, <1>2 DEF ReaderTyped

(***************************************************************************)
(* The read loop takes the head of the frames and finds its subscription.  *)
(***************************************************************************)
LEMMA ReaderKeepsTyped ==
    ASSUME ReaderTyped,
           ReadPong \/ ReadPing \/ ReadMsg \/ Deliver \/ ReadErr \/ ReadEOF \/ ReadClosed
    PROVE  ReaderTyped'
  <1>1. /\ frames' \in Seq(Frame)
        /\ \A i \in 1..Len(frames') : frames'[i].kind = "MSG" => frames'[i].for \in Consumers
    <2>1. CASE UNCHANGED frames
      BY <2>1 DEF ReaderTyped
    <2>2. CASE frames # <<>> /\ frames' = Tail(frames)
      BY <2>2 DEF ReaderTyped
    <2> QED
      BY <2>1, <2>2 DEF ReadPong, ReadPing, ReadMsg, Deliver, ReadErr, ReadEOF, ReadClosed, HasFrame
  <1>2. reader'.at = "deliver" => reader'.for \in Consumers
    <2>1. CASE ReadMsg
      <3>1. frames # <<>> /\ Head(frames).kind = "MSG" /\ Head(frames) = frames[1] /\ Len(frames) > 0
        BY <2>1 DEF ReadMsg, HasFrame, ReaderTyped
      <3>2. Head(frames).for \in Consumers
        BY <3>1 DEF ReaderTyped
      <3> QED
        BY <2>1, <3>2 DEF ReadMsg, Reading
    <2>2. CASE ~ReadMsg
      BY <2>2 DEF ReaderTyped, ReadPong, ReadPing, Deliver, ReadErr, ReadEOF, ReadClosed, Reading, Stopped
    <2> QED
      BY <2>1, <2>2
  <1>3. chan' \in [Consumers -> [len : Nat, closed : BOOLEAN]]
    <2>1. CASE Deliver
      BY <2>1 DEF Deliver, ReaderTyped
    <2>2. CASE ReadErr
      BY <2>2 DEF ReadErr, CloseAll, CloseChannels, ReaderTyped
    <2> QED
      BY <2>1, <2>2 DEF ReaderTyped, ReadPong, ReadPing, ReadMsg, ReadEOF, ReadClosed
  <1> QED
    BY <1>1, <1>2, <1>3 DEF ReaderTyped

(***************************************************************************)
(* Every step keeps the types.                                             *)
(***************************************************************************)
LEMMA NatsTyped ==
    ASSUME ReaderTyped, [NatsNext]_natsVars
    PROVE  ReaderTyped'
  <1>1. CASE BrokerClose
    BY <1>1 DEF BrokerClose, CloseAll, CloseChannels, ReaderTyped
  <1>2. CASE UNCHANGED <<chan, frames, reader>>
    BY <1>2 DEF ReaderTyped
  <1>3. HangUp => UNCHANGED <<chan, frames, reader>>
    BY DEF HangUp
  <1>4. ASSUME NEW p \in Pingers, Ping(p) \/ PingAnswered(p) \/ PingTimesOut(p) \/ PingReturns(p)
        PROVE  UNCHANGED <<chan, frames, reader>>
    BY <1>4 DEF Ping, PingAnswered, PingTimesOut, PingReturns
  <1>5. UNCHANGED natsVars => UNCHANGED <<chan, frames, reader>>
    BY DEF natsVars
  <1> QED
    BY <1>1, <1>2, <1>3, <1>4, <1>5, CallersTyped, ServerTyped, ReaderKeepsTyped DEF NatsNext

(***************************************************************************)
(* What callers do: a Close is a Close by a caller, the rest closes        *)
(* nothing.                                                                *)
(***************************************************************************)
LEMMA CallersStayCalm ==
    ASSUME ReaderTyped, CalmUntilClose, NEW c \in Consumers,
           Subscribe(c) \/ Receive(c) \/ ConsumerClose(c)
    PROVE  CalmUntilClose'
  <1>1. CASE Subscribe(c)
    BY <1>1 DEF Subscribe, CalmUntilClose
  <1>2. CASE Receive(c)
    BY <1>2 DEF Receive, CalmUntilClose, ReaderTyped
  <1>3. CASE ConsumerClose(c)
    <2>1. userClosed' # {}
      BY <1>3 DEF ConsumerClose
    <2> QED
      BY <2>1 DEF CalmUntilClose
  <1> QED
    BY <1>1, <1>2, <1>3

(***************************************************************************)
(* A delivery finds the channel open, and the Close of the read loop finds *)
(* open channels and is its last step.                                     *)
(***************************************************************************)
LEMMA ReaderStaysCalm ==
    ASSUME ReaderTyped, CalmUntilClose, Deliver \/ ReadErr
    PROVE  CalmUntilClose'
  <1> SUFFICES ASSUME userClosed' = {}
               PROVE  CalmUntilClose'
    BY DEF CalmUntilClose
  <1>1. userClosed = {}
    BY DEF Deliver, ReadErr
  <1>2. ~closed /\ ~panicked /\ \A c \in Consumers : ~chan[c].closed
    BY <1>1 DEF CalmUntilClose, Deliver, ReadErr, HasFrame, Stopped
  <1>3. CASE Deliver
    <2>1. reader.for \in Consumers
      BY <1>3 DEF Deliver, ReaderTyped
    <2>2. ~panicked' /\ ~closed'
      BY <2>1, <1>2, <1>3 DEF Deliver
    <2>3. \A c \in Consumers : chan'[c].closed = chan[c].closed
      BY <2>1, <1>3 DEF Deliver, ReaderTyped
    <2> QED
      BY <2>2, <2>3, <1>2 DEF CalmUntilClose
  <1>4. CASE ReadErr
    <2>1. closed' /\ ~panicked' /\ reader' = Stopped
      BY <1>2, <1>4 DEF ReadErr, CloseAll, CloseChannels
    <2> QED
      BY <2>1 DEF CalmUntilClose
  <1> QED
    BY <1>3, <1>4

(***************************************************************************)
(* The other steps close nothing, and none of them wakes the read loop.    *)
(***************************************************************************)
LEMMA OthersStayCalm ==
    ASSUME CalmUntilClose,
           \/ ReadPong \/ ReadPing \/ ReadMsg \/ ReadEOF \/ ReadClosed
           \/ UNCHANGED <<closed, chan, reader, panicked, userClosed>>
    PROVE  CalmUntilClose'
  <1>1. UNCHANGED <<closed, chan, panicked, userClosed>>
    BY DEF ReadPong, ReadPing, ReadMsg, ReadEOF, ReadClosed
  <1>2. reader = Stopped => reader' = Stopped
    BY DEF ReadPong, ReadPing, ReadMsg, ReadEOF, ReadClosed, HasFrame, Stopped
  <1> QED
    BY <1>1, <1>2 DEF CalmUntilClose

(***************************************************************************)
(* The client does not panic by itself, whatever the server sends and      *)
(* whenever it hangs up: a panic takes a Close by a caller.                *)
(***************************************************************************)
THEOREM PanicsNeedClose == NatsSpec => []PanicNeedsClose
  <1> DEFINE I == ReaderTyped /\ CalmUntilClose
  <1>1. NatsInit => I
    <2> SUFFICES ASSUME NatsInit PROVE I
      OBVIOUS
    <2>1. chan \in [Consumers -> [len : Nat, closed : BOOLEAN]]
      BY DEF NatsInit
    <2>2. ReaderTyped
      BY <2>1 DEF NatsInit, ReaderTyped, Reading
    <2>3. CalmUntilClose
      BY DEF NatsInit, CalmUntilClose
    <2> QED
      BY <2>2, <2>3
  <1>2. I /\ [NatsNext]_natsVars => I'
    <2> SUFFICES ASSUME ReaderTyped, CalmUntilClose, [NatsNext]_natsVars
                 PROVE  CalmUntilClose'
      BY NatsTyped
    <2> DEFINE Quiet == UNCHANGED <<closed, chan, reader, panicked, userClosed>>
    <2>1. ServerPong \/ ServerSends \/ HangUp => Quiet
      BY DEF ServerPong, ServerSends, HangUp
    <2>2. ASSUME NEW p \in Pingers, Ping(p) \/ PingAnswered(p) \/ PingTimesOut(p) \/ PingReturns(p)
          PROVE  Quiet
      BY <2>2 DEF Ping, PingAnswered, PingTimesOut, PingReturns
    <2>3. UNCHANGED natsVars => Quiet
      BY DEF natsVars
    <2>4. CASE BrokerClose
      <3>1. userClosed' # {}
        BY <2>4 DEF BrokerClose
      <3> QED
        BY <3>1 DEF CalmUntilClose
    <2> QED
      BY <2>1, <2>2, <2>3, <2>4, CallersStayCalm, ReaderStaysCalm, OthersStayCalm DEF NatsNext
  <1>3. I => PanicNeedsClose
    BY DEF CalmUntilClose, PanicNeedsClose
  <1> QED
    BY <1>1, <1>2, <1>3, PTL DEF NatsSpec

-----------------------------------------------------------------------------
(* The control policy. *)

(***************************************************************************)
(* The larger and the smaller of two numbers.                              *)
(***************************************************************************)
LEMMA MaxMin ==
    ASSUME NEW a \in Int, NEW b \in Int
    PROVE  /\ Max({a, b}) = IF a >= b THEN a ELSE b
           /\ Min({a, b}) = IF a <= b THEN a ELSE b
  <1>1. Max({a, b}) \in {a, b} /\ \A y \in {a, b} : Max({a, b}) >= y
    <2>1. \E x \in {a, b} : \A y \in {a, b} : x >= y
      BY SMT
    <2> QED
      BY <2>1 DEF Max
  <1>2. Min({a, b}) \in {a, b} /\ \A y \in {a, b} : Min({a, b}) <= y
    <2>1. \E x \in {a, b} : \A y \in {a, b} : x <= y
      BY SMT
    <2> QED
      BY <2>1 DEF Min
  <1> QED
    BY <1>1, <1>2

(***************************************************************************)
(* clamp stays between its limits.                                         *)
(***************************************************************************)
LEMMA ClampBounds ==
    ASSUME NEW v \in Int, NEW lo \in Int, NEW hi \in Int, lo <= hi
    PROVE  /\ clamp(v, lo, hi) \in lo..hi
           /\ clamp(v, lo, hi) = IF v < lo THEN lo ELSE IF v > hi THEN hi ELSE v
  <1>1. PICK m \in Int : m = Min({v, hi}) /\ m = IF v <= hi THEN v ELSE hi
    BY MaxMin
  <1>2. Max({lo, m}) = IF lo >= m THEN lo ELSE m
    BY MaxMin
  <1> QED
    BY <1>1, <1>2 DEF clamp

(***************************************************************************)
(* A clamped percentage is one.                                            *)
(***************************************************************************)
LEMMA Percentage ==
    ASSUME NEW v \in Int
    PROVE  clamp(v, 0, 100) \in 0..100
  <1>1. PICK z \in Int, n \in Int : z = 0 /\ n = 100
    OBVIOUS
  <1>2. z <= n
    BY <1>1
  <1>3. clamp(v, z, n) \in z..n
    BY <1>2, ClampBounds
  <1> QED
    BY <1>1, <1>3

(***************************************************************************)
(* The quotients of the code, as numbers.                                  *)
(***************************************************************************)
LEMMA Quotients ==
    ASSUME NEW a \in Int, NEW n \in Nat \ {0}
    PROVE  a \div n \in Int
  OBVIOUS

(***************************************************************************)
(* What a tick computes from a situation and the state of the report: the  *)
(* pressure and the confidence are percentages, and an unsafe report leaves*)
(* a confidence of at most 20.                                             *)
(***************************************************************************)
LEMMA SignalsBounded ==
    ASSUME NEW s \in Situations, NEW state \in HealthStates
    PROVE  /\ Pressure[s][state] \in 0..100
           /\ Confidence[s][state] \in 0..100
           /\ state = "unsafe" => Confidence[s][state] <= 20
  <1>1. SituationOK(s) /\ QueueCap \in Nat \ {0} /\ MaxQueueAge \in Nat \ {0}
    BY PolicyAssumption
  <1>2. Len(s.ages) \in Nat /\ OldestAge(s) \in Nat /\ s.debt \in Nat /\ s.latency \in Nat
    <2>1. s.ages \in Seq(Nat) /\ s.debt \in Nat /\ s.latency \in Nat
      BY <1>1 DEF SituationOK
    <2> QED
      BY <2>1 DEF OldestAge
  <1>3. \A cond, v : v \in Int => If(cond, v) \in Int
    BY DEF If
  <1>4. estimatePressure[s][state] \in 0..100
    <2> DEFINE a == (35 * Len(s.ages)) \div QueueCap
               b == clamp((100 * OldestAge(s)) \div MaxQueueAge, 0, 200)
               c == clamp(s.debt, 0, 100)
               d == clamp(s.latency, 0, 200)
               e == If(s.net <= 0 /\ Len(s.ages) > 0, 5)
               f == If(s.debt > 0, 5)
               g == If(state = "degraded", 5)
               h == If(state = "unsafe", 10)
    <2>1. a \in Int /\ (100 * OldestAge(s)) \div MaxQueueAge \in Int
      BY <1>1, <1>2, Quotients
    <2>2. b \in Int /\ c \in Int /\ d \in Int
      <3>1. PICK x \in Int, y \in Int, u \in Int :
              x = (100 * OldestAge(s)) \div MaxQueueAge /\ y = s.debt /\ u = s.latency
        BY <2>1, <1>2
      <3>2. PICK z \in Int, n \in Int, m \in Int : z = 0 /\ n = 100 /\ m = 200
        OBVIOUS
      <3>3. z <= n /\ z <= m
        BY <3>2
      <3>4. clamp(x, z, m) \in z..m /\ clamp(y, z, n) \in z..n /\ clamp(u, z, m) \in z..m
        BY <3>3, ClampBounds
      <3>5. b = clamp(x, z, m) /\ c = clamp(y, z, n) /\ d = clamp(u, z, m)
        BY <3>1, <3>2
      <3> HIDE DEF b, c, d
      <3> QED
        BY <3>4, <3>5
    <2>3. e \in Int /\ f \in Int /\ g \in Int /\ h \in Int
      BY <1>3
    <2>4. estimatePressure[s][state] =
             clamp(a + (25 * b) \div 200 + (15 * c) \div 100 + (15 * d) \div 200 + e + f + g + h, 0, 100)
      BY DEF estimatePressure
    <2> HIDE DEF a, b, c, d, e, f, g, h
    <2>5. a + (25 * b) \div 200 + (15 * c) \div 100 + (15 * d) \div 200 + e + f + g + h \in Int
      BY <2>1, <2>2, <2>3
    <2> QED
      BY <2>4, <2>5, Percentage
  <1>5. Pressure[s][state] \in 0..100
    <2> DEFINE a == If(~s.fresh, 25)
               b == If(state = "degraded", 10)
               c == If(state = "unsafe", 25)
               d == If(Stale(s), 15)
               e == If(Len(s.ages) > 0 /\ s.net <= 0, 5)
    <2>1. a \in Int /\ b \in Int /\ c \in Int /\ d \in Int /\ e \in Int
      BY <1>3
    <2>2. Pressure[s][state] = clamp(estimatePressure[s][state] + a + b + c + d + e, 0, 100)
      BY DEF Pressure
    <2> HIDE DEF a, b, c, d, e
    <2>3. estimatePressure[s][state] + a + b + c + d + e \in Int
      BY <1>4, <2>1
    <2> QED
      BY <2>2, <2>3, Percentage
  <1>6. PICK c \in 0..100 : c = IF ~s.fresh THEN 0 ELSE 100 - estimatePressure[s][state]
    <2>1. PICK x \in 0..100 : x = estimatePressure[s][state]
      BY <1>4
    <2>2. (IF ~s.fresh THEN 0 ELSE 100 - x) \in 0..100
      BY <2>1
    <2> QED
      BY <2>1, <2>2
  <1>7. Confidence[s][state] = IF state = "unsafe" THEN Min({c, 20}) ELSE c
    BY <1>6 DEF Confidence
  <1>8. Min({c, 20}) = IF c <= 20 THEN c ELSE 20
    <2>1. PICK n \in Int : n = 20
      OBVIOUS
    <2>2. Min({c, n}) = IF c <= n THEN c ELSE n
      BY MaxMin
    <2> QED
      BY <2>1, <2>2
  <1> QED
    BY <1>5, <1>7, <1>8

(***************************************************************************)
(* A smoothed value lies between the value and its target.                 *)
(***************************************************************************)
LEMMA SmoothBetween ==
    ASSUME NEW lo \in Int, NEW hi \in Int, NEW c \in lo..hi, NEW t \in lo..hi
    PROVE  smooth(c, t) \in lo..hi /\ smoothInt(c, t) \in lo..hi
  BY DEF smooth, smoothInt

(***************************************************************************)
(* The targets of a tick are within the bounds.                            *)
(***************************************************************************)
LEMMA TargetsBounded ==
    ASSUME NEW pr \in 0..100
    PROVE  /\ Target[pr].minNet \in MinNetValue..(MinNetValue + WorkCost)
           /\ Target[pr].minSlack \in MinDeadlineSlack..(MinDeadlineSlack + RequestTimeout)
           /\ Target[pr].maxAge \in Min({Second, MaxQueueAge})..Max({Second, MaxQueueAge})
           /\ Target[pr].backoff \in RetryBackoff..(5 * RetryBackoff)
           /\ Target[pr].pct \in 60..basePct /\ Target[pr].floor \in baseFloor..95
  <1>1. /\ Second \in Nat /\ RequestTimeout \in Nat /\ MinDeadlineSlack \in Nat
        /\ RetryBackoff \in Nat /\ WorkCost \in Nat /\ MaxQueueAge \in Nat /\ MinNetValue \in Int
    BY PolicyAssumption
  <1> DEFINE T == Target[pr]
  <1>2. /\ T.minNet = MinNetValue + (pr * WorkCost) \div 100
        /\ T.minSlack = MinDeadlineSlack + (pr * RequestTimeout) \div 200
        /\ T.maxAge = Max({Second, (MaxQueueAge * (1000 - 6 * pr)) \div 1000})
        /\ T.backoff = Min({5 * RetryBackoff,
                            Max({Second \div 10, (RetryBackoff * (100 + pr)) \div 100})})
        /\ T.pct = clamp(basePct - (20 * pr + 50) \div 100, 60, basePct)
        /\ T.floor = clamp(baseFloor + (30 * pr) \div 100, 30, 95)
    BY DEF Target
  <1> HIDE DEF T
  <1>3. T.minNet \in MinNetValue..(MinNetValue + WorkCost)
    <2>1. (pr * WorkCost) \div 100 \in 0..WorkCost
      <3>1. PICK m \in Nat : m = pr * WorkCost
        BY <1>1
      <3>2. m <= 100 * WorkCost
        BY <1>1, <3>1
      <3> QED
        BY <1>1, <3>1, <3>2
    <2> QED
      BY <1>1, <1>2, <2>1
  <1>4. T.minSlack \in MinDeadlineSlack..(MinDeadlineSlack + RequestTimeout)
    <2>1. (pr * RequestTimeout) \div 200 \in 0..RequestTimeout
      <3>1. PICK m \in Nat : m = pr * RequestTimeout
        BY <1>1
      <3>2. m <= 100 * RequestTimeout
        BY <1>1, <3>1
      <3> QED
        BY <1>1, <3>1, <3>2
    <2> QED
      BY <1>1, <1>2, <2>1
  <1>5. T.maxAge \in Min({Second, MaxQueueAge})..Max({Second, MaxQueueAge})
    <2>1. PICK k \in 0..1000 : k = 1000 - 6 * pr
      OBVIOUS
    <2>2. PICK a \in 0..MaxQueueAge : a = (MaxQueueAge * k) \div 1000
      <3>1. PICK m \in Nat : m = MaxQueueAge * k
        BY <1>1
      <3>2. m <= 1000 * MaxQueueAge
        BY <1>1, <3>1
      <3>3. (MaxQueueAge * k) \div 1000 \in 0..MaxQueueAge
        BY <1>1, <3>1, <3>2
      <3> QED
        BY <3>3
    <2>3. /\ Max({Second, a}) = IF Second >= a THEN Second ELSE a
          /\ Max({Second, MaxQueueAge}) = IF Second >= MaxQueueAge THEN Second ELSE MaxQueueAge
          /\ Min({Second, MaxQueueAge}) = IF Second <= MaxQueueAge THEN Second ELSE MaxQueueAge
      BY <1>1, MaxMin
    <2> QED
      BY <1>1, <1>2, <2>1, <2>2, <2>3
  <1>6. T.backoff \in RetryBackoff..(5 * RetryBackoff)
    <2>1. PICK k \in 100..200 : k = 100 + pr
      OBVIOUS
    <2>2. PICK m \in Nat : m = RetryBackoff * k /\ m >= 100 * RetryBackoff
      BY <1>1
    <2>3. PICK a \in Nat : a = (RetryBackoff * (100 + pr)) \div 100 /\ a >= RetryBackoff
      BY <1>1, <2>1, <2>2
    <2>4. PICK z \in Nat : z = Second \div 10
      BY <1>1
    <2>5. Max({z, a}) = IF z >= a THEN z ELSE a
      BY MaxMin
    <2>6. PICK x \in Nat : x = Max({z, a}) /\ x >= RetryBackoff
      BY <1>1, <2>3, <2>5
    <2>7. PICK y \in Nat : y = 5 * RetryBackoff /\ y >= RetryBackoff
      BY <1>1
    <2>8. Min({y, x}) = IF y <= x THEN y ELSE x
      BY MaxMin
    <2>9. T.backoff = Min({y, x})
      BY <1>2, <2>3, <2>4, <2>6, <2>7
    <2> QED
      BY <1>1, <2>6, <2>7, <2>8, <2>9
  <1>7. T.pct \in 60..basePct
    <2>1. basePct - (20 * pr + 50) \div 100 \in Int /\ basePct \in Int /\ 60 <= basePct
      BY DEF basePct
    <2> QED
      BY <1>2, <2>1, ClampBounds
  <1>8. T.floor \in baseFloor..95
    <2>1. PICK v \in Int : v = baseFloor + (30 * pr) \div 100 /\ v >= 55
      BY DEF baseFloor
    <2>2. clamp(v, 30, 95) = IF v < 30 THEN 30 ELSE IF v > 95 THEN 95 ELSE v
      BY ClampBounds
    <2> QED
      BY <1>2, <2>1, <2>2 DEF baseFloor
  <1> QED
    BY <1>3, <1>4, <1>5, <1>6, <1>7, <1>8 DEF T

(***************************************************************************)
(* The inductive invariant.  Beyond the bounds: since an unsafe report the *)
(* confidence is at most 20, and so below any floor.                       *)
(***************************************************************************)
PolicyInv ==
    /\ TypeOK
    /\ report = "unsafe" => policy.confidence <= 20 /\ answer # "admitted"

(***************************************************************************)
(* The policy of a fresh process is within the bounds.                     *)
(***************************************************************************)
LEMMA FreshBounded == WithinBounds(NewControlPolicy)
  <1>1. /\ Second \in Nat /\ RequestTimeout \in Nat /\ MinDeadlineSlack \in Nat
        /\ RetryBackoff \in Nat /\ WorkCost \in Nat /\ MaxQueueAge \in Nat /\ MinNetValue \in Int
    BY PolicyAssumption
  <1>2. /\ Max({Second, MaxQueueAge}) = IF Second >= MaxQueueAge THEN Second ELSE MaxQueueAge
        /\ Min({Second, MaxQueueAge}) = IF Second <= MaxQueueAge THEN Second ELSE MaxQueueAge
    BY <1>1, MaxMin
  <1> QED
    BY <1>1, <1>2 DEF WithinBounds, NewControlPolicy, basePct, baseFloor

(***************************************************************************)
(* Adapt keeps every value within its bounds.                              *)
(***************************************************************************)
LEMMA AdaptBounded ==
    ASSUME WithinBounds(policy), NEW s \in Situations, NEW state \in HealthStates
    PROVE  /\ WithinBounds(Adapt(s, state))
           /\ state = "unsafe" => Adapt(s, state).confidence <= 20
  <1>1. PICK pr \in 0..100 : pr = Pressure[s][state]
    BY SignalsBounded
  <1> DEFINE t == Target[pr]
             a == Adapt(s, state)
  <1>2. /\ a.minNet = smooth(policy.minNet, t.minNet)
        /\ a.minSlack = smooth(policy.minSlack, t.minSlack)
        /\ a.maxAge = smooth(policy.maxAge, t.maxAge)
        /\ a.backoff = smooth(policy.backoff, t.backoff)
        /\ a.pct = smoothInt(policy.pct, t.pct)
        /\ a.floor = smooth(policy.floor, t.floor)
        /\ a.pressure = pr
        /\ a.confidence = Confidence[s][state]
    BY <1>1 DEF Adapt
  <1>3. /\ t.minNet \in MinNetValue..(MinNetValue + WorkCost)
        /\ t.minSlack \in MinDeadlineSlack..(MinDeadlineSlack + RequestTimeout)
        /\ t.maxAge \in Min({Second, MaxQueueAge})..Max({Second, MaxQueueAge})
        /\ t.backoff \in RetryBackoff..(5 * RetryBackoff)
        /\ t.pct \in 60..basePct /\ t.floor \in baseFloor..95
    BY TargetsBounded
  <1>4. a.confidence \in 0..100 /\ (state = "unsafe" => a.confidence <= 20)
    BY <1>2, SignalsBounded
  <1> HIDE DEF t, a
  <1>5. /\ MinNetValue \in Int /\ MinNetValue + WorkCost \in Int
        /\ MinDeadlineSlack \in Int /\ MinDeadlineSlack + RequestTimeout \in Int
        /\ RetryBackoff \in Int /\ 5 * RetryBackoff \in Int
        /\ Min({Second, MaxQueueAge}) \in Int /\ Max({Second, MaxQueueAge}) \in Int
    <2>1. /\ Second \in Int /\ RequestTimeout \in Int /\ MinDeadlineSlack \in Int
          /\ RetryBackoff \in Int /\ WorkCost \in Int /\ MaxQueueAge \in Int /\ MinNetValue \in Int
      BY PolicyAssumption
    <2>2. Min({Second, MaxQueueAge}) \in Int /\ Max({Second, MaxQueueAge}) \in Int
      BY <2>1, MaxMin
    <2> QED
      BY <2>1, <2>2
  <1>6. \A lo, hi \in Int : \A c, g \in lo..hi : smooth(c, g) \in lo..hi /\ smoothInt(c, g) \in lo..hi
    BY SmoothBetween
  <1>7. a.minNet \in MinNetValue..(MinNetValue + WorkCost)
    <2>1. PICK hi \in Int : hi = MinNetValue + WorkCost
      BY <1>5
    <2>2. policy.minNet \in MinNetValue..hi /\ t.minNet \in MinNetValue..hi
      BY <1>3, <2>1 DEF WithinBounds
    <2> QED
      BY ZenonT(60), <1>2, <1>5, <1>6, <2>1, <2>2
  <1>8. a.minSlack \in MinDeadlineSlack..(MinDeadlineSlack + RequestTimeout)
    <2>1. PICK hi \in Int : hi = MinDeadlineSlack + RequestTimeout
      BY <1>5
    <2>2. policy.minSlack \in MinDeadlineSlack..hi /\ t.minSlack \in MinDeadlineSlack..hi
      BY <1>3, <2>1 DEF WithinBounds
    <2> QED
      BY ZenonT(60), <1>2, <1>5, <1>6, <2>1, <2>2
  <1>9. a.maxAge \in Min({Second, MaxQueueAge})..Max({Second, MaxQueueAge})
    BY <1>2, <1>3, <1>5, <1>6 DEF WithinBounds
  <1>10. a.backoff \in RetryBackoff..(5 * RetryBackoff)
    <2>1. PICK hi \in Int : hi = 5 * RetryBackoff
      BY <1>5
    <2>2. policy.backoff \in RetryBackoff..hi /\ t.backoff \in RetryBackoff..hi
      BY <1>3, <2>1 DEF WithinBounds
    <2> QED
      BY ZenonT(60), <1>2, <1>5, <1>6, <2>1, <2>2
  <1>11. a.pct \in 60..basePct
    <2>1. policy.pct \in 60..80 /\ t.pct \in 60..80
      BY <1>3 DEF WithinBounds, basePct
    <2> QED
      BY <1>2, <2>1 DEF smoothInt, basePct
  <1>12. a.floor \in baseFloor..95
    <2>1. policy.floor \in 55..95 /\ t.floor \in 55..95
      BY <1>3 DEF WithinBounds, baseFloor
    <2> QED
      BY <1>2, <2>1 DEF smooth, baseFloor
  <1>13. WithinBounds(a)
    BY <1>2, <1>4, <1>7, <1>8, <1>9, <1>10, <1>11, <1>12 DEF WithinBounds
  <1> QED
    BY <1>4, <1>13 DEF a

(***************************************************************************)
(* A saved policy is applied within the bounds, whichever of its values    *)
(* ApplySnapshot skips.                                                    *)
(***************************************************************************)
LEMMA ApplyBounded ==
    ASSUME NEW p, WithinBounds(p), NEW snap, WithinBounds(snap)
    PROVE  WithinBounds(ApplySnapshot(p, snap))
  <1> DEFINE a == ApplySnapshot(p, snap)
  <1>1. /\ a.minNet \in {p.minNet, snap.minNet} /\ a.minSlack \in {p.minSlack, snap.minSlack}
        /\ a.maxAge \in {p.maxAge, snap.maxAge} /\ a.backoff \in {p.backoff, snap.backoff}
        /\ a.pct \in {p.pct, snap.pct} /\ a.floor \in {p.floor, snap.floor}
        /\ a.pressure = clamp(snap.pressure, 0, 100)
        /\ a.confidence = clamp(snap.confidence, 0, 100)
    BY DEF ApplySnapshot
  <1> HIDE DEF a
  <1>2. PICK x \in Int, y \in Int : x = snap.pressure /\ y = snap.confidence
    <2>1. snap.pressure \in 0..100 /\ snap.confidence \in 0..100
      BY SMTT(30) DEF WithinBounds
    <2> QED
      BY <2>1
  <1>3. clamp(x, 0, 100) \in 0..100 /\ clamp(y, 0, 100) \in 0..100
    BY Percentage
  <1>4. a.pressure \in 0..100 /\ a.confidence \in 0..100
    BY <1>1, <1>2, <1>3
  <1>5. WithinBounds(a)
    BY <1>1, <1>4 DEF WithinBounds
  <1> QED
    BY <1>5 DEF a

(***************************************************************************)
(* The report is one of the four states, and stale work makes it unsafe.   *)
(***************************************************************************)
LEMMA Reports ==
    ASSUME NEW s, NEW p
    PROVE  /\ AssessHealth(s, p) \in HealthStates
           /\ Unsafe(s, p) => AssessHealth(s, p) = "unsafe"
  BY DEF AssessHealth, HealthStates

(***************************************************************************)
(* Every step keeps the invariant.                                         *)
(***************************************************************************)
LEMMA NextPolicyInv ==
    ASSUME PolicyInv, [Next]_vars
    PROVE  PolicyInv'
  <1>1. /\ w \in Situations /\ WithinBounds(policy) /\ \A p \in stored : WithinBounds(p)
        /\ report \in HealthStates /\ draining \in BOOLEAN /\ restarts \in 0..MaxRestarts
        /\ report = "unsafe" => policy.confidence <= 20 /\ answer # "admitted"
    BY DEF PolicyInv, TypeOK
  <1>2. CASE Tick
    <2>1. PICK state \in HealthStates : state = AssessHealth(w, policy)
      BY Reports
    <2>2. /\ report' = state /\ policy' = Adapt(w, state) /\ stored' = {policy'} /\ answer' = "none"
          /\ UNCHANGED <<w, draining, restarts>>
      BY <1>2, <2>1 DEF Tick
    <2>3. WithinBounds(Adapt(w, state)) /\ (state = "unsafe" => Adapt(w, state).confidence <= 20)
      BY <1>1, AdaptBounded
    <2>4. WithinBounds(policy') /\ (\A p \in stored' : WithinBounds(p)) /\ answer' # "admitted"
      BY <2>2, <2>3
    <2> QED
      BY <1>1, <2>2, <2>3, <2>4 DEF PolicyInv, TypeOK, WithinBounds
  <1>3. ASSUME NEW o \in Offers, Submit(o)
        PROVE  PolicyInv'
    <2>1. /\ UNCHANGED <<w, policy, stored, draining, report, restarts>>
          /\ answer' = IF Admits(o) THEN "admitted" ELSE "refused"
      BY <1>3 DEF Submit
    <2>2. policy.confidence <= 20 => ~Admits(o)
      <3>1. policy.confidence \in 0..100 /\ policy.floor \in 55..95
        BY <1>1 DEF WithinBounds, baseFloor
      <3> QED
        BY <3>1 DEF Admits
    <2> QED
      BY <1>1, <2>1, <2>2 DEF PolicyInv, TypeOK, WithinBounds
  <1>4. CASE Drain
    <2>1. UNCHANGED <<w, policy, stored, report, answer, restarts>> /\ draining' = TRUE
      BY <1>4 DEF Drain
    <2> QED
      BY <1>1, <2>1 DEF PolicyInv, TypeOK, WithinBounds
  <1>5. CASE Restart
    <2>1. /\ restarts < MaxRestarts /\ restarts' = restarts + 1 /\ draining' = FALSE
          /\ stored' \in {stored, {}} /\ report' = "healthy" /\ UNCHANGED w
          /\ policy' = IF stored' = {} THEN NewControlPolicy
                       ELSE ApplySnapshot(NewControlPolicy, CHOOSE snap \in stored' : TRUE)
      BY <1>5 DEF Restart
    <2>2. \A p \in stored' : WithinBounds(p)
      BY <1>1, <2>1
    <2>3. WithinBounds(policy')
      <3>1. CASE stored' = {}
        BY <2>1, <3>1, FreshBounded
      <3>2. CASE stored' # {}
        <4>1. PICK snap : snap \in stored' /\ snap = CHOOSE z \in stored' : TRUE
          BY <3>2
        <4>2. WithinBounds(ApplySnapshot(NewControlPolicy, snap))
          BY <2>2, <4>1, FreshBounded, ApplyBounded
        <4> QED
          BY <2>1, <3>2, <4>1, <4>2
      <3> QED
        BY <3>1, <3>2
    <2>4. restarts' \in 0..MaxRestarts
      BY <1>1, <2>1, PolicyAssumption
    <2>5. report' \in HealthStates /\ report' # "unsafe"
      BY <2>1 DEF HealthStates
    <2> QED
      BY <1>1, <2>1, <2>2, <2>3, <2>4, <2>5 DEF PolicyInv, TypeOK, WithinBounds
  <1>6. CASE Change
    <2>1. w' \in Situations /\ answer' = "none" /\ UNCHANGED <<policy, stored, draining, report, restarts>>
      BY <1>6 DEF Change
    <2> QED
      BY <1>1, <2>1 DEF PolicyInv, TypeOK, WithinBounds
  <1>7. CASE UNCHANGED vars
    BY <1>1, <1>7 DEF vars, PolicyInv, TypeOK, WithinBounds
  <1> QED
    BY <1>2, <1>3, <1>4, <1>5, <1>6, <1>7 DEF Next

(***************************************************************************)
(* Every value of the policy stays within the bounds of its configuration, *)
(* whatever load, failures, drains and restarts come, and an unsafe report *)
(* stands with a confidence of at most 20.                                 *)
(***************************************************************************)
THEOREM PolicyStaysBounded == Spec => []PolicyInv
  <1>1. Init => PolicyInv
    <2> SUFFICES ASSUME Init PROVE PolicyInv
      OBVIOUS
    <2>1. /\ w \in Situations /\ policy = NewControlPolicy /\ stored = {} /\ draining = FALSE
          /\ report = "healthy" /\ restarts = 0
      BY DEF Init
    <2>2. WithinBounds(policy)
      BY <2>1, FreshBounded
    <2>3. report \in HealthStates /\ restarts \in 0..MaxRestarts
      BY <2>1, PolicyAssumption DEF HealthStates
    <2> QED
      BY <2>1, <2>2, <2>3 DEF PolicyInv, TypeOK
  <1>2. PolicyInv /\ [Next]_vars => PolicyInv'
    BY NextPolicyInv
  <1> QED
    BY <1>1, <1>2, PTL DEF Spec

(***************************************************************************)
(* Work older than the configuration allows makes the report unsafe        *)
(* wherever it stands in the queue, and after an unsafe report nothing is  *)
(* admitted until a tick reports otherwise.                                *)
(***************************************************************************)
THEOREM UnsafeNeverAdmits == Spec => []UnsafeAdmitsNothing
  <1>1. PolicyInv => UnsafeAdmitsNothing
    <2>1. (\E i \in DOMAIN w.ages : w.ages[i] > MaxQueueAge) => Unsafe(w, policy)
      BY DEF Unsafe, Stale
    <2> QED
      BY <2>1, Reports DEF PolicyInv, UnsafeAdmitsNothing
  <1> QED
    BY <1>1, PolicyStaysBounded, PTL

-----------------------------------------------------------------------------
(* The state stores: the oldest and the newest elements of a set. *)

(***************************************************************************)
(* A set of numbers that is not empty has a smallest element.              *)
(***************************************************************************)
LEMMA MinIs ==
    ASSUME NEW S, S \subseteq Nat, S # {}
    PROVE  Min(S) \in S /\ \A y \in S : Min(S) <= y
  <1> DEFINE less == OpToRel(<, Nat)
  <1>1. PICK x \in S : \A y \in S : ~(<<y, x>> \in less)
    <2>1. IsWellFoundedOn(less, Nat)
      BY NatLessThanWellFounded
    <2> HIDE DEF less
    <2> QED
      BY <2>1, WFMin
  <1>2. \A y \in S : x <= y
    <2> SUFFICES ASSUME NEW y \in S, ~(x <= y) PROVE FALSE
      OBVIOUS
    <2>1. <<y, x>> \in Nat \X Nat /\ y < x
      OBVIOUS
    <2>2. <<y, x>> \in less
      BY <2>1 DEF OpToRel
    <2> HIDE DEF less
    <2> QED
      BY <2>2, <1>1
  <1> QED
    BY <1>2 DEF Min

(***************************************************************************)
(* The larger and the smaller of two numbers, and the largest of three.    *)
(***************************************************************************)
LEMMA MaxOfNumbers ==
    ASSUME NEW a \in Int, NEW b \in Int
    PROVE  /\ Max({a, b}) = IF a >= b THEN a ELSE b
           /\ Min({a, b}) = IF a <= b THEN a ELSE b
           /\ \A c \in Int, d \in Int : (a <= d /\ b <= d /\ c <= d) => Max({a, b, c}) <= d
  <1>1. \E x \in {a, b} : \A y \in {a, b} : x >= y
    OBVIOUS
  <1>2. \E x \in {a, b} : \A y \in {a, b} : x =< y
    OBVIOUS
  <1>3. ASSUME NEW c \in Int, NEW d \in Int, a <= d, b <= d, c <= d
        PROVE  Max({a, b, c}) <= d
    <2>1. \E x \in {a, b, c} : \A y \in {a, b, c} : x >= y
      OBVIOUS
    <2>2. Max({a, b, c}) \in {a, b, c}
      BY <2>1 DEF Max
    <2> QED
      BY <1>3, <2>2
  <1> QED
    BY <1>1, <1>2, <1>3 DEF Max, Min

(***************************************************************************)
(* T is what the memory store keeps of S: all of it, or Limit elements that*)
(* are newer than the rest.                                                *)
(***************************************************************************)
KeptOf(T, S) ==
    /\ S \subseteq Ids /\ T \subseteq S
    /\ Cardinality(T) <= Limit /\ (T # S => Cardinality(T) = Limit)
    /\ \A x \in T, y \in S \ T : x > y

(***************************************************************************)
(* Sets of identifiers are finite.                                         *)
(***************************************************************************)
LEMMA IdsFinite ==
    ASSUME NEW S, S \subseteq Ids
    PROVE  IsFiniteSet(S) /\ Cardinality(S) \in Nat /\ S \subseteq Nat
  BY FS_Subset, FS_CardinalityType, StoreAssumption

(***************************************************************************)
(* What is kept is what a list of the newest shows.                        *)
(***************************************************************************)
LEMMA KeptIsNewest ==
    ASSUME NEW T, NEW S, KeptOf(T, S)
    PROVE  Newest(S) = T
  <1> DEFINE Above(i) == {k \in S : k > i}
  <1>1. Limit \in Nat /\ S \subseteq Ids /\ T \subseteq Ids /\ S \subseteq Nat /\ Cardinality(T) \in Nat
    BY IdsFinite, StoreAssumption DEF KeptOf
  <1>2. ASSUME NEW i \in T PROVE Cardinality(Above(i)) < Limit
    <2>1. Above(i) \subseteq T \ {i} /\ T \ {i} \subseteq Ids
      <3>1. ASSUME NEW k \in S, k > i PROVE k \in T \ {i}
        <4>1. i \in Nat /\ k \in Nat
          BY <1>1 DEF KeptOf
        <4>2. k \in S \ T => i > k
          BY DEF KeptOf
        <4> QED
          BY <3>1, <4>1, <4>2
      <3> QED
        BY <1>1, <3>1
    <2>2. Cardinality(T \ {i}) = Cardinality(T) - 1
      BY <1>1, IdsFinite, FS_RemoveElement
    <2>3. Cardinality(Above(i)) <= Cardinality(T \ {i})
      BY <2>1, IdsFinite, FS_Subset
    <2>4. Cardinality(Above(i)) \in Nat
      BY <1>1, IdsFinite
    <2> QED
      BY <1>1, <2>2, <2>3, <2>4 DEF KeptOf
  <1>3. ASSUME NEW i \in S \ T PROVE ~(Cardinality(Above(i)) < Limit)
    <2>1. T \subseteq Above(i) /\ Above(i) \subseteq Ids
      BY <1>1 DEF KeptOf
    <2>2. Cardinality(T) <= Cardinality(Above(i)) /\ Cardinality(Above(i)) \in Nat
      BY <2>1, IdsFinite, FS_Subset
    <2> QED
      BY <1>1, <2>2 DEF KeptOf
  <1> QED
    BY <1>2, <1>3 DEF Newest, KeptOf

(***************************************************************************)
(* Pruning after an element was added keeps the newest, also when the      *)
(* element is older than all the others, and when it was there before.     *)
(***************************************************************************)
LEMMA PruneKeeps ==
    ASSUME NEW T, NEW S, NEW x \in Ids, KeptOf(T, S)
    PROVE  KeptOf(pruneCheckpoints(T \union {x}), S \union {x})
  <1> DEFINE U == T \union {x}
             m == Min(U)
  <1>1. Limit \in Nat /\ S \subseteq Ids /\ T \subseteq Ids /\ S \subseteq Nat /\ x \in Nat /\ U \subseteq Ids /\ U \subseteq Nat
    BY IdsFinite, StoreAssumption DEF KeptOf
  <1>2. Cardinality(T) \in Nat /\ IsFiniteSet(T) /\ IsFiniteSet(U) /\ Cardinality(U) \in Nat
    BY <1>1, IdsFinite
  <1>3. m \in U /\ \A y \in U : m <= y
    BY <1>1, MinIs
  <1>4. Cardinality(U) = IF x \in T THEN Cardinality(T) ELSE Cardinality(T) + 1
    BY <1>2, FS_AddElement
  <1>5. Cardinality(U \ {m}) = Cardinality(U) - 1
    BY <1>2, <1>3, FS_RemoveElement
  <1>6. pruneCheckpoints(U) = IF Cardinality(U) <= Limit THEN U ELSE U \ {m}
    BY DEF pruneCheckpoints
  <1> HIDE DEF m
  <1>7. CASE x \in T
    <2>1. U = T /\ S \union {x} = S
      BY <1>7 DEF KeptOf
    <2> QED
      BY <1>4, <1>6, <1>7, <2>1 DEF KeptOf
  <1>8. CASE x \in S \ T
    <2>1. Cardinality(T) = Limit /\ \A y \in T : x < y
      BY <1>1, <1>8 DEF KeptOf
    <2>2. m = x
      BY <1>1, <1>3, <1>8, <2>1
    <2>3. U \ {m} = T /\ S \union {x} = S
      BY <1>8, <2>2
    <2>4. pruneCheckpoints(U) = T
      <3>1. ~(Cardinality(U) <= Limit)
        <4>1. Cardinality(U) = Limit + 1
          BY <1>4, <1>8, <2>1
        <4> QED
          BY <1>1, <4>1
      <3> QED
        BY <1>6, <2>3, <3>1
    <2> QED
      BY <2>3, <2>4
  <1>9. CASE x \notin S /\ Cardinality(T) < Limit
    <2>1. T = S
      BY <1>1, <1>2, <1>9 DEF KeptOf
    <2>2. pruneCheckpoints(U) = U /\ U = S \union {x} /\ Cardinality(U) <= Limit
      BY <1>1, <1>2, <1>4, <1>6, <1>9, <2>1
    <2> QED
      BY <1>1, <2>2 DEF KeptOf
  <1>10. CASE x \notin S /\ Cardinality(T) = Limit
    <2>1. x \notin T
      BY <1>10 DEF KeptOf
    <2>2. pruneCheckpoints(U) = U \ {m} /\ Cardinality(U \ {m}) = Limit
      BY <1>1, <1>2, <1>4, <1>5, <1>6, <1>10, <2>1
    <2>3. ASSUME NEW a \in U \ {m}, NEW b \in (S \union {x}) \ (U \ {m}) PROVE a > b
      <3>1. a > m
        BY <1>1, <1>3
      <3>2. b = m \/ (b \in S \ T /\ b # m)
        BY <2>1
      <3>3. CASE b \in S \ T /\ b # m /\ a \in T
        BY <3>3 DEF KeptOf
      <3>4. CASE b \in S \ T /\ b # m /\ a = x
        <4>1. m \in T
          BY <1>3, <3>4
        <4>2. m > b
          BY <4>1, <3>4 DEF KeptOf
        <4> QED
          BY <3>1, <3>4, <4>1, <4>2, <1>1
      <3> QED
        BY <3>1, <3>2, <3>3, <3>4
    <2>4. U \ {m} \subseteq S \union {x} /\ S \union {x} \subseteq Ids
      BY <1>1 DEF KeptOf
    <2> DEFINE V == U \ {m}
               W == S \union {x}
    <2>5. \A a \in V, b \in W \ V : a > b
      BY <2>3
    <2>6. V \subseteq W /\ W \subseteq Ids /\ Cardinality(V) = Limit
      BY <2>2, <2>4
    <2> HIDE DEF V, W
    <2>7. KeptOf(V, W)
      BY <1>1, <2>5, <2>6 DEF KeptOf
    <2> QED
      BY <2>2, <2>7 DEF V, W
  <1> QED
    BY <1>1, <1>2, <1>7, <1>8, <1>9, <1>10 DEF KeptOf

-----------------------------------------------------------------------------
(* The state stores: maps of what is present. *)

(***************************************************************************)
(* Maps from some elements of A to elements of B.                          *)
(***************************************************************************)
Maps(A, B) == UNION {[D -> B] : D \in SUBSET A}

(***************************************************************************)
(* What is a map.                                                          *)
(***************************************************************************)
LEMMA MapIs ==
    ASSUME NEW A, NEW B, NEW f
    PROVE  /\ f \in Maps(A, B) => f \in [DOMAIN f -> B] /\ DOMAIN f \subseteq A
           /\ \A D \in SUBSET A : f \in [D -> B] => f \in Maps(A, B)
  BY DEF Maps

(***************************************************************************)
(* Adding an entry to a map.                                               *)
(***************************************************************************)
LEMMA MapWith ==
    ASSUME NEW A, NEW B, NEW f \in Maps(A, B), NEW k \in A, NEW v \in B
    PROVE  /\ With(f, k, v) \in Maps(A, B) /\ DOMAIN With(f, k, v) = DOMAIN f \union {k}
           /\ \A x \in DOMAIN f \union {k} : With(f, k, v)[x] = IF x = k THEN v ELSE f[x]
  <1>1. f \in [DOMAIN f -> B] /\ DOMAIN f \subseteq A
    BY MapIs
  <1>2. With(f, k, v) \in [DOMAIN f \union {k} -> B] /\ DOMAIN f \union {k} \in SUBSET A
    BY <1>1 DEF With
  <1> QED
    BY <1>1, <1>2, MapIs DEF With

(***************************************************************************)
(* Removing an entry of a map.                                             *)
(***************************************************************************)
LEMMA MapWithout ==
    ASSUME NEW A, NEW B, NEW f \in Maps(A, B), NEW k
    PROVE  /\ Without(f, k) \in Maps(A, B) /\ DOMAIN Without(f, k) = DOMAIN f \ {k}
           /\ \A x \in DOMAIN f \ {k} : Without(f, k)[x] = f[x]
  <1>1. f \in [DOMAIN f -> B] /\ DOMAIN f \subseteq A
    BY MapIs
  <1>2. Without(f, k) \in [DOMAIN f \ {k} -> B] /\ DOMAIN f \ {k} \in SUBSET A
    BY <1>1 DEF Without
  <1> QED
    BY <1>1, <1>2, MapIs DEF Without

(***************************************************************************)
(* Changing an entry of a map.                                             *)
(***************************************************************************)
LEMMA MapUpdate ==
    ASSUME NEW A, NEW B, NEW f \in Maps(A, B), NEW k \in DOMAIN f, NEW v \in B
    PROVE  /\ [f EXCEPT ![k] = v] \in Maps(A, B) /\ DOMAIN [f EXCEPT ![k] = v] = DOMAIN f
           /\ \A x \in DOMAIN f : [f EXCEPT ![k] = v][x] = IF x = k THEN v ELSE f[x]
  <1>1. f \in [DOMAIN f -> B] /\ DOMAIN f \subseteq A
    BY MapIs
  <1>2. [f EXCEPT ![k] = v] \in [DOMAIN f -> B]
    BY <1>1
  <1> QED
    BY <1>1, <1>2, MapIs

(***************************************************************************)
(* The index by hash h belongs to the records r: it leads to a record with *)
(* that hash, and for every record to no other.                            *)
(***************************************************************************)
Indexed(r, h) ==
    /\ \A x \in DOMAIN h : h[x] \in DOMAIN r /\ HashOf[h[x]] = x
    /\ \A i \in DOMAIN r : HashOf[i] \in DOMAIN h /\ h[HashOf[i]] = i

Hashes == {HashOf[i] : i \in Ids}

(***************************************************************************)
(* A record whose hash is not known is added with its hash.                *)
(***************************************************************************)
LEMMA IndexAdd ==
    ASSUME NEW r \in Maps(Ids, Nat), NEW h \in Maps(Hashes, Ids), NEW i \in Ids,
           Indexed(r, h), HashOf[i] \notin DOMAIN h
    PROVE  Indexed(With(r, i, 1), With(h, HashOf[i], i))
  <1> DEFINE r1 == With(r, i, 1)
             h1 == With(h, HashOf[i], i)
  <1>2. DOMAIN r1 = DOMAIN r \union {i} /\ i \notin DOMAIN r
    BY DEF With, Indexed
  <1>3. /\ DOMAIN h1 = DOMAIN h \union {HashOf[i]}
        /\ \A x \in DOMAIN h1 : h1[x] = IF x = HashOf[i] THEN i ELSE h[x]
    BY DEF With
  <1> HIDE DEF r1, h1
  <1>4. Indexed(r1, h1)
    BY <1>2, <1>3 DEF Indexed
  <1> QED
    BY <1>4 DEF r1, h1

(***************************************************************************)
(* A record is removed with its hash, which no other record has.           *)
(***************************************************************************)
LEMMA IndexDrop ==
    ASSUME NEW r \in Maps(Ids, Nat), NEW h \in Maps(Hashes, Ids), NEW i \in Ids,
           Indexed(r, h), i \in DOMAIN r
    PROVE  Indexed(Without(r, i), Without(h, HashOf[i]))
  <1> DEFINE r1 == Without(r, i)
             h1 == Without(h, HashOf[i])
  <1>2. DOMAIN r1 = DOMAIN r \ {i}
    BY DEF Without
  <1>3. DOMAIN h1 = DOMAIN h \ {HashOf[i]} /\ \A x \in DOMAIN h1 : h1[x] = h[x]
    BY DEF Without
  <1> HIDE DEF r1, h1
  <1>4. \A x \in DOMAIN h1 : h1[x] \in DOMAIN r1 /\ HashOf[h1[x]] = x
    BY <1>2, <1>3 DEF Indexed
  <1>5. \A k \in DOMAIN r1 : HashOf[k] \in DOMAIN h1 /\ h1[HashOf[k]] = k
    BY <1>2, <1>3 DEF Indexed
  <1>6. Indexed(r1, h1)
    BY <1>4, <1>5 DEF Indexed
  <1> QED
    BY <1>6 DEF r1, h1

(***************************************************************************)
(* The values of the variables.                                            *)
(***************************************************************************)
StoreType ==
    [records : Maps(Ids, Nat), hash : Maps(Hashes, Ids), index : SUBSET Ids, batches : SUBSET Ids,
     events : [Ids -> Seq(Nat)], inflight : [Clients -> Nat], retries : SUBSET (Ids \X Dues)]

StoresTyped ==
    /\ mem \in StoreType /\ val \in StoreType
    /\ held \in [mem : [Clients -> Nat], val : [Clients -> Nat]]
    /\ appended \in [Ids -> Nat]
    /\ parted \in [hashes : SUBSET Hashes, retries : SUBSET Ids, lists : BOOLEAN]

(***************************************************************************)
(* What adding a bundle does to each part of a store.                      *)
(***************************************************************************)
LEMMA AddedIs ==
    ASSUME NEW st \in StoreType, NEW i \in Ids
    PROVE  /\ Added(st, i) \in StoreType
           /\ Added(st, i).records = With(st.records, i, 1)
           /\ Added(st, i).hash = With(st.hash, HashOf[i], i)
           /\ Added(st, i).index = st.index \union {i}
           /\ Added(st, i).batches = st.batches /\ Added(st, i).events = st.events
           /\ Added(st, i).inflight = st.inflight /\ Added(st, i).retries = st.retries
  <1> DEFINE r == With(st.records, i, 1)
             h == With(st.hash, HashOf[i], i)
             x == st.index \union {i}
  <1>1. HashOf[i] \in Hashes /\ 1 \in Nat
    BY DEF Hashes
  <1>2. st.records \in Maps(Ids, Nat) /\ st.hash \in Maps(Hashes, Ids) /\ st.index \subseteq Ids
    BY DEF StoreType
  <1>3. r \in Maps(Ids, Nat) /\ h \in Maps(Hashes, Ids) /\ x \in SUBSET Ids
    BY <1>1, <1>2, MapWith
  <1>4. Added(st, i) = [st EXCEPT !.records = r, !.hash = h, !.index = x]
    BY DEF Added
  <1> HIDE DEF r, h, x
  <1>5. Added(st, i) \in StoreType
    BY <1>3, <1>4 DEF StoreType
  <1>6. /\ Added(st, i).records = r /\ Added(st, i).hash = h /\ Added(st, i).index = x
        /\ Added(st, i).batches = st.batches /\ Added(st, i).events = st.events
        /\ Added(st, i).inflight = st.inflight /\ Added(st, i).retries = st.retries
    BY <1>4 DEF StoreType
  <1> QED
    BY <1>5, <1>6 DEF r, h, x

(***************************************************************************)
(* What dropping a bundle does to each part of a store.                    *)
(***************************************************************************)
LEMMA DroppedIs ==
    ASSUME NEW st \in StoreType, NEW i \in Ids
    PROVE  /\ Dropped(st, i) \in StoreType
           /\ Dropped(st, i).records = Without(st.records, i)
           /\ Dropped(st, i).hash = Without(st.hash, HashOf[i])
           /\ Dropped(st, i).index = st.index \ {i}
           /\ Dropped(st, i).events = [st.events EXCEPT ![i] = <<>>]
           /\ Dropped(st, i).batches = st.batches
           /\ Dropped(st, i).inflight = st.inflight /\ Dropped(st, i).retries = st.retries
  <1> DEFINE r == Without(st.records, i)
             h == Without(st.hash, HashOf[i])
             x == st.index \ {i}
             e == [st.events EXCEPT ![i] = <<>>]
  <1>1. st.records \in Maps(Ids, Nat) /\ st.hash \in Maps(Hashes, Ids) /\ st.index \subseteq Ids
    BY DEF StoreType
  <1>2. e \in [Ids -> Seq(Nat)]
    BY DEF StoreType
  <1>3. r \in Maps(Ids, Nat) /\ h \in Maps(Hashes, Ids) /\ x \in SUBSET Ids
    BY <1>1, MapWithout
  <1>4. Dropped(st, i) = [st EXCEPT !.records = r, !.hash = h, !.index = x, !.events = e]
    BY DEF Dropped, StoreType
  <1> HIDE DEF r, h, x, e
  <1>5. Dropped(st, i) \in StoreType
    BY <1>2, <1>3, <1>4 DEF StoreType
  <1>6. /\ Dropped(st, i).records = r /\ Dropped(st, i).hash = h /\ Dropped(st, i).index = x
        /\ Dropped(st, i).batches = st.batches /\ Dropped(st, i).events = e
        /\ Dropped(st, i).inflight = st.inflight /\ Dropped(st, i).retries = st.retries
    BY <1>4 DEF StoreType
  <1> QED
    BY <1>5, <1>6 DEF r, h, x, e

(***************************************************************************)
(* A bundle whose hash is not known is stored, and beyond the limit the    *)
(* oldest one goes, with its hash and its events.                          *)
(***************************************************************************)
LEMMA PrunedAddIs ==
    ASSUME NEW st \in StoreType, NEW i \in Ids, Indexed(st.records, st.hash),
           st.index = Present(st), i \notin Present(st), ~Known(st, HashOf[i])
    PROVE  LET new == pruneLocked(Added(st, i)) IN
           /\ new \in StoreType /\ Indexed(new.records, new.hash) /\ new.index = Present(new)
           /\ Present(new) = pruneCheckpoints(Present(st) \union {i})
           /\ \A k \in Present(new) : new.records[k] = IF k = i THEN 1 ELSE st.records[k]
           /\ new.batches = st.batches /\ new.inflight = st.inflight /\ new.retries = st.retries
           /\ \A k \in Ids : new.events[k] \in {st.events[k], <<>>}
  <1> DEFINE a == Added(st, i)
             U == Present(st) \union {i}
             m == Min(U)
             d == Dropped(a, m)
  <1>1. st.records \in Maps(Ids, Nat) /\ st.hash \in Maps(Hashes, Ids) /\ st.events \in [Ids -> Seq(Nat)]
    BY DEF StoreType
  <1>2. a \in StoreType /\ Indexed(a.records, a.hash)
    <2>1. HashOf[i] \notin DOMAIN st.hash
      BY DEF Known
    <2> QED
      BY <1>1, <2>1, AddedIs, IndexAdd
  <1>3. /\ Present(a) = U /\ a.index = U
        /\ \A k \in U : a.records[k] = IF k = i THEN 1 ELSE st.records[k]
        /\ a.batches = st.batches /\ a.inflight = st.inflight /\ a.retries = st.retries
        /\ a.events = st.events
    <2>1. /\ a.records = With(st.records, i, 1) /\ a.index = st.index \union {i}
          /\ a.batches = st.batches /\ a.inflight = st.inflight /\ a.retries = st.retries
          /\ a.events = st.events
      BY AddedIs
    <2> HIDE DEF a
    <2>2. DOMAIN a.records = U
      BY <2>1 DEF Present, With
    <2>3. \A k \in U : a.records[k] = IF k = i THEN 1 ELSE st.records[k]
      BY <2>1 DEF Present, With
    <2> QED
      BY <2>1, <2>2, <2>3 DEF Present
  <1> HIDE DEF a
  <1>4. Present(st) \subseteq Ids /\ U \subseteq Ids /\ U # {} /\ U \subseteq Nat
    BY <1>1, MapIs, StoreAssumption DEF Present
  <1>5. m \in U /\ m \in Ids
    BY <1>4, MinIs
  <1>6. pruneLocked(a) = IF Cardinality(U) <= Limit THEN a ELSE d
    BY <1>3 DEF pruneLocked
  <1>7. pruneCheckpoints(U) = IF Cardinality(U) <= Limit THEN U ELSE U \ {m}
    BY DEF pruneCheckpoints
  <1> HIDE DEF m
  <1>8. d \in StoreType /\ Indexed(d.records, d.hash)
    <2>1. a.records \in Maps(Ids, Nat) /\ a.hash \in Maps(Hashes, Ids)
      BY <1>2 DEF StoreType
    <2>2. m \in DOMAIN a.records
      BY <1>3, <1>5 DEF Present
    <2> QED
      <3>1. Indexed(Without(a.records, m), Without(a.hash, HashOf[m]))
        BY <1>2, <1>5, <2>1, <2>2, IndexDrop
      <3>2. d \in StoreType /\ d.records = Without(a.records, m) /\ d.hash = Without(a.hash, HashOf[m])
        BY <1>2, <1>5, DroppedIs
      <3> QED
        BY <3>1, <3>2
  <1>9. /\ Present(d) = U \ {m} /\ d.index = U \ {m}
        /\ \A k \in U \ {m} : d.records[k] = a.records[k]
    <2>1. d.records = Without(a.records, m) /\ d.index = a.index \ {m}
      BY <1>2, <1>5, DroppedIs
    <2> HIDE DEF d
    <2>2. DOMAIN a.records = U
      BY <1>3 DEF Present
    <2>3. DOMAIN d.records = U \ {m} /\ \A k \in U \ {m} : d.records[k] = a.records[k]
      BY <2>1, <2>2 DEF Without
    <2> QED
      BY <1>3, <2>1, <2>3 DEF Present
  <1>10. /\ d.batches = st.batches /\ d.inflight = st.inflight /\ d.retries = st.retries
         /\ d.events = [st.events EXCEPT ![m] = <<>>]
    BY SMTT(30), <1>2, <1>3, <1>5, DroppedIs
  <1>11. \A k \in Ids : d.events[k] \in {st.events[k], <<>>}
    BY <1>1, <1>10
  <1> HIDE DEF d, U
  <1>12. CASE Cardinality(U) <= Limit
    <2>1. pruneLocked(a) = a /\ pruneCheckpoints(U) = U
      BY <1>6, <1>7, <1>12
    <2> QED
      BY <1>2, <1>3, <2>1 DEF a, U
  <1>13. CASE ~(Cardinality(U) <= Limit)
    <2>1. pruneLocked(a) = d /\ pruneCheckpoints(U) = U \ {m}
      BY <1>6, <1>7, <1>13
    <2> QED
      BY <1>3, <1>8, <1>9, <1>10, <1>11, <2>1 DEF a, U
  <1> QED
    BY <1>12, <1>13

-----------------------------------------------------------------------------
(* The state stores: bundles. *)

(***************************************************************************)
(* The bundles of the two stores.  The memory store holds the newest of    *)
(* what Valkey holds, until a bundle expires or a pruned one comes again.  *)
(***************************************************************************)
BundleInv ==
    /\ Indexed(mem.records, mem.hash) /\ Indexed(val.records, val.hash)
    /\ mem.index = Present(mem) /\ Present(val) \subseteq val.index
    /\ Cardinality(Present(mem)) <= Limit
    /\ ~parted.lists => val.index = Present(val) /\ KeptOf(Present(mem), Present(val))
    /\ RecordsAgree

(***************************************************************************)
(* The parts of the state that the other steps leave alone.                *)
(***************************************************************************)
SameBundles ==
    /\ mem'.records = mem.records /\ mem'.hash = mem.hash /\ mem'.index = mem.index
    /\ val'.records = val.records /\ val'.hash = val.hash /\ val'.index = val.index
    /\ parted'.hashes = parted.hashes /\ parted'.lists = parted.lists
SameBatches == mem'.batches = mem.batches /\ val'.batches = val.batches
SameSlots == mem'.inflight = mem.inflight /\ val'.inflight = val.inflight /\ held' = held
SameRetries == mem'.retries = mem.retries /\ val'.retries = val.retries /\ parted'.retries = parted.retries

(***************************************************************************)
(* Nothing but the dropping of a bundle's events happens to the events.    *)
(***************************************************************************)
EventsDropped ==
    /\ appended' = appended
    /\ \A i \in Ids : mem'.events[i] \in {mem.events[i], <<>>} /\ val'.events[i] \in {val.events[i], <<>>}

(***************************************************************************)
(* What the memory store does with a new bundle.                           *)
(***************************************************************************)
LEMMA MemCreateIs ==
    ASSUME NEW i \in Ids, mem \in StoreType, Indexed(mem.records, mem.hash), mem.index = Present(mem),
           Cardinality(Present(mem)) <= Limit, i \notin Present(mem), mem' = memCreate(i)
    PROVE  /\ mem' \in StoreType /\ Indexed(mem'.records, mem'.hash) /\ mem'.index = Present(mem)'
           /\ mem'.batches = mem.batches /\ mem'.inflight = mem.inflight /\ mem'.retries = mem.retries
           /\ \A k \in Ids : mem'.events[k] \in {mem.events[k], <<>>}
           /\ Known(mem, HashOf[i]) => mem' = mem
           /\ ~Known(mem, HashOf[i]) =>
                /\ Present(mem)' = pruneCheckpoints(Present(mem) \union {i})
                /\ \A k \in Present(mem)' : mem'.records[k] = IF k = i THEN 1 ELSE mem.records[k]
           /\ Cardinality(Present(mem)') <= Limit
           /\ Present(mem)' \subseteq Present(mem) \union {i}
  <1>1. CASE Known(mem, HashOf[i])
    <2>1. mem' = mem
      BY <1>1 DEF memCreate
    <2> QED
      BY <1>1, <2>1 DEF Present
  <1>2. CASE ~Known(mem, HashOf[i])
    <2>1. mem' = pruneLocked(Added(mem, i))
      BY <1>2 DEF memCreate
    <2>2. /\ mem' \in StoreType /\ Indexed(mem'.records, mem'.hash) /\ mem'.index = Present(mem')
          /\ Present(mem') = pruneCheckpoints(Present(mem) \union {i})
          /\ \A k \in Present(mem') : mem'.records[k] = IF k = i THEN 1 ELSE mem.records[k]
          /\ mem'.batches = mem.batches /\ mem'.inflight = mem.inflight /\ mem'.retries = mem.retries
          /\ \A k \in Ids : mem'.events[k] \in {mem.events[k], <<>>}
      <3> DEFINE new == pruneLocked(Added(mem, i))
      <3>1. /\ new \in StoreType /\ Indexed(new.records, new.hash) /\ new.index = Present(new)
            /\ Present(new) = pruneCheckpoints(Present(mem) \union {i})
            /\ \A k \in Present(new) : new.records[k] = IF k = i THEN 1 ELSE mem.records[k]
            /\ new.batches = mem.batches /\ new.inflight = mem.inflight /\ new.retries = mem.retries
            /\ \A k \in Ids : new.events[k] \in {mem.events[k], <<>>}
        BY <1>2, PrunedAddIs
      <3> HIDE DEF new
      <3>2. mem' = new
        BY <2>1 DEF new
      <3> QED
        BY <3>1, <3>2
    <2>3. Present(mem)' = Present(mem')
      BY DEF Present
    <2>4. Present(mem) \subseteq Ids
      BY MapIs DEF Present, StoreType
    <2>5. KeptOf(Present(mem), Present(mem))
      BY <2>4 DEF KeptOf
    <2>6. KeptOf(pruneCheckpoints(Present(mem) \union {i}), Present(mem) \union {i})
      BY <2>5, PruneKeeps
    <2>7. /\ Cardinality(pruneCheckpoints(Present(mem) \union {i})) <= Limit
          /\ pruneCheckpoints(Present(mem) \union {i}) \subseteq Present(mem) \union {i}
      BY <2>6 DEF KeptOf
    <2> QED
      BY <1>2, <2>2, <2>3, <2>7
  <1> QED
    BY <1>1, <1>2

(***************************************************************************)
(* What Valkey does with a new bundle.                                     *)
(***************************************************************************)
LEMMA ValCreateIs ==
    ASSUME NEW i \in Ids, val \in StoreType, Indexed(val.records, val.hash), val' = valCreate(i)
    PROVE  /\ val' \in StoreType /\ Indexed(val'.records, val'.hash)
           /\ val'.batches = val.batches /\ val'.inflight = val.inflight /\ val'.retries = val.retries
           /\ val'.events = val.events
           /\ Known(val, HashOf[i]) => val' = val
           /\ ~Known(val, HashOf[i]) =>
                /\ Present(val)' = Present(val) \union {i} /\ val'.index = val.index \union {i}
                /\ \A k \in Present(val)' : val'.records[k] = IF k = i THEN 1 ELSE val.records[k]
  <1>1. CASE Known(val, HashOf[i])
    BY <1>1 DEF valCreate
  <1>2. CASE ~Known(val, HashOf[i])
    <2>1. val' = Added(val, i)
      BY <1>2 DEF valCreate
    <2>2. /\ val' \in StoreType /\ val'.records = With(val.records, i, 1)
          /\ val'.hash = With(val.hash, HashOf[i], i) /\ val'.index = val.index \union {i}
          /\ val'.batches = val.batches /\ val'.inflight = val.inflight /\ val'.retries = val.retries
          /\ val'.events = val.events
      BY <2>1, AddedIs
    <2>3. val.records \in Maps(Ids, Nat) /\ val.hash \in Maps(Hashes, Ids) /\ HashOf[i] \notin DOMAIN val.hash
      BY <1>2 DEF StoreType, Known
    <2>4. Indexed(val'.records, val'.hash)
      BY <2>2, <2>3, IndexAdd
    <2>5. /\ Present(val)' = Present(val) \union {i}
          /\ \A k \in Present(val)' : val'.records[k] = IF k = i THEN 1 ELSE val.records[k]
      BY <2>2 DEF Present, With
    <2> QED
      BY <1>2, <2>2, <2>4, <2>5
  <1> QED
    BY <1>1, <1>2

(***************************************************************************)
(* CreateBundle keeps what is said of the bundles, and touches nothing but *)
(* bundles and the events of the bundle that is dropped.                   *)
(***************************************************************************)
LEMMA CreateKeeps ==
    ASSUME StoresTyped, BundleInv, NEW i \in Ids, CreateBundle(i)
    PROVE  StoresTyped' /\ BundleInv' /\ SameBatches /\ SameSlots /\ SameRetries /\ EventsDropped
  <1> DEFINE h == HashOf[i]
             gone == {HashOf[k] : k \in Offered(i) \ Present(mem)'}
  <1>1. /\ mem \in StoreType /\ val \in StoreType
        /\ parted \in [hashes : SUBSET Hashes, retries : SUBSET Ids, lists : BOOLEAN]
        /\ i \notin Present(mem) /\ i \notin Present(val) /\ i \notin val.index
        /\ mem' = memCreate(i) /\ val' = valCreate(i) /\ held' = held /\ appended' = appended
    BY DEF StoresTyped, CreateBundle
  <1>2. /\ Indexed(mem.records, mem.hash) /\ Indexed(val.records, val.hash) /\ mem.index = Present(mem)
        /\ Cardinality(Present(mem)) <= Limit /\ Present(val) \subseteq val.index
    BY DEF BundleInv
  <1>3. /\ mem' \in StoreType /\ Indexed(mem'.records, mem'.hash) /\ mem'.index = Present(mem)'
        /\ mem'.batches = mem.batches /\ mem'.inflight = mem.inflight /\ mem'.retries = mem.retries
        /\ \A k \in Ids : mem'.events[k] \in {mem.events[k], <<>>}
        /\ Known(mem, h) => mem' = mem
        /\ ~Known(mem, h) =>
             /\ Present(mem)' = pruneCheckpoints(Present(mem) \union {i})
             /\ \A k \in Present(mem)' : mem'.records[k] = IF k = i THEN 1 ELSE mem.records[k]
        /\ Cardinality(Present(mem)') <= Limit
        /\ Present(mem)' \subseteq Present(mem) \union {i}
    BY <1>1, <1>2, MemCreateIs
  <1>4. /\ val' \in StoreType /\ Indexed(val'.records, val'.hash)
        /\ val'.batches = val.batches /\ val'.inflight = val.inflight /\ val'.retries = val.retries
        /\ val'.events = val.events
        /\ Known(val, h) => val' = val
        /\ ~Known(val, h) =>
             /\ Present(val)' = Present(val) \union {i} /\ val'.index = val.index \union {i}
             /\ \A k \in Present(val)' : val'.records[k] = IF k = i THEN 1 ELSE val.records[k]
    BY <1>1, <1>2, ValCreateIs
  <1>5. Present(mem) \subseteq Ids /\ Present(val) \subseteq Ids /\ gone \subseteq Hashes
    BY <1>1, MapIs DEF Present, StoreType, Offered, Hashes
  <1>6. /\ parted'.hashes = parted.hashes \union gone
        /\ parted'.retries = parted.retries
        /\ parted'.lists = (parted.lists \/ (Known(mem, h) # Known(val, h)))
        /\ parted' \in [hashes : SUBSET Hashes, retries : SUBSET Ids, lists : BOOLEAN]
    <2>1. parted' = [parted EXCEPT !.hashes = parted.hashes \union gone,
                                   !.lists = parted.lists \/ (Known(mem, h) # Known(val, h))]
      BY <1>1 DEF CreateBundle, Present
    <2>2. parted.hashes \union gone \in SUBSET Hashes
      BY <1>1, <1>5
    <2>3. (parted.lists \/ (Known(mem, h) # Known(val, h))) \in BOOLEAN
      OBVIOUS
    <2> HIDE DEF gone, h
    <2> QED
      BY <1>1, <2>1, <2>2, <2>3
  <1>7. ASSUME Known(mem, h) # Known(val, h) PROVE h \in parted.hashes
    <2> SUFFICES ASSUME h \notin parted.hashes PROVE FALSE
      OBVIOUS
    <2>1. Known(mem, h) => Known(val, h)
      <3> SUFFICES ASSUME Known(mem, h) PROVE Known(val, h)
        OBVIOUS
      <3>1. PICK j \in Present(mem) : HashOf[j] = h
        BY <1>2 DEF Indexed, Known, Present
      <3>2. j \in Present(val)
        BY <1>5, <3>1 DEF BundleInv, RecordsAgree
      <3> QED
        BY <1>2, <3>1, <3>2 DEF Indexed, Known, Present
    <2>2. Known(val, h) => Known(mem, h)
      <3> SUFFICES ASSUME Known(val, h) PROVE Known(mem, h)
        OBVIOUS
      <3>1. PICK j \in Present(val) : HashOf[j] = h
        BY <1>2 DEF Indexed, Known, Present
      <3>2. j \in Present(mem)
        BY <1>5, <3>1 DEF BundleInv, RecordsAgree
      <3> QED
        BY <1>2, <3>1, <3>2 DEF Indexed, Known, Present
    <2> QED
      BY <1>7, <2>1, <2>2 DEF Known
  <1>8. RecordsAgree'
    <2> SUFFICES ASSUME NEW k \in Ids, HashOf[k] \notin parted'.hashes
                 PROVE  /\ (k \in Present(mem)') = (k \in Present(val)')
                        /\ k \in Present(mem)' => mem'.records[k] = val'.records[k]
      BY DEF RecordsAgree
    <2>1. /\ HashOf[k] \notin parted.hashes
          /\ k \in Offered(i) => k \in Present(mem)'
      BY <1>6
    <2>2. /\ k \in Present(mem) <=> k \in Present(val)
          /\ k \in Present(mem) => mem.records[k] = val.records[k]
      BY <2>1 DEF BundleInv, RecordsAgree
    <2>3. k \in Present(mem) => k \in Present(mem)'
      BY <2>1 DEF Offered
    <2>4. CASE Known(mem, h) /\ Known(val, h)
      BY <1>3, <1>4, <2>2, <2>4 DEF Present
    <2>5. CASE ~Known(mem, h) /\ ~Known(val, h)
      <3>1. k = i => k \in Present(mem)'
        BY <2>1, <2>5 DEF Offered
      <3>2. /\ Present(val)' = Present(val) \union {i}
            /\ \A x \in Present(val)' : val'.records[x] = IF x = i THEN 1 ELSE val.records[x]
            /\ \A x \in Present(mem)' : mem'.records[x] = IF x = i THEN 1 ELSE mem.records[x]
        BY <1>3, <1>4, <2>5
      <3>3. CASE k = i
        BY <3>1, <3>2, <3>3
      <3>4. CASE k # i
        BY <1>3, <2>2, <2>3, <3>2, <3>4
      <3> QED
        BY <3>3, <3>4
    <2>6. CASE Known(mem, h) /\ ~Known(val, h)
      <3>1. k # i
        BY <1>7, <2>1, <2>6
      <3>2. mem' = mem
        BY <1>3, <2>6
      <3> QED
        BY <1>4, <2>2, <2>6, <3>1, <3>2 DEF Present
    <2>7. CASE ~Known(mem, h) /\ Known(val, h)
      <3>1. k # i
        BY <1>7, <2>1, <2>7
      <3>2. val' = val
        BY <1>4, <2>7
      <3> QED
        BY <1>3, <2>2, <2>3, <2>7, <3>1, <3>2 DEF Present
    <2> QED
      BY <2>4, <2>5, <2>6, <2>7
  <1>9. Present(val)' \subseteq val'.index
    BY <1>2, <1>4 DEF Present
  <1>10. ASSUME ~parted'.lists PROVE val'.index = Present(val)' /\ KeptOf(Present(mem)', Present(val)')
    <2>1. ~parted.lists /\ Known(mem, h) = Known(val, h)
      BY <1>6, <1>10
    <2>2. val.index = Present(val) /\ KeptOf(Present(mem), Present(val))
      BY <2>1 DEF BundleInv
    <2>3. CASE Known(mem, h)
      <3>1. mem' = mem /\ val' = val
        BY <1>3, <1>4, <2>1, <2>3
      <3> QED
        BY <2>2, <3>1 DEF Present
    <2>4. CASE ~Known(mem, h)
      <3>1. /\ Present(mem)' = pruneCheckpoints(Present(mem) \union {i})
            /\ Present(val)' = Present(val) \union {i} /\ val'.index = val.index \union {i}
        BY <1>3, <1>4, <2>1, <2>4
      <3>2. KeptOf(pruneCheckpoints(Present(mem) \union {i}), Present(val) \union {i})
        BY <2>2, PruneKeeps
      <3> QED
        BY <2>2, <3>1, <3>2
    <2> QED
      BY <2>3, <2>4
  <1>11. BundleInv'
    <2>1. Cardinality(Present(mem))' <= Limit
      BY <1>3
    <2>2. ~parted'.lists => val'.index = Present(val)' /\ KeptOf(Present(mem), Present(val))'
      BY <1>10 DEF KeptOf
    <2> QED
      BY <1>3, <1>4, <1>8, <1>9, <2>1, <2>2 DEF BundleInv, Indexed
  <1> QED
    BY <1>1, <1>3, <1>4, <1>6, <1>11 DEF StoresTyped, SameBatches, SameSlots, SameRetries, EventsDropped

(***************************************************************************)
(* What is said of the bundles depends on nothing else.                    *)
(***************************************************************************)
LEMMA BundlesUntouched ==
    ASSUME BundleInv, SameBundles
    PROVE  BundleInv'
  BY DEF BundleInv, SameBundles, Present, RecordsAgree, Indexed, KeptOf

(***************************************************************************)
(* A new version of a record, in one store.                                *)
(***************************************************************************)
LEMMA UpdatedIs ==
    ASSUME NEW st \in StoreType, NEW i \in Ids
    PROVE  /\ Updated(st, i) \in StoreType
           /\ Updated(st, i).hash = st.hash /\ Updated(st, i).index = st.index
           /\ Updated(st, i).batches = st.batches /\ Updated(st, i).events = st.events
           /\ Updated(st, i).inflight = st.inflight /\ Updated(st, i).retries = st.retries
           /\ Present(Updated(st, i)) = Present(st)
           /\ \A k \in Present(st) :
                Updated(st, i).records[k] = IF k = i THEN st.records[k] + 1 ELSE st.records[k]
  <1>1. CASE i \notin Present(st)
    <2>1. Updated(st, i) = st
      BY <1>1 DEF Updated
    <2> QED
      BY <1>1, <2>1
  <1>2. CASE i \in Present(st)
    <2> DEFINE r == [st.records EXCEPT ![i] = st.records[i] + 1]
    <2>1. st.records \in Maps(Ids, Nat) /\ i \in DOMAIN st.records
      BY <1>2 DEF StoreType, Present
    <2>2. st.records[i] + 1 \in Nat
      BY <2>1, MapIs
    <2>3. r \in Maps(Ids, Nat)
      BY <2>1, <2>2, MapUpdate
    <2>4. DOMAIN r = DOMAIN st.records /\ \A k \in DOMAIN r : r[k] = IF k = i THEN st.records[k] + 1 ELSE st.records[k]
      OBVIOUS
    <2>5. Updated(st, i) = [st EXCEPT !.records = r]
      BY <1>2 DEF Updated
    <2> HIDE DEF r
    <2>6. Updated(st, i) \in StoreType /\ Updated(st, i).records = r
      BY <2>3, <2>5 DEF StoreType
    <2>7. /\ Updated(st, i).hash = st.hash /\ Updated(st, i).index = st.index
          /\ Updated(st, i).batches = st.batches /\ Updated(st, i).events = st.events
          /\ Updated(st, i).inflight = st.inflight /\ Updated(st, i).retries = st.retries
      BY <2>5 DEF StoreType
    <2> QED
      BY <2>4, <2>6, <2>7 DEF Present
  <1> QED
    BY <1>1, <1>2

(***************************************************************************)
(* UpdateBundle changes a record in both stores in the same way.           *)
(***************************************************************************)
LEMMA UpdateKeeps ==
    ASSUME StoresTyped, BundleInv, NEW i \in Ids, UpdateBundle(i)
    PROVE  StoresTyped' /\ BundleInv' /\ SameBatches /\ SameSlots /\ SameRetries /\ EventsDropped
  <1>1. /\ mem \in StoreType /\ val \in StoreType /\ mem' = Updated(mem, i) /\ val' = Updated(val, i)
        /\ held' = held /\ appended' = appended /\ parted' = parted
    BY DEF StoresTyped, UpdateBundle
  <1>2. /\ mem' \in StoreType /\ mem'.hash = mem.hash /\ mem'.index = mem.index
        /\ mem'.batches = mem.batches /\ mem'.events = mem.events
        /\ mem'.inflight = mem.inflight /\ mem'.retries = mem.retries
        /\ Present(mem') = Present(mem)
        /\ \A k \in Present(mem) : mem'.records[k] = IF k = i THEN mem.records[k] + 1 ELSE mem.records[k]
    BY <1>1, UpdatedIs
  <1>3. /\ val' \in StoreType /\ val'.hash = val.hash /\ val'.index = val.index
        /\ val'.batches = val.batches /\ val'.events = val.events
        /\ val'.inflight = val.inflight /\ val'.retries = val.retries
        /\ Present(val') = Present(val)
        /\ \A k \in Present(val) : val'.records[k] = IF k = i THEN val.records[k] + 1 ELSE val.records[k]
    BY <1>1, UpdatedIs
  <1>4. Present(mem)' = Present(mem) /\ Present(val)' = Present(val)
    BY <1>2, <1>3 DEF Present
  <1>5. Indexed(mem'.records, mem'.hash) /\ Indexed(val'.records, val'.hash)
    BY <1>2, <1>3, <1>4 DEF BundleInv, Indexed, Present
  <1>6. RecordsAgree'
    BY <1>1, <1>2, <1>3, <1>4 DEF BundleInv, RecordsAgree
  <1>7. BundleInv'
    BY <1>1, <1>2, <1>3, <1>4, <1>5, <1>6 DEF BundleInv, Indexed, KeptOf
  <1> QED
    BY <1>1, <1>2, <1>3, <1>7 DEF StoresTyped, SameBatches, SameSlots, SameRetries, EventsDropped

(***************************************************************************)
(* ExpireBundle takes a record out of Valkey and notes that it has.        *)
(***************************************************************************)
LEMMA ExpireKeeps ==
    ASSUME StoresTyped, BundleInv, NEW i \in Ids, ExpireBundle(i)
    PROVE  StoresTyped' /\ BundleInv' /\ SameBatches /\ SameSlots /\ SameRetries /\ EventsDropped
  <1> DEFINE r == Without(val.records, i)
             h == Without(val.hash, HashOf[i])
  <1>1. /\ mem \in StoreType /\ val \in StoreType /\ mem' = mem /\ held' = held /\ appended' = appended
        /\ parted \in [hashes : SUBSET Hashes, retries : SUBSET Ids, lists : BOOLEAN]
        /\ i \in Present(val) /\ val' = [val EXCEPT !.records = r, !.hash = h]
        /\ parted' = [parted EXCEPT !.hashes = parted.hashes \union {HashOf[i]}, !.lists = TRUE]
    BY DEF StoresTyped, ExpireBundle
  <1>2. val.records \in Maps(Ids, Nat) /\ val.hash \in Maps(Hashes, Ids) /\ HashOf[i] \in Hashes
    BY <1>1 DEF StoreType, Hashes
  <1>3. r \in Maps(Ids, Nat) /\ h \in Maps(Hashes, Ids)
    BY <1>2, MapWithout
  <1>4. Indexed(r, h)
    BY <1>1, <1>2, IndexDrop DEF BundleInv, Present
  <1>5. DOMAIN r = Present(val) \ {i} /\ \A k \in DOMAIN r : r[k] = val.records[k]
    BY DEF Without, Present
  <1> HIDE DEF r, h
  <1>6. val' \in StoreType /\ val'.records = r /\ val'.hash = h
    BY <1>1, <1>3 DEF StoreType
  <1>7. /\ val'.index = val.index /\ val'.batches = val.batches /\ val'.events = val.events
        /\ val'.inflight = val.inflight /\ val'.retries = val.retries
    BY <1>1 DEF StoreType
  <1>8. /\ parted' \in [hashes : SUBSET Hashes, retries : SUBSET Ids, lists : BOOLEAN]
        /\ parted'.hashes = parted.hashes \union {HashOf[i]} /\ parted'.retries = parted.retries
        /\ parted'.lists
    BY <1>1, <1>2
  <1>9. Present(val)' = Present(val) \ {i} /\ Present(mem)' = Present(mem)
    BY <1>1, <1>5, <1>6 DEF Present
  <1>10. RecordsAgree'
    <2> SUFFICES ASSUME NEW k \in Ids, HashOf[k] \notin parted'.hashes
                 PROVE  /\ (k \in Present(mem)') = (k \in Present(val)')
                        /\ k \in Present(mem)' => mem'.records[k] = val'.records[k]
      BY DEF RecordsAgree
    <2>1. k # i /\ HashOf[k] \notin parted.hashes
      BY <1>8
    <2>2. /\ k \in Present(mem) <=> k \in Present(val)
          /\ k \in Present(mem) => mem.records[k] = val.records[k]
      BY <2>1 DEF BundleInv, RecordsAgree
    <2> QED
      BY <1>1, <1>5, <1>6, <1>9, <2>1, <2>2
  <1>11. BundleInv'
    BY <1>1, <1>4, <1>6, <1>7, <1>8, <1>9, <1>10 DEF BundleInv, Indexed
  <1> QED
    BY <1>1, <1>6, <1>7, <1>8, <1>11 DEF StoresTyped, SameBatches, SameSlots, SameRetries, EventsDropped

-----------------------------------------------------------------------------
(* The state stores: events. *)

(***************************************************************************)
(* s is the end of the sequence of the events 1, 2, ..., n, within the     *)
(* limit.                                                                  *)
(***************************************************************************)
Recent(s, n) == Len(s) <= Limit /\ \A k \in DOMAIN s : s[k] = n - Len(s) + k

EventInv == \A i \in Ids : Recent(mem.events[i], appended[i]) /\ Recent(val.events[i], appended[i])

(***************************************************************************)
(* After an append, the end is cut to the limit.                           *)
(***************************************************************************)
LEMMA TrimmedRecent ==
    ASSUME NEW s \in Seq(Nat), NEW n \in Nat, Recent(s, n)
    PROVE  Trimmed(Append(s, n + 1)) \in Seq(Nat) /\ Recent(Trimmed(Append(s, n + 1)), n + 1)
  <1> DEFINE t == Append(s, n + 1)
             a == Len(t) - Limit + 1
             f == Max({1, a})
             u == SubSeq(t, f, Len(t))
  <1>1. Limit \in Nat /\ Len(s) \in Nat /\ Len(s) <= Limit
    BY StoreAssumption DEF Recent
  <1>2. t \in Seq(Nat) /\ Len(t) = Len(s) + 1 /\ \A k \in 1..Len(t) : t[k] = n + 1 - Len(t) + k
    BY <1>1 DEF Recent
  <1> HIDE DEF t
  <1>3. a \in Int
    BY <1>1, <1>2
  <1>4. f = IF 1 >= a THEN 1 ELSE a
    <2>1. PICK one \in Int : one = 1
      OBVIOUS
    <2>2. Max({one, a}) = IF one >= a THEN one ELSE a
      BY <1>3, <2>1, MaxOfNumbers
    <2> QED
      BY <2>1, <2>2
  <1>5. f \in 1..Len(t) + 1 /\ Len(t) - f + 1 <= Limit /\ Len(t) - f + 1 \in Nat
    BY <1>1, <1>2, <1>4
  <1> HIDE DEF f, a
  <1>6. u \in Seq(Nat) /\ Len(u) = Len(t) - f + 1 /\ \A k \in 1..Len(u) : u[k] = t[f + k - 1]
    <2>1. \A j \in f..Len(t) : t[j] \in Nat
      BY <1>2, <1>5
    <2>2. u \in Seq(Nat) /\ Len(u) = IF f <= Len(t) THEN Len(t) - f + 1 ELSE 0
      BY <1>2, <1>5, <2>1, SubSeqProperties
    <2>3. \A k \in 1..Len(u) : u[k] = t[f + k - 1]
      BY <1>2, <1>5, <2>1, <2>2, SubSeqProperties
    <2> QED
      BY <1>2, <1>5, <2>2, <2>3
  <1> HIDE DEF u
  <1>7. \A k \in 1..Len(u) : u[k] = n + 1 - Len(u) + k
    <2> SUFFICES ASSUME NEW k \in 1..Len(u) PROVE u[k] = n + 1 - Len(u) + k
      OBVIOUS
    <2>1. u[k] = t[f + k - 1] /\ f + k - 1 \in 1..Len(t)
      BY <1>2, <1>5, <1>6
    <2>2. t[f + k - 1] = n + 1 - Len(t) + (f + k - 1)
      BY <1>2, <2>1
    <2> QED
      BY <1>1, <1>2, <1>5, <1>6, <2>1, <2>2
  <1>8. Recent(u, n + 1)
    <2>1. DOMAIN u = 1..Len(u) /\ Len(u) <= Limit
      BY <1>5, <1>6
    <2> QED
      BY <1>7, <2>1 DEF Recent
  <1>9. Trimmed(t) = u
    BY DEF Trimmed, u, f, a
  <1> QED
    BY <1>6, <1>8, <1>9 DEF t

(***************************************************************************)
(* Dropping events leaves recent ones or none.                             *)
(***************************************************************************)
LEMMA DroppedEventsRecent ==
    ASSUME EventInv, EventsDropped
    PROVE  EventInv'
  <1>1. \A n : Recent(<<>>, n)
    BY StoreAssumption DEF Recent
  <1>2. \A i \in Ids : appended'[i] = appended[i]
    BY DEF EventsDropped
  <1>3. ASSUME NEW i \in Ids
        PROVE  Recent(mem'.events[i], appended'[i]) /\ Recent(val'.events[i], appended'[i])
    BY <1>1, <1>2 DEF EventInv, EventsDropped
  <1> QED
    BY <1>3 DEF EventInv, Recent

(***************************************************************************)
(* The events of a bundle are replaced, in one store.                      *)
(***************************************************************************)
LEMMA EventsSetIs ==
    ASSUME NEW st \in StoreType, NEW i \in Ids, NEW s \in Seq(Nat)
    PROVE  LET new == [st EXCEPT !.events[i] = s] IN
           /\ new \in StoreType /\ new.events = [st.events EXCEPT ![i] = s]
           /\ new.records = st.records /\ new.hash = st.hash /\ new.index = st.index
           /\ new.batches = st.batches /\ new.inflight = st.inflight /\ new.retries = st.retries
  <1> DEFINE e == [st.events EXCEPT ![i] = s]
  <1>1. e \in [Ids -> Seq(Nat)]
    BY DEF StoreType
  <1>2. [st EXCEPT !.events[i] = s] = [st EXCEPT !.events = e]
    BY DEF StoreType
  <1> HIDE DEF e
  <1>3. [st EXCEPT !.events = e] \in StoreType
    BY <1>1 DEF StoreType
  <1>4. LET new == [st EXCEPT !.events = e] IN
        /\ new.events = e /\ new.records = st.records /\ new.hash = st.hash /\ new.index = st.index
        /\ new.batches = st.batches /\ new.inflight = st.inflight /\ new.retries = st.retries
    BY DEF StoreType
  <1> QED
    BY <1>2, <1>3, <1>4 DEF e

(***************************************************************************)
(* AppendEvent: the next event is the last of those both stores keep.      *)
(***************************************************************************)
LEMMA AppendEventKeeps ==
    ASSUME StoresTyped, EventInv, NEW i \in Ids, AppendEvent(i)
    PROVE  StoresTyped' /\ EventInv' /\ SameBundles /\ SameBatches /\ SameSlots /\ SameRetries
  <1> DEFINE n == appended[i]
             sm == Trimmed(Append(mem.events[i], n + 1))
             sv == Trimmed(Append(val.events[i], n + 1))
  <1>1. /\ mem \in StoreType /\ val \in StoreType /\ appended \in [Ids -> Nat]
        /\ held' = held /\ parted' = parted
        /\ appended' = [appended EXCEPT ![i] = n + 1]
    BY DEF StoresTyped, AppendEvent
  <1>2. appended'[i] = n + 1 /\ n \in Nat /\ appended' \in [Ids -> Nat] /\ \A k \in Ids : k # i => appended'[k] = appended[k]
    BY <1>1
  <1>3. mem' = [mem EXCEPT !.events[i] = sm] /\ val' = [val EXCEPT !.events[i] = sv]
    <2>1. mem' = [mem EXCEPT !.events[i] = Trimmed(Append(mem.events[i], appended'[i]))]
      BY <1>1 DEF AppendEvent, StoreType
    <2>2. val' = [val EXCEPT !.events[i] = Trimmed(Append(val.events[i], appended'[i]))]
      BY <1>1 DEF AppendEvent, StoreType
    <2> QED
      BY <1>2, <2>1, <2>2
  <1>4. mem.events[i] \in Seq(Nat) /\ val.events[i] \in Seq(Nat)
    BY <1>1 DEF StoreType
  <1>5. Recent(mem.events[i], n) /\ Recent(val.events[i], n)
    BY DEF EventInv
  <1>6. sm \in Seq(Nat) /\ sv \in Seq(Nat) /\ Recent(sm, n + 1) /\ Recent(sv, n + 1)
    BY <1>2, <1>4, <1>5, TrimmedRecent
  <1> HIDE DEF sm, sv, n
  <1>7. /\ mem' \in StoreType /\ mem'.events = [mem.events EXCEPT ![i] = sm]
        /\ mem'.records = mem.records /\ mem'.hash = mem.hash /\ mem'.index = mem.index
        /\ mem'.batches = mem.batches /\ mem'.inflight = mem.inflight /\ mem'.retries = mem.retries
    BY <1>1, <1>3, <1>6, EventsSetIs
  <1>8. /\ val' \in StoreType /\ val'.events = [val.events EXCEPT ![i] = sv]
        /\ val'.records = val.records /\ val'.hash = val.hash /\ val'.index = val.index
        /\ val'.batches = val.batches /\ val'.inflight = val.inflight /\ val'.retries = val.retries
    BY <1>1, <1>3, <1>6, EventsSetIs
  <1>9. ASSUME NEW k \in Ids
        PROVE  Recent(mem'.events[k], appended'[k]) /\ Recent(val'.events[k], appended'[k])
    <2>1. mem.events \in [Ids -> Seq(Nat)] /\ val.events \in [Ids -> Seq(Nat)]
      BY <1>1 DEF StoreType
    <2>2. CASE k = i
      <3>1. mem'.events[k] = sm /\ val'.events[k] = sv /\ appended'[k] = n + 1
        BY <1>2, <1>7, <1>8, <2>1, <2>2
      <3> QED
        BY <1>6, <3>1
    <2>3. CASE k # i
      <3>1. mem'.events[k] = mem.events[k] /\ val'.events[k] = val.events[k] /\ appended'[k] = appended[k]
        BY <1>2, <1>7, <1>8, <2>1, <2>3
      <3> QED
        BY <3>1 DEF EventInv
    <2> QED
      BY <2>2, <2>3
  <1>10. EventInv'
    BY <1>9 DEF EventInv, Recent
  <1> QED
    BY <1>1, <1>2, <1>7, <1>8, <1>10 DEF StoresTyped, SameBundles, SameBatches, SameSlots, SameRetries

(***************************************************************************)
(* DeleteEvents takes the events of a bundle out of both stores.           *)
(***************************************************************************)
LEMMA DeleteEventsKeeps ==
    ASSUME StoresTyped, NEW i \in Ids, DeleteEvents(i)
    PROVE  StoresTyped' /\ EventsDropped /\ SameBundles /\ SameBatches /\ SameSlots /\ SameRetries
  <1>1. /\ mem \in StoreType /\ val \in StoreType /\ held' = held /\ appended' = appended /\ parted' = parted
        /\ mem' = [mem EXCEPT !.events[i] = <<>>] /\ val' = [val EXCEPT !.events[i] = <<>>]
    BY DEF StoresTyped, DeleteEvents
  <1>2. PICK none \in Seq(Nat) : none = <<>>
    <2>1. <<>> \in Seq(Nat)
      BY EmptySeq
    <2> QED
      BY <2>1
  <1>0. mem \in StoreType /\ val \in StoreType /\ none \in Seq(Nat)
    BY <1>1, <1>2
  <1>3. mem' = [mem EXCEPT !.events[i] = none] /\ val' = [val EXCEPT !.events[i] = none]
    BY <1>1, <1>2
  <1>4. /\ mem' \in StoreType /\ mem'.events = [mem.events EXCEPT ![i] = none]
        /\ mem'.records = mem.records /\ mem'.hash = mem.hash /\ mem'.index = mem.index
        /\ mem'.batches = mem.batches /\ mem'.inflight = mem.inflight /\ mem'.retries = mem.retries
    BY <1>0, <1>3, EventsSetIs
  <1>5. /\ val' \in StoreType /\ val'.events = [val.events EXCEPT ![i] = none]
        /\ val'.records = val.records /\ val'.hash = val.hash /\ val'.index = val.index
        /\ val'.batches = val.batches /\ val'.inflight = val.inflight /\ val'.retries = val.retries
    BY <1>0, <1>3, EventsSetIs
  <1>6. EventsDropped
    <2>1. mem.events \in [Ids -> Seq(Nat)] /\ val.events \in [Ids -> Seq(Nat)]
      BY <1>1 DEF StoreType
    <2> QED
      BY <1>1, <1>2, <1>4, <1>5, <2>1 DEF EventsDropped
  <1> QED
    BY <1>1, <1>4, <1>5, <1>6 DEF StoresTyped, SameBundles, SameBatches, SameSlots, SameRetries

-----------------------------------------------------------------------------
(* The state stores: checkpoints of batches. *)

(***************************************************************************)
(* PutCheckpoint: the memory store keeps the newest of what Valkey has,    *)
(* also when a batch is written again after it was pruned.                 *)
(***************************************************************************)
LEMMA PutCheckpointKeeps ==
    ASSUME StoresTyped, KeptOf(mem.batches, val.batches), NEW b \in Ids, PutCheckpoint(b)
    PROVE  /\ StoresTyped' /\ KeptOf(mem'.batches, val'.batches)
           /\ EventsDropped /\ SameBundles /\ SameSlots /\ SameRetries
  <1> DEFINE bm == pruneCheckpoints(mem.batches \union {b})
             bv == val.batches \union {b}
  <1>1. /\ mem \in StoreType /\ val \in StoreType /\ held' = held /\ appended' = appended /\ parted' = parted
        /\ mem' = [mem EXCEPT !.batches = bm] /\ val' = [val EXCEPT !.batches = bv]
    BY DEF StoresTyped, PutCheckpoint
  <1>2. KeptOf(bm, bv)
    BY PruneKeeps
  <1>3. bm \in SUBSET Ids /\ bv \in SUBSET Ids
    BY <1>2 DEF KeptOf
  <1> HIDE DEF bm, bv
  <1>4. mem' \in StoreType /\ val' \in StoreType
    BY <1>1, <1>3 DEF StoreType
  <1>5. /\ mem'.batches = bm /\ mem'.records = mem.records /\ mem'.hash = mem.hash /\ mem'.index = mem.index
        /\ mem'.events = mem.events /\ mem'.inflight = mem.inflight /\ mem'.retries = mem.retries
    BY <1>1 DEF StoreType
  <1>6. /\ val'.batches = bv /\ val'.records = val.records /\ val'.hash = val.hash /\ val'.index = val.index
        /\ val'.events = val.events /\ val'.inflight = val.inflight /\ val'.retries = val.retries
    BY <1>1 DEF StoreType
  <1> QED
    BY <1>1, <1>2, <1>4, <1>5, <1>6 DEF StoresTyped, EventsDropped, SameBundles, SameSlots, SameRetries

-----------------------------------------------------------------------------
(* The state stores: slots. *)

Holding == {c \in Clients : held.mem[c] > 0}

SlotInv ==
    /\ SlotsCount(mem, held.mem) /\ SlotsCount(val, held.val)
    /\ IsFiniteSet(Holding) /\ Cardinality(Holding) <= Limit

(***************************************************************************)
(* The slots of a client are counted anew, in one store.                   *)
(***************************************************************************)
LEMMA SlotsSetIs ==
    ASSUME NEW st \in StoreType, NEW c \in Clients, NEW n \in Nat
    PROVE  LET new == [st EXCEPT !.inflight[c] = n] IN
           /\ new \in StoreType /\ new.inflight = [st.inflight EXCEPT ![c] = n]
           /\ new.records = st.records /\ new.hash = st.hash /\ new.index = st.index
           /\ new.batches = st.batches /\ new.events = st.events /\ new.retries = st.retries
  <1> DEFINE f == [st.inflight EXCEPT ![c] = n]
  <1>1. f \in [Clients -> Nat]
    BY DEF StoreType
  <1>2. [st EXCEPT !.inflight[c] = n] = [st EXCEPT !.inflight = f]
    BY DEF StoreType
  <1> HIDE DEF f
  <1>3. [st EXCEPT !.inflight = f] \in StoreType
    BY <1>1 DEF StoreType
  <1>4. LET new == [st EXCEPT !.inflight = f] IN
        /\ new.inflight = f /\ new.records = st.records /\ new.hash = st.hash /\ new.index = st.index
        /\ new.batches = st.batches /\ new.events = st.events /\ new.retries = st.retries
    BY DEF StoreType
  <1> QED
    BY <1>2, <1>3, <1>4 DEF f

(***************************************************************************)
(* Reserving a slot, in one store.                                         *)
(***************************************************************************)
LEMMA ReservedIs ==
    ASSUME NEW st \in StoreType, NEW c \in Clients
    PROVE  LET new == Reserved(st, c) IN
           /\ new \in StoreType /\ new.records = st.records /\ new.hash = st.hash /\ new.index = st.index
           /\ new.batches = st.batches /\ new.events = st.events /\ new.retries = st.retries
           /\ new = st \/ /\ st.inflight[c] < MaxInFlight
                          /\ new.inflight = [st.inflight EXCEPT ![c] = st.inflight[c] + 1]
  <1> DEFINE n == st.inflight[c]
             up == [st EXCEPT !.inflight[c] = n + 1]
  <1>1. n \in Nat /\ n + 1 \in Nat /\ MaxInFlight \in Nat
    BY StoreAssumption DEF StoreType
  <1>2. /\ up \in StoreType /\ up.inflight = [st.inflight EXCEPT ![c] = n + 1]
        /\ up.records = st.records /\ up.hash = st.hash /\ up.index = st.index
        /\ up.batches = st.batches /\ up.events = st.events /\ up.retries = st.retries
    <2>1. PICK k \in Nat : k = n + 1
      BY <1>1
    <2> QED
      BY <2>1, SlotsSetIs
  <1>3. Reserved(st, c) = IF n >= MaxInFlight THEN st ELSE up
    BY DEF Reserved
  <1> HIDE DEF up, n
  <1>4. Reserved(st, c) = st \/ (Reserved(st, c) = up /\ n < MaxInFlight)
    BY <1>1, <1>3
  <1> QED
    BY <1>2, <1>4 DEF n

(***************************************************************************)
(* Releasing a slot that is counted, in one store.                         *)
(***************************************************************************)
LEMMA ReleasedIs ==
    ASSUME NEW st \in StoreType, NEW c \in Clients, st.inflight[c] > 0
    PROVE  LET new == Released(st, c) IN
           /\ new \in StoreType /\ new.records = st.records /\ new.hash = st.hash /\ new.index = st.index
           /\ new.batches = st.batches /\ new.events = st.events /\ new.retries = st.retries
           /\ new.inflight = [st.inflight EXCEPT ![c] = st.inflight[c] - 1]
  <1>1. st.inflight[c] \in Nat
    BY DEF StoreType
  <1>2. PICK k \in Nat : k = st.inflight[c] - 1
    BY <1>1
  <1>3. Released(st, c) = [st EXCEPT !.inflight[c] = k]
    BY <1>1, <1>2 DEF Released
  <1> QED
    BY <1>2, <1>3, SlotsSetIs

(***************************************************************************)
(* ReserveInflight: whoever is refused holds nothing more, and the memory  *)
(* store has room for the client.                                          *)
(***************************************************************************)
LEMMA ReserveKeeps ==
    ASSUME StoresTyped, SlotInv, NEW c \in Clients, ReserveInflight(c)
    PROVE  StoresTyped' /\ SlotInv' /\ EventsDropped /\ SameBundles /\ SameBatches /\ SameRetries
  <1>1. /\ mem \in StoreType /\ val \in StoreType /\ appended' = appended /\ parted' = parted
        /\ held \in [mem : [Clients -> Nat], val : [Clients -> Nat]]
        /\ mem' = memReserved(c) /\ val' = Reserved(val, c)
    BY DEF StoresTyped, ReserveInflight
  <1>2. /\ mem.inflight = held.mem /\ val.inflight = held.val
        /\ held.mem \in [Clients -> Nat] /\ held.val \in [Clients -> Nat]
        /\ \A k \in Clients : held.mem[k] <= MaxInFlight /\ held.val[k] <= MaxInFlight
        /\ IsFiniteSet(Holding) /\ Cardinality(Holding) <= Limit /\ MaxInFlight \in Nat /\ Limit \in Nat
    BY <1>1, StoreAssumption DEF SlotInv, SlotsCount
  <1> DEFINE hm == IF mem' # mem THEN [held.mem EXCEPT ![c] = held.mem[c] + 1] ELSE held.mem
             hv == IF val' # val THEN [held.val EXCEPT ![c] = held.val[c] + 1] ELSE held.val
  <1>3. held' = [mem |-> hm, val |-> hv]
    <2>1. held' = [held EXCEPT !.mem[c] = IF mem' # mem THEN held.mem[c] + 1 ELSE held.mem[c],
                               !.val[c] = IF val' # val THEN held.val[c] + 1 ELSE held.val[c]]
      BY <1>1 DEF ReserveInflight
    <2>2. CASE mem' # mem /\ val' # val
      BY <1>1, <1>2, <2>1, <2>2
    <2>3. CASE mem' # mem /\ val' = val
      BY <1>1, <1>2, <2>1, <2>3
    <2>4. CASE mem' = mem /\ val' # val
      BY <1>1, <1>2, <2>1, <2>4
    <2>5. CASE mem' = mem /\ val' = val
      BY <1>1, <1>2, <2>1, <2>5
    <2> QED
      BY <2>2, <2>3, <2>4, <2>5
  <1>4. hm \in [Clients -> Nat] /\ hv \in [Clients -> Nat]
    BY <1>2
  <1>5. mem' = mem \/ (mem' = Reserved(mem, c) /\ (held.mem[c] > 0 \/ Cardinality(Holding) < Limit))
    <2>1. {d \in Clients : mem.inflight[d] > 0} = Holding
      BY <1>2 DEF Holding
    <2>2. mem' = IF held.mem[c] = 0 /\ Cardinality(Holding) >= Limit THEN mem ELSE Reserved(mem, c)
      BY <1>1, <1>2, <2>1 DEF memReserved
    <2>3. Cardinality(Holding) \in Nat
      BY <1>2, FS_CardinalityType
    <2> QED
      BY <1>2, <2>2, <2>3
  <1>6. /\ mem' \in StoreType /\ mem'.records = mem.records /\ mem'.hash = mem.hash /\ mem'.index = mem.index
        /\ mem'.batches = mem.batches /\ mem'.events = mem.events /\ mem'.retries = mem.retries
    <2>1. CASE mem' = mem
      BY <1>1, <2>1
    <2>2. CASE mem' = Reserved(mem, c)
      <3>1. LET new == Reserved(mem, c) IN
            /\ new \in StoreType /\ new.records = mem.records /\ new.hash = mem.hash /\ new.index = mem.index
            /\ new.batches = mem.batches /\ new.events = mem.events /\ new.retries = mem.retries
        BY <1>1, ReservedIs
      <3> QED
        BY <2>2, <3>1
    <2> QED
      BY <1>5, <2>1, <2>2
  <1>7. /\ val' \in StoreType /\ val'.records = val.records /\ val'.hash = val.hash /\ val'.index = val.index
        /\ val'.batches = val.batches /\ val'.events = val.events /\ val'.retries = val.retries
    BY <1>1, ReservedIs
  <1>8. mem' # mem => /\ held.mem[c] < MaxInFlight
                      /\ mem'.inflight = [held.mem EXCEPT ![c] = held.mem[c] + 1]
    BY <1>1, <1>2, <1>5, ReservedIs
  <1>9. val' # val => /\ held.val[c] < MaxInFlight
                      /\ val'.inflight = [held.val EXCEPT ![c] = held.val[c] + 1]
    BY <1>1, <1>2, ReservedIs
  <1>10. mem'.inflight = hm /\ \A k \in Clients : hm[k] <= MaxInFlight
    BY <1>2, <1>8
  <1>11. val'.inflight = hv /\ \A k \in Clients : hv[k] <= MaxInFlight
    BY <1>2, <1>9
  <1>12. Holding' = {k \in Clients : hm[k] > 0}
    BY <1>3 DEF Holding
  <1>13. IsFiniteSet(Holding') /\ Cardinality(Holding') <= Limit
    <2>1. CASE mem' = mem
      <3>1. Holding' = Holding
        BY <1>12, <2>1 DEF Holding
      <3> QED
        BY <1>2, <3>1
    <2>2. CASE mem' # mem
      <3>1. Holding' = Holding \union {c}
        BY <1>2, <1>12, <2>2 DEF Holding
      <3>2. /\ IsFiniteSet(Holding \union {c})
            /\ Cardinality(Holding \union {c}) =
                 IF c \in Holding THEN Cardinality(Holding) ELSE Cardinality(Holding) + 1
        BY <1>2, FS_AddElement
      <3>3. c \in Holding \/ Cardinality(Holding) < Limit
        BY <1>5, <2>2 DEF Holding
      <3>4. Cardinality(Holding) \in Nat
        BY <1>2, FS_CardinalityType
      <3> QED
        BY <1>2, <3>1, <3>2, <3>3, <3>4
    <2> QED
      BY <2>1, <2>2
  <1> HIDE DEF hm, hv
  <1>14. held' \in [mem : [Clients -> Nat], val : [Clients -> Nat]] /\ held'.mem = hm /\ held'.val = hv
    BY <1>3, <1>4
  <1>15. SlotInv'
    <2>1. IsFiniteSet(Holding)' /\ Cardinality(Holding)' <= Limit
      BY <1>13
    <2> QED
      BY <1>10, <1>11, <1>14, <2>1 DEF SlotInv, SlotsCount
  <1> QED
    BY <1>1, <1>6, <1>7, <1>14, <1>15 DEF StoresTyped, EventsDropped, SameBundles, SameBatches, SameRetries

(***************************************************************************)
(* ReleaseInflight: who holds a slot finds it counted.                     *)
(***************************************************************************)
LEMMA ReleaseKeeps ==
    ASSUME StoresTyped, SlotInv, NEW c \in Clients, ReleaseInflight(c)
    PROVE  StoresTyped' /\ SlotInv' /\ EventsDropped /\ SameBundles /\ SameBatches /\ SameRetries
  <1>1. /\ mem \in StoreType /\ val \in StoreType /\ appended' = appended /\ parted' = parted
        /\ held \in [mem : [Clients -> Nat], val : [Clients -> Nat]]
    BY DEF StoresTyped, ReleaseInflight
  <1>2. /\ mem.inflight = held.mem /\ val.inflight = held.val
        /\ held.mem \in [Clients -> Nat] /\ held.val \in [Clients -> Nat]
        /\ \A k \in Clients : held.mem[k] <= MaxInFlight /\ held.val[k] <= MaxInFlight
        /\ IsFiniteSet(Holding) /\ Cardinality(Holding) <= Limit /\ MaxInFlight \in Nat /\ Limit \in Nat
    BY <1>1, StoreAssumption DEF SlotInv, SlotsCount
  <1>3. CASE held.mem[c] > 0 /\ held' = [held EXCEPT !.mem[c] = @ - 1] /\ mem' = Released(mem, c) /\ val' = val
    <2> DEFINE f == [held.mem EXCEPT ![c] = held.mem[c] - 1]
    <2>1. /\ mem' \in StoreType /\ mem'.records = mem.records /\ mem'.hash = mem.hash /\ mem'.index = mem.index
          /\ mem'.batches = mem.batches /\ mem'.events = mem.events /\ mem'.retries = mem.retries
      BY <1>1, <1>2, <1>3, ReleasedIs
    <2>2. mem'.inflight = f
      BY <1>1, <1>2, <1>3, ReleasedIs
    <2>3. f \in [Clients -> Nat] /\ \A k \in Clients : f[k] <= MaxInFlight /\ f[k] <= held.mem[k]
      BY <1>2, <1>3
    <2>4. held' = [mem |-> f, val |-> held.val]
      BY <1>1, <1>3
    <2> HIDE DEF f
    <2>5. held'.mem = f /\ held'.val = held.val /\ held' \in [mem : [Clients -> Nat], val : [Clients -> Nat]]
      BY <1>2, <2>3, <2>4
    <2>6. Holding' = {k \in Clients : f[k] > 0}
      BY <2>5 DEF Holding
    <2>7. Holding' \subseteq Holding
      BY <1>2, <2>3, <2>6 DEF Holding
    <2>8. IsFiniteSet(Holding') /\ Cardinality(Holding') <= Limit
      <3>1. IsFiniteSet(Holding') /\ Cardinality(Holding') <= Cardinality(Holding)
        BY <1>2, <2>7, FS_Subset
      <3>2. Cardinality(Holding') \in Nat /\ Cardinality(Holding) \in Nat
        BY <1>2, <3>1, FS_CardinalityType
      <3> QED
        BY <1>2, <3>1, <3>2
    <2>9. SlotInv'
      <3>1. IsFiniteSet(Holding)' /\ Cardinality(Holding)' <= Limit
        BY <2>8
      <3> QED
        BY <1>2, <1>3, <2>2, <2>3, <2>5, <3>1 DEF SlotInv, SlotsCount
    <2> QED
      BY <1>1, <1>3, <2>1, <2>5, <2>9 DEF StoresTyped, EventsDropped, SameBundles, SameBatches, SameRetries
  <1>4. CASE held.val[c] > 0 /\ held' = [held EXCEPT !.val[c] = @ - 1] /\ val' = Released(val, c) /\ mem' = mem
    <2> DEFINE f == [held.val EXCEPT ![c] = held.val[c] - 1]
    <2>1. /\ val' \in StoreType /\ val'.records = val.records /\ val'.hash = val.hash /\ val'.index = val.index
          /\ val'.batches = val.batches /\ val'.events = val.events /\ val'.retries = val.retries
      BY <1>1, <1>2, <1>4, ReleasedIs
    <2>2. val'.inflight = f
      BY <1>1, <1>2, <1>4, ReleasedIs
    <2>3. f \in [Clients -> Nat] /\ \A k \in Clients : f[k] <= MaxInFlight
      BY <1>2, <1>4
    <2>4. held' = [mem |-> held.mem, val |-> f]
      BY <1>1, <1>4
    <2> HIDE DEF f
    <2>5. held'.mem = held.mem /\ held'.val = f /\ held' \in [mem : [Clients -> Nat], val : [Clients -> Nat]]
      BY <1>2, <2>3, <2>4
    <2>6. Holding' = Holding
      BY <2>5 DEF Holding
    <2>7. SlotInv'
      <3>1. IsFiniteSet(Holding)' /\ Cardinality(Holding)' <= Limit
        BY <1>2, <2>6
      <3> QED
        BY <1>2, <1>4, <2>2, <2>3, <2>5, <3>1 DEF SlotInv, SlotsCount
    <2> QED
      BY <1>1, <1>4, <2>1, <2>5, <2>7 DEF StoresTyped, EventsDropped, SameBundles, SameBatches, SameRetries
  <1> QED
    BY <1>3, <1>4 DEF ReleaseInflight

-----------------------------------------------------------------------------
(* The state stores: retries. *)

(***************************************************************************)
(* A bundle waits for one time only.                                       *)
(***************************************************************************)
Single(R) == R \subseteq Ids \X Dues /\ IsFiniteSet(R) /\ \A r, q \in R : r[1] = q[1] => r = q

RetryInv ==
    /\ Single(mem.retries) /\ Single(val.retries)
    /\ Cardinality(mem.retries) <= Limit
    /\ RetriesAgree

(***************************************************************************)
(* Another due time in the place of the old one.                           *)
(***************************************************************************)
Moved(R, i, due) == {r \in R : r[1] # i} \union {<<i, due>>}

(***************************************************************************)
(* Scheduling keeps one due time for a bundle, and adds at most one.       *)
(***************************************************************************)
LEMMA MovedIs ==
    ASSUME NEW R, Single(R), NEW i \in Ids, NEW due \in Dues
    PROVE  /\ Single(Moved(R, i, due)) /\ Cardinality(Moved(R, i, due)) \in Nat
           /\ Cardinality(Moved(R, i, due)) <= Cardinality(R) + 1
  <1> DEFINE O == {r \in R : r[1] # i}
  <1>1. IsFiniteSet(R) /\ Cardinality(R) \in Nat
    BY FS_CardinalityType DEF Single
  <1>2. O \subseteq R /\ IsFiniteSet(O) /\ Cardinality(O) <= Cardinality(R) /\ Cardinality(O) \in Nat
    BY <1>1, FS_Subset, FS_CardinalityType
  <1>3. IsFiniteSet(O \union {<<i, due>>}) /\ Cardinality(O \union {<<i, due>>}) \in Nat
    BY <1>2, FS_AddElement, FS_CardinalityType
  <1>4. Cardinality(O \union {<<i, due>>}) <= Cardinality(R) + 1
    <2> DEFINE p == <<i, due>>
    <2> HIDE DEF p, O
    <2>1. Cardinality(O \union {p}) = IF p \in O THEN Cardinality(O) ELSE Cardinality(O) + 1
      BY <1>2, FS_AddElement
    <2>2. Cardinality(O \union {p}) <= Cardinality(R) + 1
      BY <1>1, <1>2, <2>1
    <2> QED
      BY <2>2 DEF p
  <1>5. <<i, due>> \in Ids \X Dues /\ <<i, due>>[1] = i
    OBVIOUS
  <1>6. \A r, q \in O \union {<<i, due>>} : r[1] = q[1] => r = q
    BY <1>5 DEF Single
  <1> QED
    BY <1>2, <1>3, <1>4, <1>5, <1>6 DEF Single, Moved

(***************************************************************************)
(* The retries of a store are replaced.                                    *)
(***************************************************************************)
LEMMA RetriesSetIs ==
    ASSUME NEW st \in StoreType, NEW R, R \subseteq Ids \X Dues
    PROVE  LET new == [st EXCEPT !.retries = R] IN
           /\ new \in StoreType /\ new.retries = R
           /\ new.records = st.records /\ new.hash = st.hash /\ new.index = st.index
           /\ new.batches = st.batches /\ new.events = st.events /\ new.inflight = st.inflight
  BY DEF StoreType

(***************************************************************************)
(* ScheduleRetry: what the memory store has no room for is noted, and for  *)
(* the others the stores still wait alike.                                 *)
(***************************************************************************)
LEMMA ScheduleKeeps ==
    ASSUME StoresTyped, RetryInv, NEW i \in Ids, ScheduleRetry(i)
    PROVE  StoresTyped' /\ RetryInv' /\ EventsDropped /\ SameBundles /\ SameBatches /\ SameSlots
  <1>1. PICK due \in Dues :
          /\ mem' \in pruneRetries(Scheduled(mem, i, due)) /\ val' = Scheduled(val, i, due)
          /\ parted' = [parted EXCEPT !.retries =
                          (@ \ {i}) \union ((Waiting(mem) \union {i}) \ Waiting(mem'))]
    BY DEF ScheduleRetry
  <1>2. /\ mem \in StoreType /\ val \in StoreType /\ held' = held /\ appended' = appended
        /\ parted \in [hashes : SUBSET Hashes, retries : SUBSET Ids, lists : BOOLEAN]
    BY DEF StoresTyped, ScheduleRetry
  <1> DEFINE M == Moved(mem.retries, i, due)
             V == Moved(val.retries, i, due)
             s == [mem EXCEPT !.retries = M]
             lost == (parted.retries \ {i}) \union ((Waiting(mem) \union {i}) \ Waiting(mem'))
  <1>3. Scheduled(mem, i, due) = s /\ val' = [val EXCEPT !.retries = V]
    BY <1>1 DEF Scheduled, Moved
  <1>4. /\ Single(mem.retries) /\ Single(val.retries) /\ Cardinality(mem.retries) <= Limit
        /\ Limit \in Nat /\ Cardinality(mem.retries) \in Nat
    BY StoreAssumption, FS_CardinalityType DEF RetryInv, Single
  <1>5. /\ Single(M) /\ Single(V) /\ Cardinality(M) \in Nat
        /\ Cardinality(M) <= Cardinality(mem.retries) + 1
    BY <1>4, MovedIs
  <1>6. /\ s \in StoreType /\ s.retries = M /\ s.records = mem.records /\ s.hash = mem.hash
        /\ s.index = mem.index /\ s.batches = mem.batches /\ s.events = mem.events
        /\ s.inflight = mem.inflight
    <2>1. M \subseteq Ids \X Dues
      BY <1>5 DEF Single
    <2> HIDE DEF M
    <2> QED
      BY <1>2, <2>1, RetriesSetIs
  <1>7. /\ val' \in StoreType /\ val'.retries = V /\ val'.records = val.records /\ val'.hash = val.hash
        /\ val'.index = val.index /\ val'.batches = val.batches /\ val'.events = val.events
        /\ val'.inflight = val.inflight
    <2>1. V \subseteq Ids \X Dues
      BY <1>5 DEF Single
    <2> HIDE DEF V
    <2> QED
      BY <1>2, <1>3, <2>1, RetriesSetIs
  <1> HIDE DEF s, V
  <1>8. /\ mem' \in StoreType /\ mem'.retries \subseteq M /\ Single(mem'.retries)
        /\ Cardinality(mem'.retries) <= Limit
        /\ mem'.records = mem.records /\ mem'.hash = mem.hash /\ mem'.index = mem.index
        /\ mem'.batches = mem.batches /\ mem'.events = mem.events /\ mem'.inflight = mem.inflight
    <2> HIDE DEF M
    <2>1. CASE Cardinality(M) <= Limit
      <3>1. mem' = s
        BY <1>1, <1>3, <1>6, <2>1 DEF pruneRetries
      <3> QED
        BY <1>5, <1>6, <2>1, <3>1
    <2>2. CASE ~(Cardinality(M) <= Limit)
      <3>1. PICK q \in M : mem' = [s EXCEPT !.retries = M \ {q}]
        BY <1>1, <1>3, <1>6, <2>2 DEF pruneRetries
      <3>2. M \ {q} \subseteq Ids \X Dues /\ Single(M \ {q})
        BY <1>5, FS_RemoveElement DEF Single
      <3>3. Cardinality(M \ {q}) = Cardinality(M) - 1
        BY <1>5, FS_RemoveElement DEF Single
      <3>4. Cardinality(M \ {q}) <= Limit
        BY <1>4, <1>5, <3>3
      <3>5. /\ mem' \in StoreType /\ mem'.retries = M \ {q}
            /\ mem'.records = s.records /\ mem'.hash = s.hash /\ mem'.index = s.index
            /\ mem'.batches = s.batches /\ mem'.events = s.events /\ mem'.inflight = s.inflight
        BY <1>6, <3>1, <3>2, RetriesSetIs
      <3> QED
        BY <1>6, <3>2, <3>4, <3>5
    <2> QED
      BY <2>1, <2>2
  <1>9. /\ parted' \in [hashes : SUBSET Hashes, retries : SUBSET Ids, lists : BOOLEAN]
        /\ parted'.hashes = parted.hashes /\ parted'.lists = parted.lists /\ parted'.retries = lost
    <2>1. parted' = [parted EXCEPT !.retries = lost]
      BY <1>1
    <2>2. \A r \in mem.retries : r[1] \in Ids
      BY <1>4 DEF Single
    <2>3. Waiting(mem) \subseteq Ids
      BY <2>2 DEF Waiting
    <2>4. lost \in SUBSET Ids
      BY <1>2, <2>3
    <2> HIDE DEF lost
    <2> QED
      BY <1>2, <2>1, <2>4
  <1>10. RetriesAgree'
    <2> SUFFICES ASSUME ClaimLimit >= Cardinality(Ids)
                 PROVE  {r \in mem'.retries : r[1] \notin lost} = {r \in val'.retries : r[1] \notin lost}
      BY <1>9 DEF RetriesAgree
    <2>1. {r \in mem.retries : r[1] \notin parted.retries} = {r \in val.retries : r[1] \notin parted.retries}
      BY DEF RetryInv, RetriesAgree
    <2>2. \A r \in mem'.retries : r = <<i, due>> \/ (r \in mem.retries /\ r[1] # i)
      BY <1>8 DEF Moved
    <2>3. \A r : r \in val'.retries <=> r = <<i, due>> \/ (r \in val.retries /\ r[1] # i)
      BY <1>7 DEF Moved, V
    <2>4. <<i, due>>[1] = i
      OBVIOUS
    <2>5. ASSUME NEW r \in mem'.retries, r[1] \notin lost PROVE r \in val'.retries
      <3>1. CASE r = <<i, due>>
        BY <2>3, <3>1
      <3>2. CASE r \in mem.retries /\ r[1] # i
        <4>1. r[1] \notin parted.retries
          BY <2>5, <3>2
        <4> QED
          BY <2>1, <2>3, <3>2, <4>1
      <3> QED
        BY <2>2, <3>1, <3>2
    <2>6. ASSUME NEW r \in val'.retries, r[1] \notin lost PROVE r \in mem'.retries
      <3>1. CASE r = <<i, due>>
        <4>1. i \in Waiting(mem')
          BY <2>4, <2>6, <3>1
        <4>2. PICK q \in mem'.retries : q[1] = i
          BY <4>1 DEF Waiting
        <4> QED
          BY <2>2, <3>1, <4>2
      <3>2. CASE r \in val.retries /\ r[1] # i
        <4>1. r[1] \notin parted.retries
          BY <2>6, <3>2
        <4>2. r \in mem.retries
          BY <2>1, <3>2, <4>1
        <4>3. r[1] \in Waiting(mem')
          BY <2>6, <4>2 DEF Waiting
        <4>4. PICK q \in mem'.retries : q[1] = r[1]
          BY <4>3 DEF Waiting
        <4>5. q \in mem.retries
          BY <2>2, <2>4, <3>2, <4>4
        <4> QED
          BY <1>4, <4>2, <4>4, <4>5 DEF Single
      <3> QED
        BY <2>3, <3>1, <3>2
    <2> HIDE DEF lost
    <2> QED
      BY <2>5, <2>6
  <1>11. RetryInv'
    <2>1. Single(val'.retries)
      BY <1>5, <1>7 DEF V
    <2> QED
      BY <1>8, <1>10, <2>1 DEF RetryInv, Single
  <1> QED
    BY <1>2, <1>7, <1>8, <1>9, <1>11 DEF StoresTyped, EventsDropped, SameBundles, SameBatches, SameSlots

(***************************************************************************)
(* A limit of as many as there are bundles lets a claim take all that are  *)
(* due.                                                                    *)
(***************************************************************************)
LEMMA ClaimTakesAll ==
    ASSUME NEW R, Single(R), NEW now, ClaimLimit >= Cardinality(Ids),
           NEW out, out \subseteq {r \in R : r[2] <= now},
           Cardinality(out) = Min({ClaimLimit, Cardinality({r \in R : r[2] <= now})})
    PROVE  out = {r \in R : r[2] <= now}
  <1> DEFINE D == {r \in R : r[2] <= now}
             f == [r \in D |-> r[1]]
  <1>1. D \subseteq R /\ IsFiniteSet(D) /\ Cardinality(D) \in Nat
    BY FS_Subset, FS_CardinalityType DEF Single
  <1>2. IsFiniteSet(Ids) /\ Cardinality(Ids) \in Nat /\ ClaimLimit \in Nat
    BY StoreAssumption, FS_CardinalityType
  <1>3. f \in Injection(D, Ids)
    <2>1. \A r \in R : r[1] \in Ids
      BY DEF Single
    <2>2. f \in [D -> Ids]
      BY <2>1
    <2>3. \A r, q \in D : f[r] = f[q] => r = q
      BY DEF Single
    <2> HIDE DEF f, D
    <2> QED
      BY <2>2, <2>3 DEF Injection, IsInjective
  <1> HIDE DEF D, f
  <1>4. Cardinality(D) <= Cardinality(Ids)
    BY <1>2, <1>3, FS_Injection
  <1>5. Min({ClaimLimit, Cardinality(D)}) = Cardinality(D)
    <2>1. PICK a \in Int, b \in Int : a = ClaimLimit /\ b = Cardinality(D)
      BY <1>1, <1>2
    <2>2. Min({a, b}) = IF a <= b THEN a ELSE b
      BY <2>1, MaxOfNumbers
    <2> QED
      BY <1>1, <1>2, <1>4, <2>1, <2>2
  <1>6. out \subseteq D /\ Cardinality(out) = Cardinality(D)
    BY <1>5 DEF D
  <1>7. out = D
    BY <1>1, <1>6, FS_Subset
  <1> QED
    BY <1>7 DEF D

(***************************************************************************)
(* ClaimDueRetries takes retries out of each store, and as long as a claim *)
(* takes all that are due, the same.                                       *)
(***************************************************************************)
LEMMA ClaimKeeps ==
    ASSUME StoresTyped, RetryInv, NEW now \in Dues, ClaimDueRetries(now)
    PROVE  StoresTyped' /\ RetryInv' /\ EventsDropped /\ SameBundles /\ SameBatches /\ SameSlots
  <1>1. PICK fromMem \in memClaims(now), fromVal \in valClaims(now) :
          /\ mem' = [mem EXCEPT !.retries = @ \ fromMem] /\ val' = [val EXCEPT !.retries = @ \ fromVal]
    BY DEF ClaimDueRetries
  <1>2. /\ mem \in StoreType /\ val \in StoreType /\ held' = held /\ appended' = appended /\ parted' = parted
    BY DEF StoresTyped, ClaimDueRetries
  <1> DEFINE M == mem.retries \ fromMem
             V == val.retries \ fromVal
  <1>3. /\ Single(mem.retries) /\ Single(val.retries) /\ Cardinality(mem.retries) <= Limit
        /\ Limit \in Nat /\ Cardinality(mem.retries) \in Nat
    BY StoreAssumption, FS_CardinalityType DEF RetryInv, Single
  <1>4. Single(M) /\ Single(V) /\ Cardinality(M) <= Limit
    <2>1. M \subseteq mem.retries /\ V \subseteq val.retries
      OBVIOUS
    <2>2. IsFiniteSet(M) /\ IsFiniteSet(V) /\ Cardinality(M) <= Cardinality(mem.retries)
      BY <1>3, <2>1, FS_Subset DEF Single
    <2>3. Cardinality(M) \in Nat
      BY <2>2, FS_CardinalityType
    <2> HIDE DEF M, V
    <2> QED
      BY <1>3, <2>1, <2>2, <2>3 DEF Single
  <1>5. mem' = [mem EXCEPT !.retries = M] /\ val' = [val EXCEPT !.retries = V]
    BY <1>1
  <1>6. /\ mem' \in StoreType /\ mem'.retries = M /\ mem'.records = mem.records /\ mem'.hash = mem.hash
        /\ mem'.index = mem.index /\ mem'.batches = mem.batches /\ mem'.events = mem.events
        /\ mem'.inflight = mem.inflight
    <2>1. M \subseteq Ids \X Dues
      BY <1>4 DEF Single
    <2> HIDE DEF M, V
    <2> QED
      BY <1>2, <1>5, <2>1, RetriesSetIs
  <1>7. /\ val' \in StoreType /\ val'.retries = V /\ val'.records = val.records /\ val'.hash = val.hash
        /\ val'.index = val.index /\ val'.batches = val.batches /\ val'.events = val.events
        /\ val'.inflight = val.inflight
    <2>1. V \subseteq Ids \X Dues
      BY <1>4 DEF Single
    <2> HIDE DEF M, V
    <2> QED
      BY <1>2, <1>5, <2>1, RetriesSetIs
  <1>8. RetriesAgree'
    <2> SUFFICES ASSUME ClaimLimit >= Cardinality(Ids)
                 PROVE  {r \in M : r[1] \notin parted.retries} = {r \in V : r[1] \notin parted.retries}
      BY <1>2, <1>6, <1>7 DEF RetriesAgree
    <2>1. {r \in mem.retries : r[1] \notin parted.retries} = {r \in val.retries : r[1] \notin parted.retries}
      BY DEF RetryInv, RetriesAgree
    <2>2. fromMem = {r \in mem.retries : r[2] <= now}
      <3>1. /\ fromMem \subseteq {r \in mem.retries : r[2] <= now}
            /\ Cardinality(fromMem) = Min({ClaimLimit, Cardinality({r \in mem.retries : r[2] <= now})})
        BY <1>1 DEF memClaims, Due
      <3> QED
        BY <1>3, <3>1, ClaimTakesAll
    <2>3. fromVal = {r \in val.retries : r[2] <= now}
      <3>1. /\ fromVal \subseteq {r \in val.retries : r[2] <= now}
            /\ Cardinality(fromVal) = Min({ClaimLimit, Cardinality({r \in val.retries : r[2] <= now})})
        BY <1>1 DEF valClaims, Due
      <3> QED
        BY <1>3, <3>1, ClaimTakesAll
    <2> QED
      BY <2>1, <2>2, <2>3
  <1> HIDE DEF M, V
  <1>9. RetryInv'
    BY <1>4, <1>6, <1>7, <1>8 DEF RetryInv, Single
  <1> QED
    BY <1>2, <1>6, <1>7, <1>9 DEF StoresTyped, EventsDropped, SameBundles, SameBatches, SameSlots

-----------------------------------------------------------------------------
(* The state stores: what holds in every state. *)

StoresInv ==
    /\ StoresTyped /\ BundleInv /\ EventInv
    /\ KeptOf(mem.batches, val.batches)
    /\ SlotInv /\ RetryInv

(***************************************************************************)
(* Two empty stores.                                                       *)
(***************************************************************************)
LEMMA StoresInitInv ==
    ASSUME StoresInit
    PROVE  StoresInv
  <1>1. mem = Empty /\ val = Empty /\ parted = Together /\ appended = [i \in Ids |-> 0]
    BY DEF StoresInit
  <1>2. held = [mem |-> [c \in Clients |-> 0], val |-> [c \in Clients |-> 0]]
    BY DEF StoresInit, Empty
  <1>3. <<>> \in Maps(Ids, Nat) /\ <<>> \in Maps(Hashes, Ids) /\ DOMAIN <<>> = {} /\ Len(<<>>) = 0
    <2>1. \A A, B : <<>> \in [{} -> B] /\ {} \in SUBSET A
      OBVIOUS
    <2> QED
      BY <2>1, MapIs
  <1>4. Empty \in StoreType
    BY <1>3, EmptySeq DEF StoreType, Empty
  <1>5. StoresTyped
    BY <1>1, <1>2, <1>4 DEF StoresTyped, Together
  <1>6. /\ Empty.records = <<>> /\ Empty.hash = <<>> /\ Empty.index = {} /\ Empty.batches = {}
        /\ Empty.events = [i \in Ids |-> <<>>] /\ Empty.inflight = [c \in Clients |-> 0]
        /\ Empty.retries = {}
    BY DEF Empty
  <1>7. Limit \in Nat /\ MaxInFlight \in Nat /\ IsFiniteSet({}) /\ Cardinality({}) = 0
    BY StoreAssumption, FS_EmptySet
  <1>8. KeptOf({}, {})
    BY <1>7 DEF KeptOf
  <1>9. BundleInv
    <2>1. Indexed(<<>>, <<>>) /\ Present(mem) = {} /\ Present(val) = {}
      BY <1>1, <1>3, <1>6 DEF Indexed, Present
    <2>2. RecordsAgree
      BY <2>1 DEF RecordsAgree
    <2> QED
      BY <1>1, <1>6, <1>7, <1>8, <2>1, <2>2 DEF BundleInv
  <1>10. EventInv
    BY <1>1, <1>3, <1>6, <1>7 DEF EventInv, Recent
  <1>11. SlotInv
    <2>1. held.mem = [c \in Clients |-> 0] /\ held.val = [c \in Clients |-> 0]
      BY <1>2
    <2>2. Holding = {}
      BY <2>1 DEF Holding
    <2> QED
      BY <1>1, <1>6, <1>7, <2>1, <2>2 DEF SlotInv, SlotsCount
  <1>12. RetryInv
    BY <1>1, <1>6, <1>7 DEF RetryInv, RetriesAgree, Single
  <1> QED
    BY <1>1, <1>5, <1>6, <1>8, <1>9, <1>10, <1>11, <1>12 DEF StoresInv

(***************************************************************************)
(* What is said of a part of the state depends on nothing else.            *)
(***************************************************************************)
LEMMA PartsUntouched ==
    ASSUME StoresInv
    PROVE  /\ SameBatches => KeptOf(mem'.batches, val'.batches)
           /\ SameSlots => SlotInv'
           /\ SameRetries => RetryInv'
  BY DEF StoresInv, SameBatches, SameSlots, SameRetries, SlotInv, SlotsCount, Holding, RetryInv, RetriesAgree, Single

(***************************************************************************)
(* Every step keeps all of it.                                             *)
(***************************************************************************)
LEMMA StoresNextInv ==
    ASSUME StoresInv, [StoresNext]_storeVars
    PROVE  StoresInv'
  <1>1. /\ StoresTyped /\ BundleInv /\ EventInv /\ KeptOf(mem.batches, val.batches) /\ SlotInv /\ RetryInv
    BY DEF StoresInv
  <1> USE <1>1, PartsUntouched, BundlesUntouched, DroppedEventsRecent
  <1>2. ASSUME NEW i \in Ids, CreateBundle(i) PROVE StoresInv'
    BY <1>2, CreateKeeps DEF StoresInv, KeptOf
  <1>3. ASSUME NEW i \in Ids, UpdateBundle(i) PROVE StoresInv'
    BY <1>3, UpdateKeeps DEF StoresInv, KeptOf
  <1>4. ASSUME NEW i \in Ids, ExpireBundle(i) PROVE StoresInv'
    BY <1>4, ExpireKeeps DEF StoresInv, KeptOf
  <1>5. ASSUME NEW i \in Ids, AppendEvent(i) PROVE StoresInv'
    BY <1>5, AppendEventKeeps DEF StoresInv, KeptOf
  <1>6. ASSUME NEW i \in Ids, DeleteEvents(i) PROVE StoresInv'
    BY <1>6, DeleteEventsKeeps DEF StoresInv, KeptOf
  <1>7. ASSUME NEW b \in Ids, PutCheckpoint(b) PROVE StoresInv'
    BY <1>7, PutCheckpointKeeps DEF StoresInv, KeptOf
  <1>8. ASSUME NEW c \in Clients, ReserveInflight(c) PROVE StoresInv'
    BY <1>8, ReserveKeeps DEF StoresInv, KeptOf
  <1>9. ASSUME NEW c \in Clients, ReleaseInflight(c) PROVE StoresInv'
    BY <1>9, ReleaseKeeps DEF StoresInv, KeptOf
  <1>10. ASSUME NEW i \in Ids, ScheduleRetry(i) PROVE StoresInv'
    BY <1>10, ScheduleKeeps DEF StoresInv, KeptOf
  <1>11. ASSUME NEW now \in Dues, ClaimDueRetries(now) PROVE StoresInv'
    BY <1>11, ClaimKeeps DEF StoresInv, KeptOf
  <1>12. CASE UNCHANGED storeVars
    <2>1. /\ mem' = mem /\ val' = val /\ held' = held /\ appended' = appended /\ parted' = parted
      BY <1>12 DEF storeVars
    <2>2. StoresTyped'
      BY <2>1 DEF StoresTyped
    <2>3. BundleInv'
      BY <2>1 DEF BundleInv, Indexed, Present, RecordsAgree, KeptOf
    <2>4. EventInv'
      BY <2>1 DEF EventInv, Recent
    <2>5. SlotInv'
      BY <2>1 DEF SlotInv, SlotsCount, Holding
    <2>6. RetryInv'
      BY <2>1 DEF RetryInv, RetriesAgree, Single
    <2>7. KeptOf(mem'.batches, val'.batches)
      BY <2>1
    <2> QED
      BY <2>2, <2>3, <2>4, <2>5, <2>6, <2>7 DEF StoresInv, KeptOf
  <1> QED
    BY <1>2, <1>3, <1>4, <1>5, <1>6, <1>7, <1>8, <1>9, <1>10, <1>11, <1>12
       DEF StoresNext, BundleStep, BatchStep, SlotStep, RetryStep

(***************************************************************************)
(* Together these say that each store is consistent.                       *)
(***************************************************************************)
LEMMA InvGivesConsistent ==
    ASSUME StoresInv
    PROVE  StoresConsistent
  <1>1. mem \in StoreType /\ val \in StoreType /\ Limit \in Nat
    BY StoreAssumption DEF StoresInv, StoresTyped
  <1>2. IndexMatches(mem) /\ IndexMatches(val)
    BY DEF StoresInv, BundleInv, Indexed, IndexMatches, Present, Known
  <1>3. EventsAreRecent(mem) /\ EventsAreRecent(val)
    BY DEF StoresInv, EventInv, Recent, EventsAreRecent
  <1>4. /\ SlotsCount(mem, held.mem) /\ SlotsCount(val, held.val)
        /\ Cardinality({c \in Clients : held.mem[c] > 0}) <= Limit
    BY DEF StoresInv, SlotInv, Holding
  <1>5. Max({Cardinality(Present(mem)), Cardinality(mem.retries), Cardinality(mem.batches)}) <= Limit
    <2>1. Present(mem) \subseteq Ids /\ mem.batches \subseteq Ids
      BY <1>1, MapIs DEF StoreType, Present
    <2>2. Cardinality(Present(mem)) \in Nat /\ Cardinality(mem.batches) \in Nat
      BY <2>1, IdsFinite
    <2>3. Cardinality(mem.retries) \in Nat
      BY FS_CardinalityType DEF StoresInv, RetryInv, Single
    <2>4. /\ Cardinality(Present(mem)) <= Limit /\ Cardinality(mem.retries) <= Limit
          /\ Cardinality(mem.batches) <= Limit
      BY DEF StoresInv, BundleInv, RetryInv, KeptOf
    <2> QED
      <3>1. PICK a \in Int, b \in Int, c \in Int, d \in Int :
              /\ a = Cardinality(Present(mem)) /\ b = Cardinality(mem.retries)
              /\ c = Cardinality(mem.batches) /\ d = Limit
        BY <1>1, <2>2, <2>3
      <3>2. a <= d /\ b <= d /\ c <= d
        BY <2>4, <3>1
      <3>3. Max({a, b, c}) <= d
        BY <3>2, MaxOfNumbers
      <3> QED
        BY <3>1, <3>3
  <1> QED
    BY <1>2, <1>3, <1>4, <1>5 DEF StoresConsistent

(***************************************************************************)
(* And that the two agree: what the memory store keeps of a sorted set is  *)
(* what a list of the newest shows of it.                                  *)
(***************************************************************************)
LEMMA InvGivesAgree ==
    ASSUME StoresInv
    PROVE  StoresAgree
  <1>1. RecordsAgree /\ RetriesAgree
    BY DEF StoresInv, BundleInv, RetryInv
  <1>2. ASSUME NEW T, NEW S, KeptOf(T, S) PROVE Newest(T) = T /\ Newest(S) = T
    <2>1. KeptOf(T, T)
      BY <1>2 DEF KeptOf
    <2> QED
      BY <1>2, <2>1, KeptIsNewest
  <1>3. ListCheckpoints(mem) = ListCheckpoints(val)
    BY <1>2 DEF StoresInv, ListCheckpoints
  <1>4. ASSUME ~parted.lists PROVE ListBundles(mem) = ListBundles(val)
    <2>1. mem.index = Present(mem) /\ val.index = Present(val) /\ KeptOf(Present(mem), Present(val))
      BY <1>4 DEF StoresInv, BundleInv
    <2>2. Newest(mem.index) = Present(mem) /\ Newest(val.index) = Present(mem)
      BY <1>2, <2>1
    <2> QED
      BY <2>1, <2>2 DEF ListBundles, KeptOf
  <1> QED
    BY <1>1, <1>3, <1>4 DEF StoresAgree, ListsAgree

(***************************************************************************)
(* Whatever is pruned, expires, is submitted again or out of order, for    *)
(* any bundles, hashes, clients and limits: in both stores the index by    *)
(* hash matches the records, the events of a bundle are its most recent    *)
(* ones, and the slots counted are those held, and the memory store stays  *)
(* within its limits.                                                      *)
(***************************************************************************)
THEOREM StoresStayConsistent == StoresSpec => []StoresConsistent
  <1>1. StoresInit => StoresInv
    BY StoresInitInv
  <1>2. StoresInv /\ [StoresNext]_storeVars => StoresInv'
    BY StoresNextInv
  <1>3. StoresInv => StoresConsistent
    BY InvGivesConsistent
  <1> QED
    BY <1>1, <1>2, <1>3, PTL DEF StoresSpec

(***************************************************************************)
(* The memory store and Valkey agree on records, lists and retries, except *)
(* where one of them has dropped something for good.                       *)
(***************************************************************************)
THEOREM StoresAlwaysAgree == StoresSpec => []StoresAgree
  <1>1. StoresInit => StoresInv
    BY StoresInitInv
  <1>2. StoresInv /\ [StoresNext]_storeVars => StoresInv'
    BY StoresNextInv
  <1>3. StoresInv => StoresAgree
    BY InvGivesAgree
  <1> QED
    BY <1>1, <1>2, <1>3, PTL DEF StoresSpec
=============================================================================
