------------------------- MODULE BuildServiceProofs -------------------------
(***************************************************************************)
(* Proofs about the build service of the txpool builder v2, for any number *)
(* of keys, requests, workers, snapshots and blocks and for any limits;    *)
(* and about the selection of the builders v2 and v1, for any chains and   *)
(* any limits.  Both selections are loops that take the best head of the   *)
(* chains, so that one invariant serves both.                              *)
(***************************************************************************)
EXTENDS BuildService, SelectionV1, GreedySelection, FiniteSetTheorems, SequenceTheorems,
        WellFoundedInduction, TLAPS

-----------------------------------------------------------------------------
(* The inductive invariant, part by part. *)

Snapshot == [id : 1..MaxSnapshots, header : Nat, pool : Nat]
States == Terminal \cup {"none", "queued", "running"}

(***************************************************************************)
(* Types, and which workers have a job.                                    *)
(***************************************************************************)
Typed ==
    /\ jobs \in [JobID -> States]
    /\ results \subseteq JobID /\ again \subseteq JobID
    /\ queue \in Seq(JobID)
    /\ client \in [Client -> JobID \cup {NoJob}]
    /\ worker \in [Worker -> [pc : Steps, job : JobID \cup {NoJob}]]
    /\ \A w \in Worker : worker[w].pc \in {"idle", "gone"} <=> worker[w].job = NoJob

(***************************************************************************)
(* A job that was not admitted again is in one place: the channel, the     *)
(* request that sends it, or the worker that builds it.  As long as it is  *)
(* in one, its record is there and live, so that no request prunes it.     *)
(***************************************************************************)
OneBuild ==
    \A j \in JobID \ again :
        /\ \A i \in DOMAIN queue : queue[i] = j =>
              /\ jobs[j] = "queued"
              /\ \A k \in DOMAIN queue : queue[k] = j => k = i
              /\ \A c \in Client : client[c] # j
              /\ \A w \in Worker : worker[w].job # j
        /\ \A c \in Client : client[c] = j =>
              /\ jobs[j] = "queued"
              /\ \A d \in Client : client[d] = j => d = c
              /\ \A w \in Worker : worker[w].job # j
        /\ \A w \in Worker : worker[w].job = j =>
              /\ jobs[j] = IF worker[w].pc = "taken" THEN "queued" ELSE "running"
              /\ \A v \in Worker : worker[v].job = j => v = w
              /\ worker[w].pc = "complete" => j \in results
        /\ jobs[j] = "completed" => j \in results

(***************************************************************************)
(* The directories: none is listed twice, a worker that removes has one to *)
(* remove, and no more than MaxRetainedJobs stay.                          *)
(***************************************************************************)
Dirs ==
    /\ artifacts \in Seq(JobID)
    /\ \A i, k \in DOMAIN artifacts : artifacts[i] = artifacts[k] => i = k
    /\ doomed \in [Worker -> Seq(JobID)]
    /\ \A w \in Worker : worker[w].pc = "remove" => doomed[w] # << >>
    /\ ArtifactsBounded

(***************************************************************************)
(* The snapshots: the pool of each was read at the block of its header,    *)
(* since the head does not go back.                                        *)
(***************************************************************************)
Snaps ==
    /\ snapshots \in Seq(Snapshot) /\ snapshots # << >>
    /\ \A i \in DOMAIN snapshots : snapshots[i].header = snapshots[i].pool
    /\ captured \in 1..MaxSnapshots /\ head \in Nat
    /\ refresher \in [pc : {"idle", "headed", "pooled", "gone"}, before : Nat, pool : Nat]
    /\ refresher.pc \in {"headed", "pooled"} => captured < MaxSnapshots /\ refresher.before <= head
    /\ refresher.pc = "pooled" => refresher.before <= refresher.pool /\ refresher.pool <= head

BuildInv == Typed /\ LiveJobIsHeld /\ OneBuild /\ Dirs /\ Snaps

Placed == Typed /\ LiveJobIsHeld /\ OneBuild

-----------------------------------------------------------------------------
(* Lemmas about the operators. *)

(***************************************************************************)
(* A job's ID is not the mark for no job.                                  *)
(***************************************************************************)
LEMMA NoJobIsNone == NoJob \notin JobID
  BY DEF NoJob, JobID

(***************************************************************************)
(* Pruning takes finished jobs only.                                       *)
(***************************************************************************)
LEMMA VictimsEnded ==
    ASSUME NEW js, NEW j \in Victims(js)
    PROVE  js[j] \in Terminal
  BY DEF Victims

(***************************************************************************)
(* A list without one of its entries.                                      *)
(***************************************************************************)
LEMMA WithoutOne ==
    ASSUME NEW S, NEW s \in Seq(S), NEW j,
           \A i, k \in DOMAIN s : s[i] = s[k] => i = k
    PROVE  /\ Without(s, j) \in Seq(S)
           /\ \A i, k \in DOMAIN Without(s, j) : Without(s, j)[i] = Without(s, j)[k] => i = k
           /\ \A x : x \in Range(Without(s, j)) <=> x \in Range(s) /\ x # j
           /\ Len(Without(s, j)) = Len(s) - IF j \in Range(s) THEN 1 ELSE 0
  <1> DEFINE r == Without(s, j)
  <1>1. Len(s) \in Nat /\ DOMAIN s = 1..Len(s)
    OBVIOUS
  <1>2. CASE j \notin Range(s)
    <2>1. r = s
      BY <1>2 DEF Without
    <2> HIDE DEF r
    <2>2. \A x : x \in Range(r) <=> x \in Range(s) /\ x # j
      BY <1>2, <2>1
    <2> QED
      BY <1>1, <1>2, <2>1, <2>2 DEF r
  <1>3. CASE j \in Range(s)
    <2> DEFINE n == CHOOSE i \in DOMAIN s : s[i] = j
               a == SubSeq(s, 1, n - 1)
               b == SubSeq(s, n + 1, Len(s))
    <2>1. \E i \in DOMAIN s : s[i] = j
      BY <1>3 DEF Range
    <2>2. n \in 1..Len(s) /\ s[n] = j
      BY <1>1, <2>1
    <2>3. r = RemoveAt(s, n)
      BY <1>3 DEF Without
    <2> HIDE DEF n
    <2>4. a \in Seq(S) /\ Len(a) = n - 1 /\ \A i \in 1..n - 1 : a[i] = s[i]
      BY <1>1, <2>2
    <2>5. b \in Seq(S) /\ Len(b) = Len(s) - n /\ \A i \in 1..Len(b) : b[i] = s[i + n]
      <3>1. /\ \A i \in n + 1..Len(s) : s[i] \in S
            /\ n + 1 \in Int /\ Len(s) \in Int
        BY <1>1, <2>2
      <3>2. /\ b \in Seq(S)
            /\ Len(b) = IF n + 1 <= Len(s) THEN Len(s) - (n + 1) + 1 ELSE 0
            /\ \A i \in 1..Len(s) - (n + 1) + 1 : b[i] = s[n + 1 + i - 1]
        BY <3>1, SubSeqProperties
      <3> HIDE DEF b
      <3>3. Len(b) = Len(s) - n
        <4>1. Len(b) = IF n + 1 <= Len(s) THEN Len(s) - (n + 1) + 1 ELSE 0
          BY <3>2
        <4>2. n \in Nat /\ n <= Len(s)
          BY <1>1, <2>2
        <4>3. CASE n = Len(s)
          <5>1. ~(n + 1 <= Len(s)) /\ Len(s) - n = 0
            BY <1>1, <4>2, <4>3
          <5> QED
            BY <4>1, <5>1
        <4>4. CASE n # Len(s)
          <5>1. \A x, y \in Nat : y <= x /\ y # x => y + 1 <= x /\ x - (y + 1) + 1 = x - y
            OBVIOUS
          <5>2. n + 1 <= Len(s) /\ Len(s) - (n + 1) + 1 = Len(s) - n
            BY <1>1, <4>2, <4>4, <5>1
          <5> QED
            BY <4>1, <5>2
        <4> QED
          BY <4>3, <4>4
      <3>4. ASSUME NEW i \in 1..Len(b)
            PROVE  b[i] = s[i + n]
        <4>1. i \in 1..Len(s) - (n + 1) + 1 /\ n + 1 + i - 1 = i + n
          BY <1>1, <2>2, <3>3
        <4> QED
          BY <3>2, <4>1
      <3> QED
        BY <3>2, <3>3, <3>4
    <2>6. r = a \o b
      BY <2>3 DEF RemoveAt
    <2> HIDE DEF a, b, r
    <2>7. r \in Seq(S) /\ Len(r) = Len(s) - 1 /\ DOMAIN r = 1..Len(s) - 1
      <3>1. r \in Seq(S) /\ Len(r) = Len(a) + Len(b)
        BY <2>4, <2>5, <2>6, ConcatProperties
      <3> QED
        BY <1>1, <2>2, <2>4, <2>5, <3>1
    <2>8. \A i \in 1..Len(s) - 1 : r[i] = IF i < n THEN s[i] ELSE s[i + 1]
      <3> TAKE i \in 1..Len(s) - 1
      <3>1. \A k \in 1..Len(a) + Len(b) : r[k] = IF k <= Len(a) THEN a[k] ELSE b[k - Len(a)]
        BY <2>4, <2>5, <2>6, ConcatProperties
      <3>2. CASE i < n
        <4>1. i \in 1..Len(a) + Len(b) /\ i <= Len(a) /\ i \in 1..n - 1
          BY <1>1, <2>2, <2>4, <2>5, <3>2
        <4> QED
          BY <2>4, <3>1, <3>2, <4>1
      <3>3. CASE ~(i < n)
        <4>1. /\ i \in 1..Len(a) + Len(b) /\ ~(i <= Len(a)) /\ i - Len(a) \in 1..Len(b)
              /\ i - Len(a) + n = i + 1
          BY <1>1, <2>2, <2>4, <2>5, <3>3
        <4>2. r[i] = b[i - Len(a)]
          BY <3>1, <4>1
        <4> QED
          BY <2>5, <3>3, <4>1, <4>2
      <3> QED
        BY <3>2, <3>3
    <2> DEFINE o(i) == IF i < n THEN i ELSE i + 1
    <2>9. \A i \in DOMAIN r : o(i) \in DOMAIN s /\ o(i) # n /\ r[i] = s[o(i)]
      BY <1>1, <2>2, <2>7, <2>8
    <2>10. \A i, k \in DOMAIN r : o(i) = o(k) => i = k
      BY <1>1, <2>2, <2>7
    <2>11. \A m \in DOMAIN s : m # n => \E i \in DOMAIN r : o(i) = m
      <3> TAKE m \in DOMAIN s
      <3> HAVE m # n
      <3>1. CASE m < n
        <4>1. m \in DOMAIN r /\ o(m) = m
          BY <1>1, <2>2, <2>7, <3>1
        <4> QED
          BY <4>1
      <3>2. CASE m > n
        <4>1. m - 1 \in DOMAIN r /\ o(m - 1) = m
          BY <1>1, <2>2, <2>7, <3>2
        <4> QED
          BY <4>1
      <3> QED
        BY <1>1, <2>2, <3>1, <3>2
    <2> HIDE DEF o
    <2>12. \A i, k \in DOMAIN r : r[i] = r[k] => i = k
      BY <2>9, <2>10
    <2>13. ASSUME NEW x
           PROVE  x \in Range(r) <=> x \in Range(s) /\ x # j
      <3>1. ASSUME x \in Range(r)
            PROVE  x \in Range(s) /\ x # j
        <4>1. PICK i \in DOMAIN r : x = r[i]
          BY <3>1 DEF Range
        <4>2. o(i) \in DOMAIN s /\ o(i) # n /\ x = s[o(i)]
          BY <2>9, <4>1
        <4>3. x # j
          BY <1>1, <2>2, <4>2
        <4> QED
          BY <4>2, <4>3 DEF Range
      <3>2. ASSUME x \in Range(s), x # j
            PROVE  x \in Range(r)
        <4>1. PICK m \in DOMAIN s : x = s[m]
          BY <3>2 DEF Range
        <4>2. m # n
          BY <2>2, <3>2, <4>1
        <4>3. PICK i \in DOMAIN r : o(i) = m
          BY <2>11, <4>2
        <4> QED
          BY <2>9, <4>1, <4>3 DEF Range
      <3> QED
        BY <3>1, <3>2
    <2> QED
      BY <1>3, <2>7, <2>12, <2>13 DEF r
  <1> QED
    BY <1>2, <1>3

(***************************************************************************)
(* The newest entries of a list.                                           *)
(***************************************************************************)
LEMMA NewestEntries ==
    ASSUME NEW S, NEW s \in Seq(S), NEW n \in Nat \ {0}
    PROVE  /\ Newest(s, n) \in Seq(S)
           /\ Len(s) <= n => Newest(s, n) = s
           /\ ~(Len(s) <= n) =>
                /\ Len(Newest(s, n)) = n
                /\ \A i \in 1..n : Newest(s, n)[i] = s[i + (Len(s) - n)]
  BY DEF Newest

(***************************************************************************)
(* A list has no more different entries than its length.                   *)
(***************************************************************************)
LEMMA EntriesAreFinite ==
    ASSUME NEW S, NEW s \in Seq(S)
    PROVE  IsFiniteSet(Range(s)) /\ Cardinality(Range(s)) <= Len(s)
  <1>1. Len(s) \in Nat /\ DOMAIN s = 1..Len(s)
    OBVIOUS
  <1>2. IsFiniteSet(1..Len(s)) /\ Cardinality(1..Len(s)) = Len(s)
    BY <1>1, FS_Interval
  <1>3. s \in Surjection(1..Len(s), Range(s))
    BY <1>1 DEF Surjection, Range
  <1> QED
    BY <1>2, <1>3, FS_Surjection

(***************************************************************************)
(* The oldest entries of a list: what is not among them is one of the n    *)
(* newest, so there are no more than n of those.                           *)
(***************************************************************************)
LEMMA OldestEntries ==
    ASSUME NEW S, NEW s \in Seq(S), NEW n \in Nat \ {0}
    PROVE  /\ Oldest(s, n) \in Seq(S)
           /\ Cardinality(Range(s) \ Range(Oldest(s, n))) <= n
  <1> DEFINE young == Newest(s, n)
  <1>1. Len(s) \in Nat /\ DOMAIN s = 1..Len(s)
    OBVIOUS
  <1>2. /\ young \in Seq(S)
        /\ Len(s) <= n => young = s
        /\ ~(Len(s) <= n) =>
             /\ Len(young) = n
             /\ \A i \in 1..n : young[i] = s[i + (Len(s) - n)]
    BY NewestEntries
  <1> HIDE DEF young
  <1>3. Len(young) \in Nat /\ Len(young) <= n /\ DOMAIN young = 1..Len(young)
    BY <1>1, <1>2
  <1>4. Oldest(s, n) \in Seq(S)
    BY <1>1 DEF Oldest
  <1>5. ~(Len(s) <= n) => /\ DOMAIN Oldest(s, n) = 1..Len(s) - n
                          /\ \A i \in 1..Len(s) - n : Oldest(s, n)[i] = s[i]
    BY <1>1 DEF Oldest
  <1>6. Range(s) \ Range(Oldest(s, n)) \subseteq Range(young)
    <2> SUFFICES ASSUME NEW x \in Range(s), x \notin Range(Oldest(s, n))
                 PROVE  x \in Range(young)
      OBVIOUS
    <2>1. CASE Len(s) <= n
      BY <1>2, <2>1
    <2>2. CASE ~(Len(s) <= n)
      <3>1. PICK i \in 1..Len(s) : x = s[i]
        BY <1>1 DEF Range
      <3>2. i \notin 1..Len(s) - n
        BY <1>5, <2>2, <3>1 DEF Range
      <3>3. i - (Len(s) - n) \in 1..n /\ i - (Len(s) - n) + (Len(s) - n) = i
        BY <1>1, <2>2, <3>1, <3>2
      <3>4. young[i - (Len(s) - n)] = x /\ i - (Len(s) - n) \in DOMAIN young
        BY <1>2, <1>3, <2>2, <3>1, <3>3
      <3> QED
        BY <3>4 DEF Range
    <2> QED
      BY <2>1, <2>2
  <1>7. IsFiniteSet(Range(young)) /\ Cardinality(Range(young)) <= Len(young)
    BY <1>2, EntriesAreFinite
  <1>8. /\ IsFiniteSet(Range(s) \ Range(Oldest(s, n)))
        /\ Cardinality(Range(s) \ Range(Oldest(s, n))) <= Cardinality(Range(young))
    BY <1>6, <1>7, FS_Subset
  <1> QED
    BY <1>3, <1>4, <1>7, <1>8, FS_CardinalityType

(***************************************************************************)
(* A list is its first entry and the rest.                                 *)
(***************************************************************************)
LEMMA HeadAndTail ==
    ASSUME NEW S, NEW s \in Seq(S), s # << >>
    PROVE  /\ Head(s) \in S /\ Tail(s) \in Seq(S)
           /\ \A x \in Range(s) : x = Head(s) \/ x \in Range(Tail(s))
  <1>1. /\ Len(s) \in Nat \ {0} /\ Head(s) = s[1] /\ Head(s) \in S
        /\ Tail(s) \in Seq(S) /\ Len(Tail(s)) = Len(s) - 1
        /\ \A i \in 1..Len(s) - 1 : Tail(s)[i] = s[i + 1]
    BY HeadTailProperties
  <1>2. ASSUME NEW x \in Range(s), x # Head(s)
        PROVE  x \in Range(Tail(s))
    <2>1. PICK i \in 1..Len(s) : x = s[i]
      BY DEF Range
    <2>2. i - 1 \in 1..Len(s) - 1 /\ i - 1 + 1 = i
      BY <1>1, <1>2, <2>1
    <2>3. Tail(s)[i - 1] = x /\ i - 1 \in DOMAIN Tail(s)
      BY <1>1, <2>1, <2>2
    <2> QED
      BY <2>3 DEF Range
  <1> QED
    BY <1>1, <1>2

-----------------------------------------------------------------------------
(* Where the jobs are. *)

(***************************************************************************)
(* Steps that touch neither the jobs nor the places they may be in.        *)
(***************************************************************************)
LEMMA PlacedStays ==
    ASSUME Placed, UNCHANGED <<jobs, results, again, queue, client, worker>>
    PROVE  Placed'
  <1>1. Typed'
    BY DEF Placed, Typed
  <1>2. LiveJobIsHeld'
    BY DEF Placed, LiveJobIsHeld, Holds
  <1>3. OneBuild'
    BY DEF Placed, OneBuild
  <1> QED
    BY <1>1, <1>2, <1>3 DEF Placed

(***************************************************************************)
(* A request admits a job and holds it; pruning takes no job that is in    *)
(* any place.                                                              *)
(***************************************************************************)
LEMMA SubmitPlaces ==
    ASSUME Placed, Snaps, NEW c \in Client, NEW k \in Key, Submit(c, k)
    PROVE  Placed'
  <1> DEFINE j == <<k, Last(snapshots).id>>
             js == [jobs EXCEPT ![j] = "queued"]
             gone == Victims(js)
  <1>1. /\ Typed /\ LiveJobIsHeld /\ OneBuild
    BY DEF Placed
  <1>2. j \in JobID /\ j # NoJob
    <2>1. Len(snapshots) \in Nat \ {0} /\ snapshots[Len(snapshots)] \in Snapshot
      BY DEF Snaps
    <2>2. Last(snapshots).id \in 1..MaxSnapshots
      BY <2>1 DEF Last, Snapshot
    <2> QED
      BY <2>2, NoJobIsNone DEF JobID
  <1>3. /\ client[c] = NoJob /\ client' = [client EXCEPT ![c] = j]
        /\ again' = IF jobs[j] = "none" THEN again ELSE again \cup {j}
        /\ jobs' = [i \in JobID |-> IF i \in gone THEN "none" ELSE js[i]]
        /\ results' = results \ gone
        /\ UNCHANGED <<queue, worker>>
    BY DEF Submit, Prune
  <1> HIDE DEF j
  <1>4. js \in [JobID -> States] /\ js[j] = "queued" /\ \A i \in JobID : i # j => js[i] = jobs[i]
    BY <1>1, <1>2 DEF Typed, States
  <1>5. \A i \in gone : js[i] \in Terminal
    BY VictimsEnded
  <1> HIDE DEF js, gone
  <1>6. /\ jobs' \in [JobID -> States] /\ jobs'[j] = "queued"
        /\ \A i \in JobID : i # j /\ jobs[i] \in Live => jobs'[i] = jobs[i] /\ i \notin gone
        /\ \A i \in JobID : i # j /\ jobs'[i] # "none" => jobs'[i] = jobs[i] /\ i \notin gone
    BY <1>2, <1>3, <1>4, <1>5 DEF States, Terminal, Live
  <1>7. /\ client' \in [Client -> JobID \cup {NoJob}] /\ client'[c] = j
        /\ \A d \in Client : d # c => client'[d] = client[d]
    BY <1>1, <1>2, <1>3 DEF Typed
  <1>8. Typed'
    BY <1>1, <1>2, <1>3, <1>6, <1>7 DEF Typed
  <1>9. LiveJobIsHeld'
    <2> SUFFICES ASSUME NEW i \in JobID
                 PROVE  /\ jobs'[i] = "queued" => \/ i \in Range(queue)
                                                  \/ \E d \in Client : client'[d] = i
                                                  \/ \E w \in Worker : worker[w].job = i
                        /\ jobs'[i] = "running" => \E w \in Worker : worker[w].job = i
      BY <1>3 DEF LiveJobIsHeld, Holds
    <2>1. CASE i = j
      BY <1>6, <1>7, <2>1
    <2>2. ASSUME i # j, jobs'[i] = "queued"
          PROVE  \/ i \in Range(queue) \/ \E d \in Client : client'[d] = i
                 \/ \E w \in Worker : worker[w].job = i
      <3>1. jobs[i] = "queued"
        BY <1>6, <2>2
      <3>2. \A d \in Client : client[d] = i => d # c
        BY <1>2, <1>3, NoJobIsNone
      <3> QED
        BY <1>1, <1>7, <3>1, <3>2 DEF LiveJobIsHeld, Holds
    <2>3. ASSUME i # j, jobs'[i] = "running"
          PROVE  \E w \in Worker : worker[w].job = i
      <3>1. jobs[i] = "running"
        BY <1>6, <2>3
      <3> QED
        BY <1>1, <3>1 DEF LiveJobIsHeld, Holds
    <2> QED
      BY <2>1, <2>2, <2>3
  <1>10. OneBuild'
    <2> SUFFICES ASSUME NEW i \in JobID, i \notin again'
                 PROVE  /\ \A n \in DOMAIN queue : queue[n] = i =>
                              /\ jobs'[i] = "queued"
                              /\ \A m \in DOMAIN queue : queue[m] = i => m = n
                              /\ \A d \in Client : client'[d] # i
                              /\ \A w \in Worker : worker[w].job # i
                        /\ \A d \in Client : client'[d] = i =>
                              /\ jobs'[i] = "queued"
                              /\ \A e \in Client : client'[e] = i => e = d
                              /\ \A w \in Worker : worker[w].job # i
                        /\ \A w \in Worker : worker[w].job = i =>
                              /\ jobs'[i] = IF worker[w].pc = "taken" THEN "queued" ELSE "running"
                              /\ \A v \in Worker : worker[v].job = i => v = w
                              /\ worker[w].pc = "complete" => i \in results'
                        /\ jobs'[i] = "completed" => i \in results'
      BY <1>3 DEF OneBuild
    <2>1. i \in JobID \ again
      BY <1>3
    <2>2. CASE i = j
      <3>1. jobs[i] = "none"
        BY <1>3, <2>2
      <3>2. /\ \A n \in DOMAIN queue : queue[n] # i
            /\ \A d \in Client : client[d] # i
            /\ \A w \in Worker : worker[w].job # i
        BY <1>1, <2>1, <3>1 DEF OneBuild
      <3>3. \A d \in Client : client'[d] = i => d = c
        BY <1>7, <3>2
      <3> QED
        BY <1>6, <2>2, <3>2, <3>3
    <2>3. CASE i # j
      <3>1. \A d \in Client : client'[d] = i => client[d] = i
        BY <1>7, <2>3
      <3>2. /\ \A n \in DOMAIN queue : queue[n] = i => jobs'[i] = "queued"
            /\ \A d \in Client : client'[d] = i => jobs'[i] = "queued"
            /\ \A w \in Worker : worker[w].job = i =>
                  jobs'[i] = (IF worker[w].pc = "taken" THEN "queued" ELSE "running") /\ i \notin gone
        BY <1>1, <1>6, <2>1, <2>3, <3>1 DEF OneBuild, Live
      <3>3. jobs'[i] = "completed" => jobs[i] = "completed" /\ i \notin gone
        BY <1>6, <2>3
      <3>4. /\ \A w \in Worker : worker[w].job = i /\ worker[w].pc = "complete" => i \in results'
            /\ jobs'[i] = "completed" => i \in results'
        BY <1>1, <1>3, <2>1, <3>2, <3>3 DEF OneBuild
      <3>5. \A n, m \in DOMAIN queue : queue[n] = i /\ queue[m] = i => m = n
        BY <1>1, <2>1 DEF OneBuild
      <3>6. \A n \in DOMAIN queue : queue[n] = i => /\ \A d \in Client : client'[d] # i
                                                    /\ \A w \in Worker : worker[w].job # i
        BY <1>1, <2>1, <3>1 DEF OneBuild
      <3>7. \A d \in Client : client'[d] = i =>
              /\ \A e \in Client : client'[e] = i => e = d
              /\ \A w \in Worker : worker[w].job # i
        BY <1>1, <2>1, <3>1 DEF OneBuild
      <3>8. \A w, v \in Worker : worker[w].job = i /\ worker[v].job = i => v = w
        BY <1>1, <2>1 DEF OneBuild
      <3> QED
        BY <3>2, <3>4, <3>5, <3>6, <3>7, <3>8
    <2> QED
      BY <2>2, <2>3
  <1> QED
    BY <1>8, <1>9, <1>10 DEF Placed

(***************************************************************************)
(* A request sends its job to the channel, or finds it full and marks the  *)
(* job as shed.                                                            *)
(***************************************************************************)
LEMMA SendPlaces ==
    ASSUME Placed, NEW c \in Client, Send(c)
    PROVE  Placed'
  <1> DEFINE j == client[c]
  <1>1. Typed /\ LiveJobIsHeld /\ OneBuild
    BY DEF Placed
  <1>2. j \in JobID /\ j # NoJob
    BY <1>1 DEF Send, Typed
  <1>3. /\ client' = [client EXCEPT ![c] = NoJob]
        /\ UNCHANGED <<results, again, worker>>
    BY DEF Send, bounds
  <1>4. /\ client' \in [Client -> JobID \cup {NoJob}]
        /\ client'[c] = NoJob
        /\ \A d \in Client : d # c => client'[d] = client[d]
    BY <1>1, <1>3 DEF Typed
  <1>5. \A i \in JobID : \A d \in Client : client'[d] = i => client[d] = i /\ d # c
    BY <1>4, NoJobIsNone
  <1>6. j \notin again => /\ jobs[j] = "queued"
                          /\ \A n \in DOMAIN queue : queue[n] # j
                          /\ \A d \in Client : client'[d] # j
                          /\ \A w \in Worker : worker[w].job # j
    BY <1>1, <1>2, <1>5 DEF OneBuild
  <1>7. CASE Len(queue) < QueueSize
    <2>1. queue' = Append(queue, j) /\ UNCHANGED jobs
      BY <1>7 DEF Send
    <2>2. /\ queue' \in Seq(JobID) /\ DOMAIN queue = 1..Len(queue) /\ Len(queue) \in Nat
          /\ DOMAIN queue' = 1..Len(queue) + 1 /\ queue'[Len(queue) + 1] = j
          /\ \A n \in DOMAIN queue : queue'[n] = queue[n]
      BY <1>1, <1>2, <2>1 DEF Typed
    <2> HIDE DEF j
    <2>3. Typed'
      BY <1>1, <1>3, <1>4, <2>1, <2>2 DEF Typed
    <2>4. LiveJobIsHeld'
      <3>1. \A i \in Range(queue) : i \in Range(queue')
        BY <2>2 DEF Range
      <3>2. j \in Range(queue')
        BY <2>2 DEF Range
      <3>3. \A i \in JobID : \A d \in Client : client[d] = i =>
               i \in Range(queue') \/ \E e \in Client : client'[e] = i
        BY <1>4, <3>2 DEF j
      <3> QED
        BY <1>1, <1>3, <2>1, <3>1, <3>3 DEF LiveJobIsHeld, Holds
    <2>5. OneBuild'
      <3> SUFFICES ASSUME NEW i \in JobID \ again
                   PROVE  /\ \A n \in DOMAIN queue' : queue'[n] = i =>
                                /\ jobs[i] = "queued"
                                /\ \A m \in DOMAIN queue' : queue'[m] = i => m = n
                                /\ \A d \in Client : client'[d] # i
                                /\ \A w \in Worker : worker[w].job # i
                          /\ \A d \in Client : client'[d] = i =>
                                /\ jobs[i] = "queued"
                                /\ \A e \in Client : client'[e] = i => e = d
                                /\ \A w \in Worker : worker[w].job # i
                          /\ \A w \in Worker : worker[w].job = i =>
                                /\ jobs[i] = IF worker[w].pc = "taken" THEN "queued" ELSE "running"
                                /\ \A v \in Worker : worker[v].job = i => v = w
                                /\ worker[w].pc = "complete" => i \in results
                          /\ jobs[i] = "completed" => i \in results
        BY <1>3, <2>1 DEF OneBuild
      <3>1. CASE i = j
        <4>1. \A n \in DOMAIN queue' : queue'[n] = i => n = Len(queue) + 1
          BY <1>6, <2>2, <3>1
        <4>2. jobs[i] = "queued"
          BY <1>6, <3>1
        <4> QED
          BY <1>6, <3>1, <4>1, <4>2
      <3>2. CASE i # j
        <4>1. \A n \in DOMAIN queue' : queue'[n] = i => n \in DOMAIN queue /\ queue[n] = i
          BY <2>2, <3>2
        <4> QED
          BY <1>1, <1>5, <4>1 DEF OneBuild
      <3> QED
        BY <3>1, <3>2
    <2> QED
      BY <2>3, <2>4, <2>5 DEF Placed
  <1>8. CASE ~(Len(queue) < QueueSize)
    <2>1. /\ jobs' = IF jobs[j] = "none" THEN jobs ELSE [jobs EXCEPT ![j] = "shed"]
          /\ UNCHANGED queue
      BY <1>8 DEF Send, Finish
    <2>2. /\ jobs' \in [JobID -> States] /\ jobs'[j] \in {"none", "shed"}
          /\ \A i \in JobID : i # j => jobs'[i] = jobs[i]
      BY <1>1, <1>2, <2>1 DEF Typed, States, Terminal
    <2> HIDE DEF j
    <2>3. Typed'
      BY <1>1, <1>3, <1>4, <2>1, <2>2 DEF Typed
    <2>4. LiveJobIsHeld'
      <3>1. \A i \in JobID : \A d \in Client : i # j /\ client[d] = i => client'[d] = i
        BY <1>4 DEF j
      <3> QED
        BY <1>1, <1>3, <2>1, <2>2, <3>1 DEF LiveJobIsHeld, Holds
    <2>5. OneBuild'
      <3>1. \A i \in JobID \ again : i = j => jobs'[i] # "completed"
        BY <2>2
      <3> QED
        BY <1>1, <1>3, <1>5, <1>6, <2>1, <2>2, <3>1 DEF OneBuild
    <2> QED
      BY <2>3, <2>4, <2>5 DEF Placed
  <1> QED
    BY <1>7, <1>8

(***************************************************************************)
(* A worker takes the first job of the channel.                            *)
(***************************************************************************)
LEMMA TakePlaces ==
    ASSUME Placed, NEW w \in Worker, Take(w)
    PROVE  Placed'
  <1> DEFINE j == Head(queue)
  <1>1. Typed /\ LiveJobIsHeld /\ OneBuild
    BY DEF Placed
  <1>2. /\ worker[w].pc = "idle" /\ queue # <<>> /\ queue' = Tail(queue)
        /\ worker' = [worker EXCEPT ![w] = [pc |-> "taken", job |-> j]]
        /\ UNCHANGED <<jobs, results, again, client>>
    BY DEF Take, tables, bounds
  <1>3. /\ Len(queue) \in Nat \ {0} /\ DOMAIN queue = 1..Len(queue)
        /\ j = queue[1] /\ j \in JobID
        /\ queue' \in Seq(JobID) /\ DOMAIN queue' = 1..Len(queue) - 1
        /\ \A n \in DOMAIN queue' : queue'[n] = queue[n + 1] /\ n + 1 \in DOMAIN queue
    BY <1>1, <1>2 DEF Typed
  <1> HIDE DEF j
  <1>4. worker[w].job = NoJob /\ j # NoJob
    BY <1>1, <1>2, <1>3, NoJobIsNone DEF Typed
  <1>5. /\ worker' \in [Worker -> [pc : Steps, job : JobID \cup {NoJob}]]
        /\ worker'[w] = [pc |-> "taken", job |-> j]
        /\ \A v \in Worker : v # w => worker'[v] = worker[v]
    BY <1>1, <1>2, <1>3 DEF Typed, Steps
  <1>6. Typed'
    BY <1>1, <1>2, <1>3, <1>4, <1>5 DEF Typed
  <1>7. \A i \in JobID : \A v \in Worker : worker[v].job = i => worker'[v] = worker[v] /\ v # w
    BY <1>4, <1>5, NoJobIsNone
  <1>8. \A i \in Range(queue) : i = j \/ i \in Range(queue')
    <2> TAKE i \in Range(queue)
    <2>1. PICK n \in DOMAIN queue : i = queue[n]
      BY DEF Range
    <2>2. CASE n = 1
      BY <1>3, <2>1, <2>2
    <2>3. CASE n # 1
      <3>1. n - 1 \in DOMAIN queue' /\ n - 1 + 1 = n
        BY <1>3, <2>1, <2>3
      <3> QED
        BY <1>3, <2>1, <3>1 DEF Range
    <2> QED
      BY <2>2, <2>3
  <1>9. LiveJobIsHeld'
    BY <1>1, <1>2, <1>5, <1>7, <1>8 DEF LiveJobIsHeld, Holds
  <1>10. OneBuild'
    <2> SUFFICES ASSUME NEW i \in JobID \ again
                 PROVE  /\ \A n \in DOMAIN queue' : queue'[n] = i =>
                              /\ jobs[i] = "queued"
                              /\ \A m \in DOMAIN queue' : queue'[m] = i => m = n
                              /\ \A d \in Client : client[d] # i
                              /\ \A v \in Worker : worker'[v].job # i
                        /\ \A d \in Client : client[d] = i =>
                              /\ jobs[i] = "queued"
                              /\ \A e \in Client : client[e] = i => e = d
                              /\ \A v \in Worker : worker'[v].job # i
                        /\ \A v \in Worker : worker'[v].job = i =>
                              /\ jobs[i] = IF worker'[v].pc = "taken" THEN "queued" ELSE "running"
                              /\ \A u \in Worker : worker'[u].job = i => u = v
                              /\ worker'[v].pc = "complete" => i \in results
                        /\ jobs[i] = "completed" => i \in results
      BY <1>2 DEF OneBuild
    <2>1. CASE i = j
      <3>1. 1 \in DOMAIN queue /\ queue[1] = i
        BY <1>3, <2>1
      <3>2. /\ jobs[i] = "queued"
            /\ \A m \in DOMAIN queue : queue[m] = i => m = 1
            /\ \A d \in Client : client[d] # i
            /\ \A v \in Worker : worker[v].job # i
        BY <1>1, <3>1 DEF OneBuild
      <3>3. \A n \in DOMAIN queue' : queue'[n] # i
        BY <1>3, <3>2
      <3>4. \A v \in Worker : worker'[v].job = i => v = w /\ worker'[v].pc = "taken"
        BY <1>5, <3>2
      <3> QED
        BY <3>2, <3>3, <3>4
    <2>2. CASE i # j
      <3>1. \A v \in Worker : worker'[v].job = i => worker[v].job = i /\ worker'[v] = worker[v]
        BY <1>5, <2>2
      <3>2. \A n, m \in DOMAIN queue' : queue'[n] = i /\ queue'[m] = i => m = n
        <4> TAKE n, m \in DOMAIN queue'
        <4> HAVE queue'[n] = i /\ queue'[m] = i
        <4>1. m + 1 = n + 1
          BY <1>1, <1>3 DEF OneBuild
        <4> QED
          BY <1>3, <4>1
      <3>3. \A n \in DOMAIN queue' : queue'[n] = i => /\ jobs[i] = "queued"
                                                      /\ \A d \in Client : client[d] # i
                                                      /\ \A v \in Worker : worker'[v].job # i
        BY <1>1, <1>3, <3>1 DEF OneBuild
      <3>4. \A d \in Client : client[d] = i => /\ jobs[i] = "queued"
                                               /\ \A e \in Client : client[e] = i => e = d
                                               /\ \A v \in Worker : worker'[v].job # i
        BY <1>1, <3>1 DEF OneBuild
      <3>5. \A v \in Worker : worker'[v].job = i =>
                /\ jobs[i] = IF worker'[v].pc = "taken" THEN "queued" ELSE "running"
                /\ \A u \in Worker : worker'[u].job = i => u = v
                /\ worker'[v].pc = "complete" => i \in results
        BY <1>1, <3>1 DEF OneBuild
      <3>6. jobs[i] = "completed" => i \in results
        BY <1>1 DEF OneBuild
      <3> QED
        BY <3>2, <3>3, <3>4, <3>5, <3>6
    <2> QED
      BY <2>1, <2>2
  <1> QED
    BY <1>6, <1>9, <1>10 DEF Placed

(***************************************************************************)
(* A worker starts its job, or drops one whose record was pruned.          *)
(***************************************************************************)
LEMMA StartPlaces ==
    ASSUME Placed, NEW w \in Worker, StartJob(w)
    PROVE  Placed'
  <1> DEFINE j == worker[w].job
  <1>1. Typed /\ LiveJobIsHeld /\ OneBuild
    BY DEF Placed
  <1>2. /\ worker[w].pc = "taken"
        /\ UNCHANGED <<results, again, queue, client>>
    BY DEF StartJob, Rest, bounds
  <1>3. j \in JobID /\ j # NoJob
    BY <1>1, <1>2 DEF Typed
  <1>4. j \notin again => jobs[j] = "queued" /\ \A v \in Worker : worker[v].job = j => v = w
    BY <1>1, <1>2, <1>3 DEF OneBuild
  <1>5. CASE jobs[j] = "none"
    <2>1. UNCHANGED jobs /\ worker' = [worker EXCEPT ![w] = [pc |-> "idle", job |-> NoJob]]
      BY <1>5 DEF StartJob, Free
    <2>2. /\ worker' \in [Worker -> [pc : Steps, job : JobID \cup {NoJob}]]
          /\ worker'[w] = [pc |-> "idle", job |-> NoJob]
          /\ \A v \in Worker : v # w => worker'[v] = worker[v]
      BY <1>1, <2>1 DEF Typed, Steps
    <2>3. Typed'
      BY <1>1, <1>2, <2>1, <2>2 DEF Typed
    <2>4. \A i \in JobID : \A v \in Worker : worker'[v].job = i => worker'[v] = worker[v]
      BY <2>2, NoJobIsNone
    <2>5. \A i \in JobID : \A v \in Worker : i # j /\ worker[v].job = i => worker'[v].job = i
      BY <2>2
    <2>6. LiveJobIsHeld'
      BY <1>1, <1>2, <1>5, <2>1, <2>5 DEF LiveJobIsHeld, Holds
    <2>7. OneBuild'
      BY <1>1, <1>2, <2>1, <2>4 DEF OneBuild
    <2> QED
      BY <2>3, <2>6, <2>7 DEF Placed
  <1>6. CASE jobs[j] # "none"
    <2>1. /\ jobs' = [jobs EXCEPT ![j] = "running"]
          /\ worker' = [worker EXCEPT ![w].pc = "lookup"]
      BY <1>6 DEF StartJob, Goto
    <2>2. /\ worker' \in [Worker -> [pc : Steps, job : JobID \cup {NoJob}]]
          /\ worker'[w].pc = "lookup" /\ worker'[w].job = j
          /\ \A v \in Worker : v # w => worker'[v] = worker[v]
      BY <1>1, <2>1 DEF Typed, Steps
    <2>3. /\ jobs' \in [JobID -> States] /\ jobs'[j] = "running"
          /\ \A i \in JobID : i # j => jobs'[i] = jobs[i]
      BY <1>1, <1>3, <2>1 DEF Typed, States
    <2> HIDE DEF j
    <2>4. Typed'
      BY <1>1, <1>2, <1>3, <2>2, <2>3 DEF Typed
    <2>5. \A v \in Worker : worker'[v].job = worker[v].job
      BY <2>2 DEF j
    <2>6. LiveJobIsHeld'
      <3>1. \A i \in JobID : i = j => \E v \in Worker : worker'[v].job = i
        BY <2>2
      <3>2. \A i \in JobID : i # j /\ jobs'[i] = "queued" =>
               i \in Range(queue) \/ (\E d \in Client : client[d] = i) \/ \E v \in Worker : worker'[v].job = i
        BY <1>1, <2>3, <2>5 DEF LiveJobIsHeld, Holds
      <3>3. \A i \in JobID : i # j /\ jobs'[i] = "running" => \E v \in Worker : worker'[v].job = i
        BY <1>1, <2>3, <2>5 DEF LiveJobIsHeld, Holds
      <3> QED
        BY <1>2, <2>3, <3>1, <3>2, <3>3 DEF LiveJobIsHeld, Holds
    <2>7. OneBuild'
      <3> SUFFICES ASSUME NEW i \in JobID \ again
                   PROVE  /\ \A n \in DOMAIN queue : queue[n] = i =>
                                /\ jobs'[i] = "queued"
                                /\ \A m \in DOMAIN queue : queue[m] = i => m = n
                                /\ \A d \in Client : client[d] # i
                                /\ \A v \in Worker : worker'[v].job # i
                          /\ \A d \in Client : client[d] = i =>
                                /\ jobs'[i] = "queued"
                                /\ \A e \in Client : client[e] = i => e = d
                                /\ \A v \in Worker : worker'[v].job # i
                          /\ \A v \in Worker : worker'[v].job = i =>
                                /\ jobs'[i] = IF worker'[v].pc = "taken" THEN "queued" ELSE "running"
                                /\ \A u \in Worker : worker'[u].job = i => u = v
                                /\ worker'[v].pc = "complete" => i \in results
                          /\ jobs'[i] = "completed" => i \in results
        BY <1>2 DEF OneBuild
      <3>1. CASE i = j
        <4>1. worker[w].job = i
          BY <3>1 DEF j
        <4>2. /\ \A n \in DOMAIN queue : queue[n] # i
              /\ \A d \in Client : client[d] # i
              /\ \A v \in Worker : worker[v].job = i => v = w
          BY <1>1, <4>1 DEF OneBuild
        <4> QED
          BY <2>2, <2>3, <2>5, <3>1, <4>2
      <3>2. CASE i # j
        <4>1. \A v \in Worker : worker[v].job = i => worker'[v] = worker[v]
          BY <2>2, <3>2 DEF j
        <4>2. jobs'[i] = jobs[i]
          BY <2>3, <3>2
        <4> QED
          BY <1>1, <2>5, <4>1, <4>2 DEF OneBuild
      <3> QED
        BY <3>1, <3>2
    <2> QED
      BY <2>4, <2>6, <2>7 DEF Placed
  <1> QED
    BY <1>5, <1>6

(***************************************************************************)
(* A worker goes on with its job; before it completes it, the result of    *)
(* the job is there.                                                       *)
(***************************************************************************)
LEMMA GotoPlaces ==
    ASSUME Placed, NEW w \in Worker, NEW pc \in Steps, Goto(w, pc),
           pc \in {"idle", "gone"} <=> worker[w].pc \in {"idle", "gone"},
           pc # "taken", worker[w].pc # "taken",
           pc = "complete" => worker[w].job \in results',
           results \subseteq results', results' \subseteq JobID,
           UNCHANGED <<jobs, again, queue, client>>
    PROVE  Placed'
  <1>1. Typed /\ LiveJobIsHeld /\ OneBuild
    BY DEF Placed
  <1>2. /\ worker' \in [Worker -> [pc : Steps, job : JobID \cup {NoJob}]]
        /\ worker'[w].pc = pc /\ worker'[w].job = worker[w].job
        /\ \A v \in Worker : v # w => worker'[v] = worker[v]
    BY <1>1 DEF Goto, Typed
  <1>3. Typed'
    BY <1>1, <1>2 DEF Typed
  <1>4. \A v \in Worker : worker'[v].job = worker[v].job
    BY <1>2
  <1>5. \A v \in Worker : worker'[v].pc = "taken" <=> worker[v].pc = "taken"
    BY <1>2
  <1>6. LiveJobIsHeld'
    BY <1>1, <1>4 DEF LiveJobIsHeld, Holds
  <1>7. OneBuild'
    <2>1. \A i \in JobID \ again : \A v \in Worker :
             worker[v].job = i /\ worker'[v].pc = "complete" => i \in results'
      BY <1>1, <1>2 DEF OneBuild
    <2>2. \A i \in JobID \ again : jobs[i] = "completed" => i \in results'
      BY <1>1 DEF OneBuild
    <2>3. \A i \in JobID \ again : \A v \in Worker : worker[v].job = i =>
             /\ jobs[i] = IF worker'[v].pc = "taken" THEN "queued" ELSE "running"
             /\ \A u \in Worker : worker[u].job = i => u = v
      BY <1>1, <1>5 DEF OneBuild
    <2> QED
      BY <1>1, <1>4, <2>1, <2>2, <2>3 DEF OneBuild
  <1> QED
    BY <1>3, <1>6, <1>7 DEF Placed

(***************************************************************************)
(* A worker completes or fails its job and is free.                        *)
(***************************************************************************)
LEMMA FinishPlaces ==
    ASSUME Placed, NEW w \in Worker, NEW state \in {"completed", "failed"},
           worker[w].pc \in {"complete", "fail"},
           state = "completed" => worker[w].pc = "complete",
           Finish(worker[w].job, state), Free(w),
           UNCHANGED <<results, again, queue, client>>
    PROVE  Placed'
  <1> DEFINE j == worker[w].job
  <1>1. Typed /\ LiveJobIsHeld /\ OneBuild
    BY DEF Placed
  <1>2. j \in JobID /\ j # NoJob
    BY <1>1 DEF Typed
  <1>3. /\ worker' \in [Worker -> [pc : Steps, job : JobID \cup {NoJob}]]
        /\ worker'[w] = [pc |-> "idle", job |-> NoJob]
        /\ \A v \in Worker : v # w => worker'[v] = worker[v]
    BY <1>1 DEF Free, Typed, Steps
  <1>4. /\ jobs' \in [JobID -> States] /\ jobs'[j] \in {"none", state}
        /\ \A i \in JobID : i # j => jobs'[i] = jobs[i]
    <2>1. jobs' = IF jobs[j] = "none" THEN jobs ELSE [jobs EXCEPT ![j] = state]
      BY DEF Finish
    <2> QED
      BY <1>1, <1>2, <2>1 DEF Typed, States, Terminal
  <1>5. j \notin again => /\ \A n \in DOMAIN queue : queue[n] # j
                          /\ \A d \in Client : client[d] # j
                          /\ \A v \in Worker : worker[v].job = j => v = w
                          /\ worker[w].pc = "complete" => j \in results
    BY <1>1, <1>2 DEF OneBuild
  <1>6. \A i \in JobID : \A v \in Worker : worker'[v].job = i => worker'[v] = worker[v] /\ v # w
    BY <1>3, NoJobIsNone
  <1>7. \A i \in JobID : \A v \in Worker : i # j /\ worker[v].job = i => worker'[v] = worker[v]
    BY <1>3
  <1> HIDE DEF j
  <1>8. Typed'
    BY <1>1, <1>3, <1>4 DEF Typed
  <1>9. LiveJobIsHeld'
    <2>1. \A i \in JobID : jobs'[i] \in Live => i # j /\ jobs'[i] = jobs[i]
      BY <1>4 DEF Live
    <2>2. \A i \in JobID : jobs'[i] = "queued" =>
             i \in Range(queue) \/ (\E d \in Client : client[d] = i) \/ \E v \in Worker : worker'[v].job = i
      BY <1>1, <1>7, <2>1 DEF LiveJobIsHeld, Holds, Live
    <2>3. \A i \in JobID : jobs'[i] = "running" => \E v \in Worker : worker'[v].job = i
      BY <1>1, <1>7, <2>1 DEF LiveJobIsHeld, Holds, Live
    <2> QED
      BY <2>2, <2>3 DEF LiveJobIsHeld, Holds
  <1>10. OneBuild'
    <2> SUFFICES ASSUME NEW i \in JobID \ again
                 PROVE  /\ \A n \in DOMAIN queue : queue[n] = i =>
                              /\ jobs'[i] = "queued"
                              /\ \A m \in DOMAIN queue : queue[m] = i => m = n
                              /\ \A d \in Client : client[d] # i
                              /\ \A v \in Worker : worker'[v].job # i
                        /\ \A d \in Client : client[d] = i =>
                              /\ jobs'[i] = "queued"
                              /\ \A e \in Client : client[e] = i => e = d
                              /\ \A v \in Worker : worker'[v].job # i
                        /\ \A v \in Worker : worker'[v].job = i =>
                              /\ jobs'[i] = IF worker'[v].pc = "taken" THEN "queued" ELSE "running"
                              /\ \A u \in Worker : worker'[u].job = i => u = v
                              /\ worker'[v].pc = "complete" => i \in results
                        /\ jobs'[i] = "completed" => i \in results
      BY DEF OneBuild
    <2>1. CASE i = j
      <3>1. \A v \in Worker : worker'[v].job # i
        BY <1>5, <1>6, <2>1
      <3>2. jobs'[i] = "completed" => i \in results
        BY <1>4, <1>5, <2>1
      <3> QED
        BY <1>5, <2>1, <3>1, <3>2
    <2>2. CASE i # j
      BY <1>1, <1>4, <1>6, <2>2 DEF OneBuild
    <2> QED
      BY <2>1, <2>2
  <1> QED
    BY <1>8, <1>9, <1>10 DEF Placed

(***************************************************************************)
(* Every step keeps the jobs in their places.                              *)
(***************************************************************************)
LEMMA PlacedHolds ==
    ASSUME Placed, Snaps, [Next]_vars
    PROVE  Placed'
  <1>1. ASSUME NEW c \in Client, Send(c)
        PROVE  Placed'
    BY <1>1, SendPlaces
  <1>2. ASSUME NEW c \in Client, NEW k \in Key, Submit(c, k)
        PROVE  Placed'
    BY <1>2, SubmitPlaces
  <1>3. ASSUME NEW w \in Worker, Take(w)
        PROVE  Placed'
    BY <1>3, TakePlaces
  <1>4. ASSUME NEW w \in Worker, StartJob(w)
        PROVE  Placed'
    BY <1>4, StartPlaces
  <1>5. ASSUME NEW w \in Worker, Lookup(w)
        PROVE  Placed'
    <2> DEFINE pc == IF \E i \in 1..Len(snapshots) : snapshots[i].id = SnapshotOf(worker[w].job)
                     THEN "build" ELSE "fail"
    <2>1. worker[w].pc = "lookup" /\ Goto(w, pc) /\ UNCHANGED <<jobs, results, again, queue, client>>
      BY <1>5 DEF Lookup, Rest, tables, bounds
    <2>2. pc \in Steps /\ pc \in {"build", "fail"}
      BY DEF Steps
    <2>3. results \subseteq JobID
      BY DEF Placed, Typed
    <2> HIDE DEF pc
    <2> QED
      BY <2>1, <2>2, <2>3, GotoPlaces
  <1>6. ASSUME NEW w \in Worker, MakeDir(w) \/ WriteFile(w) \/ ListDirs(w) \/ RemoveDir(w)
        PROVE  Placed'
    <2>1. /\ worker[w].pc \in {"build", "candidate", "trace", "list", "remove"}
          /\ UNCHANGED <<jobs, results, again, queue, client>>
      BY <1>6 DEF MakeDir, WriteFile, ListDirs, RemoveDir, Rest, tables, bounds
    <2>2. \E pc \in {"candidate", "trace", "list", "remove", "record", "fail"} : Goto(w, pc)
      BY <1>6 DEF MakeDir, WriteFile, ListDirs, RemoveDir, GiveUp
    <2>3. PICK pc \in {"candidate", "trace", "list", "remove", "record", "fail"} : Goto(w, pc)
      BY <2>2
    <2>4. results \subseteq JobID /\ pc \in Steps
      BY DEF Placed, Typed, Steps
    <2> QED
      BY <2>1, <2>3, <2>4, GotoPlaces
  <1>7. ASSUME NEW w \in Worker, RecordResult(w)
        PROVE  Placed'
    <2>1. /\ worker[w].pc = "record" /\ Goto(w, "complete")
          /\ results' = results \cup {worker[w].job}
          /\ UNCHANGED <<jobs, again, queue, client>>
      BY <1>7 DEF RecordResult, Rest, bounds
    <2>2. results' \subseteq JobID /\ results \subseteq results' /\ worker[w].job \in results'
      BY <2>1 DEF Placed, Typed
    <2>3. "complete" \in Steps
      BY DEF Steps
    <2> QED
      BY <2>1, <2>2, <2>3, GotoPlaces
  <1>8. ASSUME NEW w \in Worker, CompleteJob(w)
        PROVE  Placed'
    BY <1>8, FinishPlaces DEF CompleteJob, Rest, bounds
  <1>9. ASSUME NEW w \in Worker, FailJob(w)
        PROVE  Placed'
    BY <1>9, FinishPlaces DEF FailJob, Rest, bounds
  <1>10. ASSUME NEW w \in Worker, WorkerReturns(w)
         PROVE  Placed'
    <2>1. /\ worker[w].pc = "idle" /\ Goto(w, "gone")
          /\ UNCHANGED <<jobs, results, again, queue, client>>
      BY <1>10 DEF WorkerReturns, Rest, tables, bounds
    <2>2. results \subseteq JobID /\ "gone" \in Steps
      BY DEF Placed, Typed, Steps
    <2> QED
      BY <2>1, <2>2, GotoPlaces
  <1>11. ASSUME Refresh \/ RefresherReturns \/ HeadMoves \/ SnapshotAges
         PROVE  Placed'
    <2>1. UNCHANGED <<jobs, results, again, queue, client, worker>>
      BY <1>11 DEF Refresh, ReadHead, ReadPool, RefreshFails, RecordSnapshot, RefresherReturns,
                   HeadMoves, SnapshotAges, RefreshRest, tables, bounds
    <2> QED
      BY <2>1, PlacedStays
  <1>12. ASSUME NEW k \in Key, KeyExpires(k)
         PROVE  Placed'
    BY <1>12, PlacedStays DEF KeyExpires
  <1>13. CASE Shutdown
    BY <1>13, PlacedStays DEF Shutdown, tables
  <1>14. CASE UNCHANGED vars
    BY <1>14, PlacedStays DEF vars, tables, bounds
  <1> QED
    BY <1>1, <1>2, <1>3, <1>4, <1>5, <1>6, <1>7, <1>8, <1>9, <1>10, <1>11, <1>12, <1>13, <1>14
       DEF Next, Work

-----------------------------------------------------------------------------
(* The snapshots and the directories. *)

(***************************************************************************)
(* Every snapshot is recorded with the pool of its own block.              *)
(***************************************************************************)
LEMMA SnapsHold ==
    ASSUME Snaps, [Next]_vars
    PROVE  Snaps'
  <1>1. CASE UNCHANGED <<snapshots, captured, head, refresher>>
    BY <1>1 DEF Snaps
  <1>2. CASE HeadMoves
    BY <1>2 DEF HeadMoves, Snaps, epochs
  <1>3. CASE ReadHead
    <2>1. /\ refresher' = [pc |-> "headed", before |-> head, pool |-> 0]
          /\ captured < MaxSnapshots /\ UNCHANGED <<snapshots, captured, head>>
      BY <1>3 DEF ReadHead, epochs, RefreshRest
    <2> QED
      BY <2>1 DEF Snaps
  <1>4. CASE ReadPool
    <2>1. /\ refresher.pc = "headed"
          /\ refresher' = [refresher EXCEPT !.pc = "pooled", !.pool = head]
          /\ UNCHANGED <<snapshots, captured, head>>
      BY <1>4 DEF ReadPool, epochs, RefreshRest
    <2>2. /\ refresher' \in [pc : {"idle", "headed", "pooled", "gone"}, before : Nat, pool : Nat]
          /\ refresher'.pc = "pooled" /\ refresher'.before = refresher.before /\ refresher'.pool = head
      BY <2>1 DEF Snaps
    <2> QED
      BY <2>1, <2>2 DEF Snaps
  <1>5. CASE RefreshFails \/ RefresherReturns
    <2>1. /\ refresher' \in [pc : {"idle", "gone"}, before : Nat, pool : Nat]
          /\ UNCHANGED <<snapshots, captured, head>>
      BY <1>5 DEF RefreshFails, RefresherReturns, Idle, epochs, RefreshRest
    <2> QED
      BY <2>1 DEF Snaps
  <1>6. CASE RecordSnapshot
    <2> DEFINE e == [id |-> captured + 1, header |-> refresher.before, pool |-> refresher.pool]
               s == Append(snapshots, e)
    <2>1. /\ refresher.pc = "pooled" /\ head = refresher.before
          /\ captured' = captured + 1 /\ refresher' = Idle
          /\ snapshots' = Newest(s, MaxRetainedSnap)
          /\ UNCHANGED head
      BY <1>6 DEF RecordSnapshot, RefreshRest
    <2>2. /\ captured + 1 \in 1..MaxSnapshots /\ refresher.before = refresher.pool
          /\ MaxRetainedSnap \in Nat \ {0}
      BY <2>1, BuildServiceAssumption DEF Snaps
    <2>3. e \in Snapshot /\ e.header = e.pool
      BY <2>2 DEF Snaps, Snapshot
    <2> HIDE DEF e
    <2>4. /\ s \in Seq(Snapshot) /\ Len(s) = Len(snapshots) + 1 /\ Len(snapshots) \in Nat
          /\ \A i \in 1..Len(s) : s[i].header = s[i].pool
      BY <2>3 DEF Snaps
    <2> HIDE DEF s
    <2>5. /\ snapshots' \in Seq(Snapshot) /\ snapshots' # <<>>
          /\ \A i \in DOMAIN snapshots' : snapshots'[i].header = snapshots'[i].pool
      <3>1. /\ snapshots' \in Seq(Snapshot)
            /\ Len(s) <= MaxRetainedSnap => snapshots' = s
            /\ ~(Len(s) <= MaxRetainedSnap) =>
                 /\ Len(snapshots') = MaxRetainedSnap
                 /\ \A i \in 1..MaxRetainedSnap : snapshots'[i] = s[i + (Len(s) - MaxRetainedSnap)]
        BY <2>1, <2>2, <2>4, NewestEntries
      <3>2. CASE Len(s) <= MaxRetainedSnap
        BY <2>4, <3>1, <3>2
      <3>3. CASE ~(Len(s) <= MaxRetainedSnap)
        <4>1. DOMAIN snapshots' = 1..MaxRetainedSnap /\ snapshots' # <<>>
          BY <2>2, <3>1, <3>3
        <4>2. \A i \in 1..MaxRetainedSnap : i + (Len(s) - MaxRetainedSnap) \in 1..Len(s)
          BY <2>2, <2>4, <3>3
        <4> QED
          BY <2>4, <3>1, <3>3, <4>1, <4>2
      <3> QED
        BY <3>2, <3>3
    <2> QED
      BY <2>1, <2>2, <2>5 DEF Snaps, Idle
  <1>7. CASE \E w \in Worker : Work(w) \/ WorkerReturns(w)
    <2>1. UNCHANGED <<epochs, head, refresher>>
      BY <1>7 DEF Work, Take, StartJob, Lookup, MakeDir, WriteFile, ListDirs, RemoveDir, RecordResult,
                  CompleteJob, FailJob, WorkerReturns, Rest
    <2> QED
      BY <1>1, <2>1 DEF epochs
  <1>8. CASE \/ \E c \in Client : Send(c) \/ \E k \in Key : Submit(c, k)
             \/ \E k \in Key : KeyExpires(k)
             \/ SnapshotAges \/ Shutdown \/ UNCHANGED vars
    <2>1. UNCHANGED <<snapshots, captured, head, refresher>>
      BY <1>8 DEF Send, Submit, KeyExpires, SnapshotAges, Shutdown, vars, epochs
    <2> QED
      BY <1>1, <2>1
  <1> QED
    BY <1>2, <1>3, <1>4, <1>5, <1>6, <1>7, <1>8 DEF Next, Refresh

(***************************************************************************)
(* The directories once the one of a job is written.                       *)
(***************************************************************************)
LEMMA DirectoryWritten ==
    ASSUME Dirs, NEW j \in JobID
    PROVE  /\ Written(j) \in Seq(JobID)
           /\ \A i, k \in DOMAIN Written(j) : Written(j)[i] = Written(j)[k] => i = k
           /\ \A x \in Range(Written(j)) : x = j \/ x \in Range(artifacts)
  <1> DEFINE s == Without(artifacts, j)
             dirs == Append(s, j)
  <1>1. /\ s \in Seq(JobID)
        /\ \A i, k \in DOMAIN s : s[i] = s[k] => i = k
        /\ \A x : x \in Range(s) <=> x \in Range(artifacts) /\ x # j
    BY WithoutOne DEF Dirs
  <1> HIDE DEF s
  <1>2. Len(s) \in Nat
    BY <1>1
  <1>3. /\ dirs \in Seq(JobID) /\ Len(dirs) = Len(s) + 1 /\ DOMAIN dirs = 1..Len(s) + 1
        /\ dirs[Len(s) + 1] = j /\ DOMAIN s = 1..Len(s)
        /\ \A i \in DOMAIN s : dirs[i] = s[i]
    BY <1>1
  <1>4. j \notin Range(s)
    BY <1>1
  <1>5. \A i \in DOMAIN s : s[i] # j
    BY <1>4 DEF Range
  <1> HIDE DEF dirs
  <1>6. \A i, k \in DOMAIN dirs : dirs[i] = dirs[k] => i = k
    <2> TAKE i, k \in DOMAIN dirs
    <2>1. CASE i \in DOMAIN s /\ k \in DOMAIN s
      BY <1>1, <1>3, <2>1
    <2>2. CASE i \notin DOMAIN s /\ k \notin DOMAIN s
      BY <1>2, <1>3, <2>2
    <2>3. CASE i \in DOMAIN s /\ k \notin DOMAIN s
      <3>1. k = Len(s) + 1
        BY <1>2, <1>3, <2>3
      <3> QED
        BY <1>3, <1>5, <2>3, <3>1
    <2>4. CASE i \notin DOMAIN s /\ k \in DOMAIN s
      <3>1. i = Len(s) + 1
        BY <1>2, <1>3, <2>4
      <3> QED
        BY <1>3, <1>5, <2>4, <3>1
    <2> QED
      BY <2>1, <2>2, <2>3, <2>4
  <1>7. ASSUME NEW x \in Range(dirs)
        PROVE  x = j \/ x \in Range(artifacts)
    <2>1. PICK i \in DOMAIN dirs : x = dirs[i]
      BY DEF Range
    <2>2. CASE i \in DOMAIN s
      BY <1>1, <1>3, <2>1, <2>2 DEF Range
    <2>3. CASE i \notin DOMAIN s
      BY <1>2, <1>3, <2>1, <2>3
    <2> QED
      BY <2>2, <2>3
  <1>8. dirs = Written(j)
    BY DEF dirs, s, Written
  <1> QED
    BY <1>3, <1>6, <1>7, <1>8

(***************************************************************************)
(* If all that stay have stayed before, no more stay than may.             *)
(***************************************************************************)
LEMMA NoMoreStay ==
    ASSUME Dirs,
           artifacts' \in Seq(JobID),
           \A i, k \in DOMAIN artifacts' : artifacts'[i] = artifacts'[k] => i = k,
           doomed' \in [Worker -> Seq(JobID)],
           \A w \in Worker : worker'[w].pc = "remove" => doomed'[w] # << >>,
           \A x \in Range(artifacts') : x \notin Passing' => x \in Range(artifacts) /\ x \notin Passing
    PROVE  Dirs'
  <1> DEFINE old == Range(artifacts) \ Passing
             new == Range(artifacts') \ Passing'
  <1>1. IsFiniteSet(Range(artifacts))
    BY EntriesAreFinite DEF Dirs
  <1>2. IsFiniteSet(old)
    BY <1>1, FS_Subset
  <1>3. new \in SUBSET old
    OBVIOUS
  <1>4. Cardinality(old) <= MaxRetainedJobs
    BY DEF Dirs, ArtifactsBounded
  <1> HIDE DEF old, new
  <1>5. IsFiniteSet(new) /\ Cardinality(new) <= Cardinality(old)
    BY <1>2, <1>3, FS_Subset
  <1>6. Cardinality(new) <= MaxRetainedJobs
    BY <1>2, <1>4, <1>5, FS_CardinalityType, BuildServiceAssumption
  <1>7. ArtifactsBounded'
    BY <1>6 DEF new, ArtifactsBounded
  <1> QED
    BY <1>7 DEF Dirs

(***************************************************************************)
(* Every step of a worker that persists keeps the directories: one that is *)
(* written, or that a failing call leaves, is not among those that stay,   *)
(* and after a listing only the newest stay.                               *)
(***************************************************************************)
LEMMA PersistKeepsDirs ==
    ASSUME Typed, Dirs, NEW w \in Worker,
           MakeDir(w) \/ WriteFile(w) \/ ListDirs(w) \/ RemoveDir(w)
    PROVE  Dirs'
  <1> DEFINE j == worker[w].job
  <1>1. /\ artifacts \in Seq(JobID)
        /\ \A i, k \in DOMAIN artifacts : artifacts[i] = artifacts[k] => i = k
        /\ doomed \in [Worker -> Seq(JobID)]
        /\ \A v \in Worker : worker[v].pc = "remove" => doomed[v] # << >>
    BY DEF Dirs
  <1>2. j \in JobID
    BY DEF Typed, MakeDir, WriteFile, ListDirs, RemoveDir
  <1>3. ASSUME NEW pc \in Steps, Goto(w, pc)
        PROVE  /\ worker'[w].pc = pc /\ worker'[w].job = j
               /\ \A v \in Worker : v # w => worker'[v] = worker[v]
    BY <1>3 DEF Typed, Goto
  <1>4. /\ Written(j) \in Seq(JobID)
        /\ \A i, k \in DOMAIN Written(j) : Written(j)[i] = Written(j)[k] => i = k
        /\ \A x \in Range(Written(j)) : x = j \/ x \in Range(artifacts)
    BY <1>2, DirectoryWritten
  <1>5. CASE MakeDir(w)
    <2>1. /\ worker[w].pc = "build" /\ UNCHANGED <<doomed, strays>>
          /\ \/ artifacts' \in {artifacts, Written(j)} /\ Goto(w, "candidate")
             \/ artifacts' = artifacts /\ Goto(w, "fail")
      BY <1>5 DEF MakeDir, GiveUp
    <2>2. CASE artifacts' \in {artifacts, Written(j)} /\ Goto(w, "candidate")
      <3>1. /\ worker'[w].pc = "candidate" /\ worker'[w].job = j
            /\ \A v \in Worker : v # w => worker'[v] = worker[v]
        BY <1>3, <2>2 DEF Steps
      <3>2. j \in Passing' /\ Passing \subseteq Passing'
        BY <2>1, <3>1 DEF Passing, Persisting
      <3>3. \A x \in Range(artifacts') : x = j \/ x \in Range(artifacts)
        BY <1>4, <2>2
      <3> QED
        BY <1>1, <1>4, <2>1, <2>2, <3>1, <3>2, <3>3, NoMoreStay
    <2>3. CASE artifacts' = artifacts /\ Goto(w, "fail")
      <3>1. /\ worker'[w].pc = "fail" /\ worker'[w].job = j
            /\ \A v \in Worker : v # w => worker'[v] = worker[v]
        BY <1>3, <2>3 DEF Steps
      <3>2. Passing \subseteq Passing'
        BY <2>1, <3>1 DEF Passing, Persisting
      <3> QED
        BY <1>1, <2>1, <2>3, <3>1, <3>2, NoMoreStay
    <2> QED
      BY <2>1, <2>2, <2>3
  <1>6. CASE WriteFile(w)
    <2>1. /\ worker[w].pc \in {"candidate", "trace"} /\ UNCHANGED doomed
          /\ artifacts' \in {artifacts, Written(j)}
          /\ \/ (\E pc \in {"trace", "list"} : Goto(w, pc)) /\ UNCHANGED strays
             \/ Goto(w, "fail") /\ strays' = strays \cup {j}
      BY <1>6 DEF WriteFile, GiveUp
    <2>2. PICK pc \in {"trace", "list", "fail"} : Goto(w, pc)
      BY <2>1
    <2>3. /\ worker'[w].pc = pc /\ worker'[w].job = j
          /\ \A v \in Worker : v # w => worker'[v] = worker[v]
      BY <1>3, <2>2 DEF Steps
    <2>4. /\ strays \subseteq strays'
          /\ j \in strays' \/ pc \in {"trace", "list"}
      <3>1. CASE \E p \in {"trace", "list"} : Goto(w, p)
        BY <1>3, <2>1, <2>3, <3>1 DEF Steps
      <3>2. CASE strays' = strays \cup {j}
        BY <3>2
      <3> QED
        BY <2>1, <3>1, <3>2
    <2>5. j \in Passing' /\ Passing \subseteq Passing'
      BY <2>1, <2>3, <2>4 DEF Passing, Persisting
    <2>6. \A x \in Range(artifacts') : x = j \/ x \in Range(artifacts)
      BY <1>4, <2>1
    <2> QED
      BY <1>1, <1>4, <2>1, <2>3, <2>5, <2>6, NoMoreStay
  <1>7. CASE ListDirs(w)
    <2> DEFINE old == Oldest(artifacts, MaxRetainedJobs)
    <2>1. worker[w].pc = "list" /\ UNCHANGED artifacts
      BY <1>7 DEF ListDirs
    <2>2. CASE strays' = strays \cup {j} /\ Goto(w, "record") /\ UNCHANGED doomed
      <3>1. /\ worker'[w].pc = "record" /\ worker'[w].job = j
            /\ \A v \in Worker : v # w => worker'[v] = worker[v]
        BY <1>3, <2>2 DEF Steps
      <3>2. Passing \subseteq Passing'
        BY <2>1, <2>2, <3>1 DEF Passing, Persisting
      <3> QED
        BY <1>1, <2>1, <2>2, <3>1, <3>2, NoMoreStay
    <2>3. CASE /\ doomed' = [doomed EXCEPT ![w] = old]
               /\ Goto(w, IF doomed'[w] = << >> THEN "record" ELSE "remove")
      <3>1. old \in Seq(JobID) /\ Cardinality(Range(artifacts) \ Range(old)) <= MaxRetainedJobs
        BY <1>1, OldestEntries, BuildServiceAssumption
      <3> HIDE DEF old
      <3>2. /\ doomed' \in [Worker -> Seq(JobID)] /\ doomed'[w] = old
            /\ \A v \in Worker : v # w => doomed'[v] = doomed[v]
        BY <1>1, <2>3, <3>1
      <3>3. /\ worker'[w].pc = "remove" => doomed'[w] # << >>
            /\ \A v \in Worker : v # w => worker'[v] = worker[v]
        BY <1>3, <2>3 DEF Steps
      <3>4. \A v \in Worker : worker'[v].pc = "remove" => doomed'[v] # << >>
        BY <1>1, <3>2, <3>3
      <3>5. Range(old) \subseteq Passing'
        BY <3>2 DEF Passing
      <3>6. IsFiniteSet(Range(artifacts) \ Range(old))
        BY <1>1, EntriesAreFinite, FS_Subset
      <3> DEFINE new == Range(artifacts') \ Passing'
      <3>7. new \in SUBSET (Range(artifacts) \ Range(old))
        BY <2>1, <3>5
      <3> HIDE DEF new
      <3>8. IsFiniteSet(new) /\ Cardinality(new) <= Cardinality(Range(artifacts) \ Range(old))
        BY <3>6, <3>7, FS_Subset
      <3>9. Cardinality(new) <= MaxRetainedJobs
        BY <3>1, <3>6, <3>8, FS_CardinalityType, BuildServiceAssumption
      <3>10. ArtifactsBounded'
        BY <3>9 DEF new, ArtifactsBounded
      <3> QED
        BY <1>1, <2>1, <3>2, <3>4, <3>10 DEF Dirs
    <2> QED
      BY <1>7, <2>2, <2>3 DEF ListDirs
  <1>8. CASE RemoveDir(w)
    <2> DEFINE d == Head(doomed[w])
    <2>1. /\ worker[w].pc = "remove" /\ doomed' = [doomed EXCEPT ![w] = Tail(doomed[w])]
          /\ Goto(w, IF doomed'[w] = << >> THEN "record" ELSE "remove")
          /\ \/ artifacts' = Without(artifacts, d) /\ UNCHANGED strays
             \/ strays' = strays \cup {d} /\ UNCHANGED artifacts
      BY <1>8 DEF RemoveDir
    <2>2. /\ d \in JobID /\ Tail(doomed[w]) \in Seq(JobID)
          /\ \A x \in Range(doomed[w]) : x = d \/ x \in Range(Tail(doomed[w]))
      BY <1>1, <2>1, HeadAndTail
    <2> HIDE DEF d
    <2>3. /\ doomed' \in [Worker -> Seq(JobID)] /\ doomed'[w] = Tail(doomed[w])
          /\ \A v \in Worker : v # w => doomed'[v] = doomed[v]
      BY <1>1, <2>1, <2>2
    <2>4. /\ worker'[w].pc = "remove" => doomed'[w] # << >>
          /\ \A v \in Worker : v # w => worker'[v] = worker[v]
      BY <1>3, <2>1 DEF Steps
    <2>5. \A v \in Worker : worker'[v].pc = "remove" => doomed'[v] # << >>
      BY <1>1, <2>3, <2>4
    <2>6. \A x \in Passing : x = d \/ x \in Passing'
      <3> TAKE x \in Passing
      <3>1. CASE x \in strays
        BY <2>1, <3>1 DEF Passing
      <3>2. CASE \E v \in Worker : Persisting(v) /\ worker[v].job = x
        BY <2>1, <2>4, <3>2 DEF Passing, Persisting
      <3>3. CASE \E v \in Worker : x \in Range(doomed[v])
        BY <2>2, <2>3, <3>3 DEF Passing
      <3> QED
        BY <3>1, <3>2, <3>3 DEF Passing
    <2>7. CASE artifacts' = Without(artifacts, d)
      <3>1. /\ artifacts' \in Seq(JobID)
            /\ \A i, k \in DOMAIN artifacts' : artifacts'[i] = artifacts'[k] => i = k
            /\ \A x : x \in Range(artifacts') <=> x \in Range(artifacts) /\ x # d
        BY <1>1, <2>7, WithoutOne
      <3> QED
        BY <2>3, <2>5, <2>6, <3>1, NoMoreStay
    <2>8. CASE strays' = strays \cup {d} /\ UNCHANGED artifacts
      <3>1. d \in Passing'
        BY <2>8 DEF Passing
      <3> QED
        BY <1>1, <2>3, <2>5, <2>6, <2>8, <3>1, NoMoreStay
    <2> QED
      BY <2>1, <2>7, <2>8
  <1> QED
    BY <1>5, <1>6, <1>7, <1>8

(***************************************************************************)
(* Every step keeps the directories: but for a worker that persists, none  *)
(* touches them.                                                           *)
(***************************************************************************)
LEMMA DirsHold ==
    ASSUME Typed, Dirs, [Next]_vars
    PROVE  Dirs'
  <1>1. ASSUME UNCHANGED disk,
               \A w \in Worker : Persisting(w) \/ worker'[w].pc = "remove" => worker'[w] = worker[w]
        PROVE  Dirs'
    <2>1. UNCHANGED <<artifacts, doomed, strays>>
      BY <1>1 DEF disk
    <2>2. Passing \subseteq Passing'
      BY <1>1, <2>1 DEF Passing, Persisting
    <2>3. \A w \in Worker : worker'[w].pc = "remove" => doomed[w] # << >>
      BY <1>1 DEF Dirs
    <2> QED
      BY <2>1, <2>2, <2>3, NoMoreStay DEF Dirs
  <1>2. ASSUME NEW w \in Worker, MakeDir(w) \/ WriteFile(w) \/ ListDirs(w) \/ RemoveDir(w)
        PROVE  Dirs'
    BY <1>2, PersistKeepsDirs
  <1>3. ASSUME NEW w \in Worker, Take(w)
        PROVE  Dirs'
    <2>1. /\ worker[w].pc = "idle" /\ UNCHANGED disk
          /\ worker' = [worker EXCEPT ![w] = [pc |-> "taken", job |-> Head(queue)]]
      BY <1>3 DEF Take
    <2>2. \A v \in Worker : Persisting(v) \/ worker'[v].pc = "remove" => worker'[v] = worker[v]
      BY <2>1 DEF Typed, Persisting
    <2> QED
      BY <1>1, <2>1, <2>2
  <1>4. ASSUME NEW w \in Worker,
               \/ StartJob(w) \/ Lookup(w) \/ RecordResult(w) \/ CompleteJob(w) \/ FailJob(w)
               \/ WorkerReturns(w)
        PROVE  Dirs'
    <2>1. /\ worker[w].pc \notin {"candidate", "trace", "list"} /\ UNCHANGED disk
          /\ \/ worker' = [worker EXCEPT ![w] = [pc |-> "idle", job |-> NoJob]]
             \/ \E pc \in Steps \ {"remove"} : worker' = [worker EXCEPT ![w].pc = pc]
      BY <1>4 DEF StartJob, Lookup, RecordResult, CompleteJob, FailJob, WorkerReturns, Free, Goto, Steps
    <2>2. \A v \in Worker : Persisting(v) \/ worker'[v].pc = "remove" => worker'[v] = worker[v]
      BY <2>1 DEF Typed, Persisting
    <2> QED
      BY <1>1, <2>1, <2>2
  <1>5. CASE \E c \in Client : Send(c) \/ \E k \in Key : Submit(c, k)
    <2>1. UNCHANGED <<disk, worker>>
      BY <1>5 DEF Send, Submit
    <2> QED
      BY <1>1, <2>1
  <1>6. CASE Refresh \/ RefresherReturns \/ HeadMoves \/ SnapshotAges \/ Shutdown
    <2>1. UNCHANGED <<disk, worker>>
      BY <1>6 DEF Refresh, ReadHead, ReadPool, RefreshFails, RecordSnapshot, RefresherReturns,
                  HeadMoves, SnapshotAges, Shutdown, RefreshRest
    <2> QED
      BY <1>1, <2>1
  <1>7. CASE (\E k \in Key : KeyExpires(k)) \/ UNCHANGED vars
    <2>1. UNCHANGED <<disk, worker>>
      BY <1>7 DEF KeyExpires, vars
    <2> QED
      BY <1>1, <2>1
  <1> QED
    BY <1>2, <1>3, <1>4, <1>5, <1>6, <1>7 DEF Next, Work

-----------------------------------------------------------------------------
(* The theorems. *)

(***************************************************************************)
(* The service starts with one snapshot and without a job.                 *)
(***************************************************************************)
LEMMA InitHolds == Init => BuildInv
  <1> HAVE Init
  <1>1. Typed
    BY DEF Init, Typed, States, Steps
  <1>2. LiveJobIsHeld
    BY DEF Init, LiveJobIsHeld
  <1>3. OneBuild
    BY NoJobIsNone DEF Init, OneBuild
  <1>4. Dirs
    <2>1. Range(artifacts) \ Passing = {}
      BY DEF Init, Range
    <2>2. Cardinality({}) = 0
      BY FS_EmptySet
    <2>3. ArtifactsBounded
      BY <2>1, <2>2, BuildServiceAssumption DEF ArtifactsBounded
    <2> QED
      BY <2>3 DEF Init, Dirs
  <1>5. Snaps
    BY BuildServiceAssumption DEF Init, Snaps, Snapshot, Idle
  <1> QED
    BY <1>1, <1>2, <1>3, <1>4, <1>5 DEF BuildInv

(***************************************************************************)
(* BuildInv is an invariant of the build service.                          *)
(***************************************************************************)
THEOREM JobsArePlaced == Spec => []BuildInv
  <1>1. BuildInv /\ [Next]_vars => BuildInv'
    <2> HAVE BuildInv /\ [Next]_vars
    <2>1. Placed /\ Dirs /\ Snaps
      BY DEF BuildInv, Placed
    <2>2. Placed'
      BY <2>1, PlacedHolds
    <2>3. Dirs'
      BY <2>1, DirsHold DEF Placed
    <2>4. Snaps'
      BY <2>1, SnapsHold
    <2> QED
      BY <2>2, <2>3, <2>4 DEF BuildInv, Placed
  <1> QED
    BY <1>1, InitHolds, PTL DEF Spec

(***************************************************************************)
(* No admitted job is lost between the critical section of Submit, the     *)
(* channel and the workers: LiveJobIsHeld always holds.                    *)
(***************************************************************************)
THEOREM NoJobIsLost == Spec => []LiveJobIsHeld
  <1>1. BuildInv => LiveJobIsHeld
    BY DEF BuildInv
  <1> QED
    BY <1>1, JobsArePlaced, PTL

(***************************************************************************)
(* A completed job has its result unless it was admitted again while its   *)
(* record was there, and a snapshot's pool is of the block of its header:  *)
(* ResultsAreSound always holds.                                           *)
(***************************************************************************)
THEOREM ResultsStaySound == Spec => []ResultsAreSound
  <1>1. BuildInv => ResultsAreSound
    <2> HAVE BuildInv
    <2>1. \A j \in JobID : jobs[j] = "completed" => j \in results \cup again
      BY DEF BuildInv, OneBuild
    <2>2. \A i \in 1..Len(snapshots) : snapshots[i].header = snapshots[i].pool
      BY DEF BuildInv, Snaps
    <2> QED
      BY <2>1, <2>2 DEF ResultsAreSound
  <1> QED
    BY <1>1, JobsArePlaced, PTL

(***************************************************************************)
(* pruneDir keeps what stays under results/ bounded, however the writes,   *)
(* the listings and the removals of the workers interleave and whichever   *)
(* of them fail: ArtifactsBounded always holds.                            *)
(***************************************************************************)
THEOREM ArtifactsStayBounded == Spec => []ArtifactsBounded
  <1>1. BuildInv => ArtifactsBounded
    BY DEF BuildInv, Dirs
  <1> QED
    BY <1>1, JobsArePlaced, PTL

-----------------------------------------------------------------------------
(* Induction over numbers and over finite sets. *)

(***************************************************************************)
(* Induction up to a bound, for a set of numbers.                          *)
(***************************************************************************)
LEMMA UpTo ==
    ASSUME NEW N \in Nat, NEW S, 0 \in S, \A n \in 1..N : n - 1 \in S => n \in S
    PROVE  \A n \in 0..N : n \in S
  <1> DEFINE T == {n \in 0..N : n \notin S}
             less == OpToRel(<, Nat)
  <1> SUFFICES ASSUME T # {} PROVE FALSE
    OBVIOUS
  <1>1. T \subseteq Nat
    OBVIOUS
  <1>2. PICK n \in T : \A m \in T : ~(<<m, n>> \in less)
    <2>1. IsWellFoundedOn(less, Nat)
      BY NatLessThanWellFounded
    <2> HIDE DEF T, less
    <2> QED
      BY <1>1, <2>1, WFMin
  <1>3. n \in 1..N /\ n - 1 \in T
    OBVIOUS
  <1>4. <<n - 1, n>> \in Nat \X Nat /\ n - 1 < n
    BY <1>3
  <1>5. <<n - 1, n>> \in less
    BY <1>4 DEF OpToRel
  <1> HIDE DEF T, less
  <1> QED
    BY <1>2, <1>3, <1>5

(***************************************************************************)
(* Induction over the subsets of a finite set: what holds of the empty set *)
(* and of a set that is one larger than one of which it holds.             *)
(***************************************************************************)
LEMMA SubsetInduction ==
    ASSUME NEW W, IsFiniteSet(W), NEW A, {} \in A,
           \A S \in SUBSET W : S # {} /\ (\A x \in S : S \ {x} \in A) => S \in A
    PROVE  \A S \in SUBSET W : S \in A
  <1> DEFINE N == Cardinality(W)
             B == {n \in 0..N : \A S \in SUBSET W : Cardinality(S) = n => S \in A}
  <1>1. N \in Nat
    BY FS_CardinalityType
  <1>2. \A S \in SUBSET W : IsFiniteSet(S) /\ Cardinality(S) \in 0..N
    BY <1>1, FS_Subset, FS_CardinalityType
  <1>3. 0 \in B
    <2>1. \A S \in SUBSET W : Cardinality(S) = 0 => S = {}
      BY <1>2, FS_EmptySet
    <2> QED
      BY <1>1, <2>1
  <1>4. ASSUME NEW n \in 1..N, n - 1 \in B
        PROVE  n \in B
    <2> SUFFICES ASSUME NEW S \in SUBSET W, Cardinality(S) = n PROVE S \in A
      BY <1>1
    <2>1. S # {}
      <3> HIDE DEF N
      <3> QED
        BY <1>1, FS_EmptySet
    <2>2. ASSUME NEW x \in S
          PROVE  S \ {x} \in A
      <3>1. Cardinality(S \ {x}) = n - 1
        BY <1>1, <1>2, FS_RemoveElement
      <3> QED
        BY <1>4, <3>1
    <2> QED
      BY <2>1, <2>2
  <1>5. \A n \in 0..N : n \in B
    <2> HIDE DEF B, N
    <2> QED
      BY <1>1, <1>3, <1>4, UpTo
  <1> QED
    BY <1>2, <1>5

(***************************************************************************)
(* A finite set has a least element in a total order.                      *)
(***************************************************************************)
LEMMA FiniteLeast ==
    ASSUME NEW W, IsFiniteSet(W), NEW R,
           \A x, y \in W : x # y => <<x, y>> \in R \/ <<y, x>> \in R,
           \A x, y, z \in W : <<x, y>> \in R /\ <<y, z>> \in R => <<x, z>> \in R
    PROVE  \A S \in SUBSET W : S # {} => \E x \in S : \A y \in S \ {x} : <<x, y>> \in R
  <1> DEFINE A == {S \in SUBSET W : S # {} => \E x \in S : \A y \in S \ {x} : <<x, y>> \in R}
  <1>1. {} \in A
    OBVIOUS
  <1>2. ASSUME NEW S \in SUBSET W, S # {}, \A x \in S : S \ {x} \in A
        PROVE  S \in A
    <2>1. PICK a : a \in S
      BY <1>2
    <2>2. CASE S = {a}
      BY <2>1, <2>2
    <2>3. CASE S # {a}
      <3>1. PICK m \in S \ {a} : \A y \in (S \ {a}) \ {m} : <<m, y>> \in R
        BY <1>2, <2>1, <2>3
      <3>2. CASE <<m, a>> \in R
        BY <3>1, <3>2
      <3>3. CASE <<a, m>> \in R
        <4>1. \A y \in S \ {a} : <<a, y>> \in R
          BY <2>1, <3>1, <3>3
        <4> QED
          BY <2>1, <4>1
      <3> QED
        BY <2>1, <3>1, <3>2, <3>3
    <2> QED
      BY <2>2, <2>3
  <1> HIDE DEF A
  <1>3. \A S \in SUBSET W : S \in A
    BY <1>1, <1>2, SubsetInduction
  <1> QED
    BY <1>3 DEF A

-----------------------------------------------------------------------------
(* Sums over finite sets. *)

Summand(s) == CHOOSE x \in s : TRUE
SumStep(g, w, s) == IF s = {} THEN 0 ELSE w[Summand(s)] + g[s \ {Summand(s)}]

(***************************************************************************)
(* g gives the sum of the weights w of every subset of W.                  *)
(***************************************************************************)
Sums(g, w, W) ==
    w \in [W -> Nat] /\ g \in [SUBSET W -> Nat] /\ \A s \in SUBSET W : g[s] = SumStep(g, w, s)

(***************************************************************************)
(* There is such a function.                                               *)
(***************************************************************************)
LEMMA SumsExist ==
    ASSUME NEW W, IsFiniteSet(W), NEW w \in [W -> Nat]
    PROVE  \E g : Sums(g, w, W)
  <1> DEFINE N == Cardinality(W)
             Small(n) == {s \in SUBSET W : Cardinality(s) <= n}
             Partial(g, n) == g \in [Small(n) -> Nat] /\ \A s \in Small(n) : g[s] = SumStep(g, w, s)
             A == {n \in 0..N : \E g : Partial(g, n)}
  <1>1. N \in Nat
    BY FS_CardinalityType
  <1>2. \A s \in SUBSET W : IsFiniteSet(s) /\ Cardinality(s) \in 0..N
    BY <1>1, FS_Subset, FS_CardinalityType
  <1>3. \A s \in SUBSET W : s # {} => /\ Summand(s) \in s /\ s \ {Summand(s)} \in SUBSET W
                                      /\ Cardinality(s \ {Summand(s)}) = Cardinality(s) - 1
                                      /\ w[Summand(s)] \in Nat
    <2> TAKE s \in SUBSET W
    <2> HAVE s # {}
    <2>1. Summand(s) \in s
      BY DEF Summand
    <2> QED
      BY <1>2, <2>1, FS_RemoveElement
  <1>4. 0 \in A
    <2> DEFINE g == [s \in Small(0) |-> 0]
    <2>1. \A s \in Small(0) : s = {}
      BY <1>2, FS_EmptySet
    <2>2. Partial(g, 0)
      BY <2>1 DEF SumStep
    <2>3. 0 \in 0..N
      BY <1>1
    <2> HIDE DEF g, Partial, N
    <2> QED
      BY <2>2, <2>3
  <1>5. ASSUME NEW n \in 1..N, n - 1 \in A
        PROVE  n \in A
    <2>1. PICK h : Partial(h, n - 1)
      BY <1>5
    <2> DEFINE g == [s \in Small(n) |-> SumStep(h, w, s)]
    <2>2. \A s \in Small(n) : s # {} => s \ {Summand(s)} \in Small(n - 1)
      BY <1>1, <1>2, <1>3
    <2>3. \A s \in Small(n) : SumStep(h, w, s) \in Nat
      BY <1>3, <2>1, <2>2 DEF SumStep
    <2>4. \A s \in Small(n - 1) : s \in Small(n) /\ g[s] = h[s]
      BY <1>1, <1>2, <2>1
    <2>5. \A s \in Small(n) : SumStep(g, w, s) = SumStep(h, w, s)
      <3> HIDE DEF g, Small
      <3> QED
        BY <2>2, <2>4 DEF SumStep
    <2>6. Partial(g, n)
      BY <2>3, <2>5
    <2> HIDE DEF g, Partial
    <2> QED
      BY <2>6
  <1>6. N \in A
    <2> HIDE DEF A, N
    <2>1. \A n \in 0..N : n \in A
      BY <1>1, <1>4, <1>5, UpTo
    <2> QED
      BY <1>1, <2>1
  <1>7. Small(N) = SUBSET W
    BY <1>1, <1>2
  <1> QED
    BY <1>6, <1>7 DEF Sums

(***************************************************************************)
(* Folding over the subsets of S gives the same.                           *)
(***************************************************************************)
LEMMA SumIs ==
    ASSUME NEW W, IsFiniteSet(W), NEW w, NEW g, Sums(g, w, W),
           NEW S \in SUBSET W, NEW f, \A s \in SUBSET S : f[s] = SumStep(f, w, s)
    PROVE  f[S] = g[S]
  <1> DEFINE A == {s \in SUBSET S : f[s] = g[s]}
  <1>1. {} \in A
    BY DEF Sums, SumStep
  <1>2. ASSUME NEW s \in SUBSET S, s # {}, \A x \in s : s \ {x} \in A
        PROVE  s \in A
    <2>1. Summand(s) \in s
      BY <1>2 DEF Summand
    <2>2. f[s] = SumStep(f, w, s) /\ g[s] = SumStep(g, w, s)
      BY DEF Sums
    <2>3. f[s \ {Summand(s)}] = g[s \ {Summand(s)}]
      BY <1>2, <2>1
    <2> QED
      BY <2>2, <2>3 DEF SumStep
  <1> HIDE DEF A
  <1>3. \A s \in SUBSET S : s \in A
    <2>1. IsFiniteSet(S)
      BY FS_Subset
    <2> QED
      BY <1>1, <1>2, <2>1, SubsetInduction
  <1> QED
    BY <1>3 DEF A

(***************************************************************************)
(* Whichever element is taken first, the sum is the same.                  *)
(***************************************************************************)
LEMMA SumWithout ==
    ASSUME NEW W, IsFiniteSet(W), NEW w, NEW g, Sums(g, w, W)
    PROVE  \A S \in SUBSET W : \A y \in S : g[S] = w[y] + g[S \ {y}]
  <1> DEFINE A == {S \in SUBSET W : \A y \in S : g[S] = w[y] + g[S \ {y}]}
  <1>1. {} \in A
    OBVIOUS
  <1>2. ASSUME NEW S \in SUBSET W, S # {}, \A x \in S : S \ {x} \in A
        PROVE  S \in A
    <2> SUFFICES ASSUME NEW y \in S PROVE g[S] = w[y] + g[S \ {y}]
      OBVIOUS
    <2> DEFINE c == Summand(S)
    <2>1. c \in S /\ g[S] = w[c] + g[S \ {c}]
      BY <1>2 DEF Summand, Sums, SumStep
    <2> HIDE DEF c
    <2>2. CASE c = y
      BY <2>1, <2>2
    <2>3. CASE c # y
      <3>1. g[S \ {c}] = w[y] + g[(S \ {c}) \ {y}]
        BY <1>2, <2>1, <2>3
      <3>2. g[S \ {y}] = w[c] + g[(S \ {y}) \ {c}]
        BY <1>2, <2>1, <2>3
      <3>3. (S \ {c}) \ {y} = (S \ {y}) \ {c}
        OBVIOUS
      <3> DEFINE d == g[(S \ {y}) \ {c}]
      <3>4. w[y] \in Nat /\ w[c] \in Nat /\ d \in Nat
        BY <2>1 DEF Sums
      <3>5. g[S] = w[c] + (w[y] + d) /\ g[S \ {y}] = w[c] + d
        BY <2>1, <3>1, <3>2, <3>3
      <3> HIDE DEF d
      <3> QED
        BY <3>4, <3>5
    <2> QED
      BY <2>2, <2>3
  <1> HIDE DEF A
  <1>3. \A S \in SUBSET W : S \in A
    BY <1>1, <1>2, SubsetInduction
  <1> QED
    BY <1>3 DEF A

(***************************************************************************)
(* One element more.                                                       *)
(***************************************************************************)
LEMMA SumOfOneMore ==
    ASSUME NEW W, IsFiniteSet(W), NEW w, NEW g, Sums(g, w, W)
    PROVE  /\ g[{}] = 0
           /\ \A S \in SUBSET W : g[S] \in Nat
           /\ \A S \in SUBSET W : \A y \in W \ S : g[S \cup {y}] = g[S] + w[y]
  <1>1. g[{}] = 0 /\ \A S \in SUBSET W : g[S] \in Nat
    BY DEF Sums, SumStep
  <1>2. ASSUME NEW S \in SUBSET W, NEW y \in W \ S
        PROVE  g[S \cup {y}] = g[S] + w[y]
    <2>1. PICK T \in SUBSET W : T = S \cup {y} /\ y \in T
      OBVIOUS
    <2>2. g[T] = w[y] + g[T \ {y}]
      BY <2>1, SumWithout
    <2>3. T \ {y} = S
      BY <2>1
    <2>4. w[y] \in Nat /\ g[S] \in Nat
      BY <1>1 DEF Sums
    <2>5. g[S \cup {y}] = w[y] + g[S]
      BY <2>1, <2>2, <2>3
    <2> DEFINE a == g[S \cup {y}]
               b == g[S]
    <2> HIDE DEF a, b
    <2>6. a = b + w[y]
      BY <2>4, <2>5 DEF a, b
    <2> QED
      BY <2>6 DEF a, b
  <1> QED
    BY <1>1, <1>2

(***************************************************************************)
(* The gas of no transaction, and of one more.                             *)
(***************************************************************************)
LEMMA GasOfOneMore ==
    ASSUME NEW W, IsFiniteSet(W), \A x \in W : x.gas \in Nat
    PROVE  /\ GasOf({}) = 0
           /\ \A S \in SUBSET W : GasOf(S) \in Nat
           /\ \A S \in SUBSET W : \A y \in W \ S : GasOf(S \cup {y}) = GasOf(S) + y.gas
  <1> DEFINE w == [x \in W |-> x.gas]
  <1>1. w \in [W -> Nat]
    OBVIOUS
  <1>2. PICK g : Sums(g, w, W)
    BY <1>1, SumsExist
  <1>3. ASSUME NEW S \in SUBSET W
        PROVE  GasOf(S) = g[S]
    <2> DEFINE Step(f, s) == IF s = {} THEN 0 ELSE Summand(s).gas + f[s \ {Summand(s)}]
               f == CHOOSE f : f = [s \in SUBSET S |-> Step(f, s)]
    <2>1. GasOf(S) = f[S]
      BY DEF GasOf, MapThenSumSet, MapThenFoldSet, GasIn, Summand
    <2>2. \A h, s : s \in SUBSET S => Step(h, s) = SumStep(h, w, s)
      <3>1. \A s \in SUBSET S : s # {} => Summand(s) \in W
        BY DEF Summand
      <3> QED
        BY <3>1 DEF SumStep
    <2> DEFINE h == [s \in SUBSET S |-> g[s]]
    <2>3. \A s \in SUBSET S : SumStep(h, w, s) = SumStep(g, w, s)
      BY DEF SumStep, Summand
    <2> HIDE DEF w, Step
    <2>4. h = [s \in SUBSET S |-> Step(h, s)]
      BY <1>2, <2>2, <2>3 DEF Sums
    <2> HIDE DEF h
    <2>5. f = [s \in SUBSET S |-> Step(f, s)]
      BY <2>4
    <2> HIDE DEF f
    <2>6. \A s \in SUBSET S : f[s] = SumStep(f, w, s)
      BY <2>2, <2>5
    <2> QED
      BY <1>1, <1>2, <2>1, <2>6, SumIs
  <1>4. /\ g[{}] = 0
        /\ \A S \in SUBSET W : g[S] \in Nat
        /\ \A S \in SUBSET W : \A y \in W \ S : g[S \cup {y}] = g[S] + y.gas
    <2>1. \A y \in W : w[y] = y.gas
      OBVIOUS
    <2> HIDE DEF w
    <2>2. ASSUME NEW S \in SUBSET W, NEW y \in W \ S
          PROVE  g[S \cup {y}] = g[S] + w[y]
      BY <1>2, SumOfOneMore
    <2>3. g[{}] = 0 /\ \A S \in SUBSET W : g[S] \in Nat
      BY <1>1, <1>2, SumOfOneMore
    <2> QED
      BY <2>1, <2>2, <2>3
  <1>5. \A S \in SUBSET W : \A y \in W \ S : S \cup {y} \in SUBSET W
    OBVIOUS
  <1> QED
    BY <1>3, <1>4, <1>5

-----------------------------------------------------------------------------
(* Loops that are written as recursive functions. *)

\* The turns of a loop stay within P.
StaysIn(step, P) == \A p \in P : step[p] \in P

\* What N turns of a loop come through.
IsRunOf(f, N, start, step, P) ==
    /\ \A n \in 0..N : f[n] \in P
    /\ f[0] = start /\ \A n \in 1..N : f[n] = step[f[n - 1]]

(***************************************************************************)
(* A step can be repeated any number of times.                             *)
(***************************************************************************)
LEMMA Repeats ==
    ASSUME NEW N \in Nat, NEW P, NEW start \in P, NEW step, StaysIn(step, P)
    PROVE  \E f : IsRunOf(f, N, start, step, P)
  <1> DEFINE F(g, n) == IF n = 0 THEN start ELSE step[g[n - 1]]
             S == {n \in 0..N : \E g \in [0..n -> P] : \A i \in 0..n : g[i] = F(g, i)}
  <1>1. 0 \in S
    <2> DEFINE g == [i \in 0..0 |-> start]
    <2>1. g \in [0..0 -> P] /\ \A i \in 0..0 : g[i] = F(g, i)
      OBVIOUS
    <2> HIDE DEF g, F
    <2> QED
      BY <2>1
  <1>2. ASSUME NEW n \in 1..N, n - 1 \in S
        PROVE  n \in S
    <2>1. PICK h \in [0..n - 1 -> P] : \A i \in 0..n - 1 : h[i] = F(h, i)
      BY <1>2
    <2> DEFINE g == [i \in 0..n |-> IF i = n THEN F(h, n) ELSE h[i]]
    <2>2. F(h, n) \in P
      BY <2>1 DEF StaysIn
    <2>3. \A i \in 0..n : i \in 0..n - 1 \/ i = n
      OBVIOUS
    <2>4. g \in [0..n -> P]
      <3> HIDE DEF F
      <3> QED
        BY <2>1, <2>2, <2>3
    <2>5. \A i \in 0..n : F(g, i) = F(h, i)
      <3>1. \A i \in 0..n : i # 0 => g[i - 1] = h[i - 1]
        OBVIOUS
      <3> HIDE DEF g
      <3> QED
        BY <3>1
    <2>6. \A i \in 0..n : g[i] = F(g, i)
      <3> HIDE DEF F
      <3>1. \A i \in 0..n : g[i] = F(h, i)
        BY <2>1, <2>3
      <3> HIDE DEF g
      <3> QED
        BY <2>5, <3>1
    <2> HIDE DEF g, F
    <2> QED
      BY <2>4, <2>6
  <1> HIDE DEF S
  <1>3. N \in S
    BY <1>1, <1>2, UpTo
  <1>4. PICK f : f \in [0..N -> P] /\ \A i \in 0..N : f[i] = F(f, i)
    BY <1>3 DEF S
  <1>5. \A i \in 0..N : f[i] \in P
    BY <1>4
  <1>6. f[0] = start /\ \A n \in 1..N : f[n] = step[f[n - 1]]
    BY <1>4
  <1> QED
    BY <1>5, <1>6 DEF IsRunOf

(***************************************************************************)
(* A loop of N turns in which a measure of at most N goes down comes to a  *)
(* stop.                                                                   *)
(***************************************************************************)
LEMMA LoopStops ==
    ASSUME NEW N \in Nat, NEW P, NEW Stop, NEW m, \A p \in P : m[p] \in Nat,
           NEW f, f[0] \in P, m[f[0]] <= N,
           \A p \in P : m[p] = 0 => p \in Stop,
           \A n \in 1..N : f[n - 1] \in P =>
              /\ f[n] \in P
              /\ f[n - 1] \in Stop => f[n] = f[n - 1]
              /\ f[n - 1] \notin Stop => m[f[n]] < m[f[n - 1]]
    PROVE  f[N] \in P /\ f[N] \in Stop
  <1> DEFINE S == {n \in 0..N : f[n] \in P /\ (f[n] \in Stop \/ m[f[n]] <= N - n)}
  <1>1. 0 \in S
    OBVIOUS
  <1>2. ASSUME NEW n \in 1..N, n - 1 \in S
        PROVE  n \in S
    <2> DEFINE a == f[n - 1]
               b == f[n]
    <2>1. a \in P /\ (a \in Stop \/ m[a] <= N - (n - 1))
      BY <1>2
    <2>2. b \in P /\ (a \in Stop => b = a) /\ (a \notin Stop => m[b] < m[a])
      BY <2>1
    <2> HIDE DEF a, b
    <2>3. m[a] \in Nat /\ m[b] \in Nat
      BY <2>1, <2>2
    <2>4. b \in P /\ (b \in Stop \/ m[b] <= N - n)
      BY <2>1, <2>2, <2>3
    <2> QED
      BY <2>4 DEF b
  <1> HIDE DEF S
  <1>3. N \in S
    BY <1>1, <1>2, UpTo
  <1>4. f[N] \in P /\ (f[N] \in Stop \/ m[f[N]] <= 0)
    BY <1>3 DEF S
  <1>5. m[f[N]] \in Nat
    BY <1>4
  <1> QED
    BY <1>4, <1>5

-----------------------------------------------------------------------------
(* Greedy selection, whatever the order and the preference. *)

(***************************************************************************)
(* A pool: finitely many transactions with gas, and an order within the    *)
(* chains.                                                                 *)
(***************************************************************************)
IsPool(txs, before) ==
    /\ IsFiniteSet(txs) /\ \A t \in txs : t.gas \in Nat
    /\ \A t, u, v \in txs : <<t, u>> \in before /\ <<u, v>> \in before => <<t, v>> \in before

(***************************************************************************)
(* Of those that are left, the one that a turn takes: nothing before it is *)
(* left, and a better one has another before it.                           *)
(***************************************************************************)
IsNext(best, left, before, better) ==
    /\ best \in left
    /\ \A t \in left : <<t, best>> \notin before
    /\ \A t \in left : <<t, best>> \in better => \E u \in left : <<u, t>> \in before

(***************************************************************************)
(* What holds of the selection after every turn: as IsGreedy; and what is  *)
(* neither left nor selected is in `excluded', because it does not fit and *)
(* never will, or comes after such a one.                                  *)
(***************************************************************************)
Turns(txs) == [selected : Seq(txs), excluded : SUBSET txs, left : SUBSET txs]

\* What is selected is no longer left.
SelectedIsGone(s) == \A i \in 1..Len(s.selected) : s.selected[i] \notin s.left

\* What is neither left nor selected is excluded, or comes after one that is.
RestIsExcluded(s, txs, before) ==
    \A t \in txs : \/ t \in s.left \/ t \in First(s, Len(s.selected))
                   \/ \E u \in s.excluded : u = t \/ <<u, t>> \in before

\* What is excluded does not fit, and what comes after it is no longer left.
ExcludedStaysOut(s, before, maxGas) ==
    \A u \in s.excluded : /\ u \notin First(s, Len(s.selected))
                          /\ ~Fits(u, s, Len(s.selected), maxGas)
                          /\ \A t \in s.left : <<u, t>> \notin before

GreedySoFar(s, txs, before, better, maxTx, maxGas) ==
    /\ s \in Turns(txs)
    /\ WithinLimits(s, txs, maxTx, maxGas)
    /\ TakesPrefixes(s, txs, before)
    /\ TakesTheBest(s, txs, before, better, maxGas)
    /\ SelectedIsGone(s)
    /\ RestIsExcluded(s, txs, before)
    /\ ExcludedStaysOut(s, before, maxGas)

(***************************************************************************)
(* The first k of a selection are a set of transactions.                   *)
(***************************************************************************)
LEMMA FirstIs ==
    ASSUME NEW txs, NEW before, IsPool(txs, before), NEW s \in Turns(txs)
    PROVE  /\ Len(s.selected) \in Nat
           /\ \A i \in 1..Len(s.selected) : s.selected[i] \in txs
           /\ First(s, Len(s.selected)) = Range(s.selected)
           /\ \A k \in 0..Len(s.selected) : First(s, k) \in SUBSET txs /\ GasOf(First(s, k)) \in Nat
  <1> DEFINE n == Len(s.selected)
  <1>1. s.selected \in Seq(txs) /\ n \in Nat
    BY DEF Turns
  <1>2. \A i \in 1..n : s.selected[i] \in txs
    BY <1>1
  <1>3. First(s, n) = Range(s.selected)
    BY <1>1 DEF First, Range
  <1> HIDE DEF n
  <1>4. \A k \in 0..n : First(s, k) \in SUBSET txs
    BY <1>1, <1>2 DEF First
  <1>5. \A S \in SUBSET txs : GasOf(S) \in Nat
    BY GasOfOneMore DEF IsPool
  <1> QED
    BY <1>1, <1>2, <1>3, <1>4, <1>5 DEF n

(***************************************************************************)
(* One more selected: what comes before it is as it was.                   *)
(***************************************************************************)
LEMMA FirstOfAppend ==
    ASSUME NEW txs, NEW s \in Turns(txs), NEW s2 \in Turns(txs), NEW b \in txs,
           s2.selected = Append(s.selected, b), NEW n, n = Len(s.selected)
    PROVE  /\ n \in Nat /\ Len(s2.selected) = n + 1 /\ s2.selected[n + 1] = b
           /\ \A i \in 1..n : s2.selected[i] = s.selected[i]
           /\ \A k \in 0..n : First(s2, k) = First(s, k)
           /\ First(s2, n + 1) = First(s, n) \cup {b}
  <1>1. s.selected \in Seq(txs) /\ n \in Nat
    BY DEF Turns
  <1>2. Len(s2.selected) = n + 1 /\ s2.selected[n + 1] = b
        /\ \A i \in 1..n : s2.selected[i] = s.selected[i]
    BY <1>1
  <1>3. \A k \in 0..n : First(s2, k) = First(s, k)
    BY <1>1, <1>2 DEF First
  <1>4. First(s2, n + 1) = First(s, n) \cup {b}
    <2>1. 1..(n + 1) = 1..n \cup {n + 1}
      BY <1>1
    <2> QED
      BY <1>2, <2>1 DEF First
  <1> QED
    BY <1>1, <1>2, <1>3, <1>4

(***************************************************************************)
(* Before the first turn.                                                  *)
(***************************************************************************)
LEMMA GreedyAtFirst ==
    ASSUME NEW txs, NEW before, IsPool(txs, before), NEW better, NEW maxTx \in Nat,
           NEW maxGas \in Nat, NEW s \in Turns(txs), s.selected = << >>, s.excluded = {}, s.left = txs
    PROVE  GreedySoFar(s, txs, before, better, maxTx, maxGas)
  <1>1. Len(s.selected) = 0 /\ First(s, 0) = {} /\ s.selected \in Seq(txs)
    BY DEF First
  <1>2. GasOf(First(s, 0)) = 0
    BY <1>1, GasOfOneMore DEF IsPool
  <1> QED
    BY <1>1, <1>2 DEF GreedySoFar, SelectedIsGone, RestIsExcluded, ExcludedStaysOut,
                      WithinLimits, TakesPrefixes, TakesTheBest

(***************************************************************************)
(* A turn that takes the next one.                                         *)
(***************************************************************************)
LEMMA TakeKeepsGreedy ==
    ASSUME NEW txs, NEW before, IsPool(txs, before), NEW better, NEW maxTx \in Nat,
           NEW maxGas \in Nat, NEW s, GreedySoFar(s, txs, before, better, maxTx, maxGas),
           Len(s.selected) < maxTx, NEW best, IsNext(best, s.left, before, better),
           Fits(best, s, Len(s.selected), maxGas),
           NEW s2 \in Turns(txs), s2.selected = Append(s.selected, best),
           s2.left = s.left \ {best}, s2.excluded = s.excluded
    PROVE  GreedySoFar(s2, txs, before, better, maxTx, maxGas)
  <1> DEFINE n == Len(s.selected)
  <1>1. s \in Turns(txs) /\ s.left \in SUBSET txs /\ s.excluded \in SUBSET txs
    BY DEF GreedySoFar, Turns
  <1>2. /\ n \in Nat
        /\ \A i \in 1..n : s.selected[i] \in txs
        /\ \A k \in 0..n : First(s, k) \in SUBSET txs /\ GasOf(First(s, k)) \in Nat
    BY <1>1, FirstIs
  <1>3. best \in s.left /\ best \in txs
    BY <1>1 DEF IsNext
  <1>4. /\ Len(s2.selected) = n + 1 /\ s2.selected[n + 1] = best
        /\ \A i \in 1..n : s2.selected[i] = s.selected[i]
        /\ \A k \in 0..n : First(s2, k) = First(s, k)
        /\ First(s2, n + 1) = First(s, n) \cup {best}
    <2>1. n = Len(s.selected)
      OBVIOUS
    <2> HIDE DEF n
    <2> QED
      BY <1>1, <1>3, <2>1, FirstOfAppend
  <1>5. /\ \A i \in 1..n : s.selected[i] \notin s.left
        /\ \A t \in txs : \/ t \in s.left \/ t \in First(s, n)
                          \/ \E u \in s.excluded : u = t \/ <<u, t>> \in before
        /\ \A u \in s.excluded : /\ u \notin First(s, n)
                                 /\ ~Fits(u, s, n, maxGas)
                                 /\ \A t \in s.left : <<u, t>> \notin before
    BY DEF GreedySoFar, SelectedIsGone, RestIsExcluded, ExcludedStaysOut
  <1>6. \A t \in First(s, n) : t \notin s.left
    BY <1>5 DEF First
  <1>7. /\ GasOf(First(s2, n + 1)) = GasOf(First(s, n)) + best.gas
        /\ GasOf(First(s, n)) \in Nat /\ best.gas \in Nat
        /\ GasOf(First(s2, n + 1)) <= maxGas
    <2>1. First(s, n) \in SUBSET txs /\ best \in txs \ First(s, n) /\ GasOf(First(s, n)) \in Nat
      BY <1>2, <1>3, <1>6
    <2>2. GasOf(First(s, n) \cup {best}) = GasOf(First(s, n)) + best.gas
      <3>1. \A S \in SUBSET txs : \A y \in txs \ S : GasOf(S \cup {y}) = GasOf(S) + y.gas
        BY GasOfOneMore DEF IsPool
      <3> QED
        BY <2>1, <3>1
    <2>3. best.gas \in Nat
      BY <1>3 DEF IsPool
    <2>4. GasOf(First(s, n)) + best.gas <= maxGas
      BY DEF Fits
    <2> QED
      BY <1>4, <2>1, <2>2, <2>3, <2>4
  <1> HIDE DEF n
  <1>8. \A i \in 1..(n + 1) : i \in 1..n \/ i = n + 1
    BY <1>2
  <1>9. WithinLimits(s2, txs, maxTx, maxGas)
    <2>1. \A i, j \in 1..(n + 1) : s2.selected[i] = s2.selected[j] => i = j
      <3>1. \A i, j \in 1..n : s.selected[i] = s.selected[j] => i = j
        BY DEF GreedySoFar, WithinLimits, n
      <3>2. \A i \in 1..n : s2.selected[i] # best
        BY <1>3, <1>4, <1>5
      <3> QED
        BY <1>4, <1>8, <3>1, <3>2
    <2>2. n + 1 <= maxTx
      BY <1>2 DEF n
    <2>3. s2.selected \in Seq(txs)
      BY DEF Turns
    <2> QED
      BY <1>4, <1>7, <2>1, <2>2, <2>3 DEF WithinLimits
  <1>10. \A i \in 1..(n + 1) : s2.selected[i] \notin s2.left
    BY <1>4, <1>5, <1>8
  <1>11. ASSUME NEW j \in 1..(n + 1), NEW t \in txs, <<t, s2.selected[j]>> \in before
         PROVE  t \in First(s2, j - 1)
    <2>1. CASE j \in 1..n
      <3>1. <<t, s.selected[j]>> \in before
        BY <1>4, <1>11, <2>1
      <3>2. t \in First(s, j - 1)
        BY <2>1, <3>1 DEF GreedySoFar, TakesPrefixes, n
      <3>3. j - 1 \in 0..n
        BY <1>2, <2>1
      <3> QED
        BY <1>4, <3>2, <3>3
    <2>2. CASE j = n + 1
      <3>1. <<t, best>> \in before /\ t \notin s.left
        BY <1>4, <1>11, <2>2 DEF IsNext
      <3>2. ~\E u \in s.excluded : u = t \/ <<u, t>> \in before
        <4> SUFFICES ASSUME NEW u \in s.excluded, u = t \/ <<u, t>> \in before PROVE FALSE
          OBVIOUS
        <4>1. <<u, best>> \in before
          BY <1>1, <1>3, <3>1 DEF IsPool
        <4> QED
          BY <1>3, <1>5, <4>1
      <3>3. t \in First(s, n)
        BY <1>5, <3>1, <3>2
      <3>4. j - 1 = n /\ n \in 0..n
        BY <1>2, <2>2
      <3> QED
        BY <1>4, <3>3, <3>4
    <2> QED
      BY <1>8, <2>1, <2>2
  <1>12. ASSUME NEW i \in 1..(n + 1), NEW t \in txs \ First(s2, i - 1),
                <<t, s2.selected[i]>> \in better
         PROVE  \/ \E u \in txs \ First(s2, i - 1) : <<u, t>> \in before
                \/ t \in s2.excluded /\ ~Fits(t, s2, i - 1, maxGas)
    <2>1. CASE i \in 1..n
      <3>1. i - 1 \in 0..n
        BY <1>2, <2>1
      <3>2. First(s2, i - 1) = First(s, i - 1) /\ s2.selected[i] = s.selected[i]
        BY <1>4, <2>1, <3>1
      <3>3. \/ \E u \in txs \ First(s, i - 1) : <<u, t>> \in before
            \/ t \in s.excluded /\ ~Fits(t, s, i - 1, maxGas)
        BY <1>12, <2>1, <3>2 DEF GreedySoFar, TakesTheBest, n
      <3> QED
        BY <3>2, <3>3 DEF Fits
    <2>2. CASE i = n + 1
      <3>1. First(s2, i - 1) = First(s, n)
        <4>1. n \in 0..n /\ i - 1 = n
          BY <1>2, <2>2
        <4> QED
          BY <1>4, <4>1
      <3>2. <<t, best>> \in better /\ t \in txs /\ t \notin First(s, n)
        BY <1>4, <1>12, <2>2, <3>1
      <3>3. CASE t \in s.left
        <4>1. PICK u \in s.left : <<u, t>> \in before
          BY <3>2, <3>3 DEF IsNext
        <4>2. u \in txs /\ u \notin First(s, n)
          BY <1>1, <1>6
        <4> QED
          BY <3>1, <4>1, <4>2
      <3>4. CASE t \notin s.left
        <4>1. PICK u \in s.excluded : u = t \/ <<u, t>> \in before
          BY <1>5, <3>2, <3>4
        <4>2. u \in txs /\ u \notin First(s, n) /\ ~Fits(u, s, n, maxGas)
          BY <1>1, <1>5
        <4>3. CASE u = t
          BY <3>1, <4>2, <4>3 DEF Fits
        <4>4. CASE <<u, t>> \in before
          BY <3>1, <4>2, <4>4
        <4> QED
          BY <4>1, <4>3, <4>4
      <3> QED
        BY <3>3, <3>4
    <2> QED
      BY <1>8, <2>1, <2>2
  <1>13. \A t \in txs : \/ t \in s2.left \/ t \in First(s2, n + 1)
                        \/ \E u \in s2.excluded : u = t \/ <<u, t>> \in before
    BY <1>4, <1>5
  <1>14. ASSUME NEW u \in s2.excluded
         PROVE  /\ u \notin First(s2, n + 1)
                /\ ~Fits(u, s2, n + 1, maxGas)
                /\ \A t \in s2.left : <<u, t>> \notin before
    <2>1. u \notin First(s, n) /\ ~Fits(u, s, n, maxGas) /\ \A t \in s.left : <<u, t>> \notin before
      BY <1>5
    <2>2. u # best
      <3> SUFFICES ASSUME u = best PROVE FALSE
        OBVIOUS
      <3>1. ~(GasOf(First(s, n)) + best.gas <= maxGas)
        BY <2>1 DEF Fits
      <3>2. GasOf(First(s, n)) + best.gas <= maxGas
        BY DEF Fits, n
      <3> QED
        BY <3>1, <3>2
    <2>3. u.gas \in Nat
      BY <1>1 DEF IsPool
    <2>4. ~(GasOf(First(s, n)) + u.gas <= maxGas)
      BY <2>1 DEF Fits
    <2> DEFINE a == GasOf(First(s, n))
               b == GasOf(First(s2, n + 1))
    <2>5. b = a + best.gas /\ a \in Nat /\ best.gas \in Nat /\ ~(a + u.gas <= maxGas)
      BY <1>7, <2>4
    <2> HIDE DEF a, b
    <2>6. ~(b + u.gas <= maxGas)
      BY <2>3, <2>5
    <2>7. ~Fits(u, s2, n + 1, maxGas)
      BY <2>6 DEF Fits, b
    <2> QED
      BY <1>4, <2>1, <2>2, <2>7
  <1>15. TakesPrefixes(s2, txs, before) /\ TakesTheBest(s2, txs, before, better, maxGas)
    BY <1>4, <1>11, <1>12 DEF TakesPrefixes, TakesTheBest
  <1>16. SelectedIsGone(s2)
    BY <1>4, <1>10 DEF SelectedIsGone
  <1>17. RestIsExcluded(s2, txs, before)
    BY <1>4, <1>13 DEF RestIsExcluded
  <1>18. ExcludedStaysOut(s2, before, maxGas)
    BY <1>4, <1>14 DEF ExcludedStaysOut
  <1> QED
    BY <1>9, <1>15, <1>16, <1>17, <1>18 DEF GreedySoFar

(***************************************************************************)
(* A turn in which the next one does not fit: what comes after it is out.  *)
(***************************************************************************)
LEMMA LeaveOutKeepsGreedy ==
    ASSUME NEW txs, NEW before, IsPool(txs, before), NEW better, NEW maxTx \in Nat,
           NEW maxGas \in Nat, NEW s, GreedySoFar(s, txs, before, better, maxTx, maxGas),
           NEW best, IsNext(best, s.left, before, better), ~Fits(best, s, Len(s.selected), maxGas),
           NEW s2 \in Turns(txs), s2.selected = s.selected,
           s2.left = {t \in s.left : t # best /\ <<best, t>> \notin before},
           s2.excluded = s.excluded \cup {best}
    PROVE  GreedySoFar(s2, txs, before, better, maxTx, maxGas)
  <1> DEFINE n == Len(s.selected)
  <1>1. best \in s.left
    BY DEF IsNext
  <1>2. \A k : First(s2, k) = First(s, k) /\ \A t : Fits(t, s2, k, maxGas) <=> Fits(t, s, k, maxGas)
    BY DEF First, Fits
  <1>3. best \notin First(s, n)
    BY <1>1 DEF First, GreedySoFar, SelectedIsGone
  <1>4. ASSUME NEW t \in txs
        PROVE  \/ t \in s2.left \/ t \in First(s2, n)
               \/ \E u \in s2.excluded : u = t \/ <<u, t>> \in before
    <2>1. \/ t \in s.left \/ t \in First(s, n) \/ \E u \in s.excluded : u = t \/ <<u, t>> \in before
      BY DEF GreedySoFar, RestIsExcluded
    <2> QED
      BY <1>2, <2>1
  <1>5. \A u \in s2.excluded : /\ u \notin First(s2, n)
                               /\ ~Fits(u, s2, n, maxGas)
                               /\ \A t \in s2.left : <<u, t>> \notin before
    <2>1. \A u \in s.excluded : /\ u \notin First(s, n)
                                /\ ~Fits(u, s, n, maxGas)
                                /\ \A t \in s.left : <<u, t>> \notin before
      BY DEF GreedySoFar, ExcludedStaysOut
    <2> QED
      BY <1>2, <1>3, <2>1
  <1>6. TakesTheBest(s2, txs, before, better, maxGas)
    <2>1. TakesTheBest(s, txs, before, better, maxGas)
      BY DEF GreedySoFar
    <2>2. ASSUME NEW i \in 1..Len(s2.selected), NEW t \in txs \ First(s2, i - 1),
                 <<t, s2.selected[i]>> \in better
          PROVE  \/ \E u \in txs \ First(s2, i - 1) : <<u, t>> \in before
                 \/ t \in s2.excluded /\ ~Fits(t, s2, i - 1, maxGas)
      <3>1. First(s2, i - 1) = First(s, i - 1) /\ (Fits(t, s2, i - 1, maxGas) <=> Fits(t, s, i - 1, maxGas))
        BY <1>2
      <3>2. \/ \E u \in txs \ First(s, i - 1) : <<u, t>> \in before
            \/ t \in s.excluded /\ ~Fits(t, s, i - 1, maxGas)
        BY <2>1, <2>2, <3>1 DEF TakesTheBest
      <3> QED
        BY <3>1, <3>2
    <2> QED
      BY <2>2 DEF TakesTheBest
  <1>7. TakesPrefixes(s2, txs, before) /\ WithinLimits(s2, txs, maxTx, maxGas)
    BY <1>2 DEF GreedySoFar, TakesPrefixes, WithinLimits
  <1>8. SelectedIsGone(s2)
    BY DEF GreedySoFar, SelectedIsGone
  <1>9. RestIsExcluded(s2, txs, before)
    BY <1>4 DEF RestIsExcluded
  <1>10. ExcludedStaysOut(s2, before, maxGas)
    BY <1>5 DEF ExcludedStaysOut
  <1> QED
    BY <1>6, <1>7, <1>8, <1>9, <1>10 DEF GreedySoFar

(***************************************************************************)
(* When no more turn is taken, the selection is greedy.                    *)
(***************************************************************************)
LEMMA GreedyAtLast ==
    ASSUME NEW txs, NEW before, NEW better, NEW maxTx \in Nat, NEW maxGas \in Nat,
           NEW s, GreedySoFar(s, txs, before, better, maxTx, maxGas),
           s.left = {} \/ Len(s.selected) >= maxTx
    PROVE  IsGreedy(s, txs, before, better, maxTx, maxGas)
  <1> DEFINE n == Len(s.selected)
  <1>1. s.selected \in Seq(txs) /\ n \in Nat
    BY DEF GreedySoFar, Turns
  <1>2. n < maxTx => LeavesNothingThatFits(s, txs, before, maxGas)
    <2> SUFFICES ASSUME n < maxTx, NEW t \in txs, t \notin First(s, n)
                 PROVE  \E u \in s.excluded \ First(s, n) :
                           (u = t \/ <<u, t>> \in before) /\ ~Fits(u, s, n, maxGas)
      BY DEF LeavesNothingThatFits
    <2>1. s.left = {}
      BY <1>1
    <2>2. PICK u \in s.excluded : u = t \/ <<u, t>> \in before
      BY <2>1 DEF GreedySoFar, RestIsExcluded
    <2>3. u \notin First(s, n) /\ ~Fits(u, s, n, maxGas)
      BY DEF GreedySoFar, ExcludedStaysOut
    <2> QED
      BY <2>2, <2>3
  <1> QED
    BY <1>2 DEF GreedySoFar, IsGreedy

(***************************************************************************)
(* The same selection is greedy whatever else the record has.              *)
(***************************************************************************)
LEMMA GreedyIsOfSelection ==
    ASSUME NEW txs, NEW before, NEW better, NEW maxTx, NEW maxGas, NEW s, NEW s2,
           s2.selected = s.selected, s2.excluded = s.excluded,
           IsGreedy(s, txs, before, better, maxTx, maxGas)
    PROVE  IsGreedy(s2, txs, before, better, maxTx, maxGas)
  <1>1. \A k : First(s2, k) = First(s, k) /\ \A t : Fits(t, s2, k, maxGas) <=> Fits(t, s, k, maxGas)
    BY DEF First, Fits
  <1>2. WithinLimits(s2, txs, maxTx, maxGas) /\ TakesPrefixes(s2, txs, before)
    BY <1>1 DEF IsGreedy, WithinLimits, TakesPrefixes
  <1>3. TakesTheBest(s2, txs, before, better, maxGas)
    <2>1. TakesTheBest(s, txs, before, better, maxGas)
      BY DEF IsGreedy
    <2>2. ASSUME NEW i \in 1..Len(s2.selected), NEW t \in txs \ First(s2, i - 1),
                 <<t, s2.selected[i]>> \in better
          PROVE  \/ \E u \in txs \ First(s2, i - 1) : <<u, t>> \in before
                 \/ t \in s2.excluded /\ ~Fits(t, s2, i - 1, maxGas)
      <3>1. First(s2, i - 1) = First(s, i - 1) /\ (Fits(t, s2, i - 1, maxGas) <=> Fits(t, s, i - 1, maxGas))
        BY <1>1
      <3>2. \/ \E u \in txs \ First(s, i - 1) : <<u, t>> \in before
            \/ t \in s.excluded /\ ~Fits(t, s, i - 1, maxGas)
        BY <2>1, <2>2, <3>1 DEF TakesTheBest
      <3> QED
        BY <3>1, <3>2
    <2> QED
      BY <2>2 DEF TakesTheBest
  <1>4. Len(s2.selected) < maxTx => LeavesNothingThatFits(s2, txs, before, maxGas)
    BY <1>1 DEF IsGreedy, LeavesNothingThatFits
  <1> QED
    BY <1>2, <1>3, <1>4 DEF IsGreedy

-----------------------------------------------------------------------------
(* The txpool builder v1: what greedySelect takes. *)

(***************************************************************************)
(* The chains are a pool.                                                  *)
(***************************************************************************)
LEMMA ChainsArePool ==
    ASSUME NEW txs, IsChains(txs)
    PROVE  IsPool(txs, Chained(txs))
  <1>1. \A t, u \in txs : <<t, u>> \in Chained(txs) <=> t.from = u.from /\ t.nonce < u.nonce
    BY DEF Chained
  <1>2. \A t \in txs : t.nonce \in Int
    BY DEF IsChains
  <1>3. \A t, u, v \in txs :
            <<t, u>> \in Chained(txs) /\ <<u, v>> \in Chained(txs) => <<t, v>> \in Chained(txs)
    BY <1>1, <1>2
  <1> QED
    BY <1>3 DEF IsPool, IsChains

(***************************************************************************)
(* Of a sender that is still in the running, the first is a head; and the  *)
(* best of the heads is one.                                               *)
(***************************************************************************)
LEMMA BestHead ==
    ASSUME NEW txs, IsChains(txs), NEW left \in SUBSET txs, left # {}
    PROVE  LET best == Least(Heads(left), RankedBefore)
           IN  /\ best \in left
               /\ \A u \in left : u.from = best.from => u = best \/ best.nonce < u.nonce
               /\ \A t \in left : RankedBefore(t, best) =>
                     \E u \in left : u.from = t.from /\ u.nonce < t.nonce
  <1>1. \A t \in txs : t.nonce \in Int /\ t.score \in Int /\ t.from \in Int /\ t.hash \in Int
    BY DEF IsChains
  <1>2. \A t, u \in left : t.from = u.from /\ t # u => t.nonce < u.nonce \/ u.nonce < t.nonce
    BY <1>1 DEF IsChains
  <1>3. ASSUME NEW a \in left
        PROVE  \E t \in Heads(left) : t.from = a.from /\ t.nonce <= a.nonce
    <2> DEFINE W == {t \in left : t.from = a.from}
               R == {p \in W \X W : p[1].nonce < p[2].nonce}
    <2>1. IsFiniteSet(W) /\ a \in W
      BY FS_Subset DEF IsChains
    <2>2. \A x, y \in W : <<x, y>> \in R <=> x.nonce < y.nonce
      OBVIOUS
    <2>3. \A x, y \in W : x # y => <<x, y>> \in R \/ <<y, x>> \in R
      BY <1>2, <2>2
    <2>4. \A x, y, z \in W : <<x, y>> \in R /\ <<y, z>> \in R => <<x, z>> \in R
      BY <1>1, <2>2
    <2> HIDE DEF R
    <2>5. PICK t \in W : \A y \in W \ {t} : <<t, y>> \in R
      <3> HIDE DEF W
      <3> QED
        BY <2>1, <2>3, <2>4, FiniteLeast
    <2>6. \A y \in W \ {t} : t.nonce < y.nonce
      BY <2>2, <2>5
    <2>7. t \in Heads(left)
      BY <2>6 DEF Heads
    <2> QED
      BY <1>1, <2>1, <2>6, <2>7
  <1> DEFINE H == Heads(left)
             R == {p \in H \X H : RankedBefore(p[1], p[2])}
             best == Least(H, RankedBefore)
  <1>4. H \subseteq left /\ IsFiniteSet(H) /\ H # {}
    BY <1>3, FS_Subset DEF Heads, IsChains
  <1>5. \A t, u \in H : t # u => t.from # u.from
    <2> SUFFICES ASSUME NEW t \in H, NEW u \in H, t # u, t.from = u.from PROVE FALSE
      OBVIOUS
    <2>1. t.nonce # u.nonce
      BY DEF Heads, IsChains
    <2>2. t.nonce < u.nonce /\ u.nonce < t.nonce
      BY <2>1 DEF Heads
    <2> QED
      BY <1>1, <1>4, <2>2
  <1> HIDE DEF H
  <1>6. \A x, y \in H : <<x, y>> \in R <=> RankedBefore(x, y)
    OBVIOUS
  <1>7. \A x, y \in H : x # y => <<x, y>> \in R \/ <<y, x>> \in R
    BY <1>1, <1>4, <1>5, <1>6 DEF RankedBefore
  <1>8. \A x, y, z \in H : <<x, y>> \in R /\ <<y, z>> \in R => <<x, z>> \in R
    BY <1>1, <1>4, <1>6 DEF RankedBefore
  <1> HIDE DEF R
  <1>9. \E x \in H : \A y \in H \ {x} : <<x, y>> \in R
    BY <1>4, <1>7, <1>8, FiniteLeast
  <1>10. best \in H /\ \A y \in H \ {best} : RankedBefore(best, y)
    <2>1. \E x \in H : \A y \in H \ {x} : RankedBefore(x, y)
      BY <1>6, <1>9
    <2> QED
      BY <2>1 DEF Least
  <1> HIDE DEF best
  <1>11. \A u \in left : u.from = best.from => u = best \/ best.nonce < u.nonce
    <2> SUFFICES ASSUME NEW u \in left, u.from = best.from, u # best PROVE best.nonce < u.nonce
      OBVIOUS
    <2>1. best.nonce # u.nonce
      BY <1>4, <1>10 DEF IsChains
    <2> QED
      BY <1>10, <2>1 DEF Heads, H
  <1>12. ASSUME NEW t \in left, RankedBefore(t, best)
         PROVE  \E u \in left : u.from = t.from /\ u.nonce < t.nonce
    <2>1. t \notin H
      <3> SUFFICES ASSUME t \in H PROVE FALSE
        OBVIOUS
      <3>1. t = best \/ RankedBefore(best, t)
        BY <1>10
      <3>2. t \in txs /\ best \in txs
        BY <1>4, <1>10
      <3> QED
        BY <1>1, <1>12, <3>1, <3>2 DEF RankedBefore
    <2>2. PICK u \in H : u.from = t.from /\ u.nonce <= t.nonce
      BY <1>3 DEF H
    <2>3. u \in left /\ u.nonce # t.nonce
      BY <1>4, <2>1, <2>2 DEF IsChains
    <2> QED
      BY <1>1, <2>2, <2>3
  <1> QED
    BY <1>4, <1>10, <1>11, <1>12 DEF best, H

(***************************************************************************)
(* The best of the heads is next, and what a turn does is a turn of the    *)
(* greedy selection, after which fewer are left.                           *)
(***************************************************************************)
LEMMA SelectKeepsGreedy ==
    ASSUME NEW txs, IsChains(txs), NEW maxTx \in Nat, NEW maxGas \in Nat,
           NEW s, GreedySoFar(s, txs, Chained(txs), Ranked(txs), maxTx, maxGas),
           s.left # {}, Len(s.selected) < maxTx
    PROVE  /\ GreedySoFar(Select(s, maxGas), txs, Chained(txs), Ranked(txs), maxTx, maxGas)
           /\ Select(s, maxGas).left \subseteq s.left
           /\ Select(s, maxGas).left # s.left
  <1>1. PICK best : best = Least(Heads(s.left), RankedBefore)
    OBVIOUS
  <1>2. /\ s \in Turns(txs) /\ s.left \in SUBSET txs
        /\ s.selected \in Seq(txs) /\ s.excluded \in SUBSET txs
    BY DEF GreedySoFar, Turns
  <1>3. /\ best \in s.left /\ best \in txs
        /\ \A u \in s.left : u.from = best.from => u = best \/ best.nonce < u.nonce
        /\ \A t \in s.left : RankedBefore(t, best) =>
              \E u \in s.left : u.from = t.from /\ u.nonce < t.nonce
    BY <1>1, <1>2, BestHead
  <1>4. \A t, u \in txs : /\ <<t, u>> \in Chained(txs) <=> t.from = u.from /\ t.nonce < u.nonce
                          /\ <<t, u>> \in Ranked(txs) <=> RankedBefore(t, u)
    BY DEF Chained, Ranked
  <1>5. \A t \in txs : t.nonce \in Int /\ t.gas \in Nat
    BY DEF IsChains
  <1>6. IsNext(best, s.left, Chained(txs), Ranked(txs))
    <2>1. \A t \in s.left : <<t, best>> \notin Chained(txs)
      BY <1>2, <1>3, <1>4, <1>5
    <2>2. \A t \in s.left : <<t, best>> \in Ranked(txs) =>
              \E u \in s.left : <<u, t>> \in Chained(txs)
      <3> SUFFICES ASSUME NEW t \in s.left, <<t, best>> \in Ranked(txs)
                   PROVE  \E u \in s.left : <<u, t>> \in Chained(txs)
        OBVIOUS
      <3>1. PICK u \in s.left : u.from = t.from /\ u.nonce < t.nonce
        BY <1>2, <1>3, <1>4
      <3>2. <<u, t>> \in Chained(txs)
        BY <1>2, <1>4, <3>1
      <3> QED
        BY <3>2
    <2> QED
      BY <1>3, <2>1, <2>2 DEF IsNext
  <1>7. Fits(best, s, Len(s.selected), maxGas)
        <=> ~(best.gas > maxGas - MapThenSumSet(Gas, Range(s.selected)))
    <2>1. GasOf(Range(s.selected)) = MapThenSumSet(Gas, Range(s.selected))
      BY DEF GasOf, GasIn, Gas, MapThenSumSet, MapThenFoldSet
    <2>2. First(s, Len(s.selected)) = Range(s.selected) /\ Len(s.selected) \in Nat
          /\ GasOf(First(s, Len(s.selected))) \in Nat
      BY <1>2, FirstIs, ChainsArePool
    <2> QED
      BY <1>3, <1>5, <2>1, <2>2 DEF Fits
  <1>8. CASE best.gas > maxGas - MapThenSumSet(Gas, Range(s.selected))
    <2> DEFINE s2 == [s EXCEPT !.excluded = @ \cup {best}, !.left = {t \in @ : t.from # best.from}]
    <2>1. Select(s, maxGas) = s2
      BY <1>1, <1>8 DEF Select
    <2>2. /\ s2.left = {t \in s.left : t.from # best.from} /\ s2.selected = s.selected
          /\ s2.excluded = s.excluded \cup {best}
      BY <1>2 DEF Turns
    <2>3. s2 \in Turns(txs)
      BY <1>2, <1>3 DEF Turns
    <2> HIDE DEF s2
    <2>4. s2.left = {t \in s.left : t # best /\ <<best, t>> \notin Chained(txs)}
      BY <1>2, <1>3, <1>4, <2>2
    <2>5. GreedySoFar(s2, txs, Chained(txs), Ranked(txs), maxTx, maxGas)
      BY <1>6, <1>7, <1>8, <2>2, <2>3, <2>4, LeaveOutKeepsGreedy, ChainsArePool
    <2> QED
      BY <1>3, <2>1, <2>2, <2>5
  <1>9. CASE ~(best.gas > maxGas - MapThenSumSet(Gas, Range(s.selected)))
    <2> DEFINE s2 == [s EXCEPT !.selected = Append(@, best), !.left = @ \ {best}]
    <2>1. Select(s, maxGas) = s2
      BY <1>1, <1>9 DEF Select
    <2>2. /\ s2.left = s.left \ {best} /\ s2.selected = Append(s.selected, best)
          /\ s2.excluded = s.excluded
      BY <1>2 DEF Turns
    <2>3. s2 \in Turns(txs)
      <3>1. Append(s.selected, best) \in Seq(txs)
        BY <1>2, <1>3
      <3> DEFINE q == Append(s.selected, best)
      <3>2. s2 = [s EXCEPT !.selected = q, !.left = s.left \ {best}] /\ q \in Seq(txs)
        BY <3>1
      <3> HIDE DEF q, s2
      <3> QED
        BY <1>2, <3>2 DEF Turns
    <2> HIDE DEF s2
    <2>4. GreedySoFar(s2, txs, Chained(txs), Ranked(txs), maxTx, maxGas)
      BY <1>6, <1>7, <1>9, <2>2, <2>3, TakeKeepsGreedy, ChainsArePool
    <2> QED
      BY <1>3, <2>1, <2>2, <2>4
  <1> QED
    BY <1>8, <1>9

(***************************************************************************)
(* Whatever chains and limits greedySelect is given, it ends with a        *)
(* selection that keeps both limits and the order of every sender's        *)
(* nonces, takes the best that fits each time, and leaves out only what    *)
(* does not fit or comes after such a one.                                 *)
(***************************************************************************)
THEOREM SelectionV1AlwaysGreedy ==
    ASSUME NEW txs, IsChains(txs), NEW maxTx \in Nat, NEW maxGas \in Nat
    PROVE  IsGreedy(greedySelect(txs, maxTx, maxGas), txs, Chained(txs), Ranked(txs), maxTx, maxGas)
  <1> DEFINE N == Cardinality(txs)
             start == [selected |-> << >>, excluded |-> {}, left |-> txs]
             P == {s \in Turns(txs) : GreedySoFar(s, txs, Chained(txs), Ranked(txs), maxTx, maxGas)}
             Stop == {s \in P : s.left = {} \/ Len(s.selected) >= maxTx}
             step == [s \in P |-> IF s \in Stop THEN s ELSE Select(s, maxGas)]
             m == [s \in P |-> Cardinality(s.left)]
             F(g, n) == IF n = 0 THEN start
                        ELSE IF g[n - 1].left = {} \/ Len(g[n - 1].selected) >= maxTx THEN g[n - 1]
                             ELSE Select(g[n - 1], maxGas)
             f == CHOOSE g : g = [n \in 0..N |-> F(g, n)]
  <1>1. N \in Nat /\ IsFiniteSet(txs)
    BY FS_CardinalityType DEF IsChains
  <1>2. \A s : s \in P <=> GreedySoFar(s, txs, Chained(txs), Ranked(txs), maxTx, maxGas)
    BY DEF GreedySoFar
  <1>3. start \in P
    <2>1. start \in Turns(txs) /\ start.selected = << >> /\ start.excluded = {} /\ start.left = txs
      BY DEF Turns
    <2> HIDE DEF start
    <2> QED
      BY <1>2, <2>1, GreedyAtFirst, ChainsArePool
  <1>4. \A s \in P : Len(s.selected) \in Nat /\ s.left \in SUBSET txs /\ IsFiniteSet(s.left)
                     /\ Cardinality(s.left) \in Nat
    <2>1. \A s \in P : Len(s.selected) \in Nat /\ s.left \in SUBSET txs
      BY DEF Turns
    <2> QED
      BY <1>1, <2>1, FS_Subset, FS_CardinalityType
  <1>5. ASSUME NEW s \in P, s \notin Stop
        PROVE  /\ Select(s, maxGas) \in P
               /\ Cardinality(Select(s, maxGas).left) < Cardinality(s.left)
    <2>1. s.left # {} /\ Len(s.selected) < maxTx
      BY <1>4, <1>5
    <2>2. /\ GreedySoFar(Select(s, maxGas), txs, Chained(txs), Ranked(txs), maxTx, maxGas)
          /\ Select(s, maxGas).left \subseteq s.left /\ Select(s, maxGas).left # s.left
      BY <1>2, <2>1, SelectKeepsGreedy
    <2> DEFINE L == s.left
               L2 == Select(s, maxGas).left
    <2>3. IsFiniteSet(L) /\ L2 \subseteq L /\ L2 # L
      BY <1>4, <2>2
    <2> HIDE DEF L, L2
    <2>4. Cardinality(L2) < Cardinality(L)
      BY <2>3, FS_CardinalityType, FS_Subset
    <2> QED
      BY <1>2, <2>2, <2>4 DEF L, L2
  <1>6. \A s \in P : step[s] \in P /\ m[s] \in Nat
    BY <1>4, <1>5
  <1>7. \A g, n : g[n - 1] \in P /\ n # 0 => F(g, n) = step[g[n - 1]]
    OBVIOUS
  <1>8. m[start] <= N
    BY <1>1, <1>3
  <1>9. \A p \in P : m[p] = 0 => p \in Stop
    <2> SUFFICES ASSUME NEW p \in P, Cardinality(p.left) = 0 PROVE p \in Stop
      OBVIOUS
    <2>1. p.left = {}
      BY <1>4, FS_EmptySet
    <2> QED
      BY <2>1
  <1>10. \A p \in P : /\ p \in Stop => step[p] = p
                      /\ p \notin Stop => m[step[p]] < m[p]
    BY <1>5
  <1>11. \A s \in Stop : s.left = {} \/ Len(s.selected) >= maxTx
    OBVIOUS
  <1>12. greedySelect(txs, maxTx, maxGas) = f[N]
    BY DEF greedySelect
  <1> HIDE DEF start, P, Stop, step, m, N
  <1>13. \E g : g = [n \in 0..N |-> F(g, n)]
    <2>1. StaysIn(step, P)
      BY <1>6 DEF StaysIn
    <2>2. PICK g0 : IsRunOf(g0, N, start, step, P)
      BY <1>1, <1>3, <2>1, Repeats
    <2> DEFINE g == [n \in 0..N |-> g0[n]]
    <2>3. \A n \in 0..N : g[n] = F(g, n)
      <3> SUFFICES ASSUME NEW n \in 0..N PROVE g[n] = F(g, n)
        OBVIOUS
      <3>1. CASE n = 0
        BY <2>2, <3>1 DEF IsRunOf
      <3>2. CASE n # 0
        <4>1. n - 1 \in 0..N /\ n \in 1..N
          BY <1>1, <3>2
        <4>2. g[n - 1] \in P /\ g[n] = step[g[n - 1]]
          BY <2>2, <3>2, <4>1 DEF IsRunOf
        <4> HIDE DEF F
        <4> QED
          BY <1>7, <3>2, <4>2
      <3> QED
        BY <3>1, <3>2
    <2>4. g = [n \in 0..N |-> F(g, n)]
      <3> HIDE DEF F
      <3> QED
        BY <2>3
    <2> HIDE DEF F, g
    <2> QED
      BY <2>4
  <1>14. f = [n \in 0..N |-> F(f, n)]
    <2> HIDE DEF F
    <2> QED
      BY <1>13
  <1> HIDE DEF f
  <1>15. f[0] = start
    BY <1>1, <1>14
  <1>16. \A n \in 1..N : f[n - 1] \in P => f[n] = step[f[n - 1]]
    <2> SUFFICES ASSUME NEW n \in 1..N, f[n - 1] \in P PROVE f[n] = step[f[n - 1]]
      OBVIOUS
    <2> HIDE DEF F
    <2>1. f[n] = F(f, n)
      BY <1>1, <1>14
    <2> QED
      BY <1>7, <2>1
  <1> HIDE DEF F
  <1>17. \A n \in 1..N : f[n - 1] \in P =>
              /\ f[n] \in P
              /\ f[n - 1] \in Stop => f[n] = f[n - 1]
              /\ f[n - 1] \notin Stop => m[f[n]] < m[f[n - 1]]
    BY <1>6, <1>10, <1>16
  <1>18. f[N] \in P /\ f[N] \in Stop
    BY <1>1, <1>3, <1>6, <1>8, <1>9, <1>15, <1>17, LoopStops
  <1> QED
    BY <1>2, <1>11, <1>12, <1>18, GreedyAtLast

(***************************************************************************)
(* Of the replacements of a nonce there is a best.                         *)
(***************************************************************************)
LEMMA BestReplacement ==
    ASSUME NEW S, IsFiniteSet(S), S # {},
           \A t \in S : t.score \in Int /\ t.hash \in Int,
           \A t, u \in S : t.hash = u.hash => t = u
    PROVE  Least(S, ReplacedBefore) \in S
  <1> DEFINE R == {p \in S \X S : ReplacedBefore(p[1], p[2])}
  <1>1. \A x, y \in S : <<x, y>> \in R <=> ReplacedBefore(x, y)
    OBVIOUS
  <1>2. \A x, y \in S : x # y => ReplacedBefore(x, y) \/ ReplacedBefore(y, x)
    BY DEF ReplacedBefore
  <1>3. \A x, y, z \in S : ReplacedBefore(x, y) /\ ReplacedBefore(y, z) => ReplacedBefore(x, z)
    BY DEF ReplacedBefore
  <1> HIDE DEF R
  <1>4. \E x \in S : \A y \in S \ {x} : <<x, y>> \in R
    <2>1. \A x, y \in S : x # y => <<x, y>> \in R \/ <<y, x>> \in R
      BY <1>1, <1>2
    <2>2. \A x, y, z \in S : <<x, y>> \in R /\ <<y, z>> \in R => <<x, z>> \in R
      BY <1>1, <1>3
    <2> QED
      BY <2>1, <2>2, FiniteLeast
  <1>5. \E x \in S : \A y \in S \ {x} : ReplacedBefore(x, y)
    BY <1>1, <1>4
  <1> QED
    BY <1>5 DEF Least

(***************************************************************************)
(* What normalizePool leaves of a pool whose hashes tell its transactions  *)
(* apart is what greedySelect takes: one transaction of each nonce.        *)
(***************************************************************************)
LEMMA NormalisedAreChains ==
    ASSUME NEW pool, IsFiniteSet(DOMAIN pool), NEW base, NEW blockGas, NEW rejectOnPartial,
           NEW D, D = {decodeTx(pool[i], base) :
                          i \in DOMAIN pool
                                \ {i \in DOMAIN pool : ~Decodes(pool[i], base, blockGas)}},
           \A t \in D : t.gas \in Nat /\ {t.from, t.nonce, t.score, t.hash} \subseteq Int,
           \A t, u \in D : t.hash = u.hash => t = u
    PROVE  IsChains(normalizePool(pool, base, blockGas, rejectOnPartial).txs)
  <1> DEFINE Of(s) == {t \in D : t.from = s}
             best(s, n) == Least({t \in Of(s) : t.nonce = n}, ReplacedBefore)
             chain(s) == normalizeSenderChains(Of(s), blockGas).chain
             txs == normalizePool(pool, base, blockGas, rejectOnPartial).txs
  <1>1. IsFiniteSet(D)
    <2> DEFINE I == DOMAIN pool \ {i \in DOMAIN pool : ~Decodes(pool[i], base, blockGas)}
    <2>1. IsFiniteSet(I)
      BY FS_Subset
    <2> DEFINE f == [i \in I |-> decodeTx(pool[i], base)]
    <2>2. \A t \in D : \E i \in I : f[i] = t
      OBVIOUS
    <2>3. f \in [I -> D]
      OBVIOUS
    <2> HIDE DEF I, f
    <2>4. f \in Surjection(I, D)
      BY <2>2, <2>3 DEF Surjection
    <2> QED
      BY <2>1, <2>4, FS_Surjection
  <1>2. \A s : \A t \in Of(s) : best(s, t.nonce) \in Of(s) /\ best(s, t.nonce).nonce = t.nonce
    <2> TAKE s
    <2> TAKE t \in Of(s)
    <2> DEFINE S == {u \in Of(s) : u.nonce = t.nonce}
    <2>1. IsFiniteSet(S) /\ S # {} /\ S \subseteq D
      BY <1>1, FS_Subset
    <2>2. (\A u \in S : u.score \in Int /\ u.hash \in Int) /\ \A u, v \in S : u.hash = v.hash => u = v
      OBVIOUS
    <2> HIDE DEF S
    <2>3. Least(S, ReplacedBefore) \in S
      BY <2>1, <2>2, BestReplacement
    <2> QED
      BY <2>3 DEF S
  <1>3. \A s : chain(s) \subseteq {best(s, t.nonce) : t \in Of(s)}
    <2> TAKE s
    <2> DEFINE T == Of(s)
    <2> HIDE DEF T
    <2>1. normalizeSenderChains(T, blockGas).chain
             \subseteq {Least({t \in T : t.nonce = u.nonce}, ReplacedBefore) : u \in T}
      BY DEF normalizeSenderChains
    <2> QED
      BY <2>1 DEF T
  <1>4. txs \subseteq UNION {chain(s) : s \in {t.from : t \in D}}
    <2> DEFINE bad == {i \in DOMAIN pool : ~Decodes(pool[i], base, blockGas)}
               chains == [s \in {t.from : t \in D} |-> normalizeSenderChains(Of(s), blockGas)]
    <2>1. txs = UNION {chains[s].chain : s \in DOMAIN chains}
      BY DEF normalizePool
    <2>2. DOMAIN chains = {t.from : t \in D} /\ \A s \in DOMAIN chains : chains[s].chain = chain(s)
      OBVIOUS
    <2> HIDE DEF txs, chains, chain
    <2>3. \A t \in txs : \E s \in DOMAIN chains : t \in chain(s)
      BY <2>1, <2>2
    <2> QED
      BY <2>2, <2>3
  <1> HIDE DEF txs, chain
  <1>5. \A t \in txs : t \in D /\ t = best(t.from, t.nonce)
    <2> SUFFICES ASSUME NEW t \in txs PROVE t \in D /\ t = best(t.from, t.nonce)
      OBVIOUS
    <2>1. PICK s : t \in chain(s)
      BY <1>4
    <2> HIDE DEF best, Of
    <2>2. PICK u \in Of(s) : t = best(s, u.nonce)
      BY <1>3, <2>1
    <2> USE DEF Of
    <2>3. t \in Of(s) /\ t.nonce = u.nonce
      BY <1>2, <2>2
    <2> QED
      BY <2>2, <2>3
  <1>6. IsFiniteSet(txs)
    BY <1>1, <1>5, FS_Subset
  <1> HIDE DEF best
  <1>7. \A t, u \in txs : t.from = u.from /\ t.nonce = u.nonce => t = u
    BY <1>5
  <1>8. IsChains(txs)
    BY <1>5, <1>6, <1>7 DEF IsChains
  <1> QED
    BY <1>8 DEF txs

-----------------------------------------------------------------------------
(* The txpool builder v2: what selectTransactions takes. *)

V2 == INSTANCE SelectionV2

\* Finitely many transactions whose hashes tell them apart.
Readable(T) ==
    /\ IsFiniteSet(T)
    /\ \A t \in T : t.gas \in Nat /\ {t.nonce, t.score, t.hash} \subseteq Int
    /\ \A t, u \in T : t.hash = u.hash => t = u

(***************************************************************************)
(* Of such transactions one is better than all others.                     *)
(***************************************************************************)
LEMMA BestByV2 ==
    ASSUME NEW S, Readable(S), S # {}
    PROVE  /\ V2!Least(S, V2!compareTx) \in S
           /\ \A y \in S \ {V2!Least(S, V2!compareTx)} : V2!compareTx(V2!Least(S, V2!compareTx), y)
  <1> DEFINE R == {p \in S \X S : V2!compareTx(p[1], p[2])}
  <1>1. \A x, y \in S : <<x, y>> \in R <=> V2!compareTx(x, y)
    OBVIOUS
  <1>2. \A t \in S : t.score \in Int /\ t.gas \in Int /\ t.hash \in Int
    BY DEF Readable
  <1> HIDE DEF R
  <1>3. \A x, y \in S : x # y => <<x, y>> \in R \/ <<y, x>> \in R
    BY <1>1, <1>2 DEF V2!compareTx, Readable
  <1>4. \A x, y, z \in S : <<x, y>> \in R /\ <<y, z>> \in R => <<x, z>> \in R
    <2> SUFFICES ASSUME NEW x \in S, NEW y \in S, NEW z \in S, V2!compareTx(x, y), V2!compareTx(y, z)
                 PROVE  V2!compareTx(x, z)
      BY <1>1
    <2>1. /\ {x.score, y.score, z.score} \subseteq Int /\ {x.gas, y.gas, z.gas} \subseteq Int
          /\ {x.hash, y.hash, z.hash} \subseteq Int
      BY <1>2
    <2> QED
      BY <2>1 DEF V2!compareTx
  <1>5. \A Q \in SUBSET S : Q # {} => \E x \in Q : \A y \in Q \ {x} : <<x, y>> \in R
    BY <1>3, <1>4, FiniteLeast DEF Readable
  <1>6. \E x \in S : \A y \in S \ {x} : V2!compareTx(x, y)
    BY <1>1, <1>5
  <1> QED
    BY <1>6 DEF V2!Least

(***************************************************************************)
(* What the chains are: every transaction has its place in the chain of    *)
(* its sender, and only there.                                             *)
(***************************************************************************)
LEMMA PlacesInChains ==
    ASSUME NEW chains, V2!IsChains(chains)
    PROVE  /\ \A x \in DOMAIN chains :
                 /\ Len(chains[x]) \in Nat
                 /\ V2!Range(chains[x]) = {chains[x][i] : i \in 1..Len(chains[x])}
                 /\ \A i \in 1..Len(chains[x]) : chains[x][i] \in V2!AllOf(chains) /\ chains[x][i].sender = x
                 /\ \A i, j \in 1..Len(chains[x]) : i < j => chains[x][i].nonce < chains[x][j].nonce
           /\ \A t \in V2!AllOf(chains) :
                 /\ t.sender \in DOMAIN chains /\ \E i \in 1..Len(chains[t.sender]) : t = chains[t.sender][i]
                 /\ {t.gas, t.nonce, t.score, t.hash} \subseteq Int /\ t.gas \in Nat
  <1> DEFINE D == DOMAIN chains
             txs == V2!AllOf(chains)
  <1>1. \A x \in D : chains[x] \in Seq(V2!Range(chains[x]))
    BY DEF V2!IsChains
  <1>2. \A x \in D : Len(chains[x]) \in Nat /\ DOMAIN chains[x] = 1..Len(chains[x])
    BY <1>1
  <1>3. \A x \in D : V2!Range(chains[x]) = {chains[x][i] : i \in 1..Len(chains[x])}
    BY <1>2 DEF V2!Range
  <1>4. \A x \in D : \A i \in 1..Len(chains[x]) : chains[x][i] \in txs /\ chains[x][i].sender = x
    BY <1>2, <1>3 DEF V2!IsChains, V2!AllOf
  <1>5. \A x \in D : \A i, j \in 1..Len(chains[x]) : i < j => chains[x][i].nonce < chains[x][j].nonce
    BY <1>2 DEF V2!IsChains
  <1>6. \A t \in txs : t.sender \in D /\ \E i \in 1..Len(chains[t.sender]) : t = chains[t.sender][i]
    <2> TAKE t \in txs
    <2>1. PICK x \in D : t \in V2!Range(chains[x])
      BY DEF V2!AllOf
    <2>2. PICK i \in 1..Len(chains[x]) : t = chains[x][i]
      BY <1>3, <2>1
    <2>3. t.sender = x
      BY <1>4, <2>2
    <2> QED
      BY <2>2, <2>3
  <1>7. \A t \in txs : {t.gas, t.nonce, t.score, t.hash} \subseteq Int /\ t.gas \in Nat
    BY DEF V2!IsChains
  <1> QED
    BY <1>2, <1>3, <1>4, <1>5, <1>6, <1>7

(***************************************************************************)
(* The number of turns is enough for every transaction.                    *)
(***************************************************************************)
LEMMA EnoughTurns ==
    ASSUME NEW chains, V2!IsChains(chains)
    PROVE  LET total == V2!MapThenSumSet(LAMBDA x : Len(chains[x]), DOMAIN chains)
           IN  /\ total \in Nat /\ IsFiniteSet(V2!AllOf(chains))
               /\ Cardinality(V2!AllOf(chains)) \in Nat /\ Cardinality(V2!AllOf(chains)) <= total
  <1> DEFINE D == DOMAIN chains
             total == V2!MapThenSumSet(LAMBDA x : Len(chains[x]), D)
             w == [x \in D |-> Len(chains[x])]
             Of(S) == UNION {V2!Range(chains[x]) : x \in S}
  <1>1. IsFiniteSet(D)
    BY DEF V2!IsChains, V2!IsFiniteSet, IsFiniteSet
  <1>2. \A x \in D : Len(chains[x]) \in Nat /\ V2!Range(chains[x]) = {chains[x][i] : i \in 1..Len(chains[x])}
    BY PlacesInChains
  <1>3. w \in [D -> Nat]
    BY <1>2
  <1>4. PICK g : Sums(g, w, D)
    BY <1>1, <1>3, SumsExist
  <1>5. total = g[D]
    <2> DEFINE Step(f, s) == IF s = {} THEN 0 ELSE Len(chains[Summand(s)]) + f[s \ {Summand(s)}]
               f == CHOOSE f : f = [s \in SUBSET D |-> Step(f, s)]
    <2>1. total = f[D]
      BY DEF V2!MapThenSumSet, V2!MapThenFoldSet, Summand
    <2>2. \A h, s : s \in SUBSET D => Step(h, s) = SumStep(h, w, s)
      <3>1. \A s \in SUBSET D : s # {} => Summand(s) \in D
        BY DEF Summand
      <3> QED
        BY <3>1 DEF SumStep
    <2> DEFINE h == [s \in SUBSET D |-> g[s]]
    <2>3. \A s \in SUBSET D : SumStep(h, w, s) = SumStep(g, w, s)
      BY DEF SumStep, Summand
    <2> HIDE DEF w, Step, D
    <2>4. h = [s \in SUBSET D |-> Step(h, s)]
      BY <1>4, <2>2, <2>3 DEF Sums
    <2> HIDE DEF h
    <2>5. f = [s \in SUBSET D |-> Step(f, s)]
      BY <2>4
    <2> HIDE DEF f
    <2>6. \A s \in SUBSET D : f[s] = SumStep(f, w, s)
      BY <2>2, <2>5
    <2>7. D \in SUBSET D
      OBVIOUS
    <2> HIDE DEF total
    <2> QED
      BY <1>1, <1>4, <2>1, <2>6, <2>7, SumIs
  <1>6. \A x \in D : IsFiniteSet(V2!Range(chains[x])) /\ Cardinality(V2!Range(chains[x])) <= Len(chains[x])
                     /\ Cardinality(V2!Range(chains[x])) \in Nat
    <2> TAKE x \in D
    <2> DEFINE I == 1..Len(chains[x])
               R == V2!Range(chains[x])
               f == [i \in I |-> chains[x][i]]
    <2>1. IsFiniteSet(I) /\ Cardinality(I) = Len(chains[x])
      BY <1>2, FS_Interval
    <2>2. f \in [I -> R] /\ \A r \in R : \E i \in I : f[i] = r
      BY <1>2
    <2> HIDE DEF I, R, f
    <2>3. f \in Surjection(I, R)
      BY <2>2 DEF Surjection
    <2>4. IsFiniteSet(R) /\ Cardinality(R) <= Cardinality(I)
      BY <2>1, <2>3, FS_Surjection
    <2> QED
      BY <2>1, <2>4, FS_CardinalityType DEF R
  <1> DEFINE A == {S \in SUBSET D : IsFiniteSet(Of(S)) /\ Cardinality(Of(S)) <= g[S]}
  <1>7. {} \in A
    <2>1. Of({}) = {} /\ g[{}] = 0
      BY <1>4 DEF Sums, SumStep
    <2> QED
      BY <2>1, FS_EmptySet
  <1>8. ASSUME NEW S \in SUBSET D, S # {}, \A x \in S : S \ {x} \in A
        PROVE  S \in A
    <2>1. PICK x : x \in S
      BY <1>8
    <2> DEFINE B == Of(S \ {x})
               R == V2!Range(chains[x])
    <2>2. Of(S) = B \cup R
      BY <2>1
    <2>3. IsFiniteSet(B) /\ Cardinality(B) <= g[S \ {x}]
      BY <1>8, <2>1
    <2>4. IsFiniteSet(R) /\ Cardinality(R) <= w[x] /\ w[x] \in Nat
      BY <1>3, <1>6, <2>1
    <2>5. g[S] = w[x] + g[S \ {x}] /\ g[S \ {x}] \in Nat
      <3> HIDE DEF w
      <3>1. g[S] = w[x] + g[S \ {x}]
        BY <1>1, <1>4, <2>1, SumWithout
      <3>2. g[S \ {x}] \in Nat
        BY <1>4 DEF Sums
      <3> QED
        BY <3>1, <3>2
    <2> HIDE DEF B, R, Of, w
    <2>6. /\ IsFiniteSet(B \cup R)
          /\ Cardinality(B \cup R) = Cardinality(B) + Cardinality(R) - Cardinality(B \cap R)
      BY <2>3, <2>4, FS_Union
    <2>7. IsFiniteSet(B \cap R)
      BY <2>3, FS_Subset
    <2>8. Cardinality(B) \in Nat /\ Cardinality(R) \in Nat /\ Cardinality(B \cap R) \in Nat
      BY <2>3, <2>4, <2>7, FS_CardinalityType
    <2> DEFINE a == Cardinality(B)
               b == Cardinality(R)
               c == Cardinality(B \cap R)
               d == g[S \ {x}]
               e == w[x]
    <2> HIDE DEF a, b, c, d, e
    <2>9. a + b - c <= e + d
      BY <2>3, <2>4, <2>5, <2>8 DEF a, b, c, d, e
    <2>10. Cardinality(Of(S)) <= g[S] /\ IsFiniteSet(Of(S))
      BY <2>2, <2>5, <2>6, <2>9 DEF a, b, c, d, e
    <2> QED
      BY <2>10
  <1>9. D \in A
    <2> HIDE DEF A
    <2>1. \A S \in SUBSET D : S \in A
      BY <1>1, <1>7, <1>8, SubsetInduction
    <2> QED
      BY <2>1
  <1>10. V2!AllOf(chains) = Of(D)
    BY DEF V2!AllOf
  <1>11. g[D] \in Nat
    BY <1>4 DEF Sums
  <1> HIDE DEF total, w
  <1> QED
    BY <1>5, <1>9, <1>10, <1>11, FS_CardinalityType DEF total

(***************************************************************************)
(* The transactions of the chains are a pool.                              *)
(***************************************************************************)
LEMMA ChainsV2ArePool ==
    ASSUME NEW chains, V2!IsChains(chains)
    PROVE  IsPool(V2!AllOf(chains), V2!Chained(chains))
  <1> DEFINE txs == V2!AllOf(chains)
             C == V2!Chained(chains)
  <1>1. \A t, u \in txs : <<t, u>> \in C <=> t.sender = u.sender /\ t.nonce < u.nonce
    BY DEF V2!Chained
  <1>2. \A t \in txs : t.nonce \in Int /\ t.gas \in Nat
    BY PlacesInChains
  <1>3. IsFiniteSet(txs)
    BY EnoughTurns
  <1> HIDE DEF txs, C
  <1>4. \A t, u, v \in txs : <<t, u>> \in C /\ <<u, v>> \in C => <<t, v>> \in C
    BY <1>1, <1>2
  <1> QED
    BY <1>2, <1>3, <1>4 DEF IsPool, txs, C

(***************************************************************************)
(* The state of selectTransactions as a turn of the greedy selection: a    *)
(* transaction is left while the pointer of its sender has not passed it.  *)
(***************************************************************************)
LeftV2(s, chains) ==
    {t \in V2!AllOf(chains) :
        \E i \in s.next[t.sender]..Len(chains[t.sender]) : t = chains[t.sender][i]}
TurnV2(s, chains) == [selected |-> s.selected, excluded |-> s.rejected, left |-> LeftV2(s, chains)]
HeadsV2(s, chains) == {chains[x][s.next[x]] : x \in {y \in DOMAIN chains : s.next[y] <= Len(chains[y])}}

StatesV2(chains) ==
    [selected : Seq(V2!AllOf(chains)), rejected : SUBSET V2!AllOf(chains),
     next : [DOMAIN chains -> Nat], remaining : Int]

GreedyV2(s, chains, maxTx, maxGas) ==
    /\ s \in StatesV2(chains)
    /\ \A x \in DOMAIN chains : s.next[x] \in 1..(Len(chains[x]) + 1)
    /\ s.remaining = maxGas - GasOf(First(TurnV2(s, chains), Len(s.selected)))
    /\ GreedySoFar(TurnV2(s, chains), V2!AllOf(chains), V2!Chained(chains), V2!Ranked(chains), maxTx, maxGas)

(***************************************************************************)
(* Where the heads are, and what is left.                                  *)
(***************************************************************************)
LEMMA HeadsAreLeft ==
    ASSUME NEW chains, V2!IsChains(chains), NEW s,
           \A x \in DOMAIN chains : s.next[x] \in 1..(Len(chains[x]) + 1)
    PROVE  /\ \A h \in HeadsV2(s, chains) :
                 \E x \in DOMAIN chains : s.next[x] \in 1..Len(chains[x]) /\ h = chains[x][s.next[x]]
           /\ \A x \in DOMAIN chains :
                 s.next[x] \in 1..Len(chains[x]) => chains[x][s.next[x]] \in HeadsV2(s, chains)
           /\ \A x \in DOMAIN chains : \A i \in s.next[x]..Len(chains[x]) :
                 i \in 1..Len(chains[x]) /\ chains[x][i] \in LeftV2(s, chains)
           /\ \A x \in DOMAIN chains :
                 s.next[x] \in Nat /\ (~(s.next[x] > Len(chains[x])) => s.next[x] \in 1..Len(chains[x]))
           /\ HeadsV2(s, chains) \subseteq V2!AllOf(chains)
  <1> DEFINE D == DOMAIN chains
             txs == V2!AllOf(chains)
             H == HeadsV2(s, chains)
  <1>1. \A x \in D : /\ Len(chains[x]) \in Nat
                     /\ \A i \in 1..Len(chains[x]) : chains[x][i] \in txs /\ chains[x][i].sender = x
    BY PlacesInChains
  <1>2. \A x \in D : s.next[x] \in Nat /\ (~(s.next[x] > Len(chains[x])) => s.next[x] \in 1..Len(chains[x]))
    BY <1>1
  <1>3. \A h \in H : \E x \in D : s.next[x] \in 1..Len(chains[x]) /\ h = chains[x][s.next[x]]
    BY <1>1, <1>2 DEF HeadsV2
  <1>4. \A x \in D : s.next[x] \in 1..Len(chains[x]) => chains[x][s.next[x]] \in H
    BY <1>1 DEF HeadsV2
  <1>5. \A x \in D : \A i \in s.next[x]..Len(chains[x]) :
            i \in 1..Len(chains[x]) /\ chains[x][i] \in LeftV2(s, chains)
    <2> SUFFICES ASSUME NEW x \in D, NEW i \in s.next[x]..Len(chains[x])
                 PROVE  i \in 1..Len(chains[x]) /\ chains[x][i] \in LeftV2(s, chains)
      OBVIOUS
    <2>1. i \in 1..Len(chains[x])
      BY <1>1
    <2>2. chains[x][i] \in txs /\ chains[x][i].sender = x
      BY <1>1, <2>1
    <2> QED
      BY <2>1, <2>2 DEF LeftV2
  <1>6. H \subseteq txs
    <2> SUFFICES ASSUME NEW h \in H PROVE h \in txs
      OBVIOUS
    <2>1. PICK x \in D : s.next[x] \in 1..Len(chains[x]) /\ h = chains[x][s.next[x]]
      BY <1>3
    <2> QED
      BY <1>1, <2>1
  <1> QED
    BY <1>2, <1>3, <1>4, <1>5, <1>6

\* The best of the heads.
IsBestHead(best, s, chains) ==
    /\ best \in HeadsV2(s, chains)
    /\ \A y \in HeadsV2(s, chains) \ {best} : V2!compareTx(best, y)

(***************************************************************************)
(* While a chain is not at its end there is a best head.                   *)
(***************************************************************************)
LEMMA BestHeadExists ==
    ASSUME NEW chains, V2!IsChains(chains), NEW s,
           \A x \in DOMAIN chains : s.next[x] \in 1..(Len(chains[x]) + 1),
           \E x \in DOMAIN chains : ~(s.next[x] > Len(chains[x]))
    PROVE  IsBestHead(V2!Least(HeadsV2(s, chains), V2!compareTx), s, chains)
  <1> DEFINE H == HeadsV2(s, chains)
  <1>1. H # {} /\ H \subseteq V2!AllOf(chains)
    BY HeadsAreLeft
  <1>2. IsFiniteSet(H)
    BY <1>1, EnoughTurns, FS_Subset
  <1>3. /\ \A t \in V2!AllOf(chains) : t.gas \in Nat /\ {t.nonce, t.score, t.hash} \subseteq Int
        /\ \A t, u \in V2!AllOf(chains) : t.hash = u.hash => t = u
    BY DEF V2!IsChains
  <1> HIDE DEF H
  <1>4. Readable(H)
    BY <1>1, <1>2, <1>3 DEF Readable
  <1> QED
    BY <1>1, <1>4, BestByV2 DEF IsBestHead, H

\* The sender it is the head of.
IsHeadOf(best, s, chains, x) ==
    x \in DOMAIN chains /\ s.next[x] <= Len(chains[x]) /\ chains[x][s.next[x]] = best

(***************************************************************************)
(* The best head is at the pointer of its sender, and it is next.          *)
(***************************************************************************)
LEMMA BestHeadIsNext ==
    ASSUME NEW chains, V2!IsChains(chains), NEW s,
           \A x \in DOMAIN chains : s.next[x] \in 1..(Len(chains[x]) + 1),
           NEW best, IsBestHead(best, s, chains), NEW from, IsHeadOf(best, s, chains, from)
    PROVE  /\ from \in DOMAIN chains /\ s.next[from] \in 1..Len(chains[from])
           /\ best = chains[from][s.next[from]] /\ best \in V2!AllOf(chains) /\ best.sender = from
           /\ IsNext(best, LeftV2(s, chains), V2!Chained(chains), V2!Ranked(chains))
  <1> DEFINE D == DOMAIN chains
             txs == V2!AllOf(chains)
             left == LeftV2(s, chains)
             H == HeadsV2(s, chains)
  <1>1. \A t \in txs : t.nonce \in Int /\ t.score \in Int /\ t.gas \in Int /\ t.hash \in Int
    BY PlacesInChains
  <1>2. \A x \in D : /\ Len(chains[x]) \in Nat
                     /\ \A i \in 1..Len(chains[x]) : chains[x][i] \in txs /\ chains[x][i].sender = x
                     /\ \A i, j \in 1..Len(chains[x]) : i < j => chains[x][i].nonce < chains[x][j].nonce
    BY PlacesInChains
  <1>3. \A t \in txs : t.sender \in D
    BY PlacesInChains
  <1>4. \A h \in H : \E x \in D : s.next[x] \in 1..Len(chains[x]) /\ h = chains[x][s.next[x]]
    BY HeadsAreLeft
  <1>5. \A x \in D : s.next[x] \in 1..Len(chains[x]) => chains[x][s.next[x]] \in H
    BY HeadsAreLeft
  <1>6. \A t \in left : t \in txs /\ \E i \in s.next[t.sender]..Len(chains[t.sender]) : t = chains[t.sender][i]
    BY DEF LeftV2
  <1>7. \A x \in D : \A i \in s.next[x]..Len(chains[x]) : i \in 1..Len(chains[x]) /\ chains[x][i] \in left
    BY HeadsAreLeft
  <1>8. \A x \in D : s.next[x] \in Nat /\ (~(s.next[x] > Len(chains[x])) => s.next[x] \in 1..Len(chains[x]))
    BY HeadsAreLeft
  <1>9. best \in H /\ \A y \in H \ {best} : V2!compareTx(best, y)
    BY DEF IsBestHead
  <1> HIDE DEF D, txs, left, H
  <1>10. from \in D /\ s.next[from] \in 1..Len(chains[from]) /\ best = chains[from][s.next[from]]
    <2>1. \A x \in D : s.next[x] <= Len(chains[x]) => s.next[x] \in 1..Len(chains[x])
      BY <1>2, <1>8
    <2> QED
      BY <2>1 DEF IsHeadOf, D
  <1>11. best \in txs /\ best.sender = from
    BY <1>2, <1>10
  <1> DEFINE n == s.next[from]
  <1>12. n \in n..Len(chains[from]) /\ n \in Nat
    <2>1. n \in 1..Len(chains[from]) /\ Len(chains[from]) \in Nat
      BY <1>2, <1>10
    <2> HIDE DEF n
    <2> QED
      BY <2>1
  <1>13. best \in left
    BY <1>7, <1>10, <1>12
  <1>14. ASSUME NEW t \in left
         PROVE  <<t, best>> \notin V2!Chained(chains)
    <2> SUFFICES ASSUME t.sender = from, t.nonce < best.nonce PROVE FALSE
      BY <1>11 DEF V2!Chained
    <2>1. PICK i \in n..Len(chains[from]) : t = chains[from][i]
      BY <1>6
    <2>2. i \in 1..Len(chains[from]) /\ (i = n \/ n < i)
      BY <1>2, <1>7, <1>10, <1>12, <2>1
    <2>3. best.nonce = t.nonce \/ best.nonce < t.nonce
      BY <1>2, <1>10, <2>1, <2>2
    <2>4. t \in txs
      BY <1>6
    <2> QED
      BY <1>1, <1>11, <2>3, <2>4
  <1>15. ASSUME NEW t \in left, <<t, best>> \in V2!Ranked(chains)
         PROVE  \E u \in left : <<u, t>> \in V2!Chained(chains)
    <2>1. t \in txs /\ V2!compareTx(t, best)
      BY <1>6, <1>15 DEF V2!Ranked
    <2>2. t \notin H
      <3> SUFFICES ASSUME t \in H PROVE FALSE
        OBVIOUS
      <3>1. t # best
        BY <1>1, <1>11, <2>1 DEF V2!compareTx
      <3>2. V2!compareTx(best, t)
        BY <1>9, <3>1
      <3> QED
        BY <1>1, <1>11, <2>1, <3>2 DEF V2!compareTx
    <2> DEFINE x == t.sender
               u == chains[x][s.next[x]]
    <2>3. x \in D
      BY <1>3, <2>1
    <2>4. PICK i \in s.next[x]..Len(chains[x]) : t = chains[x][i]
      BY <1>6
    <2>5. i \in 1..Len(chains[x])
      BY <1>7, <2>3, <2>4
    <2>6. s.next[x] \in 1..Len(chains[x]) /\ s.next[x] \in s.next[x]..Len(chains[x])
      BY <1>2, <1>8, <2>3, <2>4, <2>5
    <2>7. s.next[x] < i
      <3>1. s.next[x] # i
        BY <1>5, <2>2, <2>3, <2>4, <2>6
      <3> QED
        BY <2>4, <2>5, <2>6, <3>1
    <2>8. u \in left /\ u \in txs /\ u.sender = x
      BY <1>2, <1>7, <2>3, <2>6
    <2>9. u.nonce < t.nonce
      BY <1>2, <2>3, <2>4, <2>5, <2>6, <2>7
    <2>10. <<u, t>> \in V2!Chained(chains)
      BY <2>1, <2>8, <2>9 DEF V2!Chained, txs
    <2> QED
      BY <2>8, <2>10
  <1> QED
    BY <1>10, <1>11, <1>13, <1>14, <1>15 DEF IsNext, D, txs, left

IsPop(s2, s, chains, best, from) ==
    /\ IsBestHead(best, s, chains) /\ IsHeadOf(best, s, chains, from)
    /\ best.gas > s.remaining =>
          s2 = [s EXCEPT !.rejected = @ \cup {best}, !.next[from] = Len(chains[from]) + 1]
    /\ ~(best.gas > s.remaining) =>
          s2 = [s EXCEPT !.selected = Append(@, best), !.remaining = @ - best.gas, !.next[from] = @ + 1]

(***************************************************************************)
(* What Pop does, when the best head fits and when it does not.            *)
(***************************************************************************)
LEMMA PopDoes ==
    ASSUME NEW chains, V2!IsChains(chains), NEW s \in StatesV2(chains),
           \A x \in DOMAIN chains : s.next[x] \in 1..(Len(chains[x]) + 1),
           \E x \in DOMAIN chains : ~(s.next[x] > Len(chains[x]))
    PROVE  \E best, from : IsPop(V2!Pop(s, chains), s, chains, best, from)
  <1> DEFINE best == V2!Least(HeadsV2(s, chains), V2!compareTx)
  <1>1. IsBestHead(best, s, chains)
    BY BestHeadExists
  <1> DEFINE from == CHOOSE x \in DOMAIN chains : s.next[x] <= Len(chains[x]) /\ chains[x][s.next[x]] = best
  <1>2. IsHeadOf(best, s, chains, from)
    <2>1. \E x \in DOMAIN chains : s.next[x] <= Len(chains[x]) /\ chains[x][s.next[x]] = best
      <3>1. best \in HeadsV2(s, chains)
        BY <1>1 DEF IsBestHead
      <3> QED
        BY <3>1 DEF HeadsV2
    <2> QED
      BY <2>1 DEF IsHeadOf
  <1>3. V2!Pop(s, chains) =
            IF best.gas > s.remaining
            THEN [s EXCEPT !.rejected = @ \cup {best}, !.next[from] = Len(chains[from]) + 1]
            ELSE [s EXCEPT !.selected = Append(@, best), !.remaining = @ - best.gas, !.next[from] = @ + 1]
    BY DEF V2!Pop, HeadsV2
  <1> HIDE DEF from, best
  <1> QED
    BY <1>1, <1>2, <1>3 DEF IsPop

(***************************************************************************)
(* A turn takes the next one or leaves out what it is before of; after it  *)
(* fewer are left.                                                         *)
(***************************************************************************)
LEMMA PopKeepsGreedy ==
    ASSUME NEW chains, V2!IsChains(chains), NEW maxTx \in Nat, NEW maxGas \in Nat,
           NEW s, GreedyV2(s, chains, maxTx, maxGas), Len(s.selected) < maxTx,
           \E x \in DOMAIN chains : ~(s.next[x] > Len(chains[x]))
    PROVE  /\ GreedyV2(V2!Pop(s, chains), chains, maxTx, maxGas)
           /\ LeftV2(V2!Pop(s, chains), chains) \subseteq LeftV2(s, chains)
           /\ LeftV2(V2!Pop(s, chains), chains) # LeftV2(s, chains)
  <1> DEFINE D == DOMAIN chains
             txs == V2!AllOf(chains)
             C == V2!Chained(chains)
             B == V2!Ranked(chains)
             v == TurnV2(s, chains)
             len == Len(s.selected)
  <1>1. /\ s \in StatesV2(chains) /\ \A x \in D : s.next[x] \in 1..(Len(chains[x]) + 1)
        /\ s.remaining = maxGas - GasOf(First(v, len)) /\ GreedySoFar(v, txs, C, B, maxTx, maxGas)
    BY DEF GreedyV2
  <1>2. PICK best, from : IsPop(V2!Pop(s, chains), s, chains, best, from)
    BY <1>1, PopDoes
  <1>3. /\ IsBestHead(best, s, chains) /\ IsHeadOf(best, s, chains, from)
        /\ best.gas > s.remaining =>
                    V2!Pop(s, chains) = [s EXCEPT !.rejected = @ \cup {best},
                                                  !.next[from] = Len(chains[from]) + 1]
        /\ ~(best.gas > s.remaining) =>
                    V2!Pop(s, chains) = [s EXCEPT !.selected = Append(@, best),
                                                  !.remaining = @ - best.gas,
                                                  !.next[from] = @ + 1]
    BY <1>2 DEF IsPop
  <1>4. /\ from \in D /\ s.next[from] \in 1..Len(chains[from]) /\ best = chains[from][s.next[from]]
        /\ best \in txs /\ best.sender = from /\ IsNext(best, LeftV2(s, chains), C, B)
    BY <1>1, <1>3, BestHeadIsNext
  <1>5. \A x \in D : /\ Len(chains[x]) \in Nat
                     /\ \A i, j \in 1..Len(chains[x]) : i < j => chains[x][i].nonce < chains[x][j].nonce
    BY PlacesInChains
  <1>6. \A t \in txs : t.sender \in D /\ t.nonce \in Int /\ t.gas \in Nat
    BY PlacesInChains
  <1>7. IsPool(txs, C)
    BY ChainsV2ArePool
  <1>8. /\ v \in Turns(txs) /\ v.selected = s.selected /\ v.excluded = s.rejected
        /\ v.left = LeftV2(s, chains)
    BY <1>1 DEF GreedySoFar, TurnV2
  <1>9. len \in Nat /\ GasOf(First(v, len)) \in Nat /\ First(v, len) \in SUBSET txs
    BY <1>7, <1>8, FirstIs
  <1>10. Fits(best, v, len, maxGas) <=> ~(best.gas > s.remaining)
    <2> DEFINE a == GasOf(First(v, len))
    <2>1. a \in Nat /\ best.gas \in Nat /\ s.remaining = maxGas - a
      BY <1>1, <1>4, <1>6, <1>9
    <2>2. Fits(best, v, len, maxGas) <=> a + best.gas <= maxGas
      BY DEF Fits
    <2> HIDE DEF a
    <2> QED
      BY <2>1, <2>2
  <1>11. /\ s.selected \in Seq(txs) /\ s.rejected \in SUBSET txs /\ s.next \in [D -> Nat]
         /\ s.remaining \in Int
    BY <1>1 DEF StatesV2
  <1>12. \A t \in LeftV2(s, chains) :
             t \in txs /\ \E i \in s.next[t.sender]..Len(chains[t.sender]) : t = chains[t.sender][i]
    BY DEF LeftV2
  <1>13. best \in LeftV2(s, chains)
    BY <1>4 DEF IsNext
  <1>14. \A t, u \in txs : <<t, u>> \in C <=> t.sender = u.sender /\ t.nonce < u.nonce
    BY DEF V2!Chained
  <1> DEFINE n == s.next[from]
             m == Len(chains[from])
  <1>15. n \in Nat /\ m \in Nat /\ n \in 1..m
    BY <1>4, <1>5
  <1>16. \A i \in n..m : i \in 1..m
    BY <1>15
  <1>17. CASE best.gas > s.remaining
    <2> DEFINE s2 == [s EXCEPT !.rejected = s.rejected \cup {best},
                               !.next = [s.next EXCEPT ![from] = m + 1]]
    <2>1. V2!Pop(s, chains) = s2
      BY <1>3, <1>17
    <2>2. /\ s2 \in StatesV2(chains) /\ s2.selected = s.selected /\ s2.rejected = s.rejected \cup {best}
          /\ s2.remaining = s.remaining /\ s2.next = [s.next EXCEPT ![from] = m + 1]
      <3>1. s.rejected \cup {best} \in SUBSET txs /\ [s.next EXCEPT ![from] = m + 1] \in [D -> Nat]
        BY <1>4, <1>11, <1>15
      <3> QED
        BY <1>1, <3>1 DEF StatesV2
    <2> HIDE DEF s2
    <2>3. \A x \in D : s2.next[x] = IF x = from THEN m + 1 ELSE s.next[x]
      BY <1>11, <2>2
    <2>4. \A x \in D : s2.next[x] \in 1..(Len(chains[x]) + 1)
      <3>1. m + 1 \in 1..(m + 1)
        BY <1>15
      <3> QED
        BY <1>1, <2>3, <3>1
    <2>5. LeftV2(s2, chains) = {t \in LeftV2(s, chains) : t # best /\ <<best, t>> \notin C}
      <3>1. ASSUME NEW t \in LeftV2(s2, chains)
            PROVE  t \in LeftV2(s, chains) /\ t # best /\ <<best, t>> \notin C
        <4>1. t \in txs
          BY DEF LeftV2
        <4>2. PICK i \in s2.next[t.sender]..Len(chains[t.sender]) : t = chains[t.sender][i]
          BY DEF LeftV2
        <4>3. t.sender # from
          BY <1>6, <1>15, <2>3, <4>1, <4>2
        <4>4. t \in LeftV2(s, chains)
          BY <1>6, <2>3, <4>1, <4>2, <4>3 DEF LeftV2
        <4> QED
          BY <1>4, <1>14, <4>1, <4>3, <4>4
      <3>2. ASSUME NEW t \in LeftV2(s, chains), t # best, <<best, t>> \notin C
            PROVE  t \in LeftV2(s2, chains)
        <4>1. t \in txs
          BY <1>12
        <4>2. PICK i \in s.next[t.sender]..Len(chains[t.sender]) : t = chains[t.sender][i]
          BY <1>12
        <4>3. t.sender # from
          <5> SUFFICES ASSUME t.sender = from PROVE FALSE
            OBVIOUS
          <5>1. i \in n..m /\ i \in 1..m /\ t = chains[from][i]
            BY <1>16, <4>2
          <5>2. i # n
            BY <1>4, <3>2, <5>1
          <5>3. n < i
            BY <1>15, <5>1, <5>2
          <5>4. best.nonce < t.nonce
            BY <1>4, <1>5, <1>15, <5>1, <5>3
          <5> QED
            BY <1>4, <1>14, <3>2, <4>1, <5>4
        <4> QED
          BY <1>6, <2>3, <4>1, <4>2, <4>3 DEF LeftV2
      <3> QED
        BY <3>1, <3>2
    <2> DEFINE v2 == TurnV2(s2, chains)
    <2>6. /\ v2 \in Turns(txs) /\ v2.selected = v.selected /\ v2.excluded = v.excluded \cup {best}
          /\ v2.left = {t \in v.left : t # best /\ <<best, t>> \notin C}
      BY <1>4, <1>8, <1>11, <1>12, <2>2, <2>5 DEF TurnV2, Turns
    <2>7. GasOf(First(v2, Len(s2.selected))) = GasOf(First(v, len))
      BY <1>8, <2>2, <2>6 DEF First
    <2> HIDE DEF v, v2
    <2>8. GreedySoFar(v2, txs, C, B, maxTx, maxGas)
      <3>1. ~Fits(best, v, Len(v.selected), maxGas) /\ IsNext(best, v.left, C, B)
        BY <1>4, <1>8, <1>10, <1>17
      <3> HIDE DEF txs, C, B
      <3> QED
        BY <1>1, <1>7, <2>6, <3>1, LeaveOutKeepsGreedy
    <2>9. GreedyV2(s2, chains, maxTx, maxGas)
      BY <1>1, <2>2, <2>4, <2>7, <2>8 DEF GreedyV2, v2
    <2> QED
      BY <1>13, <2>1, <2>5, <2>9
  <1>18. CASE ~(best.gas > s.remaining)
    <2> DEFINE q == Append(s.selected, best)
               s2 == [s EXCEPT !.selected = q, !.remaining = s.remaining - best.gas,
                               !.next = [s.next EXCEPT ![from] = n + 1]]
    <2>1. V2!Pop(s, chains) = s2
      BY <1>3, <1>18
    <2>2. q \in Seq(txs)
      BY <1>4, <1>11
    <2> HIDE DEF q
    <2>3. /\ s2.selected = q /\ s2.rejected = s.rejected /\ s2.remaining = s.remaining - best.gas
          /\ s2.next = [s.next EXCEPT ![from] = n + 1]
      BY <1>1 DEF StatesV2
    <2>4. \A x \in D : s2.next[x] = IF x = from THEN n + 1 ELSE s.next[x]
      BY <1>11, <2>3
    <2>5. s2 \in StatesV2(chains)
      <3>1. s.remaining - best.gas \in Int
        <4>1. best.gas \in Nat /\ s.remaining \in Int
          BY <1>4, <1>6, <1>11
        <4> QED
          BY <4>1
      <3>2. n + 1 \in Nat
        BY <1>15
      <3>3. [s.next EXCEPT ![from] = n + 1] \in [D -> Nat]
        <4> DEFINE k == n + 1
        <4> HIDE DEF k
        <4> QED
          BY <1>11, <3>2 DEF k
      <3> QED
        BY <1>1, <2>2, <3>1, <3>3 DEF StatesV2
    <2> HIDE DEF s2
    <2>6. \A x \in D : s2.next[x] \in 1..(Len(chains[x]) + 1)
      <3>1. n + 1 \in 1..(m + 1)
        BY <1>15
      <3> QED
        BY <1>1, <2>4, <3>1
    <2>7. LeftV2(s2, chains) = LeftV2(s, chains) \ {best}
      <3>1. ASSUME NEW t \in LeftV2(s2, chains)
            PROVE  t \in LeftV2(s, chains) /\ t # best
        <4>1. t \in txs
          BY DEF LeftV2
        <4>2. PICK i \in s2.next[t.sender]..Len(chains[t.sender]) : t = chains[t.sender][i]
          BY DEF LeftV2
        <4>3. CASE t.sender # from
          <5>1. t \in LeftV2(s, chains)
            BY <1>6, <2>4, <4>1, <4>2, <4>3 DEF LeftV2
          <5> QED
            BY <1>4, <4>3, <5>1
        <4>4. CASE t.sender = from
          <5>1. i \in (n + 1)..m /\ t = chains[from][i]
            BY <1>4, <2>4, <4>2, <4>4
          <5>2. i \in n..m /\ i \in 1..m /\ n < i
            BY <1>15, <5>1
          <5>3. best.nonce < t.nonce
            BY <1>4, <1>5, <1>15, <5>1, <5>2
          <5>4. t # best
            BY <1>4, <1>6, <5>3
          <5> QED
            BY <4>1, <4>4, <5>1, <5>2, <5>4 DEF LeftV2
        <4> QED
          BY <4>3, <4>4
      <3>2. ASSUME NEW t \in LeftV2(s, chains), t # best
            PROVE  t \in LeftV2(s2, chains)
        <4>1. t \in txs
          BY <1>12
        <4>2. PICK i \in s.next[t.sender]..Len(chains[t.sender]) : t = chains[t.sender][i]
          BY <1>12
        <4>3. CASE t.sender # from
          BY <1>6, <2>4, <4>1, <4>2, <4>3 DEF LeftV2
        <4>4. CASE t.sender = from
          <5>1. i \in n..m /\ t = chains[from][i]
            BY <4>2, <4>4
          <5>2. i # n
            BY <1>4, <3>2, <5>1
          <5>3. i \in (n + 1)..m
            BY <1>15, <5>1, <5>2
          <5>4. s2.next[from] = n + 1
            BY <1>4, <2>4
          <5> QED
            BY <4>1, <4>4, <5>1, <5>3, <5>4 DEF LeftV2
        <4> QED
          BY <4>3, <4>4
      <3> QED
        BY <3>1, <3>2
    <2> DEFINE v2 == TurnV2(s2, chains)
    <2>8. /\ v2 \in Turns(txs) /\ v2.selected = Append(v.selected, best) /\ v2.excluded = v.excluded
          /\ v2.left = v.left \ {best}
      <3>1. v2.selected = Append(v.selected, best) /\ v2.excluded = v.excluded /\ v2.left = v.left \ {best}
        BY <1>8, <2>3, <2>7 DEF TurnV2, q
      <3>2. v2 \in Turns(txs)
        BY <1>11, <1>12, <2>2, <2>3, <2>7 DEF TurnV2, Turns
      <3> QED
        BY <3>1, <3>2
    <2> HIDE DEF v, v2
    <2>9. Len(s2.selected) = len + 1 /\ First(v2, len + 1) = First(v, len) \cup {best}
      <3>1. v2.selected = s2.selected
        BY <1>8, <2>3, <2>8 DEF q
      <3>2. Len(v2.selected) = len + 1 /\ First(v2, len + 1) = First(v, len) \cup {best}
        <4>1. v \in Turns(txs) /\ v2 \in Turns(txs) /\ best \in txs
              /\ v2.selected = Append(v.selected, best) /\ len = Len(v.selected)
          BY <1>4, <1>8, <2>8
        <4> HIDE DEF txs, len, n, m, C, B
        <4> QED
          BY <4>1, FirstOfAppend
      <3> QED
        BY <3>1, <3>2
    <2>10. best \notin First(v, len)
      BY <1>1, <1>8, <1>13 DEF GreedySoFar, SelectedIsGone, First
    <2>11. GasOf(First(v, len) \cup {best}) = GasOf(First(v, len)) + best.gas
      <3>1. \A S \in SUBSET txs : \A y \in txs \ S : GasOf(S \cup {y}) = GasOf(S) + y.gas
        BY <1>7, GasOfOneMore DEF IsPool
      <3> DEFINE S == First(v, len)
      <3>2. S \in SUBSET txs /\ best \in txs \ S
        BY <1>4, <1>9, <2>10
      <3> HIDE DEF S, txs
      <3> QED
        BY <3>1, <3>2 DEF S
    <2>12. s2.remaining = maxGas - GasOf(First(v2, Len(s2.selected)))
      <3> DEFINE a == GasOf(First(v, len))
      <3>1. s2.remaining = (maxGas - a) - best.gas /\ GasOf(First(v2, Len(s2.selected))) = a + best.gas
        BY <1>1, <2>3, <2>9, <2>11
      <3>2. a \in Nat /\ best.gas \in Nat
        BY <1>4, <1>6, <1>9
      <3> HIDE DEF a
      <3> QED
        BY <3>1, <3>2
    <2>13. GreedySoFar(v2, txs, C, B, maxTx, maxGas)
      <3>1. /\ Fits(best, v, Len(v.selected), maxGas) /\ IsNext(best, v.left, C, B)
            /\ Len(v.selected) < maxTx
        BY <1>4, <1>8, <1>10, <1>18
      <3> HIDE DEF txs, C, B
      <3> QED
        BY <1>1, <1>7, <2>8, <3>1, TakeKeepsGreedy
    <2>14. GreedyV2(s2, chains, maxTx, maxGas)
      BY <2>5, <2>6, <2>12, <2>13 DEF GreedyV2, v2
    <2> QED
      BY <1>13, <2>1, <2>7, <2>14
  <1> QED
    BY <1>17, <1>18

(***************************************************************************)
(* Whatever chains and limits selectTransactions is given, it ends with a  *)
(* selection that keeps both limits and the order of every sender's        *)
(* nonces, takes the best that fits each time, and leaves out only what    *)
(* does not fit or comes after such a one.                                 *)
(***************************************************************************)
THEOREM SelectionV2AlwaysGreedy ==
    ASSUME NEW chains, V2!IsChains(chains), NEW maxGas \in Nat, NEW maxTx \in Nat
    PROVE  LET s == V2!selectTransactions(chains, maxGas, maxTx)
           IN  IsGreedy([selected |-> s.selected, excluded |-> s.rejected], V2!AllOf(chains),
                        V2!Chained(chains), V2!Ranked(chains), maxTx, V2!Budget(maxGas))
  <1> DEFINE D == DOMAIN chains
             G == V2!Budget(maxGas)
             N == V2!MapThenSumSet(LAMBDA x : Len(chains[x]), D)
             start == [selected |-> << >>, rejected |-> {}, next |-> [x \in D |-> 1],
                       remaining |-> G]
             P == {s \in StatesV2(chains) : GreedyV2(s, chains, maxTx, G)}
             Stop == {s \in P : Len(s.selected) >= maxTx \/ \A x \in D : s.next[x] > Len(chains[x])}
             step == [s \in P |-> IF s \in Stop THEN s ELSE V2!Pop(s, chains)]
             m == [s \in P |-> Cardinality(LeftV2(s, chains))]
             F(g, n) == IF n = 0 THEN start
                        ELSE IF Len(g[n - 1].selected) >= maxTx
                                \/ \A x \in D : g[n - 1].next[x] > Len(chains[x]) THEN g[n - 1]
                             ELSE V2!Pop(g[n - 1], chains)
             f == CHOOSE g : g = [n \in 0..N |-> F(g, n)]
  <1>1. /\ N \in Nat /\ IsFiniteSet(V2!AllOf(chains))
        /\ Cardinality(V2!AllOf(chains)) \in Nat /\ Cardinality(V2!AllOf(chains)) <= N
    BY EnoughTurns
  <1>2. \A s : s \in P <=> GreedyV2(s, chains, maxTx, G)
    BY DEF GreedyV2
  <1>3. G \in Nat
    BY DEF V2!Budget, V2!Unlimited
  <1>4. start \in P /\ LeftV2(start, chains) = V2!AllOf(chains)
    <2>1. start \in StatesV2(chains)
      <3>1. << >> \in Seq(V2!AllOf(chains)) /\ [x \in D |-> 1] \in [D -> Nat] /\ G \in Int
        BY <1>3
      <3> HIDE DEF G
      <3> QED
        BY <3>1 DEF StatesV2
    <2>2. start.selected = << >> /\ start.rejected = {} /\ start.remaining = G
          /\ \A x \in D : start.next[x] = 1
      OBVIOUS
    <2> HIDE DEF start, G
    <2>3. \A x \in D : start.next[x] \in 1..(Len(chains[x]) + 1)
      BY <2>2, PlacesInChains
    <2>4. LeftV2(start, chains) = V2!AllOf(chains)
      <3>1. \A t \in V2!AllOf(chains) :
                t.sender \in D /\ \E i \in 1..Len(chains[t.sender]) : t = chains[t.sender][i]
        BY PlacesInChains
      <3>2. \A t \in V2!AllOf(chains) : t \in LeftV2(start, chains)
        BY <2>2, <3>1 DEF LeftV2
      <3> QED
        BY <3>2 DEF LeftV2
    <2> DEFINE v == TurnV2(start, chains)
    <2>5. /\ v \in Turns(V2!AllOf(chains)) /\ v.selected = << >> /\ v.excluded = {}
          /\ v.left = V2!AllOf(chains)
      BY <2>2, <2>4 DEF TurnV2, Turns
    <2> HIDE DEF v
    <2>6. GreedySoFar(v, V2!AllOf(chains), V2!Chained(chains), V2!Ranked(chains), maxTx, G)
      BY <1>3, <2>5, GreedyAtFirst, ChainsV2ArePool
    <2>7. start.remaining = G - GasOf(First(v, Len(start.selected)))
      <3>1. First(v, Len(start.selected)) = {}
        BY <2>2 DEF First
      <3>2. GasOf({}) = 0
        BY GasOfOneMore, ChainsV2ArePool DEF IsPool
      <3> DEFINE a == GasOf(First(v, Len(start.selected)))
      <3>3. a = 0
        BY <3>1, <3>2
      <3> HIDE DEF a
      <3>4. G = G - a
        BY <1>3, <3>3
      <3> QED
        BY <2>2, <3>4 DEF a
    <2>8. GreedyV2(start, chains, maxTx, G)
      BY <2>1, <2>3, <2>6, <2>7 DEF GreedyV2, v
    <2> QED
      BY <1>2, <2>4, <2>8
  <1>5. \A s \in P : Len(s.selected) \in Nat /\ IsFiniteSet(LeftV2(s, chains))
                     /\ Cardinality(LeftV2(s, chains)) \in Nat
    <2>1. \A s \in P : Len(s.selected) \in Nat /\ LeftV2(s, chains) \in SUBSET V2!AllOf(chains)
      BY DEF StatesV2, LeftV2
    <2> QED
      BY <1>1, <2>1, FS_Subset, FS_CardinalityType
  <1>6. ASSUME NEW s \in P, s \notin Stop
        PROVE  /\ V2!Pop(s, chains) \in P
               /\ Cardinality(LeftV2(V2!Pop(s, chains), chains)) < Cardinality(LeftV2(s, chains))
    <2>1. (\E x \in D : ~(s.next[x] > Len(chains[x]))) /\ Len(s.selected) < maxTx
      BY <1>5, <1>6
    <2>2. /\ GreedyV2(V2!Pop(s, chains), chains, maxTx, G)
          /\ LeftV2(V2!Pop(s, chains), chains) \subseteq LeftV2(s, chains)
          /\ LeftV2(V2!Pop(s, chains), chains) # LeftV2(s, chains)
      BY <1>2, <1>3, <2>1, PopKeepsGreedy
    <2> DEFINE L == LeftV2(s, chains)
               L2 == LeftV2(V2!Pop(s, chains), chains)
    <2>3. IsFiniteSet(L) /\ L2 \subseteq L /\ L2 # L
      BY <1>5, <2>2
    <2> HIDE DEF L, L2
    <2>4. Cardinality(L2) < Cardinality(L)
      BY <2>3, FS_CardinalityType, FS_Subset
    <2> QED
      BY <1>2, <2>2, <2>4 DEF L, L2
  <1>7. \A s \in P : step[s] \in P /\ m[s] \in Nat
    BY <1>5, <1>6
  <1>8. \A g, n : g[n - 1] \in P /\ n # 0 => F(g, n) = step[g[n - 1]]
    OBVIOUS
  <1>9. m[start] <= N
    BY <1>1, <1>4
  <1>10. \A p \in P : m[p] = 0 => p \in Stop
    <2> SUFFICES ASSUME NEW p \in P, Cardinality(LeftV2(p, chains)) = 0 PROVE p \in Stop
      OBVIOUS
    <2>1. LeftV2(p, chains) = {}
      BY <1>5, FS_EmptySet
    <2>2. \A x \in D : p.next[x] \in 1..(Len(chains[x]) + 1)
      BY DEF GreedyV2
    <2>3. \A x \in D : p.next[x] > Len(chains[x])
      <3> SUFFICES ASSUME NEW x \in D, ~(p.next[x] > Len(chains[x])) PROVE FALSE
        OBVIOUS
      <3>1. p.next[x] \in 1..Len(chains[x]) /\ Len(chains[x]) \in Nat
        BY <2>2, PlacesInChains
      <3>2. p.next[x] \in p.next[x]..Len(chains[x])
        BY <3>1
      <3>3. chains[x][p.next[x]] \in LeftV2(p, chains)
        BY <2>2, <3>2, HeadsAreLeft
      <3> QED
        BY <2>1, <3>3
    <2> QED
      BY <2>3
  <1>11. \A p \in P : /\ p \in Stop => step[p] = p
                      /\ p \notin Stop => m[step[p]] < m[p]
    BY <1>6
  <1>12. \A s \in Stop : LeftV2(s, chains) = {} \/ Len(s.selected) >= maxTx
    <2> SUFFICES ASSUME NEW s \in P, \A x \in D : s.next[x] > Len(chains[x]),
                        NEW t \in LeftV2(s, chains)
                 PROVE  FALSE
      OBVIOUS
    <2>1. t \in V2!AllOf(chains) /\ \E i \in s.next[t.sender]..Len(chains[t.sender]) : TRUE
      BY DEF LeftV2
    <2>2. t.sender \in D
      BY <2>1, PlacesInChains
    <2>3. s.next[t.sender] \in Nat /\ Len(chains[t.sender]) \in Nat
      BY <2>2, PlacesInChains DEF StatesV2
    <2> QED
      BY <2>1, <2>2, <2>3
  <1>13. V2!selectTransactions(chains, maxGas, maxTx) = f[N]
    BY DEF V2!selectTransactions, V2!Budget
  <1> HIDE DEF start, P, Stop, step, m, N
  <1>14. \E g : g = [n \in 0..N |-> F(g, n)]
    <2>1. StaysIn(step, P)
      BY <1>7 DEF StaysIn
    <2>2. PICK g0 : IsRunOf(g0, N, start, step, P)
      BY <1>1, <1>4, <2>1, Repeats
    <2> DEFINE g == [n \in 0..N |-> g0[n]]
    <2>3. \A n \in 0..N : g[n] = F(g, n)
      <3> SUFFICES ASSUME NEW n \in 0..N PROVE g[n] = F(g, n)
        OBVIOUS
      <3>1. CASE n = 0
        BY <2>2, <3>1 DEF IsRunOf
      <3>2. CASE n # 0
        <4>1. n - 1 \in 0..N /\ n \in 1..N
          BY <1>1, <3>2
        <4>2. g[n - 1] \in P /\ g[n] = step[g[n - 1]]
          BY <2>2, <3>2, <4>1 DEF IsRunOf
        <4> HIDE DEF F
        <4> QED
          BY <1>8, <3>2, <4>2
      <3> QED
        BY <3>1, <3>2
    <2>4. g = [n \in 0..N |-> F(g, n)]
      <3> HIDE DEF F
      <3> QED
        BY <2>3
    <2> HIDE DEF F, g
    <2> QED
      BY <2>4
  <1>15. f = [n \in 0..N |-> F(f, n)]
    <2> HIDE DEF F
    <2> QED
      BY <1>14
  <1> HIDE DEF f
  <1>16. f[0] = start
    BY <1>1, <1>15
  <1>17. \A n \in 1..N : f[n - 1] \in P => f[n] = step[f[n - 1]]
    <2> SUFFICES ASSUME NEW n \in 1..N, f[n - 1] \in P PROVE f[n] = step[f[n - 1]]
      OBVIOUS
    <2> HIDE DEF F
    <2>1. f[n] = F(f, n)
      BY <1>1, <1>15
    <2> QED
      BY <1>8, <2>1
  <1> HIDE DEF F
  <1>18. \A n \in 1..N : f[n - 1] \in P =>
              /\ f[n] \in P
              /\ f[n - 1] \in Stop => f[n] = f[n - 1]
              /\ f[n - 1] \notin Stop => m[f[n]] < m[f[n - 1]]
    BY <1>7, <1>11, <1>17
  <1>19. f[N] \in P /\ f[N] \in Stop
    BY <1>1, <1>4, <1>7, <1>9, <1>10, <1>16, <1>18, LoopStops
  <1>20. PICK s : s = V2!selectTransactions(chains, maxGas, maxTx)
    OBVIOUS
  <1> DEFINE v == TurnV2(s, chains)
  <1>21. GreedySoFar(v, V2!AllOf(chains), V2!Chained(chains), V2!Ranked(chains), maxTx, G)
    BY <1>2, <1>13, <1>19, <1>20 DEF GreedyV2
  <1>22. v.left = {} \/ Len(v.selected) >= maxTx
    BY <1>12, <1>13, <1>19, <1>20 DEF TurnV2
  <1> DEFINE v2 == [selected |-> s.selected, excluded |-> s.rejected]
  <1>23. v2.selected = v.selected /\ v2.excluded = v.excluded
    BY DEF TurnV2
  <1> HIDE DEF v, v2, G
  <1>24. IsGreedy(v, V2!AllOf(chains), V2!Chained(chains), V2!Ranked(chains), maxTx, G)
    BY <1>3, <1>21, <1>22, GreedyAtLast
  <1>25. IsGreedy(v2, V2!AllOf(chains), V2!Chained(chains), V2!Ranked(chains), maxTx, G)
    BY <1>23, <1>24, GreedyIsOfSelection
  <1> QED
    BY <1>20, <1>25 DEF v2, G

-----------------------------------------------------------------------------
(* The txpool builder v2: what normalizePool and buildChains give. *)

(***************************************************************************)
(* A set with one transaction of each nonce has a sequence in the order of *)
(* the nonces, which is what Sorted gives.                                 *)
(***************************************************************************)
LEMMA SortedIs ==
    ASSUME NEW S, IsFiniteSet(S), \A t \in S : t.nonce \in Int,
           \A t, u \in S : t.nonce = u.nonce => t = u
    PROVE  /\ V2!Sorted(S) \in Seq(S)
           /\ V2!Range(V2!Sorted(S)) = S
           /\ \A i, j \in DOMAIN V2!Sorted(S) : i < j => V2!Sorted(S)[i].nonce < V2!Sorted(S)[j].nonce
  <1> DEFINE Rises(s) == \A i, j \in DOMAIN s : i < j => s[i].nonce < s[j].nonce
             A == {T \in SUBSET S : \E s \in [1..Cardinality(T) -> T] : Rises(s)}
             R == {p \in S \X S : p[1].nonce > p[2].nonce}
  <1>1. {} \in A
    <2> DEFINE s == [i \in 1..0 |-> i]
    <2>1. s \in [1..0 -> {}] /\ Rises(s)
      OBVIOUS
    <2> HIDE DEF s, Rises
    <2> QED
      BY <2>1, FS_EmptySet
  <1>2. ASSUME NEW T \in SUBSET S, T # {}, \A x \in T : T \ {x} \in A
        PROVE  T \in A
    <2>1. PICK m \in T : \A y \in T \ {m} : y.nonce < m.nonce
      <3>1. \A x, y \in S : <<x, y>> \in R <=> x.nonce > y.nonce
        OBVIOUS
      <3> HIDE DEF R, A
      <3>2. \A x, y \in S : x # y => <<x, y>> \in R \/ <<y, x>> \in R
        BY <3>1
      <3>3. \A x, y, z \in S : <<x, y>> \in R /\ <<y, z>> \in R => <<x, z>> \in R
        BY <3>1
      <3>4. \A Q \in SUBSET S : Q # {} => \E x \in Q : \A y \in Q \ {x} : <<x, y>> \in R
        BY <3>2, <3>3, FiniteLeast
      <3>5. PICK x \in T : \A y \in T \ {x} : <<x, y>> \in R
        BY <1>2, <3>4
      <3> QED
        BY <3>1, <3>5
    <2> DEFINE U == T \ {m}
               n == Cardinality(U)
    <2>2. IsFiniteSet(U) /\ n \in Nat /\ Cardinality(T) = n + 1
      <3>1. IsFiniteSet(T)
        BY FS_Subset
      <3>2. IsFiniteSet(U) /\ Cardinality(U) = Cardinality(T) - 1
        BY <2>1, <3>1, FS_RemoveElement
      <3> QED
        BY <3>1, <3>2, FS_CardinalityType
    <2>3. PICK s \in [1..n -> U] : Rises(s)
      BY <1>2, <2>1
    <2> DEFINE r == [i \in 1..(n + 1) |-> IF i <= n THEN s[i] ELSE m]
    <2> HIDE DEF n
    <2>4. r \in [1..(n + 1) -> T]
      BY <2>1, <2>2, <2>3
    <2>5. ASSUME NEW i \in 1..(n + 1), NEW j \in 1..(n + 1), i < j
          PROVE  r[i].nonce < r[j].nonce
      <3>1. i \in 1..n /\ r[i] = s[i] /\ s[i] \in U
        BY <2>2, <2>3, <2>5
      <3>2. CASE j \in 1..n
        BY <2>2, <2>3, <2>5, <3>1, <3>2
      <3>3. CASE j = n + 1
        BY <2>1, <2>2, <3>1, <3>3
      <3> QED
        BY <2>2, <3>2, <3>3
    <2>6. Rises(r)
      BY <2>5
    <2> HIDE DEF r, Rises
    <2> QED
      BY <2>2, <2>4, <2>6
  <1> HIDE DEF A
  <1>3. S \in A
    BY <1>1, <1>2, SubsetInduction
  <1> DEFINE s == V2!Sorted(S)
             n == Cardinality(S)
  <1>4. s \in [1..n -> S] /\ Rises(s)
    <2>1. \E f \in [1..n -> S] : Rises(f)
      BY <1>3 DEF A
    <2>2. s = CHOOSE f \in [1..n -> S] : Rises(f)
      <3>1. V2!Cardinality(S) = n
        BY DEF V2!Cardinality, Cardinality
      <3> HIDE DEF n
      <3> QED
        BY <3>1 DEF V2!Sorted
    <2> HIDE DEF s, n, Rises
    <2> QED
      BY <2>1, <2>2
  <1> HIDE DEF s
  <1>5. n \in Nat /\ IsFiniteSet(1..n) /\ Cardinality(1..n) = n
    BY FS_CardinalityType, FS_Interval
  <1> HIDE DEF n
  <1>6. s \in Seq(S)
    BY <1>4, <1>5
  <1>7. \A i, j \in 1..n : s[i] = s[j] => i = j
    <2> SUFFICES ASSUME NEW i \in 1..n, NEW j \in 1..n, s[i] = s[j] PROVE i = j
      OBVIOUS
    <2>1. ~(i < j) /\ ~(j < i)
      <3>1. s[i].nonce \in Int /\ s[i].nonce = s[j].nonce
        BY <1>4
      <3>2. i < j => s[i].nonce < s[j].nonce
        BY <1>4
      <3>3. j < i => s[j].nonce < s[i].nonce
        BY <1>4
      <3> QED
        BY <3>1, <3>2, <3>3
    <2> QED
      BY <1>5, <2>1
  <1>8. s \in Surjection(1..n, S)
    <2>1. s \in Injection(1..n, S)
      BY <1>4, <1>7 DEF Injection, IsInjective
    <2>2. Cardinality(1..n) = Cardinality(S)
      BY <1>5 DEF n
    <2> QED
      BY <1>5, <2>1, <2>2, FS_Injection
  <1>9. V2!Range(s) = S
    BY <1>4, <1>8 DEF V2!Range, Surjection
  <1> QED
    BY <1>4, <1>6, <1>9 DEF s

(***************************************************************************)
(* BestOf is one of its nonce, and better than the others of that nonce.   *)
(***************************************************************************)
LEMMA BestOfNonce ==
    ASSUME NEW T, Readable(T), NEW t \in T
    PROVE  /\ V2!BestOf(T, t.nonce) \in T /\ V2!BestOf(T, t.nonce).nonce = t.nonce
           /\ \A u \in T \ {V2!BestOf(T, t.nonce)} :
                 u.nonce = t.nonce => V2!compareTx(V2!BestOf(T, t.nonce), u)
  <1> DEFINE S == {u \in T : u.nonce = t.nonce}
  <1>1. S # {} /\ S \subseteq T
    OBVIOUS
  <1>2. \A u \in T : u \in S <=> u.nonce = t.nonce
    OBVIOUS
  <1>3. V2!BestOf(T, t.nonce) = V2!Least(S, V2!compareTx)
    BY DEF V2!BestOf
  <1> HIDE DEF S
  <1>4. Readable(S)
    BY <1>1, FS_Subset DEF Readable
  <1>5. V2!BestOf(T, t.nonce) \in S
    BY <1>1, <1>3, <1>4, BestByV2
  <1>6. \A u \in S \ {V2!BestOf(T, t.nonce)} : V2!compareTx(V2!BestOf(T, t.nonce), u)
    BY <1>1, <1>3, <1>4, BestByV2
  <1> QED
    BY <1>1, <1>2, <1>5, <1>6

\* c holds the best of T of each nonce in N, in the order of the nonces.
HoldsTheBest(c, T, N) ==
    /\ c \in Seq(T)
    /\ \A i \in 1..Len(c) : c[i].nonce \in N /\ c[i] = V2!BestOf(T, c[i].nonce)
    /\ \A n \in N : \E i \in 1..Len(c) : c[i].nonce = n
    /\ \A i, j \in 1..Len(c) : i < j => c[i].nonce < c[j].nonce

(***************************************************************************)
(* Sorting the best of some nonces gives such a sequence.                  *)
(***************************************************************************)
LEMMA SortedBests ==
    ASSUME NEW T, Readable(T), NEW N, N \subseteq {t.nonce : t \in T}
    PROVE  HoldsTheBest(V2!Sorted({V2!BestOf(T, n) : n \in N}), T, N)
  <1> DEFINE B == {V2!BestOf(T, n) : n \in N}
  <1>1. \A n \in N : V2!BestOf(T, n) \in T /\ V2!BestOf(T, n).nonce = n
    <2> SUFFICES ASSUME NEW n \in N PROVE V2!BestOf(T, n) \in T /\ V2!BestOf(T, n).nonce = n
      OBVIOUS
    <2>1. PICK t \in T : t.nonce = n
      OBVIOUS
    <2> QED
      BY <2>1, BestOfNonce
  <1>2. B \subseteq T /\ \A b \in B : \E n \in N : b = V2!BestOf(T, n) /\ b.nonce = n
    BY <1>1
  <1> HIDE DEF B
  <1>3. IsFiniteSet(B)
    BY <1>2, FS_Subset DEF Readable
  <1>4. (\A b \in B : b.nonce \in Int) /\ \A b, c \in B : b.nonce = c.nonce => b = c
    <2>1. \A b \in B : b.nonce \in Int
      BY <1>2 DEF Readable
    <2> QED
      BY <1>2, <2>1
  <1>5. /\ V2!Sorted(B) \in Seq(B) /\ V2!Range(V2!Sorted(B)) = B
        /\ \A i, j \in DOMAIN V2!Sorted(B) : i < j => V2!Sorted(B)[i].nonce < V2!Sorted(B)[j].nonce
    BY <1>3, <1>4, SortedIs
  <1> DEFINE c == V2!Sorted(B)
  <1> HIDE DEF c
  <1>6. c \in Seq(T) /\ DOMAIN c = 1..Len(c)
    BY <1>2, <1>5 DEF c
  <1>7. \A i \in 1..Len(c) : c[i] \in B
    BY <1>5 DEF c
  <1>8. \A b \in B : \E i \in 1..Len(c) : c[i] = b
    <2>1. V2!Range(c) = B
      BY <1>5 DEF c
    <2> QED
      BY <1>6, <2>1 DEF V2!Range
  <1>9. \A i \in 1..Len(c) : c[i].nonce \in N /\ c[i] = V2!BestOf(T, c[i].nonce)
    BY <1>2, <1>7
  <1>10. \A n \in N : \E i \in 1..Len(c) : c[i].nonce = n
    <2>1. \A n \in N : V2!BestOf(T, n) \in B
      BY DEF B
    <2> QED
      BY <1>1, <1>8, <2>1
  <1>11. \A i, j \in 1..Len(c) : i < j => c[i].nonce < c[j].nonce
    BY <1>5, <1>6 DEF c
  <1>12. HoldsTheBest(c, T, N)
    BY <1>6, <1>9, <1>10, <1>11 DEF HoldsTheBest
  <1> QED
    BY <1>12 DEF c, B

\* The nonces up to the first gap or too large a transaction.
KeptNonces(T, blockGas) ==
    LET nonces == {t.nonce : t \in T}
        gap(n) == n - 1 \notin nonces /\ \E k \in nonces : k < n
        ends == {n \in nonces : gap(n) \/ (blockGas > 0 /\ V2!BestOf(T, n).gas > blockGas)}
    IN  {n \in nonces : \A k \in ends : n < k}

(***************************************************************************)
(* The chain that normalizeSenderChain makes of a sender's transactions.   *)
(***************************************************************************)
LEMMA ChainHoldsTheBest ==
    ASSUME NEW T, Readable(T), NEW blockGas
    PROVE  HoldsTheBest(V2!normalizeSenderChain(T, blockGas).chain, T, KeptNonces(T, blockGas))
  <1>1. V2!normalizeSenderChain(T, blockGas).chain
          = V2!Sorted({V2!BestOf(T, n) : n \in KeptNonces(T, blockGas)})
    BY DEF V2!normalizeSenderChain, KeptNonces
  <1>2. KeptNonces(T, blockGas) \subseteq {t.nonce : t \in T}
    BY DEF KeptNonces
  <1> QED
    BY <1>1, <1>2, SortedBests

(***************************************************************************)
(* It has no gap.                                                          *)
(***************************************************************************)
LEMMA ChainIsGapless ==
    ASSUME NEW T, Readable(T), NEW blockGas
    PROVE  LET c == V2!normalizeSenderChain(T, blockGas).chain
           IN  \A i \in 1..(Len(c) - 1) : c[i + 1].nonce = c[i].nonce + 1
  <1> DEFINE c == V2!normalizeSenderChain(T, blockGas).chain
             N == KeptNonces(T, blockGas)
             nonces == {t.nonce : t \in T}
  <1>1. HoldsTheBest(c, T, N)
    BY ChainHoldsTheBest
  <1>2. N \subseteq nonces
    BY DEF KeptNonces
  <1>3. nonces \subseteq Int
    BY DEF Readable
  <1>4. \A m \in N, n \in N : n < m => m - 1 \in N
    <2> SUFFICES ASSUME NEW m \in N, NEW n \in N, n < m PROVE m - 1 \in N
      OBVIOUS
    <2> DEFINE gap(q) == q - 1 \notin nonces /\ \E k \in nonces : k < q
               ends == {q \in nonces : gap(q) \/ (blockGas > 0 /\ V2!BestOf(T, q).gas > blockGas)}
    <2>1. N = {q \in nonces : \A k \in ends : q < k}
      BY DEF KeptNonces
    <2>2. ~gap(m)
      <3>1. gap(m) => m \in ends
        BY <1>2
      <3>2. m \in Int
        BY <1>2, <1>3
      <3>3. m \in ends => m < m
        BY <2>1
      <3> HIDE DEF gap, ends
      <3> QED
        BY <3>1, <3>2, <3>3
    <2>3. m - 1 \in nonces
      BY <1>2, <2>2
    <2>4. \A k \in ends : m - 1 < k
      <3>1. ends \subseteq Int
        BY <1>3
      <3>2. \A k \in ends : m < k
        BY <2>1
      <3>3. m \in Int
        BY <1>2, <1>3
      <3> HIDE DEF ends
      <3> QED
        BY <3>1, <3>2, <3>3
    <2> HIDE DEF N, ends
    <2> QED
      BY <2>1, <2>3, <2>4
  <1> HIDE DEF c, N, nonces
  <1>5. Len(c) \in Nat
    BY <1>1 DEF HoldsTheBest
  <1>6. \A i \in 1..Len(c) : c[i].nonce \in N
    BY <1>1 DEF HoldsTheBest
  <1>7. \A i \in 1..Len(c) : c[i].nonce \in Int
    BY <1>2, <1>3, <1>6
  <1>8. \A n \in N : \E i \in 1..Len(c) : c[i].nonce = n
    BY <1>1 DEF HoldsTheBest
  <1>9. \A i, j \in 1..Len(c) : i < j => c[i].nonce < c[j].nonce
    BY <1>1 DEF HoldsTheBest
  <1>10. ASSUME NEW i \in 1..(Len(c) - 1)
        PROVE  c[i + 1].nonce = c[i].nonce + 1
    <2>1. i \in 1..Len(c) /\ i + 1 \in 1..Len(c)
      BY <1>5
    <2>2. c[i].nonce < c[i + 1].nonce /\ c[i].nonce \in Int /\ c[i + 1].nonce \in Int
      BY <1>9, <1>7, <2>1
    <2>3. PICK k \in 1..Len(c) : c[k].nonce = c[i + 1].nonce - 1
      <3>1. c[i + 1].nonce - 1 \in N
        BY <1>4, <1>6, <2>1, <2>2
      <3> QED
        BY <1>8, <3>1
    <2>4. CASE k <= i
      <3>1. c[k].nonce <= c[i].nonce
        BY <1>9, <1>7, <2>1, <2>4
      <3> QED
        BY <2>2, <2>3, <3>1
    <2>5. CASE k > i
      <3>1. c[i + 1].nonce <= c[k].nonce
        BY <1>9, <1>7, <2>1, <2>5
      <3> QED
        BY <2>2, <2>3, <3>1
    <2> QED
      BY <1>5, <2>1, <2>4, <2>5
  <1> QED
    BY <1>10 DEF c

(***************************************************************************)
(* Sequences of a set of such transactions, each of one sender and in the  *)
(* order of its nonces, are chains.                                        *)
(***************************************************************************)
LEMMA SendersMakeChains ==
    ASSUME NEW chains, IsFiniteSet(DOMAIN chains), NEW D, Readable(D),
           \A x \in DOMAIN chains : chains[x] \in Seq(D),
           \A x \in DOMAIN chains : \A i \in 1..Len(chains[x]) : chains[x][i].sender = x,
           \A x \in DOMAIN chains : \A i, j \in 1..Len(chains[x]) :
               i < j => chains[x][i].nonce < chains[x][j].nonce
    PROVE  V2!IsChains(chains) /\ V2!AllOf(chains) \subseteq D
  <1>1. \A x \in DOMAIN chains : DOMAIN chains[x] = 1..Len(chains[x])
    OBVIOUS
  <1>2. \A x \in DOMAIN chains : chains[x] \in Seq(V2!Range(chains[x]))
    <2> SUFFICES ASSUME NEW x \in DOMAIN chains PROVE chains[x] \in Seq(V2!Range(chains[x]))
      OBVIOUS
    <2>1. chains[x] \in Seq(D)
      OBVIOUS
    <2> QED
      BY <2>1 DEF V2!Range
  <1>3. V2!AllOf(chains) \subseteq D
    <2> SUFFICES ASSUME NEW x \in DOMAIN chains PROVE V2!Range(chains[x]) \subseteq D
      BY DEF V2!AllOf
    <2>1. chains[x] \in Seq(D)
      OBVIOUS
    <2> QED
      BY <2>1 DEF V2!Range
  <1>4. /\ \A t \in V2!AllOf(chains) : t.gas \in Nat /\ {t.nonce, t.score, t.hash} \subseteq Int
        /\ \A t, u \in V2!AllOf(chains) : t.hash = u.hash => t = u
    BY <1>3 DEF Readable
  <1>5. \A x \in DOMAIN chains :
          /\ chains[x] \in Seq(V2!Range(chains[x]))
          /\ \A i \in DOMAIN chains[x] : chains[x][i].sender = x
          /\ \A i, j \in DOMAIN chains[x] : i < j => chains[x][i].nonce < chains[x][j].nonce
    BY <1>1, <1>2
  <1>6. V2!IsFiniteSet(DOMAIN chains)
    BY DEF V2!IsFiniteSet, IsFiniteSet
  <1> QED
    BY <1>3, <1>4, <1>5, <1>6 DEF V2!IsChains

\* The transactions of a pool that decode.
Decoded(pool, base, blockGas) ==
    {V2!decodeTx(e, base) : e \in {g \in V2!Range(pool) : V2!Refusal(g, base, blockGas) = ""}}

(***************************************************************************)
(* What normalizePool of the builder v2 makes of a pool whose hashes tell  *)
(* its transactions apart: chains without a gap.                           *)
(***************************************************************************)
LEMMA NormalisedV2AreChains ==
    ASSUME NEW pool, IsFiniteSet(DOMAIN pool), NEW base, NEW blockGas,
           Readable(Decoded(pool, base, blockGas))
    PROVE  LET chains == V2!normalizePool(pool, base, blockGas).chains
           IN  /\ V2!IsChains(chains) /\ V2!AllOf(chains) \subseteq Decoded(pool, base, blockGas)
               /\ \A x \in DOMAIN chains : \A i \in 1..(Len(chains[x]) - 1) :
                      chains[x][i + 1].nonce = chains[x][i].nonce + 1
  <1> DEFINE D == Decoded(pool, base, blockGas)
             good == {e \in V2!Range(pool) : V2!Refusal(e, base, blockGas) = ""}
             Of(x) == {V2!decodeTx(e, base) : e \in {g \in good : g.sender = x}}
             senders == {e.sender : e \in V2!Range(pool)}
             all == [x \in senders |-> V2!normalizeSenderChain(Of(x), blockGas)]
             chains == V2!normalizePool(pool, base, blockGas).chains
  <1>1. IsFiniteSet(senders)
    <2> DEFINE f == [i \in DOMAIN pool |-> pool[i].sender]
    <2>1. f \in [DOMAIN pool -> senders] /\ \A x \in senders : \E i \in DOMAIN pool : f[i] = x
      BY DEF V2!Range
    <2> HIDE DEF f, senders
    <2>2. f \in Surjection(DOMAIN pool, senders)
      BY <2>1 DEF Surjection
    <2> QED
      BY <2>2, FS_Surjection
  <1>2. chains = [x \in DOMAIN all |-> all[x].chain]
    BY DEF V2!normalizePool
  <1>3. DOMAIN chains = senders /\ \A x \in senders : chains[x] = V2!normalizeSenderChain(Of(x), blockGas).chain
    BY <1>2
  <1>4. \A x : Readable(Of(x)) /\ Of(x) \subseteq D /\ \A t \in Of(x) : t.sender = x
    <2> SUFFICES ASSUME NEW x PROVE Readable(Of(x)) /\ Of(x) \subseteq D /\ \A t \in Of(x) : t.sender = x
      OBVIOUS
    <2>1. Of(x) \subseteq D
      BY DEF Decoded
    <2>2. \A t \in Of(x) : t.sender = x
      <3> SUFFICES ASSUME NEW e, e.sender = x PROVE V2!decodeTx(e, base).sender = x
        OBVIOUS
      <3> QED
        BY DEF V2!decodeTx
    <2> HIDE DEF Of, D
    <2>3. Readable(Of(x))
      BY <2>1, FS_Subset DEF Readable, D
    <2> QED
      BY <2>1, <2>2, <2>3
  <1> HIDE DEF D, good, Of, senders, all, chains
  <1>5. \A x \in senders : HoldsTheBest(chains[x], Of(x), KeptNonces(Of(x), blockGas))
    BY <1>3, <1>4, ChainHoldsTheBest
  <1>6. \A x \in senders : \A i \in 1..(Len(chains[x]) - 1) : chains[x][i + 1].nonce = chains[x][i].nonce + 1
    BY <1>3, <1>4, ChainIsGapless
  <1>7. \A x \in senders : /\ chains[x] \in Seq(Of(x))
                           /\ \A i, j \in 1..Len(chains[x]) : i < j => chains[x][i].nonce < chains[x][j].nonce
    BY <1>5 DEF HoldsTheBest
  <1>8. \A x \in senders : chains[x] \in Seq(D) /\ \A i \in 1..Len(chains[x]) : chains[x][i].sender = x
    <2> SUFFICES ASSUME NEW x \in senders
                 PROVE  chains[x] \in Seq(D) /\ \A i \in 1..Len(chains[x]) : chains[x][i].sender = x
      OBVIOUS
    <2>1. chains[x] \in Seq(Of(x))
      BY <1>7
    <2> QED
      BY <1>4, <2>1
  <1>9. V2!IsChains(chains) /\ V2!AllOf(chains) \subseteq D
    <2>1. Readable(D) /\ IsFiniteSet(DOMAIN chains)
      BY <1>1, <1>3 DEF D
    <2> QED
      BY <1>3, <1>7, <1>8, <2>1, SendersMakeChains
  <1> QED
    BY <1>3, <1>6, <1>9 DEF chains, D

(***************************************************************************)
(* A merged chain has the better of the two transactions of each nonce.    *)
(***************************************************************************)
LEMMA MergedHoldsTheBest ==
    ASSUME NEW p, NEW q, Readable(V2!Range(p) \cup V2!Range(q))
    PROVE  HoldsTheBest(V2!mergeSenderChain(p, q), V2!Range(p) \cup V2!Range(q),
                        {t.nonce : t \in V2!Range(p) \cup V2!Range(q)})
  <1> DEFINE T == V2!Range(p) \cup V2!Range(q)
             N == {t.nonce : t \in T}
  <1>1. V2!mergeSenderChain(p, q) = V2!Sorted({V2!BestOf(T, t.nonce) : t \in T})
    BY DEF V2!mergeSenderChain
  <1>2. {V2!BestOf(T, t.nonce) : t \in T} = {V2!BestOf(T, n) : n \in N}
    OBVIOUS
  <1> QED
    BY <1>1, <1>2, SortedBests

(***************************************************************************)
(* Merging chains gives chains.                                            *)
(***************************************************************************)
LEMMA BuiltAreChains ==
    ASSUME NEW pending, V2!IsChains(pending), NEW queued, V2!IsChains(queued),
           Readable(V2!AllOf(pending) \cup V2!AllOf(queued)), NEW includeQueued \in BOOLEAN
    PROVE  V2!IsChains(V2!buildChains(pending, queued, includeQueued))
  <1> DEFINE D == V2!AllOf(pending) \cup V2!AllOf(queued)
             chain(x, of) == IF x \in DOMAIN of THEN of[x] ELSE << >>
             senders == DOMAIN pending \cup DOMAIN queued
             chains == V2!buildChains(pending, queued, includeQueued)
  <1>1. CASE ~includeQueued
    BY <1>1 DEF V2!buildChains
  <1>2. CASE includeQueued
    <2> DEFINE All(x) == V2!Range(chain(x, pending)) \cup V2!Range(chain(x, queued))
    <2>1. chains = [x \in senders |-> V2!mergeSenderChain(chain(x, pending), chain(x, queued))]
      BY <1>2 DEF V2!buildChains
    <2>2. ASSUME NEW x PROVE /\ V2!Range(chain(x, pending)) \subseteq V2!AllOf(pending)
                             /\ \A t \in V2!Range(chain(x, pending)) : t.sender = x
      <3>1. CASE x \in DOMAIN pending
        <4>1. chain(x, pending) = pending[x]
          BY <3>1
        <4>2. \A i \in DOMAIN pending[x] : pending[x][i].sender = x
          BY <3>1 DEF V2!IsChains
        <4>3. \A t \in V2!Range(pending[x]) : t.sender = x
          BY <4>2 DEF V2!Range
        <4>4. V2!Range(pending[x]) \subseteq V2!AllOf(pending)
          BY <3>1 DEF V2!AllOf
        <4> QED
          BY <4>1, <4>3, <4>4
      <3>2. CASE x \notin DOMAIN pending
        BY <3>2 DEF V2!Range
      <3> QED
        BY <3>1, <3>2
    <2>3. ASSUME NEW x PROVE /\ V2!Range(chain(x, queued)) \subseteq V2!AllOf(queued)
                             /\ \A t \in V2!Range(chain(x, queued)) : t.sender = x
      <3>1. CASE x \in DOMAIN queued
        <4>1. chain(x, queued) = queued[x]
          BY <3>1
        <4>2. \A i \in DOMAIN queued[x] : queued[x][i].sender = x
          BY <3>1 DEF V2!IsChains
        <4>3. \A t \in V2!Range(queued[x]) : t.sender = x
          BY <4>2 DEF V2!Range
        <4>4. V2!Range(queued[x]) \subseteq V2!AllOf(queued)
          BY <3>1 DEF V2!AllOf
        <4> QED
          BY <4>1, <4>3, <4>4
      <3>2. CASE x \notin DOMAIN queued
        BY <3>2 DEF V2!Range
      <3> QED
        BY <3>1, <3>2
    <2>4. \A x : All(x) \subseteq D /\ \A t \in All(x) : t.sender = x
      BY <2>2, <2>3
    <2>5. \A x : Readable(All(x))
      <3> HIDE DEF All, D
      <3>1. Readable(D)
        BY DEF D
      <3> QED
        BY <2>4, <3>1, FS_Subset DEF Readable
    <2>6. \A x \in senders : HoldsTheBest(chains[x], All(x), {t.nonce : t \in All(x)})
      <3> SUFFICES ASSUME NEW x \in senders
                   PROVE  HoldsTheBest(chains[x], All(x), {t.nonce : t \in All(x)})
        OBVIOUS
      <3>1. chains[x] = V2!mergeSenderChain(chain(x, pending), chain(x, queued))
        BY <2>1
      <3>2. Readable(All(x))
        BY <2>5
      <3> HIDE DEF chain, chains
      <3> QED
        BY <3>1, <3>2, MergedHoldsTheBest
    <2>7. DOMAIN chains = senders /\ IsFiniteSet(senders)
      <3>1. IsFiniteSet(DOMAIN pending) /\ IsFiniteSet(DOMAIN queued)
        BY DEF V2!IsChains, V2!IsFiniteSet, IsFiniteSet
      <3> QED
        BY <2>1, <3>1, FS_Union
    <2> HIDE DEF chains, senders, All, D
    <2>8. ASSUME NEW x \in senders
          PROVE  /\ chains[x] \in Seq(D)
                 /\ \A i \in 1..Len(chains[x]) : chains[x][i].sender = x
                 /\ \A i, j \in 1..Len(chains[x]) : i < j => chains[x][i].nonce < chains[x][j].nonce
      <3>1. chains[x] \in Seq(All(x))
        BY <2>6 DEF HoldsTheBest
      <3>2. \A i, j \in 1..Len(chains[x]) : i < j => chains[x][i].nonce < chains[x][j].nonce
        BY <2>6 DEF HoldsTheBest
      <3> QED
        BY <2>4, <3>1, <3>2
    <2>9. Readable(D)
      BY DEF D
    <2> QED
      BY <2>7, <2>8, <2>9, SendersMakeChains DEF chains
  <1> QED
    BY <1>1, <1>2

(***************************************************************************)
(* The builder v2 from the pool to the selection: whatever entries the     *)
(* pending and queued parts of a pool have, if hashes tell the             *)
(* transactions that decode apart, the transactions of a sender are        *)
(* selected in the order of their nonces, and a greedy selection is made   *)
(* of what normalizePool and buildChains leave.                            *)
(***************************************************************************)
THEOREM PoolsAreSelectedGreedily ==
    ASSUME NEW pending, IsFiniteSet(DOMAIN pending), NEW queued, IsFiniteSet(DOMAIN queued),
           NEW base, NEW blockGas, NEW includeQueued \in BOOLEAN, NEW maxGas \in Nat, NEW maxTx \in Nat,
           Readable(Decoded(pending, base, blockGas) \cup Decoded(queued, base, blockGas))
    PROVE  LET p == V2!normalizePool(pending, base, blockGas).chains
               q == V2!normalizePool(queued, base, blockGas).chains
               chains == V2!buildChains(p, q, includeQueued)
               s == V2!selectTransactions(chains, maxGas, maxTx)
           IN  IsGreedy([selected |-> s.selected, excluded |-> s.rejected], V2!AllOf(chains),
                        V2!Chained(chains), V2!Ranked(chains), maxTx, V2!Budget(maxGas))
  <1> DEFINE P == Decoded(pending, base, blockGas)
             Q == Decoded(queued, base, blockGas)
             p == V2!normalizePool(pending, base, blockGas).chains
             q == V2!normalizePool(queued, base, blockGas).chains
             chains == V2!buildChains(p, q, includeQueued)
  <1>1. Readable(P) /\ Readable(Q)
    <2> HIDE DEF P, Q
    <2>1. Readable(P \cup Q)
      BY DEF P, Q
    <2>2. IsFiniteSet(P) /\ IsFiniteSet(Q)
      BY <2>1, FS_Subset DEF Readable
    <2> QED
      BY <2>1, <2>2 DEF Readable
  <1>2. V2!IsChains(p) /\ V2!AllOf(p) \subseteq P
    BY <1>1, NormalisedV2AreChains
  <1>3. V2!IsChains(q) /\ V2!AllOf(q) \subseteq Q
    BY <1>1, NormalisedV2AreChains
  <1>4. Readable(V2!AllOf(p) \cup V2!AllOf(q))
    <2> DEFINE A == V2!AllOf(p) \cup V2!AllOf(q)
    <2>1. A \subseteq P \cup Q
      BY <1>2, <1>3
    <2> HIDE DEF A, P, Q
    <2>2. Readable(P \cup Q)
      BY DEF P, Q
    <2>3. Readable(A)
      BY <2>1, <2>2, FS_Subset DEF Readable
    <2> QED
      BY <2>3 DEF A
  <1> HIDE DEF p, q
  <1>5. V2!IsChains(chains)
    BY <1>2, <1>3, <1>4, BuiltAreChains
  <1> HIDE DEF chains
  <1>6. LET s == V2!selectTransactions(chains, maxGas, maxTx)
        IN  IsGreedy([selected |-> s.selected, excluded |-> s.rejected], V2!AllOf(chains),
                     V2!Chained(chains), V2!Ranked(chains), maxTx, V2!Budget(maxGas))
    BY <1>5, SelectionV2AlwaysGreedy
  <1> QED
    BY <1>6 DEF chains, p, q
=============================================================================
