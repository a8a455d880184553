--------------------------- MODULE EventLogProofs ---------------------------
(***************************************************************************)
(* Proofs about the write-ahead log, for any flush interval, any bound of  *)
(* compaction, and any number of appends and crashes.                      *)
(***************************************************************************)
EXTENDS EventLog, FiniteSetTheorems, SequenceTheorems, TLAPS

-----------------------------------------------------------------------------
(* The inductive invariant. *)

Increasing(q) ==
    \A i, j \in 1..Len(q) : (i < j /\ q[i] # Torn /\ q[j] # Torn) => q[i] < q[j]

HasTorn(q) == \E i \in 1..Len(q) : q[i] = Torn

Entry == 0..MaxAppends

\* A log of entries below n, in the order of their numbers.
Ordered(q, n) == q \in Seq(Entry) /\ Increasing(q) /\ \A i \in 1..Len(q) : q[i] < n

(***************************************************************************)
(* Entries are numbered before they are written, and compaction holds      *)
(* what it has read until the file holds it again.                         *)
(***************************************************************************)
LogShape ==
    /\ Ordered(log, next) /\ Ordered(keep, next)
    /\ writes < maxEntries + next
    /\ Len(keep) <= maxEntries
    /\ pc \in {"compact", "rewrite", "sync"} => writes > 2 * maxEntries
    /\ pc \in {"rewrite", "sync"} => ~HasTorn(keep) /\ owed = "file"
    /\ pc = "rewrite" => log = << >>
    /\ pc = "sync" => log = keep /\ flushed = Len(log)

Shaped == TypeOK /\ LogShape

(***************************************************************************)
(* The evidence for entry n among the first s entries of q: the entry, or  *)
(* maxEntries later ones at the front, which is what a compaction that     *)
(* dropped n has left.                                                     *)
(***************************************************************************)
Evident(q, s, n) ==
    \/ \E i \in 1..s : q[i] = n
    \/ s >= maxEntries /\ \A i \in 1..maxEntries : q[i] > n

(***************************************************************************)
(* How much of the log a crash leaves: what is on disk; after a truncate   *)
(* that no Sync has followed, what is in the file, for the end of the      *)
(* process.                                                                *)
(***************************************************************************)
OnDisk == IF owed = "file" THEN flushed ELSE synced

EvidenceOnDisk ==
    ~gutted =>
        \A n \in promised :
            IF pc = "rewrite" THEN Evident(keep, Len(keep), n) ELSE Evident(log, OnDisk, n)

(***************************************************************************)
(* The entries of this process, and those of them that are not on disk,    *)
(* are counted by writes.                                                  *)
(***************************************************************************)
Own == {i \in 1..Len(log) : log[i] >= born}
OwnUnsynced == {i \in synced + 1..Len(log) : log[i] >= born}

Counted ==
    pc \in {"open", "compact"} =>
        /\ owed = "none" => Cardinality(OwnUnsynced) <= writes % flushEvery
        /\ Cardinality(Own) <= writes
        /\ pc = "open" /\ ~failed => writes <= 2 * maxEntries

-----------------------------------------------------------------------------
(* The operations on the entries. *)

(***************************************************************************)
(* The first n positions.                                                  *)
(***************************************************************************)
LEMMA FirstNumbers ==
    ASSUME NEW n \in Nat
    PROVE  /\ IsFiniteSet(0..n)
           /\ IsFiniteSet(1..n) /\ Cardinality(1..n) = n
  <1>1. PICK z \in Int, e \in Int, m \in Int : z = 0 /\ e = 1 /\ m = n
    OBVIOUS
  <1>2. IsFiniteSet(z..m)
    BY FS_Interval
  <1>3. IsFiniteSet(e..m) /\ Cardinality(e..m) = IF e > m THEN 0 ELSE m - e + 1
    BY FS_Interval
  <1>4. z..m = 0..n /\ e..m = 1..n
    BY <1>1
  <1>5. (IF e > m THEN 0 ELSE m - e + 1) = n
    BY <1>1
  <1> QED
    BY <1>2, <1>3, <1>4, <1>5

(***************************************************************************)
(* What compaction keeps is a suffix, of at most n entries.                *)
(***************************************************************************)
LEMMA LastOfIsSuffix ==
    ASSUME NEW q \in Seq(Entry), NEW n \in Nat
    PROVE  /\ LastOf(q, n) \in Seq(Entry)
           /\ Len(LastOf(q, n)) = IF Len(q) <= n THEN Len(q) ELSE n
           /\ \A i \in 1..Len(LastOf(q, n)) :
                LastOf(q, n)[i] = q[i + (Len(q) - Len(LastOf(q, n)))]
  <1>1. CASE Len(q) <= n
    BY <1>1 DEF LastOf
  <1>2. CASE Len(q) > n
    <2>1. LastOf(q, n) = SubSeq(q, Len(q) - n + 1, Len(q))
      BY <1>2 DEF LastOf
    <2>2. /\ SubSeq(q, Len(q) - n + 1, Len(q)) \in Seq(Entry)
          /\ Len(SubSeq(q, Len(q) - n + 1, Len(q))) = n
          /\ \A i \in 1..n : SubSeq(q, Len(q) - n + 1, Len(q))[i] = q[i + (Len(q) - n)]
      BY <1>2
    <2> QED
      BY <2>1, <2>2, <1>2
  <1> QED
    BY <1>1, <1>2

(***************************************************************************)
(* What a crash or a failing write leaves is a prefix, and possibly a torn *)
(* line.                                                                   *)
(***************************************************************************)
LEMMA LeftWithPrefix ==
    ASSUME NEW q \in Seq(Entry), NEW least \in Nat, NEW most \in Nat, most <= Len(q),
           LeftWith(q, least, most), MaxAppends \in Nat
    PROVE  /\ log' \in Seq(Entry) /\ Len(log') \in Nat
           /\ flushed' = Len(log') /\ Len(log') >= least /\ Len(log') <= Len(q)
           /\ \A i \in 1..Len(log') : log'[i] = Torn \/ log'[i] = q[i]
           /\ \A i \in 1..least : log'[i] = q[i]
  <1>1. PICK n \in least..most : log' \in Remains(q, n)
    BY DEF LeftWith
  <1> DEFINE s == SubSeq(q, 1, n)
  <1>2. s \in Seq(Entry) /\ Len(s) = n /\ \A i \in 1..n : s[i] = q[i]
    BY <1>1
  <1>3. log' = s \/ (log' = Append(s, Torn) /\ n < Len(q))
    BY <1>1 DEF Remains
  <1>4. flushed' = Len(log') /\ Torn \in Entry
    BY DEF LeftWith, Torn, Entry
  <1> HIDE DEF s
  <1>5. CASE log' = s
    BY <1>1, <1>2, <1>4, <1>5
  <1>6. CASE log' = Append(s, Torn) /\ n < Len(q)
    <2>1. /\ log' \in Seq(Entry) /\ Len(log') = n + 1 /\ log'[n + 1] = Torn
          /\ \A i \in 1..n : log'[i] = s[i]
      BY <1>2, <1>4, <1>6
    <2> QED
      BY <2>1, <1>1, <1>2, <1>4, <1>6
  <1> QED
    BY <1>3, <1>5, <1>6

(***************************************************************************)
(* It is in order, as what was to be written was.                          *)
(***************************************************************************)
LEMMA LeftWithOrdered ==
    ASSUME NEW q, NEW least \in Nat, NEW most \in Nat, most <= Len(q), NEW n \in Nat \ {0},
           LeftWith(q, least, most), Ordered(q, n), MaxAppends \in Nat
    PROVE  Ordered(log', n)
  <1>1. /\ q \in Seq(Entry) /\ Increasing(q) /\ \A i \in 1..Len(q) : q[i] < n
    BY DEF Ordered
  <1>2. /\ log' \in Seq(Entry) /\ Len(log') \in Nat /\ Len(log') <= Len(q)
        /\ \A i \in 1..Len(log') : log'[i] = Torn \/ log'[i] = q[i]
    BY <1>1, LeftWithPrefix
  <1>3. Len(q) \in Nat /\ \A i \in 1..Len(log') : i \in 1..Len(q)
    BY <1>1, <1>2
  <1>4. Increasing(log')
    BY <1>1, <1>2, <1>3 DEF Increasing
  <1>5. \A i \in 1..Len(log') : log'[i] < n
    BY <1>1, <1>2, <1>3 DEF Torn
  <1> QED
    BY <1>2, <1>4, <1>5 DEF Ordered

(***************************************************************************)
(* The log with the entry that is appended.                                *)
(***************************************************************************)
LEMMA Appended ==
    ASSUME Shaped, next <= MaxAppends
    PROVE  /\ Append(log, next) \in Seq(Entry) /\ Len(Append(log, next)) = Len(log) + 1
           /\ \A i \in 1..Len(log) : Append(log, next)[i] = log[i]
           /\ Append(log, next)[Len(log) + 1] = next
           /\ Ordered(Append(log, next), next + 1)
  <1> DEFINE q == Append(log, next)
  <1>1. log \in Seq(Entry) /\ next \in Entry /\ next \in Nat \ {0} /\ Len(log) \in Nat
    BY EventLogAssumption DEF Shaped, TypeOK, Entry
  <1>2. /\ q \in Seq(Entry) /\ Len(q) = Len(log) + 1
        /\ \A i \in 1..Len(log) : q[i] = log[i]
        /\ q[Len(log) + 1] = next
    BY <1>1
  <1>0. Ordered(log, next)
    BY DEF Shaped, LogShape
  <1>3. \A i \in 1..Len(log) : log[i] \in Nat /\ log[i] < next
    BY <1>0, <1>1, EventLogAssumption DEF Ordered, Entry
  <1>4. Increasing(log)
    BY <1>0 DEF Ordered
  <1> HIDE DEF q
  <1>5. \A i \in 1..Len(q) : q[i] < next + 1
    <2>1. \A i \in 1..Len(q) : i \in 1..Len(log) \/ i = Len(log) + 1
      BY <1>1, <1>2
    <2> QED
      BY <2>1, <1>1, <1>2, <1>3
  <1>6. Increasing(q)
    <2> SUFFICES ASSUME NEW i \in 1..Len(q), NEW j \in 1..Len(q), i < j, q[i] # Torn, q[j] # Torn
                 PROVE  q[i] < q[j]
      BY DEF Increasing
    <2>1. i \in 1..Len(log) /\ (j \in 1..Len(log) \/ j = Len(log) + 1)
      BY <1>1, <1>2
    <2> QED
      BY <2>1, <1>1, <1>2, <1>3, <1>4 DEF Increasing
  <1>7. Ordered(q, next + 1)
    BY <1>2, <1>5, <1>6 DEF Ordered
  <1> QED
    BY <1>2, <1>7 DEF q

(***************************************************************************)
(* A write that fails leaves at least what was in the file.                *)
(***************************************************************************)
LEMMA WriteFailsShaped ==
    ASSUME Shaped, NEW q, NEW n \in Nat \ {0}, Ordered(q, n), WriteFails(q)
    PROVE  /\ Ordered(log', n) /\ log' \in Seq(0..MaxAppends)
           /\ synced' \in 0..flushed' /\ flushed' \in 0..Len(log')
           /\ errors' \in 0..MaxErrors
  <1>1. q \in Seq(Entry) /\ Len(q) \in Nat /\ synced \in 0..flushed /\ flushed \in Nat
    BY DEF Ordered, Shaped, TypeOK
  <1>2. LeftWith(q, flushed, Len(q)) /\ synced' = synced /\ flushed < Len(q)
    BY DEF WriteFails
  <1>3. /\ log' \in Seq(Entry) /\ Len(log') \in Nat
        /\ flushed' = Len(log') /\ Len(log') >= flushed
    BY <1>1, <1>2, LeftWithPrefix, EventLogAssumption
  <1>4. Ordered(log', n)
    BY <1>1, <1>2, LeftWithOrdered, EventLogAssumption
  <1>5. errors' \in 0..MaxErrors
    BY EventLogAssumption DEF WriteFails, Fault, Shaped, TypeOK
  <1> QED
    BY <1>1, <1>2, <1>3, <1>4, <1>5 DEF Entry

(***************************************************************************)
(* A Sync promises entries that have been appended.                        *)
(***************************************************************************)
LEMMA SyncedPromises ==
    ASSUME NEW q, NEW n \in Nat \ {0}, Ordered(q, n), promised \subseteq 1..n - 1, Synced(q)
    PROVE  /\ promised' \subseteq 1..n - 1
           /\ synced' \in 0..flushed' /\ flushed' \in 0..Len(log') /\ log' = q
  <1>1. q \in Seq(Entry) /\ Len(q) \in Nat /\ \A i \in 1..Len(q) : q[i] \in Nat /\ q[i] < n
    BY EventLogAssumption DEF Ordered, Entry
  <1>2. Numbers(q) \subseteq 1..n - 1
    BY <1>1 DEF Numbers, Torn
  <1>3. /\ log' = q /\ flushed' = Len(q) /\ synced' = Len(q)
        /\ promised' = promised \cup Numbers(q)
    BY DEF Synced
  <1> HIDE DEF Numbers
  <1>4. promised' \subseteq 1..n - 1
    BY <1>2, <1>3
  <1> QED
    BY <1>1, <1>3, <1>4

-----------------------------------------------------------------------------
(* Shape. *)

(***************************************************************************)
(* An append adds the next number, or as much of it as a failing write     *)
(* lets through.                                                           *)
(***************************************************************************)
LEMMA AppendShaped ==
    ASSUME Shaped, NEW kind \in Kind,
           AppendEncoded(kind) \/ AppendWriteFails(kind) \/ AppendSyncFails(kind)
    PROVE  Shaped'
  <1> USE EventLogAssumption
  <1>1. /\ pc = "open" /\ next \in 1..MaxAppends /\ next' = next + 1 /\ born' = born /\ keep' = keep
        /\ crashes' = crashes /\ gutted' = gutted
    BY DEF AppendEncoded, AppendWriteFails, AppendSyncFails, Shaped, TypeOK
  <1>2. /\ Append(log, next) \in Seq(Entry) /\ Len(Append(log, next)) = Len(log) + 1
        /\ Ordered(Append(log, next), next + 1)
    BY <1>1, Appended
  <1>3. /\ promised \subseteq 1..next /\ Len(log) \in Nat
        /\ synced \in 0..flushed /\ flushed \in 0..Len(log)
        /\ owed \in {"none", "appends", "file"} /\ errors \in 0..MaxErrors
        /\ writes \in Nat
    BY <1>1 DEF Shaped, TypeOK
  <1>4. /\ writes' \in {writes, writes + 1}
        /\ pc' = "compact" => writes' > 2 * maxEntries
        /\ pc' \in {"open", "compact", "broken"}
        /\ failed' \in BOOLEAN
    BY <1>1 DEF AppendEncoded, AppendWriteFails, AppendSyncFails
  <1>5. /\ Ordered(log', next + 1) /\ log' \in Seq(0..MaxAppends)
        /\ synced' \in 0..flushed' /\ flushed' \in 0..Len(log')
        /\ promised' \subseteq 1..next
        /\ owed' \in {"none", "appends", "file"}
        /\ errors' \in 0..MaxErrors
    <2> DEFINE q == Append(log, next)
    <2>0. q \in Seq(Entry) /\ Len(q) = Len(log) + 1 /\ Ordered(q, next + 1)
      BY <1>2
    <2> HIDE DEF q
    <2>1. CASE AppendEncoded(kind)
      <3>1. errors' = errors
        BY <2>1 DEF AppendEncoded
      <3>2. CASE MustSync(kind, writes')
        <4>1. Synced(q)
          BY <2>1, <3>2 DEF AppendEncoded, q
        <4>2. promised \subseteq 1..(next + 1) - 1 /\ next + 1 \in Nat \ {0}
          BY <1>1, <1>3
        <4>3. /\ promised' \subseteq 1..(next + 1) - 1
              /\ synced' \in 0..flushed' /\ flushed' \in 0..Len(log') /\ log' = q
          BY <2>0, <4>1, <4>2, SyncedPromises
        <4>4. owed' = "none" /\ (next + 1) - 1 = next
          BY <4>1, <1>1 DEF Synced
        <4> QED
          BY <2>0, <3>1, <4>3, <4>4, <1>3 DEF Entry
      <3>3. CASE ~MustSync(kind, writes')
        <4>1. log' = q /\ UNCHANGED <<flushed, synced, promised, owed>>
          BY <2>1, <3>3 DEF AppendEncoded, q
        <4> QED
          BY <2>0, <3>1, <4>1, <1>3 DEF Entry
      <3> QED
        BY <3>2, <3>3
    <2>2. CASE AppendWriteFails(kind)
      <3>1. WriteFails(q) /\ UNCHANGED <<promised, owed>>
        BY <2>2 DEF AppendWriteFails, q
      <3>2. next + 1 \in Nat \ {0}
        BY <1>1
      <3> QED
        BY <2>0, <3>1, <3>2, <1>3, WriteFailsShaped
    <2>3. CASE AppendSyncFails(kind)
      <3>1. /\ log' = q /\ flushed' = Len(q) /\ synced' = synced /\ promised' = promised
            /\ owed' \in {"file", "appends"} /\ Fault
        BY <2>3 DEF AppendSyncFails, q
      <3>2. errors' \in 0..MaxErrors
        BY <3>1, <1>3 DEF Fault
      <3> QED
        BY <2>0, <3>1, <3>2, <1>3 DEF Entry
    <2> QED
      BY <2>1, <2>2, <2>3
  <1>6. writes' < maxEntries + next'
    BY <1>1, <1>3, <1>4 DEF Shaped, LogShape
  <1>7. Ordered(keep, next) => Ordered(keep, next + 1)
    BY <1>1 DEF Ordered, Entry
  <1>8. LogShape'
    BY <1>1, <1>4, <1>5, <1>6, <1>7 DEF Shaped, LogShape
  <1>9. TypeOK'
    <2>1. writes' \in 0..2 * maxEntries + MaxAppends
      BY <1>1, <1>3, <1>4, <1>6
    <2>2. /\ next' \in 1..MaxAppends + 1 /\ born' \in 1..next' /\ promised' \subseteq 1..next' - 1
      BY <1>1, <1>5 DEF Shaped, TypeOK
    <2> QED
      BY <1>1, <1>4, <1>5, <2>1, <2>2 DEF Shaped, TypeOK
  <1> QED
    BY <1>8, <1>9 DEF Shaped

(***************************************************************************)
(* Compaction reads a suffix and truncates ...                             *)
(***************************************************************************)
LEMMA TruncateShaped ==
    ASSUME Shaped, CompactTruncate
    PROVE  Shaped'
  <1> USE EventLogAssumption DEF Shaped
  <1>1. /\ keep' = LastOf(log, maxEntries)
        /\ log' = << >> /\ flushed' = 0 /\ synced' = 0 /\ pc = "compact" /\ pc' = "rewrite"
        /\ owed' = "file"
        /\ UNCHANGED <<writes, next, born, promised, crashes, errors, failed, gutted>>
        /\ ~HasTorn(log)
    BY DEF CompactTruncate, HasTorn
  <1>2. /\ log \in Seq(Entry) /\ Len(log) \in Nat /\ Increasing(log)
        /\ \A i \in 1..Len(log) : log[i] < next
    BY DEF LogShape, Ordered
  <1>3. /\ keep' \in Seq(Entry) /\ Len(keep') <= maxEntries /\ Len(keep') <= Len(log)
        /\ \A i \in 1..Len(keep') : keep'[i] = log[i + (Len(log) - Len(keep'))]
    BY <1>1, <1>2, LastOfIsSuffix
  <1> DEFINE d == Len(log) - Len(keep')
  <1>4. d \in Int /\ \A i \in 1..Len(keep') : i + d \in 1..Len(log) /\ keep'[i] = log[i + d]
    BY <1>2, <1>3
  <1> HIDE DEF d
  <1>5. ~HasTorn(keep')
    BY <1>1, <1>4 DEF HasTorn
  <1>6. Increasing(keep')
    <2> SUFFICES ASSUME NEW i \in 1..Len(keep'), NEW j \in 1..Len(keep'), i < j,
                        keep'[i] # Torn, keep'[j] # Torn
                 PROVE  keep'[i] < keep'[j]
      BY DEF Increasing
    <2>1. i + d < j + d
      BY <1>4
    <2> QED
      BY <2>1, <1>2, <1>4 DEF Increasing
  <1>7. Ordered(keep', next)
    BY <1>2, <1>3, <1>4, <1>6 DEF Ordered
  <1>8. Ordered(<< >>, next)
    BY DEF Ordered, Increasing
  <1>9. LogShape'
    BY <1>1, <1>3, <1>5, <1>7, <1>8 DEF LogShape
  <1>10. TypeOK'
    BY <1>1, <1>3 DEF TypeOK, Entry
  <1> QED
    BY <1>9, <1>10

(***************************************************************************)
(* ... puts back what it has read, or fails on the way.                    *)
(***************************************************************************)
LEMMA CompactShaped ==
    ASSUME Shaped,
           \/ CompactGivesUp \/ CompactRewrite \/ CompactRewriteFails
           \/ CompactSync \/ CompactSyncFails
    PROVE  Shaped'
  <1> USE EventLogAssumption DEF Shaped
  <1>1. /\ Ordered(log, next) /\ Ordered(keep, next) /\ next \in Nat \ {0}
        /\ log \in Seq(0..MaxAppends) /\ keep \in Seq(0..MaxAppends)
        /\ Len(log) \in Nat /\ Len(keep) \in Nat /\ Len(keep) <= maxEntries
        /\ synced \in 0..flushed /\ flushed \in 0..Len(log) /\ errors \in 0..MaxErrors
    BY DEF TypeOK, LogShape
  <1>2. /\ Fault => errors' \in 0..MaxErrors
        /\ Ordered(<< >>, next) /\ << >> \in Seq(0..MaxAppends) /\ Len(<< >>) = 0
    BY <1>1 DEF Fault, Ordered, Increasing, Entry
  <1>3. CASE CompactGivesUp
    <2>1. /\ pc = "compact" /\ failed' = TRUE
          /\ UNCHANGED <<writes, keep, next, born, promised, crashes, owed, gutted>>
          /\ pc' \in {"open", "broken"}
      BY <1>3 DEF CompactGivesUp
    <2>2. /\ Ordered(log', next) /\ log' \in Seq(0..MaxAppends)
          /\ synced' \in 0..flushed' /\ flushed' \in 0..Len(log')
          /\ errors' \in 0..MaxErrors
      <3>1. CASE WriteFails(log)
        BY <1>1, <3>1, WriteFailsShaped
      <3>2. CASE ~WriteFails(log)
        <4>1. flushed' = Len(log) /\ UNCHANGED <<log, synced>> /\ (Fault \/ UNCHANGED errors)
          BY <1>3, <3>2 DEF CompactGivesUp
        <4> QED
          BY <4>1, <1>1, <1>2
      <3> QED
        BY <3>1, <3>2
    <2>3. LogShape'
      BY <2>1, <2>2 DEF LogShape
    <2>4. TypeOK'
      BY <2>1, <2>2 DEF TypeOK
    <2> QED
      BY <2>3, <2>4
  <1>4. CASE CompactRewrite
    <2>1. LogShape'
      BY <1>1, <1>4 DEF CompactRewrite, LogShape
    <2>2. TypeOK'
      BY <1>1, <1>4 DEF CompactRewrite, TypeOK, LogShape
    <2> QED
      BY <2>1, <2>2
  <1>5. CASE CompactRewriteFails
    <2>1. /\ pc = "rewrite" /\ keep' = << >> /\ failed' = TRUE /\ gutted' = TRUE
          /\ UNCHANGED <<writes, next, born, promised, crashes, owed>>
          /\ pc' \in {"open", "broken"}
      BY <1>5 DEF CompactRewriteFails
    <2>2. /\ Ordered(log', next) /\ log' \in Seq(0..MaxAppends)
          /\ synced' \in 0..flushed' /\ flushed' \in 0..Len(log')
          /\ errors' \in 0..MaxErrors
      <3>1. CASE WriteFails(keep)
        BY <1>1, <3>1, WriteFailsShaped
      <3>2. CASE ~WriteFails(keep)
        <4>1. UNCHANGED fileVars /\ Fault
          BY <1>5, <3>2 DEF CompactRewriteFails
        <4> QED
          BY <4>1, <1>1, <1>2 DEF fileVars
      <3> QED
        BY <3>1, <3>2
    <2>3. LogShape'
      BY <1>2, <2>1, <2>2 DEF LogShape
    <2>4. TypeOK'
      BY <1>2, <2>1, <2>2 DEF TypeOK
    <2> QED
      BY <2>3, <2>4
  <1>6. CASE CompactSync
    <2>1. /\ pc = "sync" /\ Synced(log) /\ writes' = Len(keep) /\ keep' = << >> /\ pc' = "open"
          /\ UNCHANGED <<next, born, crashes, errors, failed, gutted>>
      BY <1>6 DEF CompactSync
    <2>2. promised \subseteq 1..next - 1
      BY DEF TypeOK
    <2>3. /\ promised' \subseteq 1..next - 1
          /\ synced' \in 0..flushed' /\ flushed' \in 0..Len(log') /\ log' = log
      BY <1>1, <2>1, <2>2, SyncedPromises
    <2>4. owed' = "none"
      BY <2>1 DEF Synced
    <2>5. LogShape'
      BY <1>1, <1>2, <2>1, <2>3 DEF LogShape
    <2>6. TypeOK'
      BY <1>1, <1>2, <2>1, <2>3, <2>4 DEF TypeOK
    <2> QED
      BY <2>5, <2>6
  <1>7. CASE CompactSyncFails
    <2>1. /\ pc = "sync" /\ Fault /\ keep' = << >> /\ pc' = "open" /\ failed' = TRUE
          /\ UNCHANGED <<log, flushed, synced, writes, next, born, promised, crashes, owed, gutted>>
      BY <1>7 DEF CompactSyncFails, fileVars
    <2>2. LogShape'
      BY <1>1, <1>2, <2>1 DEF LogShape
    <2>3. TypeOK'
      BY <1>1, <1>2, <2>1 DEF TypeOK
    <2> QED
      BY <2>2, <2>3
  <1> QED
    BY <1>3, <1>4, <1>5, <1>6, <1>7

(***************************************************************************)
(* A crash leaves a prefix of the file, or of what compaction was about to *)
(* put back.                                                               *)
(***************************************************************************)
LEMMA CrashShaped ==
    ASSUME Shaped, ProcessCrash \/ PowerLoss
    PROVE  Shaped'
  <1> USE EventLogAssumption DEF Shaped
  <1>1. /\ Ordered(log, next) /\ Ordered(keep, next) /\ next \in Nat \ {0}
        /\ log \in Seq(Entry) /\ keep \in Seq(Entry)
        /\ Len(log) \in Nat /\ Len(keep) \in Nat /\ flushed <= Len(log)
        /\ synced \in 0..flushed /\ flushed \in Nat
        /\ pc = "rewrite" => flushed = 0
    BY DEF TypeOK, LogShape, Entry
  <1>2. /\ pc # "down" /\ pc' = "down" /\ keep' = << >> /\ crashes' \in 0..MaxCrashes
        /\ owed' \in {owed, "none"} /\ gutted' \in BOOLEAN
        /\ UNCHANGED <<writes, next, born, promised, errors, failed>>
        /\ synced' \in {synced, Len(log')}
        /\ pc = "rewrite" => LeftWith(keep, 0, Len(keep))
        /\ pc # "rewrite" => \E least \in {synced, flushed} : LeftWith(log, least, flushed)
    <2>1. /\ pc # "down" /\ pc' = "down" /\ keep' = << >> /\ crashes' \in 0..MaxCrashes
      BY DEF ProcessCrash, PowerLoss, MayCrash, TypeOK
    <2>2. /\ owed' \in {owed, "none"} /\ gutted' \in BOOLEAN
          /\ UNCHANGED <<writes, next, born, promised, errors, failed>>
          /\ synced' \in {synced, Len(log')}
      BY DEF ProcessCrash, PowerLoss
    <2>3. /\ pc = "rewrite" => LeftWith(keep, 0, Len(keep))
          /\ pc # "rewrite" => LeftWith(log, synced, flushed) \/ LeftWith(log, flushed, flushed)
      BY DEF ProcessCrash, PowerLoss
    <2> QED
      BY <2>1, <2>2, <2>3
  <1>3. /\ Ordered(log', next) /\ log' \in Seq(0..MaxAppends)
        /\ flushed' = Len(log') /\ Len(log') \in Nat /\ Len(log') >= synced
    <2>1. CASE pc = "rewrite"
      <3>1. LeftWith(keep, 0, Len(keep)) /\ synced = 0 /\ 0 \in Nat
        BY <1>1, <1>2, <2>1
      <3>2. Ordered(log', next)
        BY <1>1, <3>1, LeftWithOrdered
      <3>3. /\ log' \in Seq(Entry) /\ Len(log') \in Nat
            /\ flushed' = Len(log') /\ Len(log') >= 0
        BY <1>1, <3>1, LeftWithPrefix
      <3> QED
        BY <3>1, <3>2, <3>3 DEF Entry
    <2>2. CASE pc # "rewrite"
      <3>1. PICK least \in {synced, flushed} : LeftWith(log, least, flushed)
        BY <1>2, <2>2
      <3>2. least \in Nat /\ least >= synced
        BY <1>1
      <3>3. Ordered(log', next)
        BY <1>1, <3>1, <3>2, LeftWithOrdered
      <3>4. /\ log' \in Seq(Entry) /\ Len(log') \in Nat
            /\ flushed' = Len(log') /\ Len(log') >= least
        BY <1>1, <3>1, <3>2, LeftWithPrefix
      <3> QED
        BY <1>1, <3>2, <3>3, <3>4 DEF Entry
    <2> QED
      BY <2>1, <2>2
  <1>4. /\ Ordered(<< >>, next) /\ << >> \in Seq(0..MaxAppends) /\ Len(<< >>) = 0
    BY DEF Ordered, Increasing
  <1>5. synced' \in 0..flushed' /\ flushed' \in 0..Len(log')
    BY <1>1, <1>2, <1>3
  <1>6. LogShape'
    BY <1>2, <1>3, <1>4 DEF LogShape
  <1>7. TypeOK'
    BY <1>2, <1>3, <1>4, <1>5 DEF TypeOK
  <1> QED
    BY <1>6, <1>7

(***************************************************************************)
(* A flush, a Close and an Open write no entries.                          *)
(***************************************************************************)
LEMMA FlushShaped ==
    ASSUME Shaped, Flush \/ FlushFails \/ Close \/ Open
    PROVE  Shaped'
  <1> USE EventLogAssumption DEF Shaped
  <1>1. /\ Ordered(log, next) /\ next \in Nat \ {0} /\ log \in Seq(0..MaxAppends)
        /\ Len(log) \in Nat /\ synced \in 0..flushed /\ flushed \in 0..Len(log)
        /\ errors \in 0..MaxErrors /\ born \in 1..next
    BY DEF TypeOK, LogShape
  <1>2. /\ UNCHANGED <<keep, next, promised, crashes, gutted>>
        /\ pc' \in {"open", "down", "broken"} /\ writes' \in {0, writes} /\ born' \in {born, next}
        /\ owed' \in {owed, "none", "file"} /\ failed' \in {failed, FALSE}
    BY DEF Flush, FlushFails, Close, Open, procVars, ghosts
  <1>3. /\ Ordered(log', next) /\ log' \in Seq(0..MaxAppends)
        /\ synced' \in 0..flushed' /\ flushed' \in 0..Len(log')
        /\ errors' \in 0..MaxErrors
    <2>1. CASE WriteFails(log)
      BY <1>1, <2>1, WriteFailsShaped
    <2>2. CASE ~WriteFails(log)
      <3>1. UNCHANGED <<log, synced, errors>> /\ flushed' \in synced..Len(log)
        BY <1>1, <2>2 DEF Flush, FlushFails, Close, Open, fileVars
      <3> QED
        BY <3>1, <1>1
    <2> QED
      BY <2>1, <2>2
  <1>4. LogShape'
    BY <1>1, <1>2, <1>3 DEF LogShape, TypeOK
  <1>5. TypeOK'
    <2>1. /\ writes' \in 0..2 * maxEntries + MaxAppends /\ born' \in 1..next'
          /\ owed' \in {"none", "appends", "file"} /\ failed' \in BOOLEAN
      <3>1. /\ writes \in 0..2 * maxEntries + MaxAppends /\ 2 * maxEntries \in Nat
            /\ owed \in {"none", "appends", "file"} /\ failed \in BOOLEAN
        BY DEF TypeOK
      <3>2. writes' \in 0..2 * maxEntries + MaxAppends
        BY <3>1, <1>2
      <3>3. born' \in 1..next'
        BY <1>1, <1>2
      <3>4. owed' \in {"none", "appends", "file"} /\ failed' \in BOOLEAN
        BY <3>1, <1>2
      <3> QED
        BY <3>2, <3>3, <3>4
    <2> QED
      BY <2>1, <1>1, <1>2, <1>3 DEF TypeOK
  <1> QED
    BY <1>4, <1>5

(***************************************************************************)
(* Every step keeps the shape.                                             *)
(***************************************************************************)
LEMMA NextShaped ==
    ASSUME Shaped, [Next]_vars
    PROVE  Shaped'
  <1>1. CASE UNCHANGED vars
    BY <1>1 DEF vars, fileVars, procVars, ghosts, Shaped, TypeOK, LogShape
  <1> QED
    BY <1>1, AppendShaped, TruncateShaped, CompactShaped, CrashShaped, FlushShaped DEF Next

(***************************************************************************)
(* Type correctness, with the shape of the log.                            *)
(***************************************************************************)
THEOREM LogIsShaped == Spec => []Shaped
  <1>1. Init => Shaped
    <2> SUFFICES ASSUME Init PROVE TypeOK /\ LogShape
      BY DEF Shaped
    <2>1. TypeOK
      <3>1. log \in Seq(0..MaxAppends) /\ keep \in Seq(0..MaxAppends) /\ Len(log) = 0
        BY DEF Init
      <3>2. gutted \in BOOLEAN /\ failed \in BOOLEAN
        BY DEF Init
      <3>3. writes \in 0..2 * maxEntries + MaxAppends /\ next \in 1..MaxAppends + 1 /\ born \in 1..next
        BY EventLogAssumption DEF Init
      <3> QED
        BY <3>1, <3>2, <3>3, EventLogAssumption DEF Init, TypeOK
    <2>2. LogShape
      <3>1. Ordered(<< >>, 1)
        BY DEF Ordered, Increasing
      <3> QED
        BY <3>1, EventLogAssumption DEF Init, LogShape
    <2> QED
      BY <2>1, <2>2
  <1> QED
    BY <1>1, NextShaped, PTL DEF Spec

(***************************************************************************)
(* Type correctness: what is synced is flushed, what is flushed is in the  *)
(* log, and only entries that were appended are promised.                  *)
(***************************************************************************)
THEOREM TypeCorrect == Spec => []TypeOK
  <1>1. Shaped => TypeOK
    BY DEF Shaped
  <1> QED
    BY <1>1, LogIsShaped, PTL

-----------------------------------------------------------------------------
(* Evidence. *)

(***************************************************************************)
(* Evidence stays when more is synced behind it.                           *)
(***************************************************************************)
LEMMA EvidenceExtends ==
    ASSUME NEW q, NEW r, NEW s \in Nat, NEW t \in Nat, NEW n, t >= s,
           \A i \in 1..s : r[i] = q[i], maxEntries \in Nat, Evident(q, s, n)
    PROVE  Evident(r, t, n)
  BY DEF Evident

(***************************************************************************)
(* Every entry that is synced is its own evidence.                         *)
(***************************************************************************)
LEMMA NumbersEvident ==
    ASSUME NEW q, NEW n \in Numbers(q)
    PROVE  Evident(q, Len(q), n)
  BY DEF Numbers, Evident

(***************************************************************************)
(* Compaction keeps the evidence: it drops an entry only when it keeps     *)
(* maxEntries later ones.                                                  *)
(***************************************************************************)
LEMMA LastOfKeepsEvidence ==
    ASSUME NEW q \in Seq(Entry), Increasing(q), ~HasTorn(q), NEW s \in 0..Len(q), NEW n \in Nat,
           Evident(q, s, n), maxEntries \in Nat \ {0}, MaxAppends \in Nat
    PROVE  Evident(LastOf(q, maxEntries), Len(LastOf(q, maxEntries)), n)
  <1> DEFINE k == LastOf(q, maxEntries)
             d == Len(q) - Len(k)
  <1>1. /\ Len(k) = IF Len(q) <= maxEntries THEN Len(q) ELSE maxEntries
        /\ \A i \in 1..Len(k) : k[i] = q[i + d] /\ i + d \in 1..Len(q)
        /\ d \in Nat /\ d = Len(q) - Len(k) /\ Len(q) \in Nat /\ Len(k) \in Nat
    <2>1. /\ k \in Seq(Entry)
          /\ Len(k) = IF Len(q) <= maxEntries THEN Len(q) ELSE maxEntries
          /\ \A i \in 1..Len(k) : k[i] = q[i + d]
      BY LastOfIsSuffix, maxEntries \in Nat
    <2>2. d = Len(q) - Len(k)
      OBVIOUS
    <2> HIDE DEF k, d
    <2>3. Len(q) \in Nat /\ Len(k) \in Nat
      BY <2>1
    <2>4. d \in Nat /\ Len(k) + d = Len(q)
      BY <2>1, <2>2, <2>3
    <2>5. \A i \in 1..Len(k) : i + d \in 1..Len(q)
      BY <2>3, <2>4
    <2> QED
      BY <2>1, <2>2, <2>3, <2>4, <2>5
  <1>2. \A i \in 1..Len(q) : q[i] # Torn /\ q[i] \in Nat
    BY DEF HasTorn, Entry
  <1> HIDE DEF k, d
  <1>3. CASE \E i \in 1..s : q[i] = n
    <2>1. PICK i \in 1..s : q[i] = n
      BY <1>3
    <2>2. CASE i > d
      <3>1. i - d \in 1..Len(k) /\ k[i - d] = n
        <4>0. Len(k) \in Nat /\ d \in Nat /\ Len(q) = Len(k) + d /\ i \in Nat /\ i <= Len(q)
          BY <1>1
        <4>1. PICK j \in 1..Len(k) : j = i - d /\ j + d = i
          BY <2>2, <4>0
        <4>2. k[j] = q[j + d]
          BY <1>1
        <4> QED
          BY <4>1, <4>2, <2>1
      <3> QED
        BY <3>1 DEF Evident, k
    <2>3. CASE i <= d
      <3>1. Len(k) = maxEntries
        BY <2>3, <1>1
      <3>2. ASSUME NEW j \in 1..maxEntries
            PROVE  k[j] > n
        <4>1. k[j] = q[j + d] /\ j + d \in 1..Len(q) /\ i < j + d /\ i \in 1..Len(q)
          <5>1. j \in 1..Len(k)
            BY <3>1
          <5>2. k[j] = q[j + d] /\ j + d \in 1..Len(q)
            BY <5>1, <1>1
          <5>3. i < j + d
            <6>1. d \in Nat
              BY <1>1
            <6> QED
              BY <6>1, <2>3
          <5> QED
            BY <5>2, <5>3
        <4>2. q[i] < q[j + d]
          BY <4>1, <1>2 DEF Increasing
        <4> QED
          BY <4>1, <4>2, <2>1, <1>2
      <3> QED
        BY <3>1, <3>2 DEF Evident, k
    <2> QED
      BY <1>1, <2>2, <2>3
  <1>4. CASE s >= maxEntries /\ \A i \in 1..maxEntries : q[i] > n
    <2>1. Len(k) = maxEntries /\ q[1] > n /\ 1 \in 1..Len(q)
      BY <1>1, <1>4
    <2>2. \A i \in 1..Len(q) : q[i] > n
      BY <2>1, <1>2 DEF Increasing
    <2>3. \A j \in 1..maxEntries : k[j] > n
      BY <2>1, <2>2, <1>1
    <2> QED
      BY <2>1, <2>3 DEF Evident, k
  <1> QED
    BY <1>3, <1>4 DEF Evident

(***************************************************************************)
(* The positions of the log, in order.                                     *)
(***************************************************************************)
LEMMA Positions ==
    ASSUME Shaped
    PROVE  /\ synced \in Nat /\ flushed \in Nat /\ Len(log) \in Nat /\ OnDisk \in Nat
           /\ synced <= flushed /\ flushed <= Len(log) /\ OnDisk <= flushed
           /\ log \in Seq(Entry) /\ keep \in Seq(Entry) /\ next \in Nat
           /\ Increasing(log)
  BY DEF Shaped, TypeOK, LogShape, Ordered, OnDisk, Entry

(***************************************************************************)
(* A write that fails leaves what is on disk.                              *)
(***************************************************************************)
LEMMA WriteFailsOnDisk ==
    ASSUME Shaped, NEW q \in Seq(Entry), WriteFails(q), owed' = owed,
           \A i \in 1..flushed : q[i] = log[i]
    PROVE  OnDisk' >= OnDisk /\ \A i \in 1..OnDisk : log'[i] = log[i]
  <1>1. LeftWith(q, flushed, Len(q)) /\ synced' = synced /\ Len(q) \in Nat
    BY DEF WriteFails
  <1>2. /\ flushed' = Len(log') /\ Len(log') \in Nat /\ Len(log') >= flushed
        /\ \A i \in 1..flushed : log'[i] = q[i]
    BY <1>1, Positions, LeftWithPrefix, EventLogAssumption
  <1> QED
    BY <1>1, <1>2, Positions DEF OnDisk

(***************************************************************************)
(* Of the file, nothing that is on disk changes, except by a truncate and  *)
(* by what it has lost.                                                    *)
(***************************************************************************)
LEMMA DiskGrows ==
    ASSUME Shaped, [Next]_vars, pc # "rewrite", pc' # "rewrite", ~gutted'
    PROVE  OnDisk' >= OnDisk /\ \A i \in 1..OnDisk : log'[i] = log[i]
  <1> USE EventLogAssumption
  <1>1. ASSUME NEW kind \in Kind,
               AppendEncoded(kind) \/ AppendWriteFails(kind) \/ AppendSyncFails(kind)
        PROVE  OnDisk' >= OnDisk /\ \A i \in 1..OnDisk : log'[i] = log[i]
    <2> DEFINE q == Append(log, next)
    <2>1. next <= MaxAppends
      BY <1>1 DEF AppendEncoded, AppendWriteFails, AppendSyncFails
    <2>2. q \in Seq(Entry) /\ Len(q) = Len(log) + 1 /\ \A i \in 1..Len(log) : q[i] = log[i]
      BY <2>1, Appended
    <2>3. \A i \in 1..flushed : q[i] = log[i]
      BY <2>2, Positions
    <2> HIDE DEF q
    <2>4. CASE AppendWriteFails(kind)
      <3>1. WriteFails(q) /\ owed' = owed
        BY <2>4 DEF AppendWriteFails, q
      <3> QED
        BY <3>1, <2>2, <2>3, WriteFailsOnDisk
    <2>5. CASE AppendEncoded(kind) \/ AppendSyncFails(kind)
      <3>1. log' = q
        BY <2>5 DEF AppendEncoded, AppendSyncFails, Synced, q
      <3>2. OnDisk' \in {Len(q), OnDisk}
        BY <2>5 DEF AppendEncoded, AppendSyncFails, Synced, OnDisk, q
      <3> QED
        BY <3>1, <3>2, <2>2, Positions
    <2> QED
      BY <1>1, <2>4, <2>5
  <1>2. CASE CompactGivesUp \/ FlushFails \/ Close
    <2>1. owed' = owed
      BY <1>2 DEF CompactGivesUp, FlushFails, Close, ghosts
    <2>2. CASE WriteFails(log)
      BY <2>1, <2>2, Positions, WriteFailsOnDisk
    <2>3. CASE ~WriteFails(log)
      <3>1. UNCHANGED <<log, synced>> /\ flushed' \in {flushed, Len(log)}
        BY <1>2, <2>3 DEF CompactGivesUp, FlushFails, Close, fileVars
      <3> QED
        BY <2>1, <3>1, Positions DEF OnDisk
    <2> QED
      BY <2>2, <2>3
  <1>3. CASE CompactSync \/ CompactSyncFails \/ Flush \/ Open \/ UNCHANGED vars
    <2>1. log' = log /\ OnDisk' \in {Len(log), OnDisk, flushed'} /\ flushed' \in {flushed, Len(log)} \cup (flushed + 1..Len(log))
      BY <1>3 DEF CompactSync, CompactSyncFails, Synced, Flush, Open, vars, fileVars, ghosts, OnDisk
    <2> QED
      BY <2>1, Positions
  <1>4. CASE ProcessCrash
    <2>1. LeftWith(log, flushed, flushed) /\ synced' = synced /\ owed' = owed
      BY <1>4 DEF ProcessCrash
    <2>2. /\ flushed' = Len(log') /\ Len(log') \in Nat /\ Len(log') >= flushed
          /\ \A i \in 1..flushed : log'[i] = log[i]
      BY <2>1, Positions, LeftWithPrefix
    <2> QED
      BY <2>1, <2>2, Positions DEF OnDisk
  <1>5. CASE PowerLoss
    <2>1. LeftWith(log, synced, flushed) /\ synced' = Len(log') /\ owed # "file" /\ owed' = "none"
      BY <1>5 DEF PowerLoss
    <2>2. /\ flushed' = Len(log') /\ Len(log') \in Nat /\ Len(log') >= synced
          /\ \A i \in 1..synced : log'[i] = log[i]
      BY <2>1, Positions, LeftWithPrefix
    <2> QED
      BY <2>1, <2>2, Positions DEF OnDisk
  <1>6. ~CompactTruncate /\ ~CompactRewrite /\ ~CompactRewriteFails
    BY DEF CompactTruncate, CompactRewrite, CompactRewriteFails
  <1> QED
    BY <1>1, <1>2, <1>3, <1>4, <1>5, <1>6 DEF Next

(***************************************************************************)
(* What is promised has just been synced, or was promised before.          *)
(***************************************************************************)
LEMMA PromisesGrow ==
    ASSUME [Next]_vars, NEW n \in promised', n \notin promised
    PROVE  n \in Numbers(log') /\ OnDisk' = Len(log') /\ pc # "rewrite" /\ pc' # "rewrite"
  <1>1. PICK kind \in Kind : AppendEncoded(kind) \/ CompactSync
    BY DEF Next, vars, AppendWriteFails, AppendSyncFails, CompactTruncate, CompactGivesUp,
           CompactRewrite, CompactRewriteFails, CompactSyncFails, Flush, FlushFails, Close,
           ProcessCrash, PowerLoss, Open, ghosts, Kind
  <1>2. PICK q : Synced(q)
    BY <1>1 DEF AppendEncoded, CompactSync
  <1>3. n \in Numbers(q) /\ log' = q /\ OnDisk' = Len(q)
    BY <1>2 DEF Synced, OnDisk
  <1> QED
    BY <1>1, <1>3 DEF AppendEncoded, CompactSync

(***************************************************************************)
(* Every step keeps the evidence, unless what was truncated is lost.       *)
(***************************************************************************)
LEMMA NextKeepsEvidence ==
    ASSUME Shaped, EvidenceOnDisk, [Next]_vars
    PROVE  EvidenceOnDisk'
  <1> SUFFICES ASSUME ~gutted', NEW n \in promised'
               PROVE  IF pc' = "rewrite" THEN Evident(keep', Len(keep'), n)
                                         ELSE Evident(log', OnDisk', n)
    BY DEF EvidenceOnDisk
  <1> USE EventLogAssumption
  <1>1. ~gutted
    BY DEF Next, vars, AppendEncoded, AppendWriteFails, AppendSyncFails, CompactTruncate,
           CompactGivesUp, CompactRewrite, CompactRewriteFails, CompactSync, CompactSyncFails,
           Flush, FlushFails, Close, ProcessCrash, PowerLoss, Open, ghosts
  <1>2. Shaped'
    BY NextShaped
  <1>3. OnDisk' \in Nat
    BY <1>2 DEF Shaped, TypeOK, OnDisk
  <1>4. CASE n \notin promised
    BY <1>4, PromisesGrow, NumbersEvident
  <1>5. CASE n \in promised
    <2>1. IF pc = "rewrite" THEN Evident(keep, Len(keep), n) ELSE Evident(log, OnDisk, n)
      BY <1>1, <1>5 DEF EvidenceOnDisk
    <2>2. CASE pc = "rewrite"
      <3>0. owed = "file"
        BY <2>2 DEF Shaped, LogShape
      <3>1. CompactRewrite \/ UNCHANGED vars
        BY <2>2, <3>0 DEF Next, AppendEncoded, AppendWriteFails, AppendSyncFails, CompactTruncate,
                    CompactGivesUp, CompactRewriteFails, CompactSync, CompactSyncFails,
                    Flush, FlushFails, Close, ProcessCrash, PowerLoss, Open
      <3>2. CASE CompactRewrite
        <4>1. log' = keep /\ flushed' = Len(keep) /\ pc' = "sync" /\ owed' = owed
          BY <3>2 DEF CompactRewrite
        <4> QED
          BY <4>1, <3>0, <2>1, <2>2 DEF OnDisk
      <3>3. CASE UNCHANGED vars
        BY <3>3, <2>1, <2>2 DEF vars, procVars
      <3> QED
        BY <3>1, <3>2, <3>3
    <2>3. CASE pc # "rewrite" /\ pc' = "rewrite"
      <3>1. CompactTruncate
        BY <2>3 DEF Next, vars, procVars, AppendEncoded, AppendWriteFails, AppendSyncFails,
                    CompactGivesUp, CompactRewrite, CompactRewriteFails, CompactSync,
                    CompactSyncFails, Flush, FlushFails, Close, ProcessCrash, PowerLoss,
                    MayCrash, Open
      <3>2. keep' = LastOf(log, maxEntries) /\ ~HasTorn(log)
        BY <3>1 DEF CompactTruncate, HasTorn
      <3>3. n \in Nat
        BY <1>5 DEF Shaped, TypeOK
      <3>4. OnDisk \in 0..Len(log)
        BY Positions
      <3>5. Evident(keep', Len(keep'), n)
        BY <3>2, <3>3, <3>4, <2>1, <2>3, Positions, LastOfKeepsEvidence
      <3> QED
        BY <3>5, <2>3
    <2>4. CASE pc # "rewrite" /\ pc' # "rewrite"
      <3>1. OnDisk' >= OnDisk /\ \A i \in 1..OnDisk : log'[i] = log[i]
        BY <2>4, DiskGrows
      <3>2. OnDisk \in Nat
        BY Positions
      <3>3. Evident(log', OnDisk', n)
        BY <1>3, <2>1, <2>4, <3>1, <3>2, EvidenceExtends
      <3> QED
        BY <3>3, <2>4
    <2> QED
      BY <2>2, <2>3, <2>4
  <1> QED
    BY <1>4, <1>5

(***************************************************************************)
(* maxEntries later entries at the front of the log are as many numbers.   *)
(***************************************************************************)
LEMMA LaterEntriesCounted ==
    ASSUME Shaped, NEW n \in Nat, maxEntries <= Len(log), \A i \in 1..maxEntries : log[i] > n
    PROVE  Cardinality({m \in Numbers(log) : m > n}) >= maxEntries
  <1> USE EventLogAssumption
  <1> DEFINE T == {m \in Numbers(log) : m > n}
             f == [i \in 1..maxEntries |-> log[i]]
  <1>1. \A i \in 1..Len(log) : log[i] \in Nat /\ log[i] < next
    BY DEF Shaped, TypeOK, LogShape, Ordered
  <1>2. next \in Nat /\ Len(log) \in Nat
    BY DEF Shaped, TypeOK
  <1>3. IsFiniteSet(T)
    <2>1. T \in SUBSET (0..next)
      BY <1>1, <1>2 DEF Numbers
    <2>2. IsFiniteSet(0..next)
      BY <1>2, FirstNumbers
    <2> QED
      BY <2>1, <2>2, FS_Subset
  <1>4. \A i \in 1..maxEntries : log[i] \in T
    BY <1>1, <1>2 DEF Numbers, Torn
  <1>5. \A i, j \in 1..maxEntries : log[i] = log[j] => i = j
    <2> SUFFICES ASSUME NEW i \in 1..maxEntries, NEW j \in 1..maxEntries, i < j
                 PROVE  log[i] < log[j]
      BY <1>1, <1>2
    <2>1. log[i] # Torn /\ log[j] # Torn /\ i \in 1..Len(log) /\ j \in 1..Len(log)
      BY <1>2 DEF Torn
    <2> QED
      BY <2>1, Positions DEF Increasing
  <1>6. f \in Injection(1..maxEntries, T)
    BY <1>4, <1>5 DEF Injection, IsInjective
  <1>7. Cardinality(1..maxEntries) = maxEntries
    BY EventLogAssumption, FirstNumbers
  <1> HIDE DEF T, f
  <1>8. Cardinality(1..maxEntries) <= Cardinality(T)
    BY <1>3, <1>6, FS_Injection
  <1>9. Cardinality(T) \in Nat
    BY <1>3, FS_CardinalityType
  <1>10. Cardinality(T) >= maxEntries
    BY <1>7, <1>8, <1>9
  <1> QED
    BY <1>10 DEF T

(***************************************************************************)
(* "append-only event log for durable evidence": what an append synced is  *)
(* in the log after any crashes, restarts and failing calls on the file,   *)
(* or has given way to maxEntries later entries, and the entries are in    *)
(* order, for every flush interval and every bound, unless a truncated     *)
(* file has lost what compaction was to put back.                          *)
(***************************************************************************)
THEOREM EvidenceSurvivesAlways == Spec => []EvidenceSurvives
  <1>1. Init => EvidenceOnDisk
    BY DEF Init, EvidenceOnDisk
  <1>2. Shaped /\ EvidenceOnDisk /\ [Next]_vars => EvidenceOnDisk'
    BY NextKeepsEvidence
  <1>3. Shaped /\ EvidenceOnDisk => EvidenceSurvives
    <2> SUFFICES ASSUME Shaped, EvidenceOnDisk PROVE EvidenceSurvives
      OBVIOUS
    <2> USE EventLogAssumption
    <2>1. \A i, j \in 1..Len(log) : (i < j /\ log[i] # Torn /\ log[j] # Torn) => log[i] < log[j]
      BY Positions DEF Increasing
    <2>2. ASSUME pc # "rewrite", ~gutted, NEW n \in promised
          PROVE  Kept(n)
      <3>1. n \in Nat /\ n # Torn
        BY DEF Shaped, TypeOK, Torn
      <3>2. Evident(log, OnDisk, n) /\ OnDisk \in Nat /\ OnDisk <= Len(log) /\ Len(log) \in Nat
        BY <2>2, Positions DEF EvidenceOnDisk
      <3>3. CASE \E i \in 1..OnDisk : log[i] = n
        BY <3>1, <3>2, <3>3 DEF Numbers, Kept
      <3>4. CASE OnDisk >= maxEntries /\ \A i \in 1..maxEntries : log[i] > n
        BY <3>1, <3>2, <3>4, LaterEntriesCounted DEF Kept
      <3> QED
        BY <3>2, <3>3, <3>4 DEF Evident
    <2> QED
      BY <2>1, <2>2 DEF EvidenceSurvives
  <1> QED
    BY <1>1, <1>2, <1>3, LogIsShaped, PTL DEF Spec

-----------------------------------------------------------------------------
(* Bounds. *)

(***************************************************************************)
(* A larger factor makes a product larger by at least the other factor.    *)
(***************************************************************************)
LEMMA ProductSteps ==
    ASSUME NEW f \in Nat, NEW a \in Int, NEW b \in Int, a >= b + 1
    PROVE  f * a >= f * b + f
  <1>1. PICK k \in Nat : a = b + 1 + k
    <2>1. a - b - 1 \in Nat /\ a = b + 1 + (a - b - 1)
      OBVIOUS
    <2> QED
      BY <2>1
  <1>2. f * a = f * b + f + f * k
    BY <1>1
  <1>3. f * k >= 0 /\ f * b \in Int /\ f * k \in Int
    OBVIOUS
  <1> QED
    BY <1>2, <1>3

(***************************************************************************)
(* The counter modulo flushEvery goes up by one until it reaches zero.     *)
(***************************************************************************)
LEMMA ModuloSteps ==
    ASSUME NEW w \in Nat, NEW f \in Nat \ {0}, (w + 1) % f # 0
    PROVE  (w + 1) % f = (w % f) + 1
  <1> DEFINE r == w % f
             q == w \div f
             s == (w + 1) % f
             t == (w + 1) \div f
  <1>1. r \in 0..f - 1 /\ q \in Int /\ w = f * q + r
    OBVIOUS
  <1>2. s \in 0..f - 1 /\ t \in Int /\ w + 1 = f * t + s /\ s # 0
    OBVIOUS
  <1> HIDE DEF r, q, s, t
  <1> DEFINE x == f * q
             y == f * t
  <1>3. x \in Int /\ y \in Int /\ w = x + r /\ w + 1 = y + s
    BY <1>1, <1>2
  <1>4. t >= q + 1 => y >= x + f
    BY <1>1, <1>2, ProductSteps
  <1>5. q >= t + 1 => x >= y + f
    BY <1>1, <1>2, ProductSteps
  <1>6. t = q => y = x
    OBVIOUS
  <1> HIDE DEF x, y
  <1>7. t = q
    BY <1>1, <1>2, <1>3, <1>4, <1>5
  <1>8. s = r + 1
    BY <1>1, <1>2, <1>3, <1>6, <1>7
  <1> QED
    BY <1>8 DEF r, s

(***************************************************************************)
(* The two counted sets are finite.                                        *)
(***************************************************************************)
LEMMA OwnFinite ==
    ASSUME Shaped
    PROVE  /\ IsFiniteSet(Own) /\ IsFiniteSet(OwnUnsynced)
           /\ Cardinality(Own) \in Nat /\ Cardinality(OwnUnsynced) \in Nat
           /\ Cardinality(Own) <= Len(log)
  <1>1. Len(log) \in Nat /\ synced \in Nat
    BY DEF Shaped, TypeOK
  <1>2. IsFiniteSet(1..Len(log)) /\ Cardinality(1..Len(log)) = Len(log)
    BY <1>1, FirstNumbers
  <1>3. Own \in SUBSET (1..Len(log)) /\ OwnUnsynced \in SUBSET (1..Len(log))
    BY <1>1 DEF Own, OwnUnsynced
  <1>4. /\ IsFiniteSet(Own) /\ IsFiniteSet(OwnUnsynced)
        /\ Cardinality(Own) <= Cardinality(1..Len(log))
    BY <1>2, <1>3, FS_Subset
  <1> QED
    BY <1>2, <1>4, FS_CardinalityType

(***************************************************************************)
(* An append that leaves the log open adds one entry of this process to    *)
(* both sets, or syncs it.                                                 *)
(***************************************************************************)
LEMMA AppendCounts ==
    ASSUME Shaped, Counted, NEW kind \in Kind, AppendEncoded(kind) \/ AppendSyncFails(kind)
    PROVE  Counted'
  <1> USE EventLogAssumption
  <1>1. /\ pc = "open" /\ next <= MaxAppends /\ born' = born /\ writes' = writes + 1
    BY DEF AppendEncoded, AppendSyncFails
  <1>2. log' = Append(log, next)
    BY DEF AppendEncoded, AppendSyncFails, Synced
  <1>3. /\ writes \in Nat /\ next \in Nat /\ born <= next /\ born \in Nat
        /\ synced \in 0..Len(log) /\ Len(log) \in Nat
    BY Positions DEF Shaped, TypeOK
  <1>4. /\ Len(log') = Len(log) + 1 /\ log'[Len(log) + 1] = next
        /\ \A i \in 1..Len(log) : log'[i] = log[i]
    BY <1>1, <1>2, Appended
  <1>5. Cardinality(Own') = Cardinality(Own) + 1
    <2>1. Own' = Own \cup {Len(log) + 1} /\ Len(log) + 1 \notin Own
      BY <1>1, <1>3, <1>4 DEF Own
    <2> QED
      BY <2>1, OwnFinite, FS_AddElement
  <1>6. ASSUME owed' = "none"
        PROVE  Cardinality(OwnUnsynced') <= writes' % flushEvery
    <2>0. AppendEncoded(kind)
      BY <1>6 DEF AppendSyncFails
    <2>1. CASE MustSync(kind, writes')
      <3>1. synced' = Len(log')
        BY <2>0, <2>1 DEF AppendEncoded, Synced
      <3>2. OwnUnsynced' = {}
        BY <3>1, <1>3, <1>4 DEF OwnUnsynced
      <3>3. writes' % flushEvery \in 0..flushEvery - 1
        BY <1>1, <1>3
      <3> QED
        BY <3>2, <3>3, FS_EmptySet
    <2>2. CASE ~MustSync(kind, writes')
      <3>1. synced' = synced /\ owed = "none" /\ (writes + 1) % flushEvery # 0
        BY <1>1, <1>6, <2>0, <2>2 DEF AppendEncoded, MustSync
      <3>2. OwnUnsynced' = OwnUnsynced \cup {Len(log) + 1} /\ Len(log) + 1 \notin OwnUnsynced
        BY <3>1, <1>1, <1>3, <1>4 DEF OwnUnsynced
      <3>3. Cardinality(OwnUnsynced') = Cardinality(OwnUnsynced) + 1
        BY <3>2, OwnFinite, FS_AddElement
      <3>4. (writes + 1) % flushEvery = (writes % flushEvery) + 1
        BY <3>1, <1>3, ModuloSteps
      <3>5. Cardinality(OwnUnsynced) <= writes % flushEvery /\ writes % flushEvery \in Nat
        BY <1>1, <1>3, <3>1 DEF Counted
      <3> QED
        BY <3>3, <3>4, <3>5, <1>1, OwnFinite
    <2> QED
      BY <2>1, <2>2
  <1>7. Cardinality(Own') <= writes'
    BY <1>1, <1>3, <1>5, OwnFinite DEF Counted
  <1>8. pc' = "open" /\ ~failed' => writes' <= 2 * maxEntries
    BY <1>1 DEF AppendEncoded, AppendSyncFails
  <1> QED
    BY <1>6, <1>7, <1>8 DEF Counted

(***************************************************************************)
(* Compaction that leaves the log open counts what it kept, or has failed. *)
(***************************************************************************)
LEMMA CompactCounts ==
    ASSUME Shaped, Counted, pc' \in {"open", "compact"},
           \/ CompactGivesUp \/ CompactRewriteFails \/ CompactSync \/ CompactSyncFails
    PROVE  Counted'
  <1> USE EventLogAssumption
  <1>1. CASE CompactGivesUp
    <2>1. /\ pc = "compact" /\ failed' = TRUE
          /\ UNCHANGED <<log, synced, writes, born, owed>>
      BY <1>1 DEF CompactGivesUp
    <2> QED
      BY <2>1 DEF Counted, Own, OwnUnsynced
  <1>2. CASE CompactRewriteFails \/ CompactSyncFails
    <2>1. /\ failed' = TRUE /\ owed = "file" /\ owed' = owed
          /\ UNCHANGED <<log, writes, born>> /\ pc \in {"rewrite", "sync"}
      BY <1>2 DEF CompactRewriteFails, CompactSyncFails, Shaped, LogShape, fileVars
    <2>2. Len(log) <= maxEntries /\ writes > 2 * maxEntries
      BY <2>1 DEF Shaped, LogShape
    <2>3. Own' = Own
      BY <2>1 DEF Own
    <2>4. writes \in Nat
      BY DEF Shaped, TypeOK
    <2>5. Cardinality(Own') <= writes'
      BY <2>1, <2>2, <2>3, <2>4, OwnFinite, Positions
    <2> QED
      BY <2>1, <2>5 DEF Counted
  <1>3. CASE CompactSync
    <2>1. /\ log' = log /\ synced' = Len(log) /\ writes' = Len(keep) /\ log = keep /\ born' = born
          /\ Len(log) <= maxEntries
      BY <1>3 DEF CompactSync, Synced, Shaped, LogShape
    <2>2. OwnUnsynced' = {}
      BY <2>1, Positions DEF OwnUnsynced
    <2>3. writes' % flushEvery \in 0..flushEvery - 1
      BY <2>1, Positions
    <2>4. Cardinality(OwnUnsynced') <= writes' % flushEvery
      BY <2>2, <2>3, FS_EmptySet
    <2>5. Own' = Own
      BY <2>1 DEF Own
    <2>6. Cardinality(Own') <= writes' /\ writes' <= 2 * maxEntries
      BY <2>1, <2>5, OwnFinite, Positions
    <2> QED
      BY <2>4, <2>6 DEF Counted
  <1> QED
    BY <1>1, <1>2, <1>3

(***************************************************************************)
(* Every step keeps the counts: a new process has no entries yet.          *)
(***************************************************************************)
LEMMA NextCounts ==
    ASSUME Shaped, Counted, [Next]_vars
    PROVE  Counted'
  <1> USE EventLogAssumption
  <1>1. CASE pc' \notin {"open", "compact"}
    BY <1>1 DEF Counted
  <1>2. CASE UNCHANGED <<pc, log, synced, writes, born, owed, failed>>
    BY <1>2 DEF Counted, Own, OwnUnsynced
  <1>3. CASE Open
    <2>1. log' = log /\ synced' = synced /\ writes' = 0 /\ born' = next
      BY <1>3 DEF Open, fileVars
    <2>2. \A i \in 1..Len(log) : ~(log[i] >= next)
      <3>1. \A i \in 1..Len(log) : log[i] < next /\ log[i] \in Int
        BY DEF Shaped, TypeOK, LogShape, Ordered
      <3> QED
        BY <3>1, Positions
    <2>3. Own' = {}
      BY <2>1, <2>2 DEF Own
    <2>4. OwnUnsynced' = {}
      BY <2>1, <2>2, Positions DEF OwnUnsynced
    <2>5. 0 % flushEvery \in 0..flushEvery - 1
      OBVIOUS
    <2> QED
      BY <2>1, <2>3, <2>4, <2>5, FS_EmptySet DEF Counted
  <1>4. Flush \/ UNCHANGED vars => UNCHANGED <<pc, log, synced, writes, born, owed, failed>>
    BY DEF Flush, vars, fileVars, procVars, ghosts
  <1>5. ASSUME NEW kind \in Kind, AppendWriteFails(kind)
        PROVE  pc' \notin {"open", "compact"}
    BY <1>5 DEF AppendWriteFails
  <1>6. CASE CompactTruncate \/ CompactRewrite \/ FlushFails \/ Close \/ ProcessCrash \/ PowerLoss
    BY <1>1, <1>6 DEF CompactTruncate, CompactRewrite, FlushFails, Close, ProcessCrash, PowerLoss,
                      MayCrash
  <1>7. ASSUME NEW kind \in Kind, AppendEncoded(kind) \/ AppendSyncFails(kind)
        PROVE  Counted'
    BY <1>7, AppendCounts
  <1>8. CASE \/ CompactGivesUp \/ CompactRewriteFails \/ CompactSync \/ CompactSyncFails
    BY <1>1, <1>8, CompactCounts
  <1> QED
    BY <1>1, <1>2, <1>3, <1>4, <1>5, <1>6, <1>7, <1>8 DEF Next

(***************************************************************************)
(* "bounded flush" and "WAL compaction bound": when an append has          *)
(* returned, less than flushEvery entries of this process are not on disk  *)
(* unless a Sync failed and none has succeeded since, and, if it returned  *)
(* no error, the log holds at most 2 * maxEntries of them, for every flush *)
(* interval and every bound.                                               *)
(***************************************************************************)
THEOREM LogIsBounded == Spec => []LogBounded
  <1>1. Init => Counted
    <2> SUFFICES ASSUME Init PROVE Counted
      OBVIOUS
    <2>1. Own = {} /\ OwnUnsynced = {} /\ writes = 0
      BY DEF Init, Own, OwnUnsynced
    <2>2. 0 % flushEvery \in 0..flushEvery - 1
      BY EventLogAssumption
    <2> QED
      BY <2>1, <2>2, FS_EmptySet, EventLogAssumption DEF Counted
  <1>2. Shaped /\ Counted /\ [Next]_vars => Counted'
    BY NextCounts
  <1>3. Shaped /\ Counted => LogBounded
    <2> SUFFICES ASSUME Shaped, Counted, pc = "open" PROVE
                   /\ owed = "none" => Cardinality(OwnUnsynced) < flushEvery
                   /\ ~failed => Cardinality(Own) <= 2 * maxEntries
      BY DEF LogBounded, Own, OwnUnsynced
    <2> USE EventLogAssumption
    <2>1. writes \in Nat
      BY DEF Shaped, TypeOK
    <2>2. writes % flushEvery \in 0..flushEvery - 1
      BY <2>1
    <2>3. owed = "none" => Cardinality(OwnUnsynced) < flushEvery
      BY <2>2, OwnFinite DEF Counted
    <2>4. ~failed => Cardinality(Own) <= 2 * maxEntries
      BY <2>1, OwnFinite DEF Counted
    <2> QED
      BY <2>3, <2>4
  <1> QED
    BY <1>1, <1>2, <1>3, LogIsShaped, PTL DEF Spec
=============================================================================
