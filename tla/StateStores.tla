---------------------------- MODULE StateStores ----------------------------
(***************************************************************************)
(* The two implementations of the relay v3's state store, side by side on  *)
(* the same calls: the memory store, which keeps at most `limit' of        *)
(* everything, and the Valkey store, which keeps everything until a key has*)
(* not been touched for the retention period.  The relay is written        *)
(* against their common interface.                                         *)
(*                                                                         *)
(* Each call is one step: the memory store holds its mutex, and Valkey     *)
(* runs transactions and scripts one at a time.  What the leases check is  *)
(* the subject of ShardAuthority.                                          *)
(***************************************************************************)
EXTENDS Naturals, Sequences, FiniteSets, FiniteSetsExt

CONSTANTS Ids,           \* bundle identifiers, numbers in the order of CreatedAt
          HashOf,        \* the hash of a bundle; two requests may share one
          Clients,
          Limit,         \* Store.limit and Store.history
          MaxInFlight,   \* the limit the relay passes to ReserveInflight
          ClaimLimit,    \* the limit the relay passes to ClaimDueRetries
          MaxVersion,    \* bound: versions of a record
          MaxEvents      \* bound: events appended in all

ASSUME StoreAssumption ==
    /\ Ids \subseteq Nat /\ IsFiniteSet(Ids) /\ DOMAIN HashOf = Ids
    /\ {Limit, MaxInFlight, ClaimLimit, MaxVersion, MaxEvents} \subseteq Nat

VARIABLES mem, val,      \* the two stores
          held,          \* slots the callers of each store hold, by client
          appended,      \* number of events appended to a bundle
          parted         \* what may differ: see Together

storeVars == <<mem, val, held, appended, parted>>

\* Records and the index of hashes are functions on what is present; `index'
\* and `batches' are the sorted sets that lists are read from.
Empty == [records |-> <<>>, hash |-> <<>>, index |-> {}, batches |-> {},
          events |-> [i \in Ids |-> <<>>], inflight |-> [c \in Clients |-> 0],
          retries |-> {}]

\* Nothing has been dropped yet: `hashes' are those a record of which is gone
\* from a store, `retries' the bundles whose retry the memory store has given
\* up, and `lists' says that the stores hold different bundles.
Together == [hashes |-> {}, retries |-> {}, lists |-> FALSE]

StoresInit ==
    /\ mem = Empty /\ val = Empty
    /\ held     = [mem |-> Empty.inflight, val |-> Empty.inflight]
    /\ appended = [i \in Ids |-> 0]
    /\ parted = Together

Present(st)     == DOMAIN st.records
Known(st, h)    == h \in DOMAIN st.hash
With(f, k, v)   == [x \in DOMAIN f \union {k} |-> IF x = k THEN v ELSE f[x]]
Without(f, k)   == [x \in DOMAIN f \ {k} |-> f[x]]
Newest(S)       == {i \in S : Cardinality({k \in S : k > i}) < Limit}

(***************************************************************************)
(* Bundles and their events.                                               *)
(***************************************************************************)
Added(st, i) == [st EXCEPT !.records = With(@, i, 1), !.hash = With(@, HashOf[i], i),
                           !.index = @ \union {i}]
Dropped(st, i) == [st EXCEPT !.records = Without(@, i), !.hash = Without(@, HashOf[i]),
                             !.index = @ \ {i}, !.events[i] = <<>>]

\* Faulty variant of pruneLocked: the hash stays in the index.
pruneKeepsHash(st) ==
    IF Cardinality(Present(st)) <= Limit THEN st
    ELSE [Dropped(st, Min(Present(st))) EXCEPT !.hash = st.hash]

\* Faulty variant of pruneLocked: the comparison is the wrong way round.
pruneNewest(st) ==
    IF Cardinality(Present(st)) <= Limit THEN st ELSE Dropped(st, Max(Present(st)))

\* Beyond the limit the record created first goes, whatever its state.
pruneLocked(st) ==
    IF Cardinality(Present(st)) <= Limit THEN st ELSE Dropped(st, Min(Present(st)))

memCreate(i) == IF Known(mem, HashOf[i]) THEN mem ELSE pruneLocked(Added(mem, i))

valCreate(i) == IF Known(val, HashOf[i]) THEN val ELSE Added(val, i)

\* The records between which the memory store chooses.
Offered(i) == Present(mem) \union (IF Known(mem, HashOf[i]) THEN {} ELSE {i})

\* A record is created once: its identifier is made from its hash and the
\* number of the request.  The requests may arrive out of order.
CreateBundle(i) ==
    /\ i \notin Present(mem) \union Present(val) \union val.index
    /\ mem' = memCreate(i)
    /\ val' = valCreate(i)
    /\ parted' = [parted EXCEPT
                     !.hashes = @ \union {HashOf[k] : k \in Offered(i) \ Present(mem')},
                     !.lists  = @ \/ (Known(mem, HashOf[i]) # Known(val, HashOf[i]))]
    /\ UNCHANGED <<held, appended>>

\* TransitionBundle, UpdateRetryCount and UpdateResult: a newer version of a
\* record that is there.
Updated(st, i) == IF i \in Present(st) THEN [st EXCEPT !.records[i] = @ + 1] ELSE st

UpdateBundle(i) ==
    /\ i \in Present(mem) \union Present(val)
    /\ \A st \in {mem, val} : i \in Present(st) => st.records[i] < MaxVersion
    /\ mem' = Updated(mem, i)
    /\ val' = Updated(val, i)
    /\ UNCHANGED <<held, appended, parted>>

Trimmed(s) == SubSeq(s, Max({1, Len(s) - Limit + 1}), Len(s))

\* AppendEvent asks for no record: a bundle that was pruned gets events again.
AppendEvent(i) ==
    /\ MapThenSumSet(LAMBDA k : appended[k], Ids) < MaxEvents
    /\ appended' = [appended EXCEPT ![i] = @ + 1]
    /\ mem' = [mem EXCEPT !.events[i] = Trimmed(Append(@, appended'[i]))]
    /\ val' = [val EXCEPT !.events[i] = Trimmed(Append(@, appended'[i]))]
    /\ UNCHANGED <<held, parted>>

DeleteEvents(i) ==
    /\ mem' = [mem EXCEPT !.events[i] = <<>>]
    /\ val' = [val EXCEPT !.events[i] = <<>>]
    /\ UNCHANGED <<held, appended, parted>>

\* The retention of a bundle is over: its key and that of its hash were last
\* touched together.  Its entry in the sorted set stays.
ExpireBundle(i) ==
    /\ i \in Present(val)
    /\ val' = [val EXCEPT !.records = Without(@, i), !.hash = Without(@, HashOf[i])]
    /\ parted' = [parted EXCEPT !.hashes = @ \union {HashOf[i]}, !.lists = TRUE]
    /\ UNCHANGED <<mem, held, appended>>

\* ListBundles: the newest, as far as their records are there.
ListBundles(st) == Newest(st.index) \intersect Present(st)

(***************************************************************************)
(* Checkpoints of batches, which are numbered in the order of their time.  *)
(***************************************************************************)
pruneCheckpoints(S) == IF Cardinality(S) <= Limit THEN S ELSE S \ {Min(S)}

PutCheckpoint(b) ==
    /\ mem' = [mem EXCEPT !.batches = pruneCheckpoints(@ \union {b})]
    /\ val' = [val EXCEPT !.batches = @ \union {b}]
    /\ UNCHANGED <<held, appended, parted>>

ListCheckpoints(st) == Newest(st.batches)

(***************************************************************************)
(* Slots.                                                                  *)
(***************************************************************************)
Reserved(st, c) ==
    IF st.inflight[c] >= MaxInFlight THEN st ELSE [st EXCEPT !.inflight[c] = @ + 1]

Released(st, c) ==
    IF st.inflight[c] <= 0 THEN st ELSE [st EXCEPT !.inflight[c] = @ - 1]

\* The memory store also refuses a client that is one too many.
memReserved(c) ==
    IF mem.inflight[c] = 0 /\ Cardinality({d \in Clients : mem.inflight[d] > 0}) >= Limit
    THEN mem ELSE Reserved(mem, c)

ReserveInflight(c) ==
    /\ mem' = memReserved(c)
    /\ val' = Reserved(val, c)
    /\ held' = [held EXCEPT !.mem[c] = IF mem' # mem THEN @ + 1 ELSE @,
                            !.val[c] = IF val' # val THEN @ + 1 ELSE @]
    /\ UNCHANGED <<appended, parted>>

\* A caller that holds a slot of either store gives it back.
ReleaseInflight(c) ==
    /\ \/ /\ held.mem[c] > 0
          /\ held' = [held EXCEPT !.mem[c] = @ - 1]
          /\ mem' = Released(mem, c) /\ UNCHANGED val
       \/ /\ held.val[c] > 0
          /\ held' = [held EXCEPT !.val[c] = @ - 1]
          /\ val' = Released(val, c) /\ UNCHANGED mem
    /\ UNCHANGED <<appended, parted>>

(***************************************************************************)
(* Retries: pairs of an identifier and the time it is due.                 *)
(***************************************************************************)
Dues == 1..2

Waiting(st) == {r[1] : r \in st.retries}
Scheduled(st, i, due) ==
    [st EXCEPT !.retries = {r \in @ : r[1] # i} \union {<<i, due>>}]

\* pruneRetriesLocked: beyond the limit the most urgent retry goes.
pruneRetries(st) ==
    IF Cardinality(st.retries) <= Limit THEN {st}
    ELSE {[st EXCEPT !.retries = @ \ {r}] :
             r \in {r \in st.retries : \A q \in st.retries : r[2] <= q[2]}}

ScheduleRetry(i) ==
    \E due \in Dues :
        /\ mem' \in pruneRetries(Scheduled(mem, i, due))
        /\ val' = Scheduled(val, i, due)
        /\ parted' = [parted EXCEPT !.retries =
                         (@ \ {i}) \union ((Waiting(mem) \union {i}) \ Waiting(mem'))]
        /\ UNCHANGED <<held, appended>>

Due(st, now) == {r \in st.retries : r[2] <= now}

\* At most ClaimLimit of those that are due, in no order, out of the map of the
\* memory store; out of Valkey's sorted set the most urgent ones.
memClaims(now) ==
    LET n == Min({ClaimLimit, Cardinality(Due(mem, now))})
    IN  {out \in SUBSET Due(mem, now) : Cardinality(out) = n}

valClaims(now) ==
    LET n == Min({ClaimLimit, Cardinality(Due(val, now))})
    IN  {out \in SUBSET Due(val, now) :
            /\ Cardinality(out) = n
            /\ \A r \in out, q \in Due(val, now) \ out : r[2] <= q[2]}

ClaimDueRetries(now) ==
    \E fromMem \in memClaims(now), fromVal \in valClaims(now) :
        /\ mem' = [mem EXCEPT !.retries = @ \ fromMem]
        /\ val' = [val EXCEPT !.retries = @ \ fromVal]
        /\ UNCHANGED <<held, appended, parted>>

BundleStep ==
    \E i \in Ids : \/ CreateBundle(i) \/ UpdateBundle(i) \/ ExpireBundle(i)
                   \/ AppendEvent(i) \/ DeleteEvents(i)
BatchStep == \E b \in Ids : PutCheckpoint(b)
SlotStep  == \E c \in Clients : ReserveInflight(c) \/ ReleaseInflight(c)
RetryStep == (\E i \in Ids : ScheduleRetry(i)) \/ (\E now \in Dues : ClaimDueRetries(now))

StoresNext == BundleStep \/ BatchStep \/ SlotStep \/ RetryStep

StoresSpec == StoresInit /\ [][StoresNext]_storeVars

------------------------------------------------------------------------------
\* The index by hash leads to a record with that hash, and every record is found
\* by its hash: no bundle is refused as a duplicate of one that is gone.
IndexMatches(st) ==
    /\ \A h \in DOMAIN st.hash : st.hash[h] \in Present(st) /\ HashOf[st.hash[h]] = h
    /\ \A i \in Present(st) : Known(st, HashOf[i])

\* The events of a bundle are the most recent ones, in order, without a hole.
EventsAreRecent(st) ==
    \A i \in Ids :
        LET s == st.events[i] IN
        Len(s) <= Limit /\ \A k \in DOMAIN s : s[k] = appended[i] - Len(s) + k

\* A store counts the slots its callers hold, within the limit of a client.
SlotsCount(st, of) == st.inflight = of /\ \A c \in Clients : of[c] <= MaxInFlight

\* Whatever is pruned, expires, is submitted again or out of order: in both stores
\* the index by hash matches the records, the events of a bundle are its most
\* recent ones, and the slots counted are those held; and the memory store stays
\* within its limits.
StoresConsistent ==
    /\ \A st \in {mem, val} : IndexMatches(st) /\ EventsAreRecent(st)
    /\ SlotsCount(mem, held.mem) /\ SlotsCount(val, held.val)
    /\ Cardinality({c \in Clients : held.mem[c] > 0}) <= Limit
    /\ Max({Cardinality(Present(mem)), Cardinality(mem.retries), Cardinality(mem.batches)}) <= Limit

\* Until a store has dropped a record with its hash, a bundle is the same in both.
RecordsAgree ==
    \A i \in Ids : HashOf[i] \notin parted.hashes =>
        /\ (i \in Present(mem)) = (i \in Present(val))
        /\ i \in Present(mem) => mem.records[i] = val.records[i]

\* Until a bundle expires, or a pruned one is submitted again, both stores list
\* the same bundles, and always the same checkpoints: pruning is not visible.
ListsAgree ==
    /\ ~parted.lists => ListBundles(mem) = ListBundles(val)
    /\ ListCheckpoints(mem) = ListCheckpoints(val)

\* Apart from those the memory store had no room for, the same retries wait for
\* the same time, as long as a claim may take all that are due.
RetriesAgree ==
    ClaimLimit >= Cardinality(Ids) =>
        {r \in mem.retries : r[1] \notin parted.retries} =
        {r \in val.retries : r[1] \notin parted.retries}

\* The memory store can stand in for Valkey, as it does in the relay's tests: the
\* two agree on records, lists and retries except where one of them has dropped
\* something for good.
StoresAgree == RecordsAgree /\ ListsAgree /\ RetriesAgree
=============================================================================
