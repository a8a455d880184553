----------------------------- MODULE PolicyCell -----------------------------
(***************************************************************************)
(* How the values of the control policy are shared: nine atomic variables, *)
(* stored one after another by the policy loop (Adapt) and loaded one after*)
(* another by every reader (Snapshot), without a lock.  A snapshot may mix *)
(* several policies.  A value is represented here by the revision of the   *)
(* policy it belongs to.                                                   *)
(***************************************************************************)
EXTENDS Naturals, Sequences, SequencesExt

CONSTANTS Readers,
          MaxRevision     \* bound: changes of the policy

VARIABLES cell,           \* the nine atomics
          toStore,        \* the stores Adapt has still to make
          toLoad,         \* the loads a reader has still to make
          got             \* the values a reader has loaded

cellVars == <<cell, toStore, toLoad, got>>

Params == <<"minNet", "minSlack", "maxAge", "backoff", "pct", "floor">>
Signals == <<"pressure", "confidence">>
Fields == ToSet(Params \o Signals) \union {"revision"}

\* Faulty variant of StoreOrder: the order of ApplySnapshot, which runs before
\* there are readers.
RevisionFirst == <<"revision">> \o Signals \o Params

\* Adapt: the six parameters, the revision, then pressure and confidence.
StoreOrder == Params \o <<"revision">> \o Signals

\* Snapshot: the order of the fields of PolicySnapshot.
LoadOrder == <<"revision">> \o Signals \o Params

CellInit ==
    /\ cell    = [f \in Fields |-> 1]
    /\ toStore = <<>>
    /\ toLoad  = [r \in Readers |-> <<>>]
    /\ got     = [r \in Readers |-> cell]

\* Adapt has computed a policy that differs in a parameter.
BeginChange ==
    /\ toStore = <<>>
    /\ cell.revision < MaxRevision
    /\ toStore' = StoreOrder
    /\ UNCHANGED <<cell, toLoad, got>>

StoreNext ==
    /\ toStore # <<>>
    /\ cell' = [cell EXCEPT ![Head(toStore)] = @ + 1]
    /\ toStore' = Tail(toStore)
    /\ UNCHANGED <<toLoad, got>>

BeginSnapshot(r) ==
    /\ toLoad[r] = <<>>
    /\ toLoad' = [toLoad EXCEPT ![r] = LoadOrder]
    /\ UNCHANGED <<cell, toStore, got>>

LoadNext(r) ==
    /\ toLoad[r] # <<>>
    /\ got' = [got EXCEPT ![r][Head(toLoad[r])] = cell[Head(toLoad[r])]]
    /\ toLoad' = [toLoad EXCEPT ![r] = Tail(@)]
    /\ UNCHANGED <<cell, toStore>>

CellNext ==
    \/ BeginChange
    \/ StoreNext
    \/ \E r \in Readers : BeginSnapshot(r) \/ LoadNext(r)

CellSpec == CellInit /\ [][CellNext]_cellVars

------------------------------------------------------------------------------
\* However a snapshot is torn, none of its parameters is older than its
\* revision, its pressure or its confidence: a reader that sees a confidence
\* sees a floor at least as recent, so admission never holds a new confidence
\* against the floor of an earlier policy.
ParamsNotOlder ==
    \A r \in Readers :
        toLoad[r] = <<>> =>
            \A p \in ToSet(Params), s \in ToSet(Signals) \union {"revision"} : got[r][p] >= got[r][s]
=============================================================================
