--------------------------- MODULE ShardAuthority ---------------------------
(***************************************************************************)
(* Who may write to a shard: several processes of the relay v3 with the    *)
(* same shard ID share a store (state/valkey).  A process makes itself a   *)
(* lease when it starts, writes it to the store as the shard's authority   *)
(* and renews it for ever; the store compares the lease that a RECORD      *)
(* carries, its creator's, with the authority before it changes the record *)
(* (validateAuthority).  Epoch and fence token are always 1, so leases are *)
(* all that tells two processes apart.                                     *)
(*                                                                         *)
(* Every operation on the store is one step, as WATCH and the scripts make *)
(* it one.  Leases are numbered by the starts they were made in (the code  *)
(* takes the start time in nanoseconds).  How one process works on its     *)
(* bundles is the subject of Relay; here each of them makes any transition *)
(* of the lifecycle on a bundle that it holds.                             *)
(***************************************************************************)
EXTENDS Lifecycle, FiniteSets

CONSTANTS
    Process,    \* relay processes of one shard
    Bundle,     \* bundles
    LeaseTTL,   \* lifetime of a lease, in ticks
    MaxNow,     \* bound on the clock
    MaxStarts   \* bound on the starts of processes

ASSUME AuthorityAssumption ==
    LeaseTTL \in Nat \ {0} /\ MaxNow \in Nat /\ MaxStarts \in Nat

NoLease == 0
Authority == [LeaseID : Nat, ExpiresAt : Nat]
NoAuthority == [LeaseID |-> NoLease, ExpiresAt |-> 0]

VARIABLES
    now,         \* the clock
    starts,      \* number of starts so far
    authority,   \* the store's authority of the shard
    rec,         \* the store's records: State and LeaseID
    retries,     \* the store's schedule of retries
    sealed,      \* TRUE when the store holds a checkpoint
    pc,          \* of a process: "down", "new", "up", or "renewing"
    auth,        \* the authority that a process believes to have
    held,        \* the bundles in a process's queue or goroutines, and how it got them
    stage        \* stage of a process's recovery controller

stored == <<authority, rec, retries, sealed>>
local == <<pc, auth, held, stage>>
vars == <<now, starts, stored, local>>

NotHeld == [b \in Bundle |-> "no"]
Stages == {"idle", "replaying", "validating", "quarantined", "rejoined"}

TypeOK ==
    /\ now \in 0..MaxNow
    /\ starts \in 0..MaxStarts
    /\ authority \in Authority
    /\ rec \in [Bundle -> [State : BundleState \cup {"none"}, LeaseID : 0..starts]]
    /\ retries \subseteq Bundle
    /\ sealed \in BOOLEAN
    /\ pc \in [Process -> {"down", "new", "up", "renewing"}]
    /\ auth \in [Process -> Authority]
    /\ held \in [Process -> [Bundle -> {"no", "worked", "claimed"}]]
    /\ stage \in [Process -> Stages]

Init ==
    /\ now = 0 /\ starts = 0
    /\ authority = NoAuthority
    /\ rec = [b \in Bundle |-> [State |-> "none", LeaseID |-> NoLease]]
    /\ retries = {}
    /\ sealed = FALSE
    /\ pc = [p \in Process |-> "down"]
    /\ auth = [p \in Process |-> NoAuthority]
    /\ held = [p \in Process |-> NotHeld]
    /\ stage = [p \in Process |-> "idle"]

Up(p) == pc[p] \in {"up", "renewing"}
Valid(a) == a.LeaseID # NoLease /\ now < a.ExpiresAt

-----------------------------------------------------------------------------
(* The life of a process and of its lease. *)

(***************************************************************************)
(* New: a lease of its own, valid from now on.                             *)
(***************************************************************************)
New(p) ==
    /\ pc[p] = "down"
    /\ starts < MaxStarts
    /\ starts' = starts + 1
    /\ auth' = [auth EXCEPT ![p] = [LeaseID |-> starts + 1, ExpiresAt |-> now + LeaseTTL]]
    /\ pc' = [pc EXCEPT ![p] = "new"]
    /\ UNCHANGED <<now, stored, held, stage>>

(***************************************************************************)
(* Bootstrap, after its health checks: SetAuthority overwrites what the    *)
(* store had, whoever it belonged to.                                      *)
(***************************************************************************)
Bootstrap(p) ==
    /\ pc[p] = "new"
    /\ authority' = auth[p]
    /\ pc' = [pc EXCEPT ![p] = "up"]
    /\ stage' = [stage EXCEPT ![p] = "rejoined"]
    /\ UNCHANGED <<now, starts, rec, retries, sealed, auth, held>>

(***************************************************************************)
(* renewAuthority: first the local lease, whether it is still valid or     *)
(* not ...                                                                 *)
(***************************************************************************)
Renew(p) ==
    /\ pc[p] = "up"
    /\ auth' = [auth EXCEPT ![p].ExpiresAt = now + LeaseTTL]
    /\ pc' = [pc EXCEPT ![p] = "renewing"]
    /\ UNCHANGED <<now, starts, stored, held, stage>>

\* Faulty variant of SetAuthority: only the owner of the authority renews it.
SetAuthorityIfOwner(p) ==
    /\ pc[p] = "renewing"
    /\ authority' = IF authority.LeaseID = auth[p].LeaseID THEN auth[p] ELSE authority
    /\ pc' = [pc EXCEPT ![p] = "up"]
    /\ UNCHANGED <<now, starts, rec, retries, sealed, auth, held, stage>>

(***************************************************************************)
(* ... then the store's, again without looking at what is there.           *)
(***************************************************************************)
SetAuthority(p) ==
    /\ pc[p] = "renewing"
    /\ authority' = auth[p]
    /\ pc' = [pc EXCEPT ![p] = "up"]
    /\ UNCHANGED <<now, starts, rec, retries, sealed, auth, held, stage>>

(***************************************************************************)
(* The store cannot be reached: the error is counted and the local lease   *)
(* stays renewed.                                                          *)
(***************************************************************************)
SetAuthorityFails(p) ==
    /\ pc[p] = "renewing"
    /\ pc' = [pc EXCEPT ![p] = "up"]
    /\ UNCHANGED <<now, starts, stored, auth, held, stage>>

(***************************************************************************)
(* The process stops or crashes.  The authority stays in the store.        *)
(***************************************************************************)
Ends(p) ==
    /\ pc[p] # "down"
    /\ pc' = [pc EXCEPT ![p] = "down"]
    /\ auth' = [auth EXCEPT ![p] = NoAuthority]
    /\ held' = [held EXCEPT ![p] = NotHeld]
    /\ stage' = [stage EXCEPT ![p] = "idle"]
    /\ UNCHANGED <<now, starts, stored>>

-----------------------------------------------------------------------------
(* Work on bundles. *)

\* Faulty variant of Accepts: epochs are compared, leases are not.
AcceptsEpoch(lease) == lease # NoLease /\ Valid(authority)

(***************************************************************************)
(* validateAuthority for a record of this lease.                           *)
(***************************************************************************)
Accepts(lease) == Valid(authority) /\ authority.LeaseID = lease

AllowWrites(p) == stage[p] \notin {"quarantined", "replaying", "validating"}

(***************************************************************************)
(* submitWithIdentity up to CreateBundle, which refuses a known bundle.    *)
(***************************************************************************)
Create(p, b) ==
    /\ Up(p)
    /\ AllowWrites(p)
    /\ Valid(auth[p])
    /\ rec[b].State = "none"
    /\ Accepts(auth[p].LeaseID)
    /\ rec' = [rec EXCEPT ![b] = [State |-> "received", LeaseID |-> auth[p].LeaseID]]
    /\ held' = [held EXCEPT ![p][b] = "worked"]
    /\ UNCHANGED <<now, starts, authority, retries, sealed, pc, auth, stage>>

(***************************************************************************)
(* A step of a process on a bundle it holds.  A worker looks at its own    *)
(* lease before it begins with a queued bundle, and at no other time.      *)
(***************************************************************************)
MayStep(p, b, to) ==
    /\ Up(p)
    /\ held[p][b] # "no"
    /\ CanTransition(rec[b].State, to)
    /\ rec[b].State = "retry_pending" => held[p][b] = "claimed"
    /\ to = "simulating" => Valid(auth[p])

(***************************************************************************)
(* TransitionBundle, carried out.                                          *)
(***************************************************************************)
TransitionBundle(p, b, to) ==
    /\ MayStep(p, b, to)
    /\ Accepts(rec[b].LeaseID)
    /\ rec' = [rec EXCEPT ![b].State = to]
    /\ held' = [held EXCEPT ![p][b] = "worked"]
    /\ UNCHANGED <<now, starts, authority, retries, sealed, pc, auth, stage>>

(***************************************************************************)
(* TransitionBundle refused, or a worker without a valid lease: the        *)
(* process forgets the bundle.                                             *)
(***************************************************************************)
Forget(p, b) ==
    /\ Up(p)
    /\ held[p][b] # "no"
    /\ \/ ~Accepts(rec[b].LeaseID)
       \/ rec[b].State = "queued" /\ ~Valid(auth[p])
    /\ held' = [held EXCEPT ![p][b] = "no"]
    /\ UNCHANGED <<now, starts, stored, pc, auth, stage>>

(***************************************************************************)
(* ScheduleRetry, which checks no authority.                               *)
(***************************************************************************)
ScheduleRetry(p, b) ==
    /\ Up(p)
    /\ held[p][b] = "worked" /\ rec[b].State = "retry_pending"
    /\ retries' = retries \cup {b}
    /\ held' = [held EXCEPT ![p][b] = "no"]
    /\ UNCHANGED <<now, starts, authority, rec, sealed, pc, auth, stage>>

\* Faulty variant of ClaimDueRetries: reading and removing are two calls,
\* and the second one is missing.
ClaimDueRetriesReads(p, b) ==
    /\ Up(p)
    /\ b \in retries
    /\ held' = [held EXCEPT ![p][b] = "claimed"]
    /\ UNCHANGED <<now, starts, stored, pc, auth, stage>>

(***************************************************************************)
(* ClaimDueRetries, which checks no authority either: the retry loop of    *)
(* any process of the shard takes whatever is due.                         *)
(***************************************************************************)
ClaimDueRetries(p, b) ==
    /\ Up(p)
    /\ b \in retries
    /\ retries' = retries \ {b}
    /\ held' = [held EXCEPT ![p][b] = "claimed"]
    /\ UNCHANGED <<now, starts, authority, rec, sealed, pc, auth, stage>>

(***************************************************************************)
(* The end of finishTerminal: PutCheckpoint, which checks no authority.    *)
(***************************************************************************)
PutCheckpoint(p, b) ==
    /\ Up(p)
    /\ held[p][b] = "worked" /\ rec[b].State = "completed"
    /\ sealed' = TRUE
    /\ held' = [held EXCEPT ![p][b] = "no"]
    /\ UNCHANGED <<now, starts, authority, rec, retries, pc, auth, stage>>

-----------------------------------------------------------------------------
(* Recover, the operator's call (nothing in the repository makes it yet), one at a time. *)

BeginReplay(p) ==
    /\ Up(p)
    /\ stage[p] \in {"rejoined", "quarantined"}
    /\ stage' = [stage EXCEPT ![p] = "replaying"]
    /\ UNCHANGED <<now, starts, stored, pc, auth, held>>

(***************************************************************************)
(* The snapshot: a checkpoint (which always has the shard's ID, a root and *)
(* a bundle ID) or an empty store is fine; records without a checkpoint    *)
(* are not, and any read may fail.                                         *)
(***************************************************************************)
Replay(p) ==
    /\ Up(p)
    /\ stage[p] = "replaying"
    /\ \/ sealed /\ stage' = [stage EXCEPT ![p] = "validating"]
       \/ /\ ~sealed /\ \A b \in Bundle : rec[b].State = "none"
          /\ stage' = [stage EXCEPT ![p] = "rejoined"]
       \/ stage' = [stage EXCEPT ![p] = "quarantined"]
    /\ UNCHANGED <<now, starts, stored, pc, auth, held>>

Rejoin(p) ==
    /\ Up(p)
    /\ stage[p] = "validating"
    /\ stage' = [stage EXCEPT ![p] = "rejoined"]
    /\ UNCHANGED <<now, starts, stored, pc, auth, held>>

-----------------------------------------------------------------------------
Tick ==
    /\ now < MaxNow
    /\ now' = now + 1
    /\ UNCHANGED <<starts, stored, local>>

Lease(p) == New(p) \/ Bootstrap(p) \/ Renew(p) \/ SetAuthority(p) \/ SetAuthorityFails(p) \/ Ends(p)

Work(p, b) ==
    \/ Create(p, b) \/ Forget(p, b) \/ ScheduleRetry(p, b)
    \/ ClaimDueRetries(p, b) \/ PutCheckpoint(p, b)
    \/ \E to \in BundleState : TransitionBundle(p, b, to)

Recover(p) == BeginReplay(p) \/ Replay(p) \/ Rejoin(p)

Next == Tick \/ \E p \in Process : Lease(p) \/ Recover(p) \/ \E b \in Bundle : Work(p, b)

(***************************************************************************)
(* The renewal ticker fires while a process runs, and the store answers it *)
(* again and again.                                                        *)
(***************************************************************************)
Fairness == \A p \in Process : WF_vars(Renew(p)) /\ SF_vars(SetAuthority(p))

Spec == Init /\ [][Next]_vars /\ Fairness

-----------------------------------------------------------------------------
(* Properties. *)

Holders(b) == Cardinality({p \in Process : held[p][b] # "no"}) + (IF b \in retries THEN 1 ELSE 0)

(***************************************************************************)
(* "one owner per shard or bundle" (v3/README.md), here between processes: *)
(* whatever happens to the shard's authority, two of them never hold the   *)
(* same bundle, nor is it scheduled while one holds it.                    *)
(***************************************************************************)
OneHolder == \A b \in Bundle : Holders(b) <= 1

(***************************************************************************)
(* Fencing: once the process that accepted a bundle is gone and another    *)
(* lease is the authority, nobody changes the bundle's record any more,    *)
(* not even through the schedule of retries, which all processes share.    *)
(***************************************************************************)
Orphaned(b) ==
    /\ rec[b].State # "none"
    /\ rec[b].LeaseID # authority.LeaseID
    /\ \A p \in Process : auth[p].LeaseID # rec[b].LeaseID

OrphansStayFrozen ==
    [][\A b \in Bundle : Orphaned(b) => rec'[b] = rec[b] /\ Orphaned(b)']_vars

(***************************************************************************)
(* A process that is left alone gets the authority (back) and keeps it:    *)
(* its renewals put its lease into the store, whoever had been there.      *)
(***************************************************************************)
Alone(p) == Up(p) /\ \A q \in Process \ {p} : pc[q] = "down"

AloneGetsAuthority ==
    \A p \in Process : <>[]Alone(p) => <>[](authority.LeaseID = auth[p].LeaseID)

=============================================================================
