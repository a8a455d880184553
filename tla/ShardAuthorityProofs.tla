------------------------ MODULE ShardAuthorityProofs ------------------------
(***************************************************************************)
(* Proofs about the processes that share a shard's store, for any number   *)
(* of processes, bundles, starts and ticks.                                *)
(***************************************************************************)
EXTENDS ShardAuthority, FiniteSetTheorems, TLAPS

-----------------------------------------------------------------------------
(* Types and leases. *)

(***************************************************************************)
(* The leases that exist were made at one of the starts so far, so the     *)
(* lease of the next start is new.  A record carries a real lease.         *)
(***************************************************************************)
LeasesKnown ==
    /\ \A p \in Process : auth[p].LeaseID <= starts
    /\ \A b \in Bundle : rec[b].State # "none" => rec[b].LeaseID # NoLease

Typed == TypeOK /\ LeasesKnown

(***************************************************************************)
(* The initial state: no process has started and the store is empty.       *)
(***************************************************************************)
LEMMA InitTyped == Init => Typed
  <1> SUFFICES ASSUME Init PROVE Typed
    OBVIOUS
  <1> USE DEF Init, NoAuthority, Authority, NoLease
  <1>1. TypeOK
    <2>1. rec \in [Bundle -> [State : BundleState \cup {"none"}, LeaseID : 0..starts]]
      OBVIOUS
    <2>2. /\ pc \in [Process -> {"down", "new", "up", "renewing"}]
          /\ auth \in [Process -> Authority]
          /\ held \in [Process -> [Bundle -> {"no", "worked", "claimed"}]]
          /\ stage \in [Process -> Stages]
      BY DEF NotHeld, Stages
    <2>3. now \in 0..MaxNow /\ starts \in 0..MaxStarts /\ authority \in Authority
      BY AuthorityAssumption
    <2>4. retries \subseteq Bundle /\ sealed \in BOOLEAN
      OBVIOUS
    <2> QED
      BY <2>1, <2>2, <2>3, <2>4, Zenon DEF TypeOK
  <1>2. LeasesKnown
    BY DEF LeasesKnown
  <1> QED
    BY <1>1, <1>2 DEF Typed

(***************************************************************************)
(* Making, publishing, renewing and losing a lease keeps the types.        *)
(***************************************************************************)
LEMMA LeaseTyped ==
    ASSUME Typed, NEW p \in Process, Lease(p)
    PROVE  Typed'
  <1> USE AuthorityAssumption DEF Typed, TypeOK, LeasesKnown, Authority, NoLease, NoAuthority,
          stored, local
  <1>1. CASE New(p)
    BY <1>1 DEF New
  <1>2. CASE Bootstrap(p)
    BY <1>2 DEF Bootstrap, Stages
  <1>3. CASE Renew(p)
    <2>1. /\ auth' = [auth EXCEPT ![p].ExpiresAt = now + LeaseTTL]
          /\ pc' = [pc EXCEPT ![p] = "renewing"]
          /\ UNCHANGED <<now, starts, authority, rec, retries, sealed, held, stage>>
      BY <1>3 DEF Renew
    <2>2. now + LeaseTTL \in Nat
      OBVIOUS
    <2>3. /\ auth' \in [Process -> Authority]
          /\ \A q \in Process : auth'[q].LeaseID = auth[q].LeaseID
      BY <2>1, <2>2
    <2>4. pc' \in [Process -> {"down", "new", "up", "renewing"}]
      BY <2>1
    <2> QED
      BY <2>1, <2>3, <2>4
  <1>4. CASE SetAuthority(p)
    BY <1>4 DEF SetAuthority
  <1>5. CASE SetAuthorityFails(p)
    BY <1>5 DEF SetAuthorityFails
  <1>6. CASE Ends(p)
    BY <1>6 DEF Ends, NotHeld, Stages
  <1> QED
    BY <1>1, <1>2, <1>3, <1>4, <1>5, <1>6 DEF Lease

(***************************************************************************)
(* The stages of Recover keep the types.                                   *)
(***************************************************************************)
LEMMA RecoverTyped ==
    ASSUME Typed, NEW p \in Process, Recover(p)
    PROVE  Typed'
  <1>1. /\ stage' \in [Process -> Stages]
        /\ UNCHANGED <<now, starts, stored, pc, auth, held>>
    BY DEF Recover, BeginReplay, Replay, Rejoin, Typed, TypeOK, Stages
  <1> QED
    BY <1>1 DEF Typed, TypeOK, LeasesKnown, stored

(***************************************************************************)
(* Work on a bundle keeps the types; Create stamps the record with a lease *)
(* that is not zero and not from the future.                               *)
(***************************************************************************)
LEMMA WorkTyped ==
    ASSUME Typed, NEW p \in Process, NEW b \in Bundle, Work(p, b)
    PROVE  Typed'
  <1> USE DEF Typed, TypeOK, LeasesKnown, Authority, NoLease, stored, local
  <1>1. CASE Create(p, b)
    BY <1>1 DEF Create, Valid, BundleState
  <1>2. CASE Forget(p, b)
    BY <1>2 DEF Forget
  <1>3. CASE ScheduleRetry(p, b)
    BY <1>3 DEF ScheduleRetry
  <1>4. CASE ClaimDueRetries(p, b)
    BY <1>4 DEF ClaimDueRetries
  <1>5. CASE PutCheckpoint(p, b)
    BY <1>5 DEF PutCheckpoint
  <1>6. ASSUME NEW to \in BundleState, TransitionBundle(p, b, to)
        PROVE  Typed'
    <2>1. rec[b].State # "none"
      BY <1>6 DEF TransitionBundle, Accepts, Valid, MayStep, CanTransition, AllowedNext, Decisions
    <2> QED
      BY <1>6, <2>1 DEF TransitionBundle
  <1> QED
    BY <1>1, <1>2, <1>3, <1>4, <1>5, <1>6 DEF Work

(***************************************************************************)
(* Every step keeps the types and the leases known.                        *)
(***************************************************************************)
LEMMA NextTyped ==
    ASSUME Typed, [Next]_vars
    PROVE  Typed'
  <1>1. CASE Tick
    BY <1>1, AuthorityAssumption DEF Tick, Typed, TypeOK, LeasesKnown, stored, local
  <1>2. CASE UNCHANGED vars
    BY <1>2 DEF vars, Typed, TypeOK, LeasesKnown, stored, local
  <1> QED
    BY <1>1, <1>2, LeaseTyped, RecoverTyped, WorkTyped DEF Next

(***************************************************************************)
(* Type correctness, with the leases known.                                *)
(***************************************************************************)
THEOREM LeasesAreKnown == Spec => []Typed
  BY InitTyped, NextTyped, PTL DEF Spec

(***************************************************************************)
(* Type correctness: the clock, the starts, the records' leases and the    *)
(* stages of recovery stay in their ranges, whatever processes do.         *)
(***************************************************************************)
THEOREM TypeCorrect == Spec => []TypeOK
  <1>1. Typed => TypeOK
    BY DEF Typed
  <1> QED
    BY <1>1, LeasesAreKnown, PTL

-----------------------------------------------------------------------------
(* One holder. *)

(***************************************************************************)
(* What keeps two processes from holding a bundle: a bundle has one place, *)
(* a process or the schedule, and none at all before it has a record.      *)
(***************************************************************************)
OnePlace ==
    \A b \in Bundle :
        /\ \A p, q \in Process : held[p][b] # "no" /\ held[q][b] # "no" => p = q
        /\ b \in retries => \A p \in Process : held[p][b] = "no"
        /\ rec[b].State = "none" => b \notin retries /\ \A p \in Process : held[p][b] = "no"

(***************************************************************************)
(* A process that ends gives up what it holds; nothing else of its life    *)
(* and of its recovery moves a bundle.                                     *)
(***************************************************************************)
LEMMA LeaseKeepsPlace ==
    ASSUME Typed, OnePlace, NEW p \in Process, Lease(p) \/ Recover(p)
    PROVE  OnePlace'
  <1>1. UNCHANGED <<rec, retries>>
    BY DEF Lease, New, Bootstrap, Renew, SetAuthority, SetAuthorityFails, Ends,
           Recover, BeginReplay, Replay, Rejoin, stored
  <1>2. held' \in {held, [held EXCEPT ![p] = NotHeld]}
    BY DEF Lease, New, Bootstrap, Renew, SetAuthority, SetAuthorityFails, Ends,
           Recover, BeginReplay, Replay, Rejoin
  <1>3. \A q \in Process, b \in Bundle : held'[q][b] # "no" => held[q][b] # "no"
    BY <1>2 DEF Typed, TypeOK, NotHeld
  <1> QED
    BY <1>1, <1>3 DEF OnePlace

(***************************************************************************)
(* Creating, moving, scheduling, claiming, sealing and forgetting a bundle *)
(* hand it from one place to the next.                                     *)
(***************************************************************************)
LEMMA WorkKeepsPlace ==
    ASSUME Typed, OnePlace, NEW p \in Process, NEW b \in Bundle, Work(p, b)
    PROVE  OnePlace'
  <1> USE DEF Typed, TypeOK, OnePlace, stored
  <1>1. CASE Create(p, b)
    BY <1>1 DEF Create, BundleState
  <1>2. CASE Forget(p, b)
    BY <1>2 DEF Forget
  <1>3. CASE ScheduleRetry(p, b)
    BY <1>3 DEF ScheduleRetry
  <1>4. CASE ClaimDueRetries(p, b)
    BY <1>4 DEF ClaimDueRetries
  <1>5. CASE PutCheckpoint(p, b)
    BY <1>5 DEF PutCheckpoint
  <1>6. ASSUME NEW to \in BundleState, TransitionBundle(p, b, to)
        PROVE  OnePlace'
    <2>1. to # "none"
      BY DEF BundleState, Decisions
    <2> QED
      BY <1>6, <2>1 DEF TransitionBundle, MayStep
  <1> QED
    BY <1>1, <1>2, <1>3, <1>4, <1>5, <1>6 DEF Work

(***************************************************************************)
(* A set whose elements are all the same has at most one.                  *)
(***************************************************************************)
LEMMA AtMostOne ==
    ASSUME NEW S, \A x, y \in S : x = y
    PROVE  Cardinality(S) \in {0, 1} /\ (S = {} => Cardinality(S) = 0)
  <1>1. CASE S = {}
    BY <1>1, FS_EmptySet
  <1>2. CASE S # {}
    <2>1. PICK x : S = {x}
      BY <1>2
    <2> QED
      BY <2>1, <1>2, FS_Singleton
  <1> QED
    BY <1>1, <1>2

(***************************************************************************)
(* "one owner per shard or bundle": two processes never hold the same      *)
(* bundle, nor is it scheduled while one holds it, for any number of       *)
(* processes and whatever happens to the shard's authority.                *)
(***************************************************************************)
THEOREM OneHolderAlways == Spec => []OneHolder
  <1>1. Init => OnePlace
    BY DEF Init, OnePlace, NotHeld
  <1>2. Typed /\ OnePlace /\ [Next]_vars => OnePlace'
    <2> SUFFICES ASSUME Typed, OnePlace, [Next]_vars PROVE OnePlace'
      OBVIOUS
    <2>1. CASE Tick \/ UNCHANGED vars
      BY <2>1 DEF Tick, vars, stored, local, OnePlace
    <2> QED
      BY <2>1, LeaseKeepsPlace, WorkKeepsPlace DEF Next
  <1>3. OnePlace => OneHolder
    <2> SUFFICES ASSUME OnePlace, NEW b \in Bundle PROVE Holders(b) <= 1
      BY DEF OneHolder
    <2> DEFINE S == {p \in Process : held[p][b] # "no"}
    <2>1. \A x, y \in S : x = y
      BY DEF OnePlace
    <2>2. b \in retries => S = {}
      BY DEF OnePlace
    <2>3. Cardinality(S) \in {0, 1} /\ (S = {} => Cardinality(S) = 0)
      BY <2>1, AtMostOne
    <2> HIDE DEF S
    <2>4. Cardinality(S) + (IF b \in retries THEN 1 ELSE 0) <= 1
      BY <2>2, <2>3
    <2> QED
      BY <2>4 DEF Holders, S
  <1> QED
    BY <1>1, <1>2, <1>3, LeasesAreKnown, PTL DEF Spec

-----------------------------------------------------------------------------
(* Fencing. *)

(***************************************************************************)
(* Once the process that accepted a bundle is gone and another lease is    *)
(* the authority, no process ever changes the bundle's record again: a     *)
(* new start brings a new lease, renewals only write the leases of         *)
(* running processes, and the store refuses everybody else.                *)
(***************************************************************************)
THEOREM OrphansAreFrozen == Spec => OrphansStayFrozen
  <1> DEFINE Frozen(b) == Orphaned(b) => rec'[b] = rec[b] /\ Orphaned(b)'
  <1>1. Typed /\ [Next]_vars => \A b \in Bundle : Frozen(b)
    <2> SUFFICES ASSUME Typed, [Next]_vars, NEW b \in Bundle, Orphaned(b)
                 PROVE  rec'[b] = rec[b] /\ Orphaned(b)'
      OBVIOUS
    <2>1. rec[b].LeaseID \in 0..starts /\ rec[b].LeaseID # NoLease /\ starts \in Nat
      BY DEF Typed, TypeOK, LeasesKnown, Orphaned
    <2>2. CASE Tick \/ UNCHANGED vars
      BY <2>2 DEF Tick, vars, stored, local, Orphaned
    <2>3. ASSUME NEW p \in Process, Lease(p)
          PROVE  rec'[b] = rec[b] /\ Orphaned(b)'
      <3>1. rec' = rec
        BY <2>3 DEF Lease, New, Bootstrap, Renew, SetAuthority, SetAuthorityFails, Ends, stored
      <3>2. \/ authority' = authority \/ authority' = auth[p]
        BY <2>3 DEF Lease, New, Bootstrap, Renew, SetAuthority, SetAuthorityFails, Ends, stored
      <3>3. \A q \in Process : auth'[q].LeaseID \in {auth[q].LeaseID, starts + 1, NoLease}
        <4> USE DEF Typed, TypeOK, Authority, stored
        <4>1. CASE New(p)
          BY <4>1 DEF New
        <4>2. CASE Renew(p)
          BY <4>2 DEF Renew
        <4>3. CASE Ends(p)
          BY <4>3 DEF Ends, NoAuthority
        <4> QED
          BY <2>3, <4>1, <4>2, <4>3 DEF Lease, Bootstrap, SetAuthority, SetAuthorityFails
      <3> QED
        BY <3>1, <3>2, <3>3, <2>1 DEF Orphaned
    <2>4. ASSUME NEW p \in Process, Recover(p)
          PROVE  rec'[b] = rec[b] /\ Orphaned(b)'
      BY <2>4 DEF Recover, BeginReplay, Replay, Rejoin, stored, Orphaned
    <2>5. ASSUME NEW p \in Process, NEW c \in Bundle, Work(p, c)
          PROVE  rec'[b] = rec[b] /\ Orphaned(b)'
      <3>1. UNCHANGED <<authority, auth>>
        BY <2>5 DEF Work, Create, Forget, ScheduleRetry, ClaimDueRetries, PutCheckpoint,
                    TransitionBundle, stored
      <3>2. rec'[b] = rec[b]
        <4>1. CASE Create(p, c)
          BY <4>1 DEF Create, Orphaned, Typed, TypeOK
        <4>2. ASSUME NEW to \in BundleState, TransitionBundle(p, c, to)
              PROVE  rec'[b] = rec[b]
          BY <4>2 DEF TransitionBundle, Accepts, Orphaned, Typed, TypeOK
        <4> QED
          BY <2>5, <4>1, <4>2 DEF Work, Forget, ScheduleRetry, ClaimDueRetries, PutCheckpoint, stored
      <3> QED
        BY <3>1, <3>2 DEF Orphaned
    <2> QED
      BY <2>2, <2>3, <2>4, <2>5 DEF Next
  <1>2. Typed /\ [Next]_vars => [\A b \in Bundle : Frozen(b)]_vars
    BY <1>1
  <1> QED
    BY <1>2, LeasesAreKnown, PTL DEF Spec, OrphansStayFrozen
=============================================================================
