---------------------------- MODULE BundleLedger ----------------------------
(***************************************************************************)
(* What the relay promises about a bundle, whatever its threads do: it is  *)
(* accepted once, decided at most once, and its evidence is sealed at most *)
(* once, after the decision.  "no double terminalization" (v3/README.md)   *)
(* and "one terminal path per bundle" (v3/docs/architecture.md).           *)
(***************************************************************************)
CONSTANTS
    Bundle,     \* bundles
    Decisions   \* the possible decisions

VARIABLES
    accepted,   \* the bundles that have a record
    decision,   \* the decision about each bundle, or "none"
    sealed      \* how many checkpoints were stored for each bundle

vars == <<accepted, decision, sealed>>

Init ==
    /\ accepted = {}
    /\ decision = [b \in Bundle |-> "none"]
    /\ sealed = [b \in Bundle |-> 0]

Accept(b) ==
    /\ b \notin accepted
    /\ accepted' = accepted \cup {b}
    /\ UNCHANGED <<decision, sealed>>

Decide(b, d) ==
    /\ b \in accepted
    /\ decision[b] = "none"
    /\ decision' = [decision EXCEPT ![b] = d]
    /\ UNCHANGED <<accepted, sealed>>

Seal(b) ==
    /\ decision[b] # "none"
    /\ sealed[b] = 0
    /\ sealed' = [sealed EXCEPT ![b] = 1]
    /\ UNCHANGED <<accepted, decision>>

Next == \E b \in Bundle : Accept(b) \/ Seal(b) \/ \E d \in Decisions : Decide(b, d)

Spec == Init /\ [][Next]_vars
=============================================================================
