------------------------------ MODULE Lifecycle ------------------------------
(***************************************************************************)
(* The states of a bundle record and the transitions between them          *)
(* (relay/v3/internal/lifecycle/state.go).  "none" is not a state of the   *)
(* code: it stands for a bundle that has no record in the store.           *)
(***************************************************************************)
EXTENDS Integers

(***************************************************************************)
(* The three decisions about a bundle.  The store copies the one that is   *)
(* taken into the record's Terminal field.                                 *)
(***************************************************************************)
Decisions == {"forwarded", "rejected", "dead_letter"}

BundleState == {"received", "validated", "queued", "simulating", "simulated",
                "scored", "retry_pending", "persisted", "completed"} \cup Decisions

(***************************************************************************)
(* The allowed transitions, by source state; completed has none.           *)
(***************************************************************************)
AllowedNext(from) ==
    CASE from = "received"      -> {"validated", "dead_letter", "rejected"}
      [] from = "validated"     -> {"queued", "dead_letter", "rejected"}
      [] from = "queued"        -> {"simulating", "dead_letter", "rejected"}
      [] from = "simulating"    -> {"simulated", "retry_pending", "rejected", "dead_letter"}
      [] from = "simulated"     -> {"scored", "dead_letter", "rejected"}
      [] from = "scored"        -> {"forwarded", "dead_letter", "rejected"}
      [] from = "retry_pending" -> {"queued", "dead_letter"}
      [] from \in Decisions     -> {"persisted"}
      [] from = "persisted"     -> {"completed"}
      [] OTHER                  -> {}

CanTransition(from, to) == from # to /\ to \in AllowedNext(from)
=============================================================================
