----------------------------- MODULE MCWorkflow -----------------------------
(***************************************************************************)
(* Two instances of WorkflowEngine for TLC: requests only, about two       *)
(* events of one workflow that has no row yet; and one request with two    *)
(* drains, about the event whose transition leaves an effect and a task.   *)
(* `crew' says which of them a behaviour is about.                         *)
(***************************************************************************)
EXTENDS WorkflowEngine

VARIABLE crew

Crews == {[threads |-> Requests, events |-> Events],
          [threads |-> {CHOOSE r \in Requests : TRUE} \cup Drainers, events |-> Working]}

MCInit == Init /\ crew \in Crews

\* No other thread gets to work, and no other event comes.
MCNext ==
    /\ Next
    /\ \A t \in Threads : th'[t] # Idle => t \in crew.threads
    /\ \A t \in Threads : th'[t].rec.id \in {<< >>} \cup (crew.events \X {"in", "next"})
    /\ UNCHANGED crew

MCSpec == MCInit /\ [][MCNext]_<<vars, crew>> /\ Fairness
=============================================================================
