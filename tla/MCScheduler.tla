----------------------------- MODULE MCScheduler -----------------------------
(***************************************************************************)
(* Instances of Scheduler for TLC.  The five items differ in each key of   *)
(* the order in turn, so that every line of betterThan decides somewhere,  *)
(* and one has a deadline that passes within the bound of the clock.       *)
(***************************************************************************)
EXTENDS Scheduler

MCItem ==
    {[ID |-> 1, Priority |-> 2, DeadlineAt |-> 3, EnqueuedAt |-> 1],
     [ID |-> 2, Priority |-> 1, DeadlineAt |-> 1, EnqueuedAt |-> 1],
     [ID |-> 3, Priority |-> 1, DeadlineAt |-> 3, EnqueuedAt |-> 1],
     [ID |-> 4, Priority |-> 1, DeadlineAt |-> 3, EnqueuedAt |-> 1],
     [ID |-> 5, Priority |-> 1, DeadlineAt |-> 3, EnqueuedAt |-> 2]}
=============================================================================
