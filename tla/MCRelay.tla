------------------------------- MODULE MCRelay -------------------------------
(***************************************************************************)
(* Instances of Relay for TLC.  Bundle n has priority n, so that a later   *)
(* bundle can push an earlier one out of a full queue, and all bundles     *)
(* belong to one client, whose cap can then be reached.                    *)
(***************************************************************************)
EXTENDS Relay, TLC

MCClientOf == [b \in Bundle |-> CHOOSE c \in Client : TRUE]
MCPriority == [b \in Bundle |-> b]

\* Handlers and workers are interchangeable.
ThreadSymmetry == Permutations(Handlers) \cup Permutations(Workers)

\* No action reads the events and the properties ask about them only while no
\* call has failed, so that two states that differ in nothing else after a
\* failure have the same future.
FaultView ==
    <<rec, checkpoints, inflight, retries, queue, control, batch, th, faults,
      IF faults = 0 THEN events ELSE << >> >>
=============================================================================
