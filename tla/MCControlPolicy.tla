-------------------------- MODULE MCControlPolicy --------------------------
(***************************************************************************)
(* Instance of ControlPolicy with the defaults of config.Load, a tenth of  *)
(* a second as the unit of time and a queue of four.                       *)
(***************************************************************************)
EXTENDS ControlPolicy

Quiet == [ages |-> <<>>, late |-> FALSE, net |-> 0, debt |-> 0, latency |-> 0,
          deps |-> TRUE, fresh |-> TRUE]

SomeSituations ==
    {Quiet,
     [Quiet EXCEPT !.ages = <<1, 5>>, !.net = 30, !.latency = 50],               \* busy
     [Quiet EXCEPT !.ages = <<1, 9, 14>>, !.net = 8, !.debt = 50, !.latency = 150],  \* loaded
     [Quiet EXCEPT !.ages = <<40, 2>>, !.net = 30],                              \* old work in front
     [Quiet EXCEPT !.deps = FALSE],                                              \* a dependency is down
     [Quiet EXCEPT !.fresh = FALSE]}                                             \* the lease has lapsed

SomeOffers == {[slack |-> 12, net |-> 6, service |-> 2], [slack |-> 20, net |-> 25, service |-> 1]}
=============================================================================
