----------------------------- MODULE MCEarlier -----------------------------
(***************************************************************************)
(* The earlier versions, each on its own, and the algorithms that all of   *)
(* them are made of.  `focus' says what a behaviour is about: the relay v1 *)
(* with three bundles of one client, the relay v2 with two bundles, a      *)
(* series of runs of the txpool builder v1, or one input of MCAlgorithms;  *)
(* the rest stays as it starts.                                            *)
(***************************************************************************)
EXTENDS RelayV1, RelayV2, BuilderV1

CONSTANTS c1, w1, MaxGraphNode, MaxCapacity, MaxLeaves

ClientOfBundle == [b \in Bundles |-> c1]

\* The bundles, all of one client, are interchangeable.
BundleSymmetry == Permutations(Bundles)

BaseFees == <<1, 3>>

\* Pools with a conflict, a gap and a price below the base fee; heads that rank
\* the transactions differently.
Entry(hash, sender, nonce, price, gas) ==
    [hash |-> hash, sender |-> sender, key |-> nonce, from |-> None, nonce |-> None, type |-> 0,
     json |-> TRUE, wellFormed |-> TRUE, gas |-> gas, intrinsic |-> 1, price |-> price,
     maxFee |-> None, maxTip |-> None]
Capped(hash, sender, nonce, maxFee, maxTip, gas) ==
    [Entry(hash, sender, nonce, None, gas) EXCEPT !.type = 2, !.maxFee = maxFee, !.maxTip = maxTip]

PoolAnswers ==
    {[pending |-> <<>>, queued |-> <<Entry(5, 1, 7, 6, 1)>>],
     [pending |-> <<Entry(1, 1, 0, 5, 2), Entry(2, 1, 2, 9, 1), Capped(3, 2, 0, 9, 3, 2)>>,
      queued |-> <<>>],
     [pending |-> <<Entry(1, 1, 0, 5, 2), Entry(4, 1, 1, 2, 1), Capped(3, 2, 0, 4, 3, 2)>>,
      queued |-> <<Entry(6, 1, 5, 2, 1)>>]}

\* Only the strict runs include queued transactions.
Cfg(replay, noWrite, strict, rejectOnPartial, compare, limits) ==
    [replay |-> replay, noWrite |-> noWrite, strict |-> strict, rejectOnPartial |-> rejectOnPartial,
     includeQueued |-> strict, compare |-> compare, limits |-> limits]

Settings ==
    {Cfg(FALSE, FALSE, TRUE, TRUE, FALSE, <<2, 3>>), Cfg(FALSE, FALSE, FALSE, FALSE, FALSE, <<1, 4>>),
     Cfg(FALSE, TRUE, FALSE, TRUE, TRUE, <<2, 3>>),
     Cfg(TRUE, TRUE, FALSE, TRUE, TRUE, <<2, 3>>), Cfg(TRUE, FALSE, FALSE, TRUE, FALSE, <<1, 4>>)}

-----------------------------------------------------------------------------
VARIABLES focus, input, out

Alg == INSTANCE MCAlgorithms

algorithmVars == <<input, out>>

EarlierInit ==
    /\ Init /\ RelayV2Init /\ BuilderInit
    /\ \/ focus \in {"relay", "relay v2", "builder"} /\ input = None /\ out = None
       \/ focus = "algorithms" /\ Alg!Init

RelayStep ==
    focus = "relay" /\ Next /\ UNCHANGED <<focus, relayV2Vars, builderVars, algorithmVars>>
RelayV2Step ==
    focus = "relay v2" /\ RelayV2Next /\ UNCHANGED <<focus, vars, builderVars, algorithmVars>>
BuilderStep ==
    focus = "builder" /\ BuilderNext /\ UNCHANGED <<focus, vars, relayV2Vars, algorithmVars>>
AlgorithmStep ==
    focus = "algorithms" /\ Alg!Next /\ UNCHANGED <<focus, vars, relayV2Vars, builderVars>>

EarlierSpec ==
    /\ EarlierInit
    /\ [][RelayStep \/ RelayV2Step \/ BuilderStep \/ AlgorithmStep]_
         <<focus, vars, relayV2Vars, builderVars, algorithmVars>>

-----------------------------------------------------------------------------
\* Reachable, TopologicalSort, SCC, MaxFlow, MinCut, Route and Root compute on
\* every small input what they are meant to compute.
AlgorithmsMeetDefinitions ==
    focus = "algorithms" =>
        /\ Alg!ReachableIsClosure /\ Alg!SortIsLeastOrder /\ Alg!ComponentsAreMutual
        /\ Alg!FlowIsMinCut /\ Alg!RouteIsStable /\ Alg!RootBinds

\* Both txpool builders take, best first, a gapless prefix of every sender's chain
\* within both limits, from chains in which every nonce has its best transaction,
\* and score a transaction alike up to the base fee of a gas price.
SelectionIsGreedy ==
    focus = "algorithms" =>
        /\ Alg!SelectionIsGreedy /\ Alg!ChainsAreGapless
        /\ Alg!ScoresAgree /\ Alg!MergeKeepsTheBest
=============================================================================
