---------------------------- MODULE MCAlgorithms ----------------------------
(***************************************************************************)
(* The pure algorithms of the relays and of the txpool builders on every   *)
(* small input, against what they should compute.  A behaviour picks an    *)
(* input and runs the algorithm; the flow takes one turn of its loop in a  *)
(* step, since the path it finds depends on the order of a map.            *)
(***************************************************************************)
EXTENDS GraphAlgorithms, GreedySelection

CONSTANTS None, MaxGraphNode, MaxCapacity, MaxLeaves

V1 == INSTANCE SelectionV1
V2 == INSTANCE SelectionV2

VARIABLES input, out

-----------------------------------------------------------------------------
(* Inputs *)

Node == 1..MaxGraphNode
SeqsUpTo(S, n) == UNION {[1..k -> S] : k \in 0..n}
GraphInput ==
    {[kind |-> "graph", g |-> g] : g \in UNION {[D -> SeqsUpTo(Node, 2)] : D \in SUBSET Node}}

\* Networks from 1 to 6 in which a shortest path may block the others.
FlowInput ==
    {[kind |-> "flow", cap |-> [u \in 1..6 |-> [v \in 1..6 |-> IF <<u, v>> \in DOMAIN c THEN c[<<u, v>>] ELSE 0]]] :
        c \in [{<<1, 2>>, <<1, 3>>, <<2, 4>>, <<2, 5>>, <<3, 5>>, <<4, 6>>, <<5, 6>>} -> 0..MaxCapacity]}

RouteInput ==
    {[kind |-> "route", shards |-> s, score |-> f] : s \in SeqsUpTo(1..3, 3), f \in [1..3 -> 1..3]}

LeafInput == {[kind |-> "leaves", leaves |-> l] : l \in SeqsUpTo({1, 2}, MaxLeaves)}

Legacy(hash, sender, key, price, gas) ==
    [hash |-> hash, sender |-> sender, key |-> key, from |-> None, nonce |-> None, type |-> 0,
     json |-> TRUE, wellFormed |-> TRUE, gas |-> gas, intrinsic |-> 1, price |-> price,
     dynamic |-> FALSE, maxFee |-> None, maxTip |-> None]
Dynamic(hash, sender, key, maxFee, maxTip, gas) ==
    [Legacy(hash, sender, key, None, gas) EXCEPT !.type = 2, !.dynamic = TRUE, !.maxFee = maxFee,
                                                 !.maxTip = maxTip]
\* A readable gas price beside a maxFeePerGas that is not.
Garbled(hash, sender, key, price, gas) ==
    [Legacy(hash, sender, key, price, gas) EXCEPT !.dynamic = TRUE]

\* Sender 1 has two transactions of nonce 0, and is tied with sender 2.
Entries ==
    {Legacy(1, 1, 0, 4, 2), Dynamic(2, 1, 0, 6, 3, 2), Dynamic(3, 1, 1, 5, 9, 3), Legacy(4, 1, 2, 8, 1),
     Legacy(5, 2, 0, 4, 2), Dynamic(6, 2, 1, 1, 1, 1), Legacy(7, 2, 2, 7, 9)}
\* A better price at nonce 1, if only it counted.
FewEntries == {Legacy(1, 1, 0, 4, 2), Dynamic(3, 1, 1, 5, 9, 3), Garbled(8, 1, 1, 40, 1)}
InOrder(S) == SetToSortSeq(S, LAMBDA a, b : a.hash < b.hash)
Places == UNION {[E -> {"pending", "queued", "absent"}] : E \in {Entries, FewEntries}}
At(place, p) == InOrder({e \in DOMAIN place : place[e] = p})
PoolInput ==
    {[kind |-> "pool", pending |-> At(place, "pending"), queued |-> At(place, "queued"),
      base |-> base, limits |-> limits] :
        place \in Places, base \in {None, 2}, limits \in {<<2, 5>>, <<9, 4>>}}

-----------------------------------------------------------------------------
(* Results *)

AlgGas == 8
Orders(S) == {p \in [1..Cardinality(S) -> S] : Range(p) = S}

PoolResult(i) ==
    LET p1 == V1!normalizePool(i.pending, i.base, AlgGas, TRUE)
        p2 == V2!normalizePool(i.pending, i.base, AlgGas)
        q2 == V2!normalizePool(i.queued, i.base, AlgGas)
        merged == V2!buildChains(p2.chains, q2.chains, TRUE)
    IN  [v1 |-> p1, v2 |-> p2, queued |-> q2.chains, merged |-> merged,
         pick1 |-> V1!greedySelect(p1.txs, i.limits[1], i.limits[2]),
         pick2 |-> V2!selectTransactions(p2.chains, i.limits[2], i.limits[1]),
         candidate |-> V2!buildCandidate(p2.chains, p2.rejected, i.limits[2], i.limits[1]),
         pickMerged |-> V2!selectTransactions(merged, 0, i.limits[1])]

Result(i) ==
    CASE i.kind = "graph"  -> [reach |-> [p \in Node \X Node |-> Reachable(i.g, p[1], p[2])],
                               order |-> TopologicalSort(i.g),
                               comps |-> {SCC(i.g, nodes) : nodes \in Orders(allNodes(i.g))}]
      [] i.kind = "flow"   -> [flow |-> 0, residual |-> i.cap]
      [] i.kind = "route"  -> [to |-> Route(NewRouting(i.shards), i.score)]
      [] i.kind = "leaves" -> [root |-> Root(i.leaves)]
      [] i.kind = "pool"   -> PoolResult(i)

Init ==
    /\ input \in GraphInput \cup FlowInput \cup RouteInput \cup LeafInput \cup PoolInput
    /\ out = None

Run == out = None /\ out' = Result(input) /\ UNCHANGED input
Turn ==
    /\ input.kind = "flow" /\ out # None
    /\ out' \in MaxFlowTurn(out, 1, 6)
    /\ UNCHANGED input

Next == Run \/ Turn
Spec == Init /\ [][Next]_<<input, out>>

-----------------------------------------------------------------------------
(* Graphs *)

Done(kind) == input.kind = kind /\ out # None
Edge(u, v) == u \in DOMAIN input.g /\ v \in Range(input.g[u])
Reaches(u, v) ==
    \A S \in SUBSET Node : u \in S /\ (\A x \in S : \A y \in Node : Edge(x, y) => y \in S) => v \in S

(***************************************************************************)
(* Reachable is the transitive closure of the edges, for nodes that are    *)
(* not in the map too.                                                     *)
(***************************************************************************)
ReachableIsClosure == Done("graph") => \A u, v \in Node : out.reach[<<u, v>>] = Reaches(u, v)

(***************************************************************************)
(* TopologicalSort fails exactly on a cycle, a node's edge to itself       *)
(* included, and otherwise gives the first order of the nodes, compared    *)
(* from left to right, in which every edge leads forward.                  *)
(***************************************************************************)
SortIsLeastOrder ==
    Done("graph") =>
        LET nodes == allNodes(input.g)
            forward == {p \in Orders(nodes) : \A i, j \in DOMAIN p : Edge(p[i], p[j]) => i < j}
            before(p, q) == \E i \in DOMAIN p : p[i] < q[i] /\ \A k \in 1..(i - 1) : p[k] = q[k]
        IN  IF forward = {} THEN out.order = Cycle
            ELSE out.order \in forward /\ \A q \in forward \ {out.order} : before(out.order, q)

(***************************************************************************)
(* SCC gives the classes of nodes that reach each other, in whatever order *)
(* the map gives the nodes.                                                *)
(***************************************************************************)
ComponentsAreMutual ==
    Done("graph") =>
        out.comps = {{{v \in allNodes(input.g) : Reaches(u, v) /\ Reaches(v, u)} : u \in allNodes(input.g)}}

(***************************************************************************)
(* However the paths are found, MaxFlow ends with the capacity of the      *)
(* smallest cut, and MinCut is the source side of such a cut.              *)
(***************************************************************************)
FlowIsMinCut ==
    Done("flow") /\ bfsResidual(out.residual, 1, 6) = {} =>
        LET capacity(S) == MapThenSumSet(LAMBDA e : input.cap[e[1]][e[2]], S \X (1..6 \ S))
            cuts == {S \in SUBSET (1..6) : 1 \in S /\ 6 \notin S}
            side == MinCut(out.residual, 1)
        IN  /\ side \in cuts /\ capacity(side) = out.flow
            /\ \A S \in cuts : out.flow <= capacity(S)

(***************************************************************************)
(* A shard that is taken away moves only its own keys, and the order and   *)
(* the repetitions of the configured shards do not matter.                 *)
(***************************************************************************)
RouteIsStable ==
    Done("route") =>
        \A s \in SeqsUpTo(1..3, 3) :
            Range(s) \subseteq Range(input.shards) /\ out.to \in Range(s)
                => Route(NewRouting(s), input.score) = out.to

(***************************************************************************)
(* The root binds the leaves: lists of one length have equal roots only    *)
(* when they are equal, lists of odd length too, whose last node is hashed *)
(* with itself.                                                            *)
(***************************************************************************)
RootBinds ==
    Done("leaves") =>
        \A l \in [1..Len(input.leaves) -> {1, 2}] : Root(l) = out.root => l = input.leaves

-----------------------------------------------------------------------------
(* Selection *)

\* A selection of v2, from the chains of its senders.
GreedyFrom(s, chains, maxTx, maxGas) ==
    /\ V2!IsChains(chains)
    /\ IsGreedy([selected |-> s.selected, excluded |-> s.rejected], V2!AllOf(chains),
                V2!Chained(chains), V2!Ranked(chains), maxTx, V2!Budget(maxGas))

(***************************************************************************)
(* greedySelect of v1 and selectTransactions of v2 take, best first, a     *)
(* gapless prefix of every sender's chain, stay within both limits, and    *)
(* leave out only what does not fit or comes after such a one; what        *)
(* normalizePool and buildChains give them are chains; and v2 has recorded *)
(* nothing against what it selects.                                        *)
(***************************************************************************)
SelectionIsGreedy ==
    Done("pool") =>
        /\ V1!IsChains(out.v1.txs)
        /\ IsGreedy(out.pick1, out.v1.txs, V1!Chained(out.v1.txs), V1!Ranked(out.v1.txs),
                    input.limits[1], input.limits[2])
        /\ GreedyFrom(out.pick2, out.v2.chains, input.limits[1], input.limits[2])
        /\ GreedyFrom(out.pickMerged, out.merged, input.limits[1], 0)
        /\ out.candidate.selected = out.pick2.selected
        /\ {t.hash : t \in Range(out.candidate.selected)}
              \cap {d.hash : d \in out.candidate.rejected} = {}

\* The nonces of the entries of a pool that sender s may use.
Usable(s) == {e.key : e \in {x \in Range(input.pending) :
                                x.sender = s /\ V2!Refusal(x, input.base, AlgGas) = ""}}

(***************************************************************************)
(* normalizePool of v2: a chain has all nonces from the sender's first to  *)
(* the first gap, one transaction each, that none of the others of its     *)
(* nonce beats.                                                            *)
(***************************************************************************)
ChainsAreGapless ==
    Done("pool") =>
        \A s \in DOMAIN out.v2.chains :
            LET chain == out.v2.chains[s]
                nonces == {chain[i].nonce : i \in DOMAIN chain}
                first(n) == \A k \in Usable(s) : n <= k
            IN  /\ nonces = {n \in Usable(s) : \A k \in 0..n : (\E f \in Usable(s) : first(f) /\ f <= k) => k \in Usable(s)}
                /\ \A i \in 1..(Len(chain) - 1) : chain[i + 1].nonce = chain[i].nonce + 1
                /\ \A i \in DOMAIN chain, e \in Range(input.pending) :
                    e.sender = s /\ e.key = chain[i].nonce /\ V2!Refusal(e, input.base, AlgGas) = ""
                        => ~V2!compareTx(V2!decodeTx(e, input.base), chain[i])

(***************************************************************************)
(* Both decoders score a dynamic fee transaction alike, by the tip that    *)
(* the block's base fee leaves; v2 scores a gas price without taking the   *)
(* base fee off, v1 takes it off.                                          *)
(***************************************************************************)
ScoresAgree ==
    Done("pool") =>
        \A e \in Range(input.pending) :
            V1!Decodes(e, input.base, AlgGas) /\ V2!Refusal(e, input.base, AlgGas) = "" =>
                V2!decodeTx(e, input.base).score = V1!decodeTx(e, input.base).score
                    + (IF e.type = 2 \/ input.base = None THEN 0 ELSE input.base * e.gas)

(***************************************************************************)
(* mergeSenderChain: with queued transactions included, a merged chain has *)
(* the nonces of both, in order, and of each the transaction that compares *)
(* first, whichever of the pools it is from.                               *)
(***************************************************************************)
MergeKeepsTheBest ==
    Done("pool") =>
        \A s \in DOMAIN out.merged :
            LET all == (IF s \in DOMAIN out.v2.chains THEN Range(out.v2.chains[s]) ELSE {})
                       \cup (IF s \in DOMAIN out.queued THEN Range(out.queued[s]) ELSE {})
                chain == out.merged[s]
            IN  /\ \A i \in 1..(Len(chain) - 1) : chain[i].nonce < chain[i + 1].nonce
                /\ \A t \in all : \E i \in DOMAIN chain :
                    chain[i].nonce = t.nonce /\ chain[i] \in all /\ (chain[i] = t \/ V2!compareTx(chain[i], t))
=============================================================================
