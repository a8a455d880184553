-------------------------- MODULE GraphAlgorithms --------------------------
(***************************************************************************)
(* The algorithms of the relays' graph and commitment packages, v2 and v3  *)
(* (the graph package of v3 has those of v2, and routing).  Node and shard *)
(* names are numbers, in the order of the strings.  A digraph maps some    *)
(* nodes to sequences of successors, in which a node may occur twice.      *)
(* Where the code ranges over a map, the order is a parameter, or every    *)
(* outcome is in the set that the operator returns.                        *)
(***************************************************************************)
EXTENDS Integers, FiniteSets, SequencesExt

Succ(g, n) == IF n \in DOMAIN g THEN g[n] ELSE <<>>

allNodes(g) == DOMAIN g \cup UNION {Range(g[n]) : n \in DOMAIN g}

reverse(g) ==
    [n \in allNodes(g) |->
        LET from == SetToSortSeq(DOMAIN g, <)
        IN  FoldLeft(LAMBDA acc, m : acc \o [i \in 1..Len(SelectSeq(g[m], LAMBDA x : x = n)) |-> m],
                     <<>>, from)]

\* Applies F n times.
Iterate(F(_), n, x) ==
    LET f[i \in 0..n] == IF i = 0 THEN x ELSE F(f[i - 1])
    IN  f[n]

(***************************************************************************)
(* Reachable: breadth first from start; seen grows by the successors of    *)
(* what is in it until the queue is empty.                                 *)
(***************************************************************************)
Reachable(g, start, target) ==
    LET grow(seen) == seen \cup UNION {Range(Succ(g, n)) : n \in seen}
    IN  start = target \/ target \in Iterate(grow, Cardinality(allNodes(g)), {start})

-----------------------------------------------------------------------------
(* TopologicalSort: Kahn's algorithm with a sorted queue. *)

Cycle == <<"cycle">>
InDegree(g) ==
    [n \in allNodes(g) |->
        FoldLeft(LAMBDA acc, m : acc + Len(SelectSeq(g[m], LAMBDA x : x = n)), 0, SetToSeq(DOMAIN g))]

\* Faulty variant of Relax: the queue is left unsorted.
RelaxUnsorted(s, to) ==
    [s EXCEPT !.deg[to] = @ - 1,
              !.queue = IF s.deg[to] = 1 THEN Append(@, to) ELSE @]

\* An edge to a successor is removed.
Relax(s, to) ==
    [s EXCEPT !.deg[to] = @ - 1,
              !.queue = IF s.deg[to] = 1 THEN SortSeq(Append(@, to), <) ELSE @]

TopologicalSort(g) ==
    LET deg == InDegree(g)
        Visit(s) ==
            IF s.queue = <<>> THEN s
            ELSE LET n == Head(s.queue)
                 IN  FoldLeft(Relax, [s EXCEPT !.queue = Tail(@), !.order = Append(@, n)],
                              SortSeq(Succ(g, n), <))
        end == Iterate(Visit, Cardinality(allNodes(g)),
                       [deg |-> deg, order |-> <<>>,
                        queue |-> SetToSortSeq({n \in allNodes(g) : deg[n] = 0}, <)])
    IN  IF Len(end.order) # Cardinality(allNodes(g)) THEN Cycle ELSE end.order

-----------------------------------------------------------------------------
(* SCC: Kosaraju's algorithm. *)

\* dfs1 and dfs2: depth first from n, in post-order.
RECURSIVE Dfs(_, _, _)
Dfs(g, s, n) ==
    IF n \in s.seen THEN s
    ELSE LET t == FoldLeft(LAMBDA acc, m : Dfs(g, acc, m), [s EXCEPT !.seen = @ \cup {n}], Succ(g, n))
         IN  [t EXCEPT !.order = Append(@, n)]

(***************************************************************************)
(* SCC: nodes is the order in which the map gives the nodes.  The sorting  *)
(* of the components is left out: they are a set.                          *)
(***************************************************************************)
SCC(g, nodes) ==
    LET none == [seen |-> {}, order |-> <<>>]
        order == FoldLeft(LAMBDA acc, n : Dfs(g, acc, n), none, nodes).order
        Collect(c, n) ==
            LET t == Dfs(reverse(g), [seen |-> c.seen, order |-> <<>>], n)
            IN  [seen |-> t.seen, comps |-> c.comps \cup ({t.seen \ c.seen} \ {{}})]
    IN  FoldLeft(Collect, [seen |-> {}, comps |-> {}], Reverse(order)).comps

-----------------------------------------------------------------------------
(* MaxFlow and MinCut: a network maps every pair of nodes to a capacity.   *)

\* bfsResidual: the shortest paths with capacity left; the order in which a
\* map is ranged over decides which of them is found.
bfsResidual(residual, source, sink) ==
    LET nodes == DOMAIN residual
        onward(p) == {v \in nodes \ Range(p) : residual[Last(p)][v] > 0}
        paths[k \in 1..Cardinality(nodes)] ==
            IF k = 1 THEN {<<source>>}
            ELSE UNION {{Append(p, v) : v \in onward(p)} : p \in paths[k - 1]}
        arrived(k) == {p \in paths[k] : Last(p) = sink}
        lengths == {k \in DOMAIN paths : k > 1 /\ arrived(k) # {}}
    IN  IF lengths = {} THEN {} ELSE arrived(Min(lengths))

Bottleneck(residual, p) ==
    Min({residual[p[i]][p[i + 1]] : i \in 1..(Len(p) - 1)})

\* The body of the loop: the bottleneck leaves the path, and is given back.
Augment(s, p) ==
    LET b == Bottleneck(s.residual, p)
        edge(u, v) == \E i \in 1..(Len(p) - 1) : p[i] = u /\ p[i + 1] = v
    IN  [flow |-> s.flow + b,
         residual |-> [u \in DOMAIN s.residual |-> [v \in DOMAIN s.residual |->
             s.residual[u][v] - (IF edge(u, v) THEN b ELSE 0) + (IF edge(v, u) THEN b ELSE 0)]]]

\* The states that one turn of the loop of MaxFlow may lead to.
MaxFlowTurn(s, source, sink) == {Augment(s, p) : p \in bfsResidual(s.residual, source, sink)}

\* The side of the source when no path is left.
MinCut(residual, source) ==
    LET grow(seen) == seen \cup {v \in DOMAIN residual : \E u \in seen : residual[u][v] > 0}
    IN  Iterate(grow, Cardinality(DOMAIN residual), {source})

-----------------------------------------------------------------------------
(* Routing by the highest score; score[key][shard] stands for the digest.  *)

NewRouting(shards) == SetToSortSeq(Range(shards), <)

\* The first shard with the highest score.
Route(shards, score) ==
    FoldLeft(LAMBDA best, shard : IF best = 0 \/ score[shard] > score[best] THEN shard ELSE best, 0, shards)

-----------------------------------------------------------------------------
(* Merkle roots.  Digests are terms, so two are equal only for equal input. *)

HashLeaf(value) == <<"leaf", value>>
HashPair(left, right) == <<"node", left, right>>

\* A node without a partner is hashed with itself.
Layer(nodes) ==
    [i \in 1..((Len(nodes) + 1) \div 2) |->
        HashPair(nodes[2 * i - 1], nodes[IF 2 * i > Len(nodes) THEN 2 * i - 1 ELSE 2 * i])]

Root(leaves) ==
    LET up(nodes) == IF Len(nodes) = 1 THEN nodes ELSE Layer(nodes)
    IN  IF leaves = <<>> THEN <<"empty">>
        ELSE Iterate(up, Len(leaves), [i \in 1..Len(leaves) |-> HashLeaf(leaves[i])])[1]
=============================================================================
