---------------------------- MODULE SelectionV2 ----------------------------
(***************************************************************************)
(* Normalisation and selection of the txpool builder v2 (package service). *)
(* Entries are those of SelectionV1; here the key gives the nonce, and     *)
(* transactions stay with the sender they are listed under.  The fee model *)
(* is given by the fields that are present: dynamic tells whether a        *)
(* maxFeePerGas or a maxPriorityFeePerGas is, readable or not.  A decision *)
(* is a hash and a reason.                                                 *)
(***************************************************************************)
EXTENDS Integers, FiniteSets, SequencesExt

CONSTANT None

Gas(t) == t.gas
Score(t) == t.score
Least(S, before(_, _)) == CHOOSE x \in S : \A y \in S \ {x} : before(x, y)
Decision(hash, reason) == [hash |-> hash, reason |-> reason]

(***************************************************************************)
(* resolveFeeFields: the effective fee, None when the fields do not make   *)
(* one.  A gas price counts in full: the base fee is not taken off; and it *)
(* does not count where a field of the other model is present.             *)
(***************************************************************************)
resolveFeeFields(e, base) ==
    IF e.dynamic
    THEN IF base = None \/ e.maxFee = None \/ e.maxTip = None THEN None
         ELSE IF e.maxFee < base THEN None
         ELSE IF e.maxTip <= e.maxFee - base THEN e.maxTip ELSE e.maxFee - base
    ELSE e.price

\* The checks of decodeTx, in its order; "" when all pass.
Refusal(e, base, blockGas) ==
    CASE e.key = None                          -> "INVALID_NONCE"
      [] e.hash = None                         -> "MISSING_FIELD"
      [] e.gas = None \/ e.gas = 0             -> "INVALID_GAS"
      [] blockGas > 0 /\ e.gas > blockGas      -> "EXCEEDS_BLOCK_GAS"
      [] resolveFeeFields(e, base) = None      -> "INVALID_FEE_MODEL"
      [] OTHER                                 -> ""

decodeTx(e, base) ==
    [hash |-> e.hash, sender |-> e.sender, nonce |-> e.key, gas |-> e.gas,
     score |-> resolveFeeFields(e, base) * e.gas]

\* compareTx(a, b) < 0: the higher score, then the smaller gas, then the hash.
compareTx(a, b) ==
    \/ a.score > b.score
    \/ a.score = b.score /\ a.gas < b.gas
    \/ a.score = b.score /\ a.gas = b.gas /\ a.hash < b.hash

BestOf(txs, nonce) == Least({t \in txs : t.nonce = nonce}, compareTx)

\* The transactions of a set, one of each nonce, in the order of the nonces.
Sorted(txs) ==
    CHOOSE s \in [1..Cardinality(txs) -> txs] :
        \A i, j \in DOMAIN s : i < j => s[i].nonce < s[j].nonce

(***************************************************************************)
(* normalizeSenderChain: the best of every nonce, up to the first gap or   *)
(* too large a transaction; nothing is recorded of what comes after it.    *)
(***************************************************************************)
normalizeSenderChain(txs, blockGas) ==
    LET nonces == {t.nonce : t \in txs}
        gap(n) == n - 1 \notin nonces /\ \E k \in nonces : k < n
        ends == {n \in nonces : gap(n) \/ (blockGas > 0 /\ BestOf(txs, n).gas > blockGas)}
        kept == {n \in nonces : \A k \in ends : n < k}
        last == {n \in ends : \A k \in ends : n <= k}
    IN  [chain |-> Sorted({BestOf(txs, n) : n \in kept}),
         rejected |->
            {Decision(t.hash, "REPLACEMENT_CONFLICT") :
                t \in {u \in txs : u.nonce \in kept \cup last /\ u # BestOf(txs, u.nonce)}}
            \cup {Decision(BestOf(txs, n).hash, IF gap(n) THEN "NONCE_GAP" ELSE "EXCEEDS_BLOCK_GAS") :
                n \in last}]

\* normalizePool: the chain of every sender, and why entries are not in it.
\* An entry that is not JSON fails the pool.
normalizePool(pool, base, blockGas) ==
    LET good == {e \in Range(pool) : Refusal(e, base, blockGas) = ""}
        chains == [s \in {e.sender : e \in Range(pool)} |->
            normalizeSenderChain({decodeTx(e, base) : e \in {g \in good : g.sender = s}}, blockGas)]
    IN  [ok |-> \A e \in Range(pool) : e.json,
         chains |-> [s \in DOMAIN chains |-> chains[s].chain],
         rejected |-> {Decision(e.hash, Refusal(e, base, blockGas)) : e \in Range(pool) \ good}
                      \cup UNION {chains[s].rejected : s \in DOMAIN chains}]

-----------------------------------------------------------------------------
\* mergeSenderChain: one transaction a nonce, the better of the two.
mergeSenderChain(existing, queued) ==
    LET all == Range(existing) \cup Range(queued)
    IN  Sorted({BestOf(all, t.nonce) : t \in all})

buildChains(pending, queued, includeQueued) ==
    LET chain(s, of) == IF s \in DOMAIN of THEN of[s] ELSE <<>>
    IN  IF includeQueued
        THEN [s \in DOMAIN pending \cup DOMAIN queued |-> mergeSenderChain(chain(s, pending), chain(s, queued))]
        ELSE pending

\* Faulty variant of Pop: what does not fit is stepped over in its chain.
PopSkips(s, chains) ==
    LET best == Least({chains[x][s.next[x]] : x \in {y \in DOMAIN chains : s.next[y] <= Len(chains[y])}}, compareTx)
        from == CHOOSE x \in DOMAIN chains : s.next[x] <= Len(chains[x]) /\ chains[x][s.next[x]] = best
    IN  IF best.gas > s.remaining
        THEN [s EXCEPT !.rejected = @ \cup {best}, !.next[from] = @ + 1]
        ELSE [s EXCEPT !.selected = Append(@, best), !.remaining = @ - best.gas, !.next[from] = @ + 1]

\* The best head is popped; the chain of one that does not fit is over.
Pop(s, chains) ==
    LET best == Least({chains[x][s.next[x]] : x \in {y \in DOMAIN chains : s.next[y] <= Len(chains[y])}}, compareTx)
        from == CHOOSE x \in DOMAIN chains : s.next[x] <= Len(chains[x]) /\ chains[x][s.next[x]] = best
    IN  IF best.gas > s.remaining
        THEN [s EXCEPT !.rejected = @ \cup {best}, !.next[from] = Len(chains[from]) + 1]
        ELSE [s EXCEPT !.selected = Append(@, best), !.remaining = @ - best.gas, !.next[from] = @ + 1]

\* selectTransactions.  MaxGas 0 is no limit; Unlimited stands for the largest uint64.
Unlimited == 1000000
selectTransactions(chains, maxGas, maxTx) ==
    LET total == MapThenSumSet(LAMBDA x : Len(chains[x]), DOMAIN chains)
        turn[i \in 0..total] ==
            IF i = 0
            THEN [selected |-> <<>>, rejected |-> {}, next |-> [x \in DOMAIN chains |-> 1],
                  remaining |-> IF maxGas = 0 THEN Unlimited ELSE maxGas]
            ELSE LET s == turn[i - 1]
                 IN  IF Len(s.selected) >= maxTx \/ \A x \in DOMAIN chains : s.next[x] > Len(chains[x])
                     THEN s ELSE Pop(s, chains)
    IN  turn[total]

StopReason(s, maxTx) ==
    CASE Len(s.selected) >= maxTx                -> "max_transactions"
      [] s.selected = <<>> /\ s.rejected = {}    -> "empty_pool"
      [] s.remaining = 0                         -> "gas_exhausted"
      [] OTHER                                   -> "exhausted"

\* buildCandidate: what the selection decides of candidate and trace.
buildCandidate(chains, decisions, maxGas, maxTx) ==
    LET s == selectTransactions(chains, maxGas, maxTx)
    IN  [selected |-> s.selected,
         gas |-> MapThenSumSet(Gas, Range(s.selected)),
         revenue |-> MapThenSumSet(Score, Range(s.selected)),
         rejected |-> decisions \cup {Decision(t.hash, "CAPACITY_EXCLUDED") : t \in s.rejected},
         stop |-> StopReason(s, maxTx)]

-----------------------------------------------------------------------------
\* All transactions of the chains.
AllOf(chains) == UNION {Range(chains[x]) : x \in DOMAIN chains}

\* What selectTransactions takes: chains in the order of the nonces, each under its
\* sender, and hashes that tell the transactions apart.
IsChains(chains) ==
    /\ IsFiniteSet(DOMAIN chains)
    /\ \A x \in DOMAIN chains :
        /\ chains[x] \in Seq(Range(chains[x]))
        /\ \A i \in DOMAIN chains[x] : chains[x][i].sender = x
        /\ \A i, j \in DOMAIN chains[x] : i < j => chains[x][i].nonce < chains[x][j].nonce
    /\ \A t \in AllOf(chains) : t.gas \in Nat /\ {t.nonce, t.score, t.hash} \subseteq Int
    /\ \A t, u \in AllOf(chains) : t.hash = u.hash => t = u

\* The order within the chains and the order of preference, for GreedySelection.
Chained(chains) ==
    {p \in AllOf(chains) \X AllOf(chains) : p[1].sender = p[2].sender /\ p[1].nonce < p[2].nonce}
Ranked(chains) == {p \in AllOf(chains) \X AllOf(chains) : compareTx(p[1], p[2])}

\* The gas that selectTransactions has.
Budget(maxGas) == IF maxGas = 0 THEN Unlimited ELSE maxGas
=============================================================================
