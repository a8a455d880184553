---------------------------- MODULE SelectionV1 ----------------------------
(***************************************************************************)
(* Normalisation and selection of the txpool builder v1 (package run).     *)
(* A pool is a sequence of entries in the order of sortedPoolSenders and   *)
(* sortedNonceKeys.  An entry is the JSON object of one transaction: an    *)
(* absent or unreadable field is None; hashes and senders are numbers in   *)
(* the order of the strings, nonces and fees are exact numbers.            *)
(***************************************************************************)
EXTENDS Integers, FiniteSets, SequencesExt

CONSTANT None

Gas(t) == t.gas
Score(t) == t.score
Least(S, before(_, _)) == CHOOSE x \in S : \A y \in S \ {x} : before(x, y)

(***************************************************************************)
(* The checks of decodeTx.  Every failure comes with an error, so that its *)
(* reason is not kept.  json: the object parses; wellFormed: its address,  *)
(* nonce and input do.                                                     *)
(* The type is cut to eight bits.                                          *)
(***************************************************************************)
TxType(e) == e.type % 256
Decodes(e, base, blockGas) ==
    /\ e.json /\ e.wellFormed /\ e.hash # None
    /\ TxType(e) <= 2
    /\ e.gas # None /\ e.gas # 0 /\ (blockGas > 0 => e.gas <= blockGas)
    /\ e.gas >= e.intrinsic
    /\ TxType(e) < 2 => e.price # None /\ (base # None => e.price >= base)
    /\ TxType(e) = 2 => e.maxFee # None /\ e.maxTip # None /\ base # None /\ e.maxFee >= base

EffectiveTip(e, base) ==
    CASE TxType(e) = 2 -> IF e.maxFee - base > e.maxTip THEN e.maxTip ELSE e.maxFee - base
      [] TxType(e) < 2 -> IF base = None THEN e.price ELSE e.price - base

\* decodeTx: the transaction of an entry that passes.
decodeTx(e, base) ==
    [hash |-> e.hash, from |-> IF e.from = None THEN e.sender ELSE e.from,
     nonce |-> IF e.nonce = None THEN e.key ELSE e.nonce,
     gas |-> e.gas, score |-> EffectiveTip(e, base) * e.gas]

Decision(tx, reason) == [hash |-> tx.hash, reason |-> reason]

-----------------------------------------------------------------------------
\* The order of the replacements of one nonce.
ReplacedBefore(a, b) ==
    \/ a.score > b.score
    \/ a.score = b.score /\ a.hash < b.hash

\* The first nonce that ends a sender's chain: after a gap, or too large.
ChainEnds(txs, blockGas) ==
    LET nonces == {t.nonce : t \in txs}
        best(n) == Least({t \in txs : t.nonce = n}, ReplacedBefore)
    IN  {n \in nonces : \/ n - 1 \notin nonces /\ \E k \in nonces : k < n
                        \/ blockGas > 0 /\ best(n).gas > blockGas}

(***************************************************************************)
(* normalizeSenderChains: the best of each nonce, up to the first gap.     *)
(* The others of a nonce are rejected; all of the nonce after the gap are, *)
(* also those just rejected; what comes after it is not mentioned.         *)
(***************************************************************************)
normalizeSenderChains(txs, blockGas) ==
    LET ends == ChainEnds(txs, blockGas)
        best(n) == Least({t \in txs : t.nonce = n}, ReplacedBefore)
        before(n) == \A k \in ends : n < k
        reached(n) == \A k \in ends : n <= k
        gap(n) == n - 1 \notin {t.nonce : t \in txs} /\ \E t \in txs : t.nonce < n
    IN  [chain |-> {best(t.nonce) : t \in {u \in txs : before(u.nonce)}},
         rejected |->
            {Decision(t, "REPLACEMENT_CONFLICT") :
                t \in {u \in txs : reached(u.nonce) /\ u # best(u.nonce)}}
            \cup {Decision(t, IF gap(t.nonce) THEN "NONCE_GAP" ELSE "EXCEEDS_BLOCK_GAS") :
                t \in {u \in txs : reached(u.nonce) /\ ~before(u.nonce)
                                   /\ (gap(u.nonce) \/ u = best(u.nonce))}}]

(***************************************************************************)
(* normalizePool: one entry that does not decode fails the whole pool,     *)
(* unless RejectOnPartialDecode is set; then it is recorded without hash.  *)
(***************************************************************************)
normalizePool(pool, base, blockGas, rejectOnPartial) ==
    LET bad == {i \in DOMAIN pool : ~Decodes(pool[i], base, blockGas)}
        txs == {decodeTx(pool[i], base) : i \in DOMAIN pool \ bad}
        chains == [s \in {t.from : t \in txs} |->
                      normalizeSenderChains({t \in txs : t.from = s}, blockGas)]
    IN  [ok |-> bad = {} \/ rejectOnPartial,
         txs |-> UNION {chains[s].chain : s \in DOMAIN chains},
         rejected |-> UNION {chains[s].rejected : s \in DOMAIN chains},
         failures |-> Cardinality(bad)]

-----------------------------------------------------------------------------
\* The order of the heads of the senders' chains.
RankedBefore(a, b) ==
    \/ a.score > b.score
    \/ a.score = b.score /\ a.nonce < b.nonce
    \/ a.score = b.score /\ a.nonce = b.nonce /\ a.from < b.from
    \/ a.score = b.score /\ a.nonce = b.nonce /\ a.from = b.from /\ a.hash < b.hash

\* The next transaction of every sender that is still in the running.
Heads(left) ==
    {t \in left : \A u \in left \ {t} : u.from = t.from =>
        t.nonce < u.nonce \/ (t.nonce = u.nonce /\ ReplacedBefore(t, u))}

\* One turn of greedySelect: a head that does not fit takes its sender out.
Select(s, maxGas) ==
    LET best == Least(Heads(s.left), RankedBefore)
    IN  IF best.gas > maxGas - MapThenSumSet(Gas, Range(s.selected))
        THEN [s EXCEPT !.excluded = @ \cup {best}, !.left = {t \in @ : t.from # best.from}]
        ELSE [s EXCEPT !.selected = Append(@, best), !.left = @ \ {best}]

greedySelect(txs, maxTransactions, maxGas) ==
    LET turn[i \in 0..Cardinality(txs)] ==
            IF i = 0 THEN [selected |-> <<>>, excluded |-> {}, left |-> txs]
            ELSE LET s == turn[i - 1]
                 IN  IF s.left = {} \/ Len(s.selected) >= maxTransactions THEN s ELSE Select(s, maxGas)
    IN  turn[Cardinality(txs)]

StopReason(s) ==
    CASE s.selected # <<>>                      -> "selection_complete"
      [] s.selected = <<>> /\ s.excluded # {}   -> "capacity_exhausted"
      [] OTHER                                  -> "no_eligible_candidate"

\* buildCandidate: what of the candidate the selection decides.
buildCandidate(txs, maxTransactions, maxGas) ==
    LET s == greedySelect(txs, maxTransactions, maxGas)
    IN  [order |-> [i \in DOMAIN s.selected |-> s.selected[i].hash],
         gas |-> MapThenSumSet(Gas, Range(s.selected)),
         revenue |-> MapThenSumSet(Score, Range(s.selected)),
         stop |-> StopReason(s),
         excluded |-> {Decision(t, "CAPACITY_EXCLUDED") : t \in s.excluded}]

-----------------------------------------------------------------------------
\* What greedySelect takes: one transaction of each nonce of a sender.
IsChains(txs) ==
    /\ IsFiniteSet(txs)
    /\ \A t \in txs : t.gas \in Nat /\ {t.from, t.nonce, t.score, t.hash} \subseteq Int
    /\ \A t, u \in txs : t.from = u.from /\ t.nonce = u.nonce => t = u

\* The order within the chains and the order of preference, for GreedySelection.
Chained(txs) == {p \in txs \X txs : p[1].from = p[2].from /\ p[1].nonce < p[2].nonce}
Ranked(txs) == {p \in txs \X txs : RankedBefore(p[1], p[2])}
=============================================================================
