-------------------------- MODULE GreedySelection --------------------------
(***************************************************************************)
(* What the selection of a txpool builder promises, whatever the rules by  *)
(* which it orders and prefers transactions.  `before' is the order within *)
(* the chains of the senders and `better' the order of preference, as sets *)
(* of pairs.  A selection is a record of the transactions that were        *)
(* selected, in this order, and of those that were excluded because they   *)
(* did not fit.                                                            *)
(***************************************************************************)
EXTENDS Integers, FiniteSets, SequencesExt

GasIn(t) == t.gas
GasOf(S) == MapThenSumSet(GasIn, S)

\* The first k that were selected, and the gas that remains after them.
First(s, k) == {s.selected[i] : i \in 1..k}
Fits(t, s, k, maxGas) == GasOf(First(s, k)) + t.gas <= maxGas

\* Both limits are kept, and nothing is selected twice.
WithinLimits(s, txs, maxTx, maxGas) ==
    /\ s.selected \in Seq(txs) /\ Len(s.selected) <= maxTx
    /\ GasOf(First(s, Len(s.selected))) <= maxGas
    /\ \A i, j \in 1..Len(s.selected) : s.selected[i] = s.selected[j] => i = j

\* What comes before a selected transaction in its chain was selected before it.
TakesPrefixes(s, txs, before) ==
    \A j \in 1..Len(s.selected), t \in txs : <<t, s.selected[j]>> \in before => t \in First(s, j - 1)

\* Each time the best was taken: a better one that was left did not fit, or was not next
\* in its chain.
TakesTheBest(s, txs, before, better, maxGas) ==
    \A i \in 1..Len(s.selected) : \A t \in txs \ First(s, i - 1) : <<t, s.selected[i]>> \in better =>
        \/ \E u \in txs \ First(s, i - 1) : <<u, t>> \in before
        \/ t \in s.excluded /\ ~Fits(t, s, i - 1, maxGas)

\* What is left out in the end does not fit, or comes after one that does not.
LeavesNothingThatFits(s, txs, before, maxGas) ==
    LET n == Len(s.selected)
    IN  \A t \in txs \ First(s, n) :
            \E u \in s.excluded \ First(s, n) :
                (u = t \/ <<u, t>> \in before) /\ ~Fits(u, s, n, maxGas)

IsGreedy(s, txs, before, better, maxTx, maxGas) ==
    /\ WithinLimits(s, txs, maxTx, maxGas)
    /\ TakesPrefixes(s, txs, before)
    /\ TakesTheBest(s, txs, before, better, maxGas)
    /\ Len(s.selected) < maxTx => LeavesNothingThatFits(s, txs, before, maxGas)
=============================================================================
