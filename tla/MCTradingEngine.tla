-------------------------- MODULE MCTradingEngine --------------------------
(***************************************************************************)
(* Small instances of TradingEngine.                                       *)
(***************************************************************************)
EXTENDS TradingEngine, TLC

\* A take-profit amount that two gains reach exactly.
MixedRequest == [mode |-> {"arbitrage", "market_making"}, tp |-> 2, sl |-> 1]
\* One gain is enough.
ArbitrageRequest == [mode |-> {"arbitrage"}, tp |-> 1, sl |-> 1]
\* Clients may send ratios of 0: past the target, or the loss, from the start.
ZeroTarget == [mode |-> {"arbitrage"}, tp |-> 0, sl |-> 1]
ZeroLoss == [mode |-> {"market_making"}, tp |-> 1, sl |-> 0]

AllRequests == {MixedRequest, ArbitrageRequest, ZeroTarget, ZeroLoss}

QuickRequest == {ArbitrageRequest}

\* Workers are interchangeable, and so are sessions.
Alike == Permutations(Workers) \cup Permutations(Sessions)
=============================================================================
