----------------------------- MODULE MCStrategies -----------------------------
(* Sessions on one symbol: one that does both, one that makes the market, and *)
(* one that gives up unless its first run earns.                              *)
EXTENDS Strategies, TLC

CONSTANTS Mixed, Maker, Timid

MCRequest ==
  Mixed :> [modes |-> Modes, target |-> 20, max |-> 2, take |-> 250, stop |-> 50]
    @@ Maker :> [modes |-> {"market_making"}, target |-> 5, max |-> 1, take |-> 100, stop |-> 50]
    @@ Timid :> [modes |-> {"arbitrage"}, target |-> 50, max |-> 1, take |-> 100, stop |-> 0]

\* One opportunity well above the target, one that pays Mixed's but not
\* Timid's, one that the fees eat up.
MCOpportunities ==
  {[buy |-> 100, sell |-> 102, buyAt |-> "bitmart", sellAt |-> "mexc"],
   [buy |-> 400, sell |-> 404, buyAt |-> "mexc", sellAt |-> "other"],
   [buy |-> 400, sell |-> 402, buyAt |-> "cryptocom", sellAt |-> "other"]}

\* A market between one cent and two, where rounding both sides down would make
\* them meet, and a record without prices.
MCMarkets == {[bid |-> 14, ask |-> 15], [bid |-> 0, ask |-> 0]}
=============================================================================
