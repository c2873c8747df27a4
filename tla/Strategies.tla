------------------------------ MODULE Strategies ------------------------------
(***************************************************************************)
(* ArbitrageStrategy and MarketMakingStrategy (src/arbitrage_strategy.cpp, *)
(* src/market_making_strategy.cpp) with the reading half of RedisWriter,   *)
(* as the trading loop runs them for the sessions of one symbol, while the *)
(* data synchronisation writes the records they read.                      *)
(*                                                                         *)
(* The doubles are exact integers here.  Ratios and rates are in basis     *)
(* points; a profit is in units of 1 / (10000 * Scale) dollar, so that no  *)
(* quotient has a remainder; market prices are in units of 1/Cent cent.    *)
(* Time is counted in rounds of the loop.  Starting, stopping and removing *)
(* sessions is module TradingEngine's, how records get to Redis DataSync's.*)
(***************************************************************************)
EXTENDS Integers

CONSTANTS
  Sessions,
  Request,          \* Request[s]: what the client asked of session s
  Opportunities,    \* the price statistics there may be: lowest and highest
                    \* price, with their exchanges
  Markets,          \* the market data there may be: bid and ask
  Garbage, Missing, \* a value that does not parse (a NaN), no key
  Scale,            \* divisible by every price to buy at
  Cent,
  Ttl               \* expire_time_

Exchanges == {"bitmart", "cryptocom", "mexc", "other"}
Modes == {"arbitrage", "market_making"}

ASSUME StrategiesAssumption ==
  /\ Scale \in Nat \ {0} /\ Cent \in Nat \ {0} /\ Ttl \in Nat \ {0}
  /\ Request \in [Sessions -> [modes : SUBSET Modes, target : Nat \ {0}, max : Nat \ {0},
                               take : Int, stop : Int]]
  /\ Opportunities \subseteq [buy : Int, sell : Int, buyAt : Exchanges, sellAt : Exchanges]
  /\ \A q \in Opportunities : q.buy > 0 => Scale % q.buy = 0
  /\ Markets \subseteq [bid : Nat, ask : Nat]
  /\ {Garbage, Missing} \cap (Opportunities \cup Markets) = {} /\ Garbage # Missing

VARIABLES
  stats, market, \* what Redis holds under the two keys
  life,          \* life[k]: the rounds key k has left
  redisUp,       \* is_connected(): never restored
  todo,          \* the sessions this round still executes
  status,        \* RUNNING, ERROR, or the limit that stopped it
  profit,        \* total_profit
  quote,         \* the orders market making last proposed, in cents
  repeats        \* history: the profits of s since stats was last written

vars == <<stats, market, life, redisUp, todo, status, profit, quote, repeats>>

Running == {s \in Sessions : status[s] = "RUNNING"}

Init ==
  /\ stats = Missing /\ market = Missing
  /\ life = [k \in {"stats", "market"} |-> 0]
  /\ redisUp = TRUE
  /\ todo = {}
  /\ status = [s \in Sessions |-> "RUNNING"]
  /\ profit = [s \in Sessions |-> 0]
  /\ quote = [s \in Sessions |-> Missing]
  /\ repeats = [s \in Sessions |-> 0]

-----------------------------------------------------------------------------
(* Arbitrage: buy at the lowest price, sell at the highest.                *)

\* get_exchange_fee.
Fee(exchange) == CASE exchange = "bitmart" -> 25
                   [] exchange = "cryptocom" -> 40
                   [] exchange = "mexc" -> 20
                   [] exchange = "other" -> 30

\* net_profit of calculate_net_profit_bps: 10000 times what a unit earns.
Net(q) == 10000 * (q.sell - q.buy) - q.buy * Fee(q.buyAt) - q.sell * Fee(q.sellAt)

\* is_profitable: the rate is -1000 where a price is not positive.
Profitable(s, q) ==
  /\ q.buy > 0 /\ q.sell > 0
  /\ Net(q) >= Request[s].target * q.buy

\* Faulty: the quantity is forgotten; the rate is divided as an integer.
Gain_PerUnit(s, q) == Net(q)
Gain_Integers(s, q) == (Net(q) \div (10000 * q.buy)) * Request[s].max * Scale

\* The rate times buy_price times max_quantity.
Gain(s, q) == Net(q) * Request[s].max * (Scale \div q.buy)

-----------------------------------------------------------------------------
(* Market making: a quote on both sides of the middle of the market.       *)

\* Twice the spread create_trading_session gives a session.
Spread(s) == IF Request[s].target > 10 THEN Request[s].target ELSE 10

Floor(n, d) == n \div d

\* Faulty: both sides are rounded down.
Ceiling_Down(n, d) == n \div d

Ceiling(n, d) == -((-n) \div d)

\* calculate_quotes: half a spread off the middle, aligned to whole cents.
Quote(s, m) ==
  [bid |-> Floor((m.bid + m.ask) * (40000 - Spread(s)), 80000 * Cent),
   ask |-> Ceiling((m.bid + m.ask) * (40000 + Spread(s)), 80000 * Cent)]

-----------------------------------------------------------------------------
(* execute_trading_session, and the limits the loop then looks at.         *)

Runs(s, mode) == mode \in Request[s].modes

\* What the strategies get: a read fails without a connection or a key.
Read(value) == IF redisUp THEN value ELSE Missing

\* The limits against profit p.
AfterLimits(s, p) ==
  IF p >= Request[s].take * Request[s].max * Scale THEN "take_profit"
  ELSE IF p <= -Request[s].stop * Request[s].max * Scale THEN "stop_loss" ELSE "RUNNING"

Visit(s) == /\ s \in todo
            /\ todo' = todo \ {s}
            /\ UNCHANGED <<stats, market, life, redisUp>>

\* run_once of MarketMakingStrategy: what get_market_data catches leaves the
\* session running without new quotes.
MakeMarket(s) ==
  quote' = IF Runs(s, "market_making") /\ Read(market) \notin {Garbage, Missing}
           THEN [quote EXCEPT ![s] = Quote(s, market)] ELSE quote

\* The exception reaches execute_trading_session before market making runs.
ArbitrageThrows(s) ==
  /\ Visit(s)
  /\ Runs(s, "arbitrage") /\ Read(stats) = Garbage
  /\ status' = [status EXCEPT ![s] = "ERROR"]
  /\ UNCHANGED <<profit, quote, repeats>>

Books(s) == /\ Runs(s, "arbitrage")
            /\ Read(stats) \notin {Garbage, Missing}
            /\ Profitable(s, stats)

Execute(s) ==
  /\ Visit(s)
  /\ ~(Runs(s, "arbitrage") /\ Read(stats) = Garbage)
  /\ profit' = [profit EXCEPT ![s] = IF Books(s) THEN @ + Gain(s, stats) ELSE @]
  /\ repeats' = [repeats EXCEPT ![s] = IF Books(s) THEN @ + 1 ELSE @]
  /\ status' = [status EXCEPT ![s] = AfterLimits(s, profit'[s])]
  /\ MakeMarket(s)

NextRound ==
  /\ todo = {} /\ Running # {}
  /\ todo' = Running
  /\ life' = [k \in DOMAIN life |-> IF life[k] = 0 THEN 0 ELSE life[k] - 1]
  /\ stats' = IF life["stats"] <= 1 THEN Missing ELSE stats
  /\ market' = IF life["market"] <= 1 THEN Missing ELSE market
  /\ UNCHANGED <<redisUp, status, profit, quote, repeats>>

-----------------------------------------------------------------------------
(* The synchronisation writes a record, with SETEX, or the connection of   *)
(* the strategies breaks.                                                  *)

\* Faulty: SET instead of SETEX, where the key lives on.
Extended_Forever(k) == [life EXCEPT ![k] = Ttl * 1000]

Extended(k) == [life EXCEPT ![k] = Ttl]

SyncStats(value) ==
  /\ stats' = value
  /\ life' = Extended("stats")
  /\ repeats' = [s \in Sessions |-> 0]
  /\ UNCHANGED <<market, redisUp, todo, status, profit, quote>>

SyncMarket(value) ==
  /\ market' = value
  /\ life' = Extended("market")
  /\ UNCHANGED <<stats, redisUp, todo, status, profit, quote, repeats>>

RedisBreaks ==
  /\ redisUp /\ redisUp' = FALSE
  /\ UNCHANGED <<stats, market, life, todo, status, profit, quote, repeats>>

Round == NextRound \/ \E s \in Sessions : ArbitrageThrows(s) \/ Execute(s)

Next ==
  \/ Round \/ RedisBreaks
  \/ \E q \in Opportunities \cup {Garbage} : SyncStats(q)
  \/ \E m \in Markets \cup {Garbage} : SyncMarket(m)

Safety == Init /\ [][Next]_vars

\* The loop goes round for as long as the engine runs.
Spec == Safety /\ WF_vars(Round)

-----------------------------------------------------------------------------
\* Sessions wait for their turn only while they run, and rounding never makes
\* the two sides of a quote (market_making_strategy.cpp:137) meet or cross,
\* unless the record has no prices (a field that is missing counts as 0,
\* redis_writer.cpp:233): then both sides are 0.
TypeOK ==
  /\ stats \in Opportunities \cup {Garbage, Missing}
  /\ market \in Markets \cup {Garbage, Missing}
  /\ life \in [{"stats", "market"} -> Nat] /\ redisUp \in BOOLEAN
  /\ todo \subseteq Running
  /\ status \in [Sessions -> {"RUNNING", "ERROR", "take_profit", "stop_loss"}]
  /\ profit \in [Sessions -> Int]
  /\ repeats \in [Sessions -> Nat]
  /\ quote \in [Sessions -> [bid : Int, ask : Int] \cup {Missing}]
  /\ \A s \in Sessions : quote[s] # Missing => \/ quote[s].bid < quote[s].ask
                                               \/ quote[s] = [bid |-> 0, ask |-> 0]

\* What a session books is at least the target its client set (:113) on all that
\* may be traded (:115).  As targets are positive it never has a loss, and the
\* stop-loss (trading_engine_manager.cpp:434) stops only a session whose limit
\* is no loss at all.
Earned ==
  [][\A s \in Sessions :
       /\ profit'[s] # profit[s]
            => profit'[s] - profit[s] >= Request[s].target * Request[s].max * Scale
       /\ status'[s] = "stop_loss" => Request[s].stop <= 0]_vars

\* Nothing looks at the timestamps of a record (:77), and an opportunity is
\* booked again in each round: but no more often, once the writer has stopped,
\* than there are rounds until the record expires (redis_writer.cpp:174).
StaleOnlyUntilExpiry == \A s \in Sessions : repeats[s] <= Ttl

\* While Redis holds an opportunity worth the target, a session that trades on
\* it does not run for ever: it takes its profit, or fails.
ProfitIsTaken ==
  \A s \in Sessions :
    <>[](redisUp /\ Books(s)) => <>(status[s] # "RUNNING")
=============================================================================
