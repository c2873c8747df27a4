-------------------------- MODULE StrategiesProofs --------------------------
(***************************************************************************)
(* Proofs about Strategies, for any sessions, prices and ratios: the type  *)
(* invariant with the order of the two sides of a quote, that every profit *)
(* a session books is worth its target, and that an opportunity is booked  *)
(* no more often than there are rounds until its record expires.           *)
(***************************************************************************)
EXTENDS Strategies, TLAPS

States == {"RUNNING", "ERROR", "take_profit", "stop_loss"}
Keys == {"stats", "market"}
Good(q) == q.bid < q.ask \/ q = [bid |-> 0, ask |-> 0]

\* A profit is never negative, so that the stop-loss needs a limit that is
\* no loss.
ProfitInv ==
  \A s \in Sessions :
    profit[s] >= 0 /\ (status[s] = "stop_loss" => Request[s].stop <= 0)

\* The bookings so far and the rounds the record has left make Ttl, with one
\* more for the round in which the session has had its turn.
Turns(s) == IF s \in todo THEN 0 ELSE 1
ExpiryInv ==
  \A s \in Sessions :
    /\ repeats[s] <= Ttl
    /\ stats # Missing => /\ life["stats"] >= 1
                          /\ repeats[s] + life["stats"] <= Ttl + Turns(s)

IInv == TypeOK /\ ProfitInv /\ ExpiryInv

-----------------------------------------------------------------------------
(* Arithmetic.                                                             *)

LEMMA Division ==
  ASSUME NEW x \in Int, NEW d \in Nat \ {0}
  PROVE  x \div d \in Int /\ d * (x \div d) <= x
  OBVIOUS

LEMMA ZeroDivided ==
  ASSUME NEW d \in Nat \ {0}
  PROVE  0 \div d = 0
  OBVIOUS

LEMMA Divides ==
  ASSUME NEW x \in Nat, NEW d \in Nat \ {0}, x % d = 0
  PROVE  x = d * (x \div d) /\ x \div d \in Nat
  OBVIOUS

LEMMA Cancelled ==
  ASSUME NEW x \in Int, NEW y \in Int, NEW d \in Nat \ {0}, d * x < d * y
  PROVE  x < y
  OBVIOUS

LEMMA Monotone ==
  ASSUME NEW x \in Int, NEW y \in Int, NEW d \in Nat, x <= y
  PROVE  x * d <= y * d
  OBVIOUS

LEMMA Positive ==
  ASSUME NEW x \in Nat \ {0}, NEW y \in Nat \ {0}
  PROVE  x * y \in Nat \ {0}
  OBVIOUS

\* What a client asked is a record of integers.
LEMMA RequestType ==
  ASSUME NEW s \in Sessions
  PROVE  /\ Request[s].target \in Nat \ {0} /\ Request[s].max \in Nat \ {0}
         /\ Request[s].take \in Int /\ Request[s].stop \in Int
         /\ Scale \in Nat \ {0} /\ Cent \in Nat \ {0}
  BY StrategiesAssumption

LEMMA TtlType == Ttl \in Nat \ {0}
  BY StrategiesAssumption

-----------------------------------------------------------------------------
(* What the strategies compute.                                            *)

\* calculate_quotes: the sides of a quote neither meet nor cross, however they
\* are rounded, unless the middle of the market is 0.
LEMMA QuoteCorrect ==
  ASSUME NEW s \in Sessions, NEW m \in Markets
  PROVE  Quote(s, m) \in [bid : Int, ask : Int] /\ Good(Quote(s, m))
<1> DEFINE M == m.bid + m.ask
           S == Spread(s)
           D == 80000 * Cent
           low == M * (40000 - S)
           high == M * (40000 + S)
           bid == low \div D
           ask == -((-high) \div D)
<1>1. M \in Nat /\ S \in Nat \ {0} /\ D \in Nat \ {0}
  BY RequestType, StrategiesAssumption DEF Spread
<1>2. Quote(s, m) = [bid |-> bid, ask |-> ask]
  BY DEF Quote, Floor, Ceiling
<1> HIDE DEF M, S, D
<1>3. low \in Int /\ high \in Int /\ high - low = 2 * (M * S)
  BY <1>1
<1>4. CASE M = 0
  <2>1. low = 0 /\ -high = 0
    BY <1>1, <1>4
  <2>2. bid = 0 /\ (-high) \div D = 0
    BY <1>1, <2>1, ZeroDivided
  <2>3. bid = 0 /\ ask = 0
    BY <2>2
  <2> QED
    BY <1>2, <2>3 DEF Good
<1>5. CASE M # 0
  <2> DEFINE up == (-high) \div D
  <2>1. M * S \in Nat \ {0}
    BY <1>1, <1>5, Positive
  <2>2. low < high
    BY <1>3, <2>1
  <2>3. -high \in Int
    BY <1>3
  <2>4. bid \in Int /\ D * bid <= low
    BY <1>1, <1>3, Division
  <2>5. up \in Int /\ D * up <= -high
    BY <1>1, <2>3, Division
  <2> HIDE DEF bid, up, low, high
  <2>6. D * (-up) = -(D * up) /\ D * up \in Int /\ D * bid \in Int
    BY <1>1, <2>4, <2>5
  <2>7. D * bid < D * (-up)
    BY <1>3, <2>2, <2>4, <2>5, <2>6
  <2>8. -up \in Int /\ bid < -up
    BY <1>1, <2>4, <2>5, <2>7, Cancelled
  <2> USE DEF up
  <2>9. Quote(s, m) = [bid |-> bid, ask |-> -up]
    BY <1>2
  <2> HIDE DEF up
  <2> QED
    BY <2>4, <2>8, <2>9 DEF Good
<1> QED
  BY <1>4, <1>5

LEMMA NetType ==
  ASSUME NEW q \in Opportunities
  PROVE  Net(q) \in Int /\ q.buy \in Int /\ q.sell \in Int
<1>1. q.buy \in Int /\ q.sell \in Int /\ q.buyAt \in Exchanges /\ q.sellAt \in Exchanges
  BY StrategiesAssumption
<1>2. Fee(q.buyAt) \in Int /\ Fee(q.sellAt) \in Int
  BY <1>1 DEF Fee, Exchanges
<1> QED
  BY <1>1, <1>2 DEF Net

\* A run of the arbitrage books at least the target on all that may be traded.
LEMMA GainCorrect ==
  ASSUME NEW s \in Sessions, NEW q \in Opportunities, Profitable(s, q)
  PROVE  /\ Gain(s, q) \in Int
         /\ Request[s].target * Request[s].max * Scale \in Nat \ {0}
         /\ Gain(s, q) >= Request[s].target * Request[s].max * Scale
<1> DEFINE t == Request[s].target
           max == Request[s].max
           u == Scale \div q.buy
<1>1. t \in Nat \ {0} /\ max \in Nat \ {0} /\ Scale \in Nat \ {0}
  BY RequestType
<1>2. q.buy \in Nat \ {0} /\ Net(q) \in Int /\ Net(q) >= t * q.buy
  BY NetType DEF Profitable
<1>3. Scale = q.buy * u /\ u \in Nat
  <2>1. Scale % q.buy = 0
    BY <1>2, StrategiesAssumption
  <2> QED
    BY <1>1, <1>2, <2>1, Divides
<1>4. Gain(s, q) = Net(q) * max * u
  BY DEF Gain
<1> HIDE DEF t, max, u
<1>5. max * u \in Nat
  BY <1>1, <1>3
<1>6. Net(q) * (max * u) >= (t * q.buy) * (max * u)
  BY <1>1, <1>2, <1>5, Monotone
<1>7. Net(q) * (max * u) = Net(q) * max * u
  BY <1>1, <1>2, <1>3
<1>8. (t * q.buy) * (max * u) = t * max * (q.buy * u)
  BY <1>1, <1>2, <1>3
<1>9. (t * max) * Scale \in Nat \ {0}
  BY <1>1, Positive
<1>10. Net(q) * max * u \in Int /\ t * max * Scale \in Nat \ {0}
  BY <1>1, <1>2, <1>3, <1>9
<1>11. Net(q) * max * u >= t * max * Scale
  BY <1>3, <1>6, <1>7, <1>8
<1> QED
  BY <1>4, <1>10, <1>11 DEF t, max

\* check of the limits: a stop-loss with a profit needs a limit that is none.
LEMMA LimitsCorrect ==
  ASSUME NEW s \in Sessions, NEW p \in Nat
  PROVE  /\ AfterLimits(s, p) \in {"RUNNING", "take_profit", "stop_loss"}
         /\ AfterLimits(s, p) = "stop_loss" => Request[s].stop <= 0
<1>1. AfterLimits(s, p) \in {"RUNNING", "take_profit", "stop_loss"}
  BY DEF AfterLimits
<1>2. ASSUME Request[s].stop > 0 PROVE AfterLimits(s, p) # "stop_loss"
  <2>1. Request[s].stop \in Nat \ {0} /\ Request[s].max \in Nat \ {0} /\ Scale \in Nat \ {0}
    BY <1>2, RequestType
  <2>2. (Request[s].stop * Request[s].max) * Scale \in Nat \ {0}
    BY <2>1, Positive
  <2>3. -Request[s].stop * Request[s].max * Scale = -((Request[s].stop * Request[s].max) * Scale)
    BY <2>1
  <2>4. ~(p <= -Request[s].stop * Request[s].max * Scale)
    BY <2>2, <2>3
  <2> QED
    BY <2>4 DEF AfterLimits
<1> QED
  BY <1>1, <1>2, RequestType

-----------------------------------------------------------------------------
(* The initial states and the steps.                                       *)

LEMMA InitCorrect == Init => IInv
<1> SUFFICES ASSUME Init PROVE IInv
  OBVIOUS
<1>1. TypeOK
  BY DEF Init, TypeOK, Running
<1>2. ProfitInv
  <2>1. ASSUME NEW s \in Sessions PROVE profit[s] >= 0 /\ status[s] # "stop_loss"
    BY DEF Init
  <2> QED
    BY <2>1 DEF ProfitInv
<1>3. ExpiryInv
  <2>1. ASSUME NEW s \in Sessions PROVE repeats[s] <= Ttl
    BY TtlType DEF Init
  <2>2. stats = Missing
    BY DEF Init
  <2> QED
    BY <2>1, <2>2 DEF ExpiryInv
<1> QED
  BY <1>1, <1>2, <1>3 DEF IInv

\* What an opportunity that is booked adds.
LEMMA Booked ==
  ASSUME TypeOK, NEW s \in Sessions, Books(s)
  PROVE  /\ stats \in Opportunities /\ stats # Missing
         /\ Gain(s, stats) \in Nat
         /\ Gain(s, stats) >= Request[s].target * Request[s].max * Scale
<1>1. stats \in Opportunities /\ stats # Missing /\ Profitable(s, stats)
  BY DEF Books, Read, TypeOK
<1> QED
  BY <1>1, GainCorrect

LEMMA ThrowsCorrect ==
  ASSUME IInv, NEW s \in Sessions, ArbitrageThrows(s)
  PROVE  IInv'
<1>1. TypeOK'
  BY DEF IInv, TypeOK, ArbitrageThrows, Visit, Running
<1>2. ProfitInv'
  BY DEF IInv, TypeOK, ProfitInv, ArbitrageThrows, Visit
<1>3. ExpiryInv'
  BY TtlType DEF IInv, TypeOK, ExpiryInv, ArbitrageThrows, Visit, Turns
<1> QED
  BY <1>1, <1>2, <1>3 DEF IInv

LEMMA ExecuteCorrect ==
  ASSUME IInv, NEW s \in Sessions, Execute(s)
  PROVE  IInv'
<1> DEFINE p == IF Books(s) THEN profit[s] + Gain(s, stats) ELSE profit[s]
           n == IF Books(s) THEN repeats[s] + 1 ELSE repeats[s]
<1>1. p \in Nat
  BY Booked DEF IInv, TypeOK, ProfitInv
<1>2. profit' = [profit EXCEPT ![s] = p] /\ profit'[s] = p
  BY DEF IInv, TypeOK, Execute
<1>3. status' = [status EXCEPT ![s] = AfterLimits(s, p)]
  BY <1>2 DEF Execute
<1>4. repeats' = [repeats EXCEPT ![s] = n]
  BY DEF Execute
<1>5. n \in Nat
  BY DEF IInv, TypeOK
<1>6. UNCHANGED <<stats, market, life, redisUp>> /\ todo' = todo \ {s} /\ s \in todo
  BY DEF Execute, Visit
<1> HIDE DEF p, n
<1>7. TypeOK'
  <2>1. quote' \in [Sessions -> [bid : Int, ask : Int] \cup {Missing}]
        /\ \A r \in Sessions : quote'[r] # Missing => Good(quote'[r])
    <3>1. CASE quote' = quote
      BY <3>1 DEF IInv, TypeOK, Good
    <3>2. CASE Read(market) \notin {Garbage, Missing} /\ quote' = [quote EXCEPT ![s] = Quote(s, market)]
      <4>1. market \in Markets
        BY <3>2 DEF IInv, TypeOK, Read
      <4>2. Quote(s, market) \in [bid : Int, ask : Int] /\ Good(Quote(s, market))
        BY <4>1, QuoteCorrect
      <4> QED
        BY <3>2, <4>2 DEF IInv, TypeOK, Good
    <3> QED
      BY <3>1, <3>2 DEF Execute, MakeMarket
  <2>2. status' \in [Sessions -> States]
    BY <1>1, <1>3, LimitsCorrect DEF IInv, TypeOK, States
  <2>3. todo' \subseteq Running'
    BY <1>3, <1>6 DEF IInv, TypeOK, Running
  <2>4. profit' \in [Sessions -> Int] /\ repeats' \in [Sessions -> Nat]
    BY <1>1, <1>2, <1>4, <1>5 DEF IInv, TypeOK
  <2> QED
    BY <1>6, <2>1, <2>2, <2>3, <2>4 DEF IInv, TypeOK, States, Good
<1>8. ProfitInv'
  BY <1>1, <1>2, <1>3, LimitsCorrect DEF IInv, TypeOK, ProfitInv
<1>9. ExpiryInv'
  <2>1. ASSUME NEW r \in Sessions, r # s
        PROVE  repeats'[r] = repeats[r] /\ Turns(r)' = Turns(r)
    BY <1>4, <1>6, <2>1 DEF IInv, TypeOK, Turns
  <2>2. repeats'[s] = n /\ Turns(s) = 0 /\ Turns(s)' = 1
    BY <1>4, <1>6 DEF IInv, TypeOK, Turns
  <2>3. n <= Ttl /\ (stats # Missing => life["stats"] >= 1 /\ n + life["stats"] <= Ttl + 1)
    <3>1. CASE Books(s)
      BY <2>2, <3>1, Booked, TtlType DEF IInv, TypeOK, ExpiryInv, n
    <3>2. CASE ~Books(s)
      BY <2>2, <3>2, TtlType DEF IInv, TypeOK, ExpiryInv, n
    <3> QED
      BY <3>1, <3>2
  <2> QED
    BY <1>6, <2>1, <2>2, <2>3 DEF IInv, ExpiryInv
<1> QED
  BY <1>7, <1>8, <1>9 DEF IInv

LEMMA NextRoundCorrect ==
  ASSUME IInv, NextRound
  PROVE  IInv'
<1>1. TypeOK'
  <2>1. life' \in [Keys -> Nat]
    BY DEF IInv, TypeOK, NextRound, Keys
  <2>2. todo' \subseteq Running'
    BY DEF IInv, TypeOK, NextRound, Running
  <2> QED
    BY <2>1, <2>2 DEF IInv, TypeOK, NextRound, Keys
<1>2. ProfitInv'
  BY DEF IInv, TypeOK, ProfitInv, NextRound
<1>3. ExpiryInv'
  <2>1. life["stats"] \in Nat
        /\ life'["stats"] = IF life["stats"] = 0 THEN 0 ELSE life["stats"] - 1
    BY DEF IInv, TypeOK, NextRound
  <2>2. ASSUME NEW s \in Sessions, stats' # Missing
        PROVE  life'["stats"] >= 1 /\ repeats'[s] + life'["stats"] <= Ttl + Turns(s)'
    <3>1. stats # Missing /\ life["stats"] > 1 /\ Turns(s) = 1
      BY <2>1, <2>2 DEF NextRound, Turns
    <3>2. repeats[s] + life["stats"] <= Ttl + 1 /\ repeats[s] \in Nat
      BY <3>1 DEF IInv, TypeOK, ExpiryInv
    <3>3. Turns(s)' \in {0, 1}
      BY DEF Turns
    <3> QED
      BY <2>1, <3>1, <3>2, <3>3, TtlType DEF NextRound
  <2> QED
    BY <2>2 DEF IInv, ExpiryInv, NextRound
<1> QED
  BY <1>1, <1>2, <1>3 DEF IInv

LEMMA SyncStatsCorrect ==
  ASSUME IInv, NEW q \in Opportunities \cup {Garbage}, SyncStats(q)
  PROVE  IInv'
<1>1. TypeOK'
  BY TtlType DEF IInv, TypeOK, SyncStats, Extended, Running
<1>2. ProfitInv'
  BY DEF IInv, TypeOK, ProfitInv, SyncStats
<1>3. ExpiryInv'
  BY TtlType DEF IInv, TypeOK, ExpiryInv, SyncStats, Extended, Turns
<1> QED
  BY <1>1, <1>2, <1>3 DEF IInv

LEMMA SyncMarketCorrect ==
  ASSUME IInv, NEW m \in Markets \cup {Garbage}, SyncMarket(m)
  PROVE  IInv'
<1>1. TypeOK'
  BY TtlType DEF IInv, TypeOK, SyncMarket, Extended, Running
<1>2. ProfitInv'
  BY DEF IInv, TypeOK, ProfitInv, SyncMarket
<1>3. ExpiryInv'
  BY TtlType DEF IInv, TypeOK, ExpiryInv, SyncMarket, Extended, Turns
<1> QED
  BY <1>1, <1>2, <1>3 DEF IInv

LEMMA RestCorrect ==
  ASSUME IInv, RedisBreaks \/ UNCHANGED vars
  PROVE  IInv'
  BY DEF IInv, TypeOK, ProfitInv, ExpiryInv, RedisBreaks, vars, Running, Turns

LEMMA StepCorrect == IInv /\ [Next]_vars => IInv'
<1> SUFFICES ASSUME IInv, [Next]_vars PROVE IInv'
  OBVIOUS
<1> USE ThrowsCorrect, ExecuteCorrect, NextRoundCorrect, SyncStatsCorrect,
        SyncMarketCorrect, RestCorrect
<1> QED
  BY DEF Next, Round

LEMMA Invariance == Safety => []IInv
<1>1. QED
  BY InitCorrect, StepCorrect, PTL DEF Safety

-----------------------------------------------------------------------------
\* The variables of the loop keep their types; sessions wait for their turn
\* only while they run; and the sides of a quote neither meet nor cross, for any
\* prices, spread and size of a cent.
THEOREM TypeCorrect == Safety => []TypeOK
<1>1. IInv => TypeOK
  BY DEF IInv
<1>2. QED
  BY <1>1, Invariance, PTL

\* A record that is no longer written is booked by a session at most once in
\* each of the rounds until it expires.
THEOREM StaleCorrect == Safety => []StaleOnlyUntilExpiry
<1>1. IInv => StaleOnlyUntilExpiry
  BY DEF IInv, ExpiryInv, StaleOnlyUntilExpiry
<1>2. QED
  BY <1>1, Invariance, PTL

\* What a session books is worth its target, and only a session whose stop-loss
\* is no loss is ever stopped by it.
THEOREM EarnedCorrect == Safety => Earned
<1> DEFINE Earns(s) ==
             /\ profit'[s] # profit[s]
                  => profit'[s] - profit[s] >= Request[s].target * Request[s].max * Scale
             /\ status'[s] = "stop_loss" => Request[s].stop <= 0
<1>1. ASSUME IInv, [Next]_vars, NEW s \in Sessions PROVE Earns(s)
  <2>1. status'[s] = "stop_loss" => Request[s].stop <= 0
    BY <1>1, StepCorrect DEF IInv, ProfitInv
  <2>2. ASSUME profit'[s] # profit[s]
        PROVE  profit'[s] - profit[s] >= Request[s].target * Request[s].max * Scale
    <3>1. PICK r \in Sessions : Execute(r)
      BY <1>1, <2>2 DEF Next, Round, NextRound, ArbitrageThrows, SyncStats, SyncMarket,
                        RedisBreaks, vars
    <3>2. r = s /\ Books(s) /\ profit'[s] = profit[s] + Gain(s, stats)
      BY <1>1, <2>2, <3>1 DEF Execute, IInv, TypeOK
    <3>3. Gain(s, stats) \in Nat /\ profit[s] \in Int
          /\ Gain(s, stats) >= Request[s].target * Request[s].max * Scale
      BY <1>1, <3>2, Booked DEF IInv, TypeOK
    <3> QED
      BY <3>2, <3>3
  <2> QED
    BY <2>1, <2>2
<1>2. IInv /\ [Next]_vars => [\A s \in Sessions : Earns(s)]_vars
  BY <1>1
<1>3. Earned <=> [][\A s \in Sessions : Earns(s)]_vars
  BY DEF Earned
<1> QED
  BY <1>2, <1>3, Invariance, PTL DEF Safety
=============================================================================
