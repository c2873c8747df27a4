---------------------------- MODULE OrderManager ----------------------------
(***************************************************************************)
(* OrderManager (src/order_manager.cpp) and its gateway client             *)
(* (src/ccxt_client.cpp), with the gateway and the exchange behind it as   *)
(* far as the client's requests and answers show them.                     *)
(*                                                                         *)
(* The manager is used by one thread, which waits for every answer: at     *)
(* most one call is under way.  The exchange fills orders all the time.  A *)
(* request or an answer may be lost, and a request the client has given up *)
(* on may still arrive.  Prices and balances are left out, and what an     *)
(* order was filled for with them; every order is for the same quantity.   *)
(***************************************************************************)
EXTENDS Integers, FiniteSets

CONSTANTS
  Orders,    \* the identifiers generate_order_id may return
  Exchanges, \* the exchanges
  Sessions,  \* the trading sessions orders belong to
  Ids,       \* the identifiers an exchange gives to orders
  NoId, NoOrder,
  Quantity,  \* the quantity of an order, in the smallest units
  Uninit     \* what `filled` may hold when the gateway's answer has no such
             \* field (ccxt_client.cpp:317); empty if it always has

ASSUME OrderAssumption ==
  /\ Quantity \in Nat \ {0}
  /\ NoId \notin Ids /\ NoOrder \notin Orders
  /\ Uninit \subseteq 0 .. Quantity

VARIABLES
  (* the manager *)
  status,     \* status[o], NONE before o is created
  filled,     \* filled_quantity of o
  exchangeId, \* exchange_order_id of o
  venue,      \* venue[o]: the exchange and the session o is created for
  expired,    \* expired[o]: now > expires_at
  call,       \* the request whose answer is awaited
  batch,      \* the orders the current operation has still to go through
  phase,      \* "up", "closing" in the destructor, "gone"
  (* the gateway and the exchange *)
  wire,       \* requests on their way
  answer,     \* the answer on its way
  market      \* market[o]: what the exchange knows of o

manager == <<status, filled, exchangeId, venue, expired>>
vars == <<manager, call, batch, phase, wire, answer, market>>

Statuses == {"NONE", "PENDING", "SUBMITTED", "PARTIAL", "FILLED", "CANCELLED", "FAILED"}
Active == {"SUBMITTED", "PARTIAL"}
Operations == {"submit", "cancel", "status"}
Requests == [op : Operations, order : Orders]
Verdicts == {"accepted", "refused", "cancelled", "open", "closed", "canceled"}

NoCall == [op |-> "none", order |-> NoOrder]
NoBatch == [op |-> "none", orders |-> {}]
NoAnswer == [verdict |-> "none", id |-> NoId, filled |-> 0]
Unknown == [state |-> "none", id |-> NoId, filled |-> 0, placed |-> 0]

Init ==
  /\ status = [o \in Orders |-> "NONE"]
  /\ filled = [o \in Orders |-> 0]
  /\ exchangeId = [o \in Orders |-> NoId]
  /\ venue \in [Orders -> [exchange : Exchanges, session : Sessions]]
  /\ expired = [o \in Orders |-> FALSE]
  /\ call = NoCall /\ batch = NoBatch /\ phase = "up"
  /\ wire = {} /\ answer = NoAnswer
  /\ market = [o \in Orders |-> Unknown]

-----------------------------------------------------------------------------
(* The operations of the manager.                                          *)

Idle == phase = "up" /\ call = NoCall /\ batch = NoBatch

Create(orders) ==
  /\ Idle
  /\ \A o \in orders : status[o] = "NONE"
  /\ status' = [o \in Orders |-> IF o \in orders THEN "PENDING" ELSE status[o]]
  /\ UNCHANGED <<filled, exchangeId, venue, expired, call, batch, phase, wire, answer, market>>

\* create_order.
CreateOne(o) == Create({o})

\* create_arbitrage_orders and create_market_making_orders: a bid and an ask
\* for one session, neither of which is told of what becomes of the other.
CreateTwo(o, q) ==
  o # q /\ venue[o].session = venue[q].session /\ Create({o, q})

Send(op, o) ==
  /\ call' = [op |-> op, order |-> o]
  /\ wire' = wire \cup {[op |-> op, order |-> o]}
  /\ UNCHANGED <<manager, phase, answer, market>>

\* Faulty: an order that has failed is submitted again.
Submittable_Again == {o \in Orders : status[o] \in {"PENDING", "FAILED"}}

Submittable == {o \in Orders : status[o] = "PENDING"}

\* submit_order.
Submit(o) == Idle /\ o \in Submittable /\ Send("submit", o) /\ UNCHANGED batch

ActiveOrders == {o \in Orders : status[o] \in Active}
Begin(op, orders) == /\ batch' = [op |-> op, orders |-> orders]
                     /\ UNCHANGED <<manager, call, wire, answer, market>>

\* cancel_order and update_order_status; an order that is not active is left
\* alone.
One(op, o) == Idle /\ o \in ActiveOrders /\ Begin(op, {o}) /\ UNCHANGED phase

\* The same by the exchange's identifier: one of the orders that have it, on
\* whatever exchange.
OneById(op, i) == \E o \in Orders : exchangeId[o] = i /\ One(op, o)

\* update_all_orders.
UpdateAll == Idle /\ Begin("status", ActiveOrders) /\ UNCHANGED phase

\* cancel_session_orders.
CancelSession(s) ==
  /\ Idle
  /\ Begin("cancel", {o \in ActiveOrders : venue[o].session = s})
  /\ UNCHANGED phase

\* Order::should_cancel.
ShouldCancel(o) == o \in ActiveOrders /\ expired[o]

BeginExpired == Idle /\ Begin("cancel", {o \in Orders : ShouldCancel(o)})

\* cancel_expired_orders, on its own and from the destructor.
CancelExpired == BeginExpired /\ UNCHANGED phase
Destroy == BeginExpired /\ phase' = "closing"

\* The next order of an operation.  It is still active, as the guards of
\* cancel_order and update_order_status require: an operation meets every
\* order once, and nothing else changes orders meanwhile.
BatchNext(o) ==
  /\ call = NoCall
  /\ o \in batch.orders
  /\ Send(batch.op, o)
  /\ batch' = [batch EXCEPT !.orders = @ \ {o}]

BatchEnd ==
  /\ call = NoCall
  /\ batch.op # "none" /\ batch.orders = {}
  /\ batch' = NoBatch
  /\ phase' = IF phase = "closing" THEN "gone" ELSE phase
  /\ UNCHANGED <<manager, call, wire, answer, market>>

\* Time goes by.
Expire(o) ==
  /\ status[o] # "NONE" /\ ~expired[o]
  /\ expired' = [expired EXCEPT ![o] = TRUE]
  /\ UNCHANGED <<status, filled, exchangeId, venue, call, batch, phase, wire, answer, market>>

-----------------------------------------------------------------------------
(* The answer to a call, or none: the end of submit_order, cancel_order    *)
(* and update_order_status.                                                *)

SubmitEnds(a) ==
  LET o == call.order IN
  /\ status' = [status EXCEPT ![o] = IF a.verdict = "accepted" THEN "SUBMITTED" ELSE "FAILED"]
  /\ exchangeId' = IF a.verdict = "accepted" THEN [exchangeId EXCEPT ![o] = a.id]
                                             ELSE exchangeId
  /\ UNCHANGED filled

CancelEnds(a) ==
  /\ status' = IF a.verdict = "cancelled" THEN [status EXCEPT ![call.order] = "CANCELLED"]
                                          ELSE status
  /\ UNCHANGED <<filled, exchangeId>>

\* Faulty: any final state of the exchange counts as filled.
StatusEnds_AnyFinal(a) ==
  LET o == call.order IN
  /\ status' = IF a.verdict \in {"closed", "canceled"} THEN [status EXCEPT ![o] = "FILLED"]
                                                       ELSE status
  /\ filled' = IF a.verdict \in {"closed", "canceled"} THEN [filled EXCEPT ![o] = Quantity]
                                                       ELSE filled
  /\ UNCHANGED exchangeId

\* Faulty: what the exchange reports is added up.
StatusEnds_AddsUp(a) ==
  LET o == call.order
      partly == a.verdict = "open" /\ a.filled > 0 /\ a.filled < Quantity IN
  /\ status' = IF partly THEN [status EXCEPT ![o] = "PARTIAL"] ELSE status
  /\ filled' = IF partly THEN [filled EXCEPT ![o] = @ + a.filled] ELSE filled
  /\ UNCHANGED exchangeId

StatusEnds(a) ==
  LET o == call.order
      partly == a.verdict = "open" /\ a.filled > 0 /\ a.filled < Quantity IN
  /\ status' = IF a.verdict = "closed" THEN [status EXCEPT ![o] = "FILLED"]
               ELSE IF a.verdict = "canceled" THEN [status EXCEPT ![o] = "CANCELLED"]
               ELSE IF partly THEN [status EXCEPT ![o] = "PARTIAL"] ELSE status
  /\ filled' = IF a.verdict = "closed" THEN [filled EXCEPT ![o] = Quantity]
               ELSE IF partly THEN [filled EXCEPT ![o] = a.filled] ELSE filled
  /\ UNCHANGED exchangeId

CallEnds(a) ==
  /\ \/ call.op = "submit" /\ SubmitEnds(a)
     \/ call.op = "cancel" /\ CancelEnds(a)
     \/ call.op = "status" /\ StatusEnds(a)
  /\ call' = NoCall /\ answer' = NoAnswer
  /\ UNCHANGED <<venue, expired, batch, phase, wire, market>>

Answered == answer # NoAnswer /\ CallEnds(answer)

\* Faulty: no CURLOPT_TIMEOUT; the client waits while its request may arrive.
TimedOut_Never == FALSE /\ CallEnds(NoAnswer)

\* The request fails, 30 seconds pass, or the answer does not parse.
TimedOut == call.op # "none" /\ CallEnds(NoAnswer)

-----------------------------------------------------------------------------
(* The gateway and the exchange, as the client's code expects them.        *)

\* An answer reaches the client only while it waits for it.
Reply(r, a) == /\ wire' = wire \ {r}
               /\ answer' = IF r = call THEN a ELSE answer
               /\ UNCHANGED <<manager, call, batch, phase>>

Verdict(v) == [verdict |-> v, id |-> NoId, filled |-> 0]

FreshIds(x) == {i \in Ids : \A o \in Orders : venue[o].exchange = x => market[o].id # i}

Accept(r, i) ==
  /\ r \in wire /\ r.op = "submit"
  /\ i \in FreshIds(venue[r.order].exchange)
  /\ market' = [market EXCEPT ![r.order] =
                  [state |-> "open", id |-> i, filled |-> 0, placed |-> @.placed + 1]]
  /\ Reply(r, [verdict |-> "accepted", id |-> i, filled |-> 0])

Refuse(r) ==
  /\ r \in wire
  /\ r.op = "cancel" => market[r.order].state # "open"
  /\ r.op # "status"
  /\ Reply(r, Verdict("refused"))
  /\ UNCHANGED market

CancelAtExchange(r) ==
  /\ r \in wire /\ r.op = "cancel"
  /\ market[r.order].state = "open"
  /\ market' = [market EXCEPT ![r.order].state = "canceled"]
  /\ Reply(r, Verdict("cancelled"))

Report(r, n) ==
  /\ r \in wire /\ r.op = "status"
  /\ n \in {market[r.order].filled} \cup Uninit
  /\ Reply(r, [verdict |-> market[r.order].state, id |-> market[r.order].id, filled |-> n])
  /\ UNCHANGED market

Lose(r) ==
  /\ r \in wire
  /\ wire' = wire \ {r}
  /\ UNCHANGED <<manager, call, batch, phase, answer, market>>

\* An order is closed when all of it is filled.
Fill(o) ==
  /\ market[o].state = "open"
  /\ LET n == market[o].filled + 1 IN
       market' = [market EXCEPT ![o] =
                    [state |-> IF n = Quantity THEN "closed" ELSE "open", id |-> @.id,
                     filled |-> n, placed |-> @.placed]]
  /\ UNCHANGED <<manager, call, batch, phase, wire, answer>>

\* The exchange cancels an order itself.
Withdraw(o) ==
  /\ market[o].state = "open"
  /\ market' = [market EXCEPT ![o].state = "canceled"]
  /\ UNCHANGED <<manager, call, batch, phase, wire, answer>>

-----------------------------------------------------------------------------
Terminated == phase = "gone" /\ UNCHANGED vars

\* What the thread does once it has begun an operation.
Proceed == Answered \/ TimedOut \/ BatchEnd \/ \E o \in Orders : BatchNext(o)

Operate ==
  \/ UpdateAll \/ CancelExpired \/ Destroy
  \/ \E s \in Sessions : CancelSession(s)
  \/ \E i \in Ids : OneById("cancel", i) \/ OneById("status", i)
  \/ \E o, q \in Orders : CreateTwo(o, q)
  \/ \E o \in Orders : CreateOne(o) \/ Submit(o) \/ One("cancel", o) \/ One("status", o)

Environment ==
  \/ \E r \in wire : \/ Refuse(r) \/ CancelAtExchange(r) \/ Lose(r)
                     \/ \E i \in Ids : Accept(r, i)
                     \/ \E n \in 0 .. Quantity : Report(r, n)
  \/ \E o \in Orders : Fill(o) \/ Withdraw(o) \/ Expire(o)

Next == Operate \/ Proceed \/ Environment \/ Terminated

Safety == Init /\ [][Next]_vars

\* The client's time limit ends every call, and the operations are loops
\* without a wait of their own.
Spec == Safety /\ WF_vars(Proceed)

-----------------------------------------------------------------------------
TypeOK ==
  /\ status \in [Orders -> Statuses]
  /\ filled \in [Orders -> 0 .. Quantity]
  /\ exchangeId \in [Orders -> Ids \cup {NoId}]
  /\ venue \in [Orders -> [exchange : Exchanges, session : Sessions]]
  /\ expired \in [Orders -> BOOLEAN]
  /\ call \in Requests \cup {NoCall}
  /\ batch \in [op : {"cancel", "status"}, orders : SUBSET Orders] \cup {NoBatch}
  /\ phase \in {"up", "closing", "gone"}
  /\ wire \subseteq Requests
  /\ answer \in [verdict : Verdicts \cup {"none"}, id : Ids \cup {NoId}, filled : 0 .. Quantity]
  /\ market \in [Orders -> [state : {"none", "open", "closed", "canceled"},
                            id : Ids \cup {NoId}, filled : 0 .. Quantity, placed : Nat]]

\* The manager never says more than the exchange does: no more is filled, what
\* is FILLED or CANCELLED is so at the exchange, and an active order is known
\* to it under the identifier the manager uses (:142).
NeverAhead ==
  \A o \in Orders :
    /\ filled[o] <= market[o].filled
    /\ status[o] = "FILLED" => market[o].state = "closed"
    /\ status[o] = "CANCELLED" => market[o].state = "canceled"
    /\ status[o] \in Active => market[o].id = exchangeId[o] /\ exchangeId[o] # NoId

\* Whatever is lost or comes late, an order reaches the exchange at most once
\* (:79): one that failed may be there already.
PlacedOnce == \A o \in Orders : market[o].placed <= 1

\* Every order lives the life that OrderLifecycle promises.
Lifecycle == INSTANCE OrderLifecycle
ImplementsLifecycle == Lifecycle!Safety

\* An operation that has begun comes to its end (ccxt_client.cpp:59, :107).
OperationsEnd ==
  (call # NoCall \/ batch # NoBatch) ~> (call = NoCall /\ batch = NoBatch)
=============================================================================
