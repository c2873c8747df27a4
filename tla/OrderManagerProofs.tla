------------------------- MODULE OrderManagerProofs -------------------------
(***************************************************************************)
(* Proofs about OrderManager, for any orders, exchanges and quantity: its  *)
(* type invariant, that an order is placed at most once, that the manager  *)
(* never says more than the exchange, and that it implements               *)
(* OrderLifecycle.                                                         *)
(***************************************************************************)
EXTENDS OrderManager, TLAPS

Answers == [verdict : Verdicts \cup {"none"}, id : Ids \cup {NoId}, filled : 0 .. Quantity]
MarketOrders == [state : {"none", "open", "closed", "canceled"}, id : Ids \cup {NoId},
                 filled : 0 .. Quantity, placed : Nat]

LEMMA Constants ==
  /\ NoAnswer \in Answers
  /\ Unknown \in MarketOrders
  /\ NoCall \notin Requests /\ NoBatch.orders = {}
  BY OrderAssumption DEF OrderAssumption, NoAnswer, Answers, Unknown, MarketOrders, NoCall,
                         Requests, Operations, NoBatch, Verdicts

-----------------------------------------------------------------------------
\* The operations of the manager: orders are created, the one that an
\* exchange's identifier names is an order, and the rest are as they stand.
LEMMA OperateCases ==
  ASSUME Operate
  PROVE  \/ UpdateAll \/ CancelExpired \/ Destroy
         \/ \E s \in Sessions : CancelSession(s)
         \/ \E orders \in SUBSET Orders : Create(orders)
         \/ \E o \in Orders : Submit(o) \/ One("cancel", o) \/ One("status", o)
<1>1. CASE \E o \in Orders : CreateOne(o)
  BY <1>1 DEF CreateOne
<1>2. CASE \E o, q \in Orders : CreateTwo(o, q)
  <2>1. PICK o \in Orders, q \in Orders : Create({o, q})
    BY <1>2 DEF CreateTwo
  <2>2. {o, q} \in SUBSET Orders
    OBVIOUS
  <2>3. QED
    BY <2>1, <2>2
<1>3. CASE \E i \in Ids : OneById("cancel", i) \/ OneById("status", i)
  BY <1>3 DEF OneById
<1>4. QED
  BY <1>1, <1>2, <1>3 DEF Operate

-----------------------------------------------------------------------------
\* The end of a call changes the status, the filled quantity and the
\* exchange's identifier of the order it is about, within their types.
LEMMA CallEndsTypes ==
  ASSUME TypeOK, NEW a \in Answers, CallEnds(a)
  PROVE  /\ status' \in [Orders -> Statuses]
         /\ filled' \in [Orders -> 0 .. Quantity]
         /\ exchangeId' \in [Orders -> Ids \cup {NoId}]
<1> USE OrderAssumption DEF OrderAssumption, TypeOK
<1>0. call \in Requests
  BY DEF CallEnds, NoCall
<1>1. CASE SubmitEnds(a)
  BY <1>0, <1>1 DEF SubmitEnds, Requests, Statuses, Answers
<1>2. CASE CancelEnds(a)
  BY <1>0, <1>2 DEF CancelEnds, Requests, Statuses
<1>3. CASE StatusEnds(a)
  BY <1>0, <1>3 DEF StatusEnds, Requests, Statuses, Answers
<1>4. QED
  BY <1>1, <1>2, <1>3 DEF CallEnds

\* What the exchange says of the quantity of an order fits its state.
MarketInv ==
  \A o \in Orders :
    /\ market[o].state = "none" => market[o].filled = 0 /\ market[o].id = NoId
    /\ market[o].state = "open" => market[o].filled < Quantity
    /\ market[o].state = "closed" => market[o].filled = Quantity
    /\ market[o].state # "none" => market[o].id \in Ids

TypeInv == TypeOK /\ MarketInv

\* A step of the exchange keeps the types of what it knows.
LEMMA MarketTypes ==
  ASSUME TypeInv,
         \/ \E o \in Orders : Fill(o) \/ Withdraw(o)
         \/ \E r \in wire : CancelAtExchange(r) \/ \E i \in Ids : Accept(r, i)
  PROVE  market' \in [Orders -> MarketOrders] /\ MarketInv'
<1> USE OrderAssumption DEF OrderAssumption
<1>0. market \in [Orders -> MarketOrders] /\ wire \subseteq Requests
  BY DEF TypeInv, TypeOK, MarketOrders
\* one order is given a new record
<1>1. ASSUME NEW o \in Orders, NEW m \in MarketOrders, market' = [market EXCEPT ![o] = m],
             /\ m.state # "none"
             /\ m.state = "open" => m.filled < Quantity
             /\ m.state = "closed" => m.filled = Quantity
             /\ m.id \in Ids
      PROVE  market' \in [Orders -> MarketOrders] /\ MarketInv'
  BY <1>0, <1>1 DEF TypeInv, MarketInv
<1>2. ASSUME NEW o \in Orders, Fill(o) PROVE market' \in [Orders -> MarketOrders] /\ MarketInv'
  <2> DEFINE m == [state |-> IF market[o].filled + 1 = Quantity THEN "closed" ELSE "open",
                   id |-> market[o].id, filled |-> market[o].filled + 1,
                   placed |-> market[o].placed]
  <2>1. market[o] \in MarketOrders /\ market[o].state = "open" /\ market[o].filled < Quantity
        /\ market[o].id \in Ids
    BY <1>0, <1>2 DEF Fill, TypeInv, MarketInv
  <2>2. m \in MarketOrders
    BY <2>1 DEF MarketOrders
  <2>3. market' = [market EXCEPT ![o] = m]
    BY <1>0, <1>2 DEF Fill
  <2>4. /\ m.state # "none" /\ m.id \in Ids
        /\ m.state = "open" => m.filled < Quantity
        /\ m.state = "closed" => m.filled = Quantity
    BY <2>1 DEF MarketOrders
  <2> HIDE DEF m
  <2>5. QED
    BY <1>1, <2>2, <2>3, <2>4
<1>3. ASSUME NEW o \in Orders, market[o].state = "open",
             market' = [market EXCEPT ![o].state = "canceled"]
      PROVE  market' \in [Orders -> MarketOrders] /\ MarketInv'
  <2> DEFINE m == [market[o] EXCEPT !.state = "canceled"]
  <2>1. m \in MarketOrders /\ m.state = "canceled" /\ m.id \in Ids
    BY <1>0, <1>3 DEF MarketOrders, TypeInv, MarketInv
  <2>2. market' = [market EXCEPT ![o] = m]
    BY <1>0, <1>3 DEF MarketOrders
  <2> HIDE DEF m
  <2>3. QED
    BY <1>1, <2>1, <2>2
<1>4. ASSUME NEW r \in wire, NEW i \in Ids, Accept(r, i)
      PROVE  market' \in [Orders -> MarketOrders] /\ MarketInv'
  <2> DEFINE m == [state |-> "open", id |-> i, filled |-> 0,
                   placed |-> market[r.order].placed + 1]
  <2>1. m \in MarketOrders /\ r.order \in Orders
    BY <1>0 DEF MarketOrders, Requests
  <2>2. market' = [market EXCEPT ![r.order] = m]
    BY <1>4 DEF Accept
  <2>3. m.state = "open" /\ m.filled < Quantity /\ m.id \in Ids
    OBVIOUS
  <2> HIDE DEF m
  <2>4. QED
    BY <1>1, <2>1, <2>2, <2>3
<1>5. QED
  BY <1>0, <1>2, <1>3, <1>4 DEF Withdraw, CancelAtExchange, Requests

\* The manager's variables, and what it can observe of the exchange, keep
\* their types.
THEOREM TypeInvCorrect == Safety => []TypeInv
<1> USE OrderAssumption DEF OrderAssumption
<1>1. Init => TypeInv
  BY DEF Init, TypeInv, TypeOK, MarketInv, Statuses, Unknown, NoAnswer
<1>2. TypeInv /\ [Next]_vars => TypeInv'
  <2> SUFFICES ASSUME TypeInv, [Next]_vars PROVE TypeInv'
    OBVIOUS
  <2>0. TypeOK /\ MarketInv
    BY DEF TypeInv
  <2>q. UNCHANGED market => MarketInv'
    BY <2>0 DEF MarketInv
  <2> USE DEF manager
  <2>1. ASSUME NEW orders \in SUBSET Orders, Create(orders) PROVE TypeInv'
    BY <2>0, <2>q, <2>1 DEF TypeInv, TypeOK, Create, Statuses
  <2>2. ASSUME NEW o \in Orders, Submit(o) PROVE TypeInv'
    BY <2>0, <2>q, <2>2 DEF TypeInv, TypeOK, Submit, Send, Requests, Operations
  <2>3. ASSUME NEW o \in Orders, BatchNext(o) PROVE TypeInv'
    <3>1. batch \in [op : {"cancel", "status"}, orders : SUBSET Orders]
      BY <2>0, <2>3, Constants DEF TypeOK, BatchNext
    <3>2. /\ call' \in Requests /\ wire' \subseteq Requests
          /\ batch' \in [op : {"cancel", "status"}, orders : SUBSET Orders]
      BY <2>0, <2>3, <3>1 DEF TypeOK, BatchNext, Send, Requests, Operations
    <3>3. QED
      BY <2>0, <2>q, <2>3, <3>2 DEF TypeInv, TypeOK, BatchNext, Send
  <2>4. ASSUME NEW op \in {"cancel", "status"}, NEW orders \in SUBSET Orders, Begin(op, orders),
               phase' \in {"up", "closing", "gone"}
        PROVE  TypeInv'
    BY <2>0, <2>q, <2>4 DEF TypeInv, TypeOK, Begin
  <2>5. CASE Answered \/ TimedOut
    <3>1. PICK a \in Answers : CallEnds(a)
      BY <2>0, <2>5, Constants DEF Answered, TimedOut, TypeOK, Answers
    <3>2. QED
      BY <2>0, <2>q, <3>1, CallEndsTypes, Constants DEF CallEnds, TypeInv, TypeOK, Answers
  <2>6. CASE BatchEnd
    BY <2>0, <2>q, <2>6 DEF TypeInv, TypeOK, BatchEnd
  <2>7. ASSUME NEW o \in Orders, Expire(o) PROVE TypeInv'
    BY <2>0, <2>q, <2>7 DEF TypeInv, TypeOK, Expire
  <2>8. ASSUME NEW r \in wire, NEW a \in Answers, Reply(r, a),
               market' \in [Orders -> MarketOrders], MarketInv'
        PROVE  TypeInv'
    BY <2>0, <2>8 DEF TypeInv, TypeOK, Reply, Answers, MarketOrders
  <2>9. market \in [Orders -> MarketOrders] /\ wire \subseteq Requests
    BY <2>0 DEF TypeOK, MarketOrders
  <2>10. ASSUME NEW r \in wire, NEW i \in Ids, Accept(r, i) PROVE TypeInv'
    <3>1. [verdict |-> "accepted", id |-> i, filled |-> 0] \in Answers
      BY DEF Answers, Verdicts
    <3>2. QED
      BY <2>8, <2>10, <3>1, MarketTypes DEF Accept
  <2>11. ASSUME NEW r \in wire, Refuse(r) \/ CancelAtExchange(r) PROVE TypeInv'
    <3>1. Verdict("refused") \in Answers /\ Verdict("cancelled") \in Answers
      BY DEF Verdict, Answers, Verdicts
    <3>2. CASE Refuse(r)
      BY <2>q, <2>8, <2>9, <3>1, <3>2 DEF Refuse
    <3>3. CASE CancelAtExchange(r)
      BY <2>8, <3>1, <3>3, MarketTypes DEF CancelAtExchange
    <3>4. QED
      BY <2>11, <3>2, <3>3
  <2>12. ASSUME NEW r \in wire, NEW n \in 0 .. Quantity, Report(r, n) PROVE TypeInv'
    <3>1. [verdict |-> market[r.order].state, id |-> market[r.order].id, filled |-> n] \in Answers
      BY <2>0 DEF TypeOK, Answers, Verdicts, Requests
    <3>2. QED
      BY <2>q, <2>8, <2>9, <2>12, <3>1 DEF Report
  <2>13. ASSUME NEW r \in wire, Lose(r) PROVE TypeInv'
    BY <2>0, <2>q, <2>13 DEF TypeInv, TypeOK, Lose
  <2>14. ASSUME NEW o \in Orders, Fill(o) \/ Withdraw(o) PROVE TypeInv'
    <3>1. UNCHANGED <<manager, call, batch, phase, wire, answer>>
      BY <2>14 DEF Fill, Withdraw
    <3>2. QED
      BY <2>0, <2>14, <3>1, MarketTypes DEF TypeInv, TypeOK, MarketOrders
  <2>15. CASE Terminated \/ UNCHANGED vars
    BY <2>0, <2>q, <2>15 DEF TypeInv, TypeOK, Terminated, vars
  <2>16. CASE Operate
    BY <2>0, <2>1, <2>2, <2>4, <2>16, OperateCases
       DEF TypeOK, UpdateAll, CancelExpired, Destroy, BeginExpired, CancelSession, One,
           ActiveOrders, Idle
  <2>17. QED
    BY <2>3, <2>5, <2>6, <2>7, <2>10, <2>11, <2>12, <2>13, <2>14, <2>15, <2>16
       DEF Next, Proceed, Environment
<1>3. QED
  BY <1>1, <1>2, PTL DEF Safety

THEOREM TypeCorrect == Safety => []TypeOK
  BY TypeInvCorrect, PTL DEF TypeInv

-----------------------------------------------------------------------------
Request(op, o) == [op |-> op, order |-> o]

\* An order that was not submitted is neither at the exchange nor on its way
\* to it, unless it is the one being submitted; a request on its way finds no
\* order there.
PlacedInv ==
  \A o \in Orders :
    /\ market[o].placed <= 1
    /\ Request("submit", o) \in wire => market[o].placed = 0
    /\ status[o] \in {"NONE", "PENDING"} =>
         \/ call = Request("submit", o)
         \/ market[o].placed = 0 /\ Request("submit", o) \notin wire
    /\ call = Request("submit", o) => status[o] = "PENDING"

\* What every step but Submit, BatchNext, Accept and the end of a call does.
LEMMA PlacedKept ==
  ASSUME PlacedInv, UNCHANGED call, wire' \subseteq wire,
         \A o \in Orders : /\ market'[o].placed = market[o].placed
                           /\ status'[o] = status[o] \/ (status[o] = "NONE" /\ status'[o] = "PENDING")
  PROVE  PlacedInv'
  BY DEF PlacedInv, Request

LEMMA PlacedInvCorrect == Safety => []PlacedInv
<1> USE OrderAssumption DEF OrderAssumption
<1>1. Init => PlacedInv
  BY DEF Init, PlacedInv, Unknown, NoCall, Request
<1>2. TypeInv /\ PlacedInv /\ [Next]_vars => PlacedInv'
  <2> SUFFICES ASSUME TypeInv, PlacedInv, [Next]_vars PROVE PlacedInv'
    OBVIOUS
  <2>0. /\ market \in [Orders -> MarketOrders] /\ wire \subseteq Requests
        /\ status \in [Orders -> Statuses] /\ call \in Requests \cup {NoCall}
        /\ batch \in [op : {"cancel", "status"}, orders : SUBSET Orders] \cup {NoBatch}
    BY DEF TypeInv, TypeOK, MarketOrders
  <2> USE DEF manager
  <2>1. ASSUME NEW orders \in SUBSET Orders, Create(orders) PROVE PlacedInv'
    BY <2>0, <2>1, PlacedKept DEF Create
  <2>2. ASSUME NEW o \in Orders, Submit(o) PROVE PlacedInv'
    <3>1. /\ call = NoCall /\ call' = Request("submit", o) /\ status[o] = "PENDING"
          /\ wire' = wire \cup {Request("submit", o)} /\ UNCHANGED <<status, market>>
      BY <2>2 DEF Submit, Send, Submittable, Idle, Request
    <3>2. QED
      BY <3>1 DEF PlacedInv, Request, NoCall
  <2>3. ASSUME NEW o \in Orders, BatchNext(o) PROVE PlacedInv'
    <3>1. batch.op # "submit"
      BY <2>0, <2>3 DEF BatchNext, NoBatch
    <3>2. /\ call = NoCall /\ call' = Request(batch.op, o)
          /\ wire' = wire \cup {Request(batch.op, o)} /\ UNCHANGED <<status, market>>
      BY <2>3 DEF BatchNext, Send, Request
    <3>3. QED
      BY <3>1, <3>2 DEF PlacedInv, Request, NoCall
  <2>4. CASE Answered \/ TimedOut
    <3>1. PICK a : CallEnds(a)
      BY <2>4 DEF Answered, TimedOut
    <3>2. call \in Requests
      BY <2>0, <3>1 DEF CallEnds, NoCall
    <3>3. /\ call' = NoCall /\ UNCHANGED <<wire, market>>
      BY <3>1 DEF CallEnds
    <3>4. ASSUME NEW o \in Orders
          PROVE  /\ status'[o] \in {"NONE", "PENDING"} => status'[o] = status[o]
                 /\ call = Request("submit", o) => status'[o] \notin {"NONE", "PENDING"}
      BY <2>0, <3>1, <3>2 DEF CallEnds, SubmitEnds, CancelEnds, StatusEnds, Requests, Request
    <3>5. QED
      BY <3>3, <3>4 DEF PlacedInv, NoCall, Request
  <2>5. ASSUME NEW r \in wire, NEW i \in Ids, Accept(r, i) PROVE PlacedInv'
    <3>1. r.order \in Orders /\ r = Request("submit", r.order)
      BY <2>0, <2>5 DEF Accept, Requests, Request
    <3>2. /\ market'[r.order].placed = market[r.order].placed + 1
          /\ \A o \in Orders \ {r.order} : market'[o] = market[o]
          /\ wire' = wire \ {r} /\ UNCHANGED <<status, call>>
      BY <2>0, <2>5, <3>1 DEF Accept, Reply
    <3>3. market[r.order].placed = 0
      BY <3>1 DEF PlacedInv
    <3>4. market'[r.order].placed = 1 /\ Request("submit", r.order) \notin wire'
          /\ (status[r.order] \in {"NONE", "PENDING"} => call = Request("submit", r.order))
      BY <3>1, <3>2, <3>3 DEF PlacedInv
    <3>5. ASSUME NEW o \in Orders, o # r.order
          PROVE  (Request("submit", o) \in wire' <=> Request("submit", o) \in wire)
                 /\ market'[o] = market[o]
      BY <3>1, <3>2, <3>5 DEF Request
    <3>6. QED
      BY <3>2, <3>4, <3>5 DEF PlacedInv
  <2>6. CASE \/ UpdateAll \/ CancelExpired \/ Destroy \/ BatchEnd \/ Terminated \/ UNCHANGED vars
             \/ \E s \in Sessions : CancelSession(s)
             \/ \E o \in Orders : One("cancel", o) \/ One("status", o) \/ Expire(o)
    BY <2>0, <2>6, PlacedKept
       DEF UpdateAll, CancelExpired, Destroy, BeginExpired, BatchEnd, Terminated, vars,
           CancelSession, One, Begin, Expire
  <2>7. CASE \/ \E o \in Orders : Fill(o) \/ Withdraw(o)
             \/ \E r \in wire : Refuse(r) \/ CancelAtExchange(r) \/ Lose(r)
                                \/ \E n \in 0 .. Quantity : Report(r, n)
    <3>1. UNCHANGED <<call, status>> /\ wire' \subseteq wire
      BY <2>7 DEF Fill, Withdraw, Refuse, CancelAtExchange, Lose, Report, Reply
    <3>2. \A o \in Orders : market'[o].placed = market[o].placed
      <4>1. CASE \E o \in Orders : Fill(o)
        BY <2>0, <4>1 DEF Fill
      <4>2. CASE \E o \in Orders : Withdraw(o)
        BY <2>0, <4>2 DEF Withdraw, MarketOrders
      <4>3. CASE \E r \in wire : CancelAtExchange(r)
        BY <2>0, <4>3 DEF CancelAtExchange, MarketOrders
      <4>4. CASE \E r \in wire : Refuse(r) \/ Lose(r) \/ \E n \in 0 .. Quantity : Report(r, n)
        BY <4>4 DEF Refuse, Lose, Report
      <4>5. QED
        BY <2>7, <4>1, <4>2, <4>3, <4>4
    <3>3. QED
      BY <3>1, <3>2, PlacedKept
  <2>8. QED
    BY <2>1, <2>2, <2>3, <2>4, <2>5, <2>6, <2>7, OperateCases DEF Next, Proceed, Environment
<1>3. QED
  BY <1>1, <1>2, TypeInvCorrect, PTL DEF Safety

\* An order reaches the exchange at most once.
THEOREM PlacedOnceCorrect == Safety => []PlacedOnce
<1>1. PlacedInv => PlacedOnce
  BY DEF PlacedInv, PlacedOnce
<1>2. QED
  BY <1>1, PlacedInvCorrect, PTL

-----------------------------------------------------------------------------
\* An answer on its way tells of the order called for, and what it says stays
\* true until it is read.
AnswerInv ==
  LET o == call.order IN
  /\ answer.verdict = "accepted" => answer.id = market[o].id /\ market[o].state # "none"
  /\ answer.verdict \in {"cancelled", "canceled"} => market[o].state = "canceled"
  /\ answer.verdict = "closed" => market[o].state = "closed"
  /\ answer.verdict = "open" => filled[o] <= answer.filled /\ answer.filled <= market[o].filled

\* Calls and operations are about active orders, each met once.
CallInv ==
  /\ call.op \in {"cancel", "status"} => status[call.order] \in Active
  /\ \A o \in batch.orders : status[o] \in Active /\ call.order # o
  /\ call = NoCall => answer = NoAnswer

OnceThere == \A o \in Orders : market[o].state # "none" => market[o].placed # 0

LifeInv == NeverAhead /\ AnswerInv /\ CallInv /\ OnceThere

\* What a step of the exchange never takes back.
GoesOn(o) ==
  /\ market[o].filled <= market'[o].filled
  /\ market[o].state \in {"closed", "canceled"} => market'[o].state = market[o].state
  /\ market[o].state # "none" => market'[o].state # "none" /\ market'[o].id = market[o].id
  /\ market'[o].state # "none" => market'[o].placed # 0

LEMMA ExchangeGoesOn ==
  ASSUME TypeInv, PlacedInv, OnceThere,
         \/ UNCHANGED market
         \/ \E o \in Orders : Fill(o) \/ Withdraw(o)
         \/ \E r \in wire : CancelAtExchange(r) \/ \E i \in Ids : Accept(r, i)
  PROVE  \A o \in Orders : GoesOn(o)
<1> USE OrderAssumption DEF OrderAssumption
<1>0. market \in [Orders -> MarketOrders] /\ wire \subseteq Requests
  BY DEF TypeInv, TypeOK, MarketOrders
<1>1. CASE UNCHANGED market
  BY <1>0, <1>1 DEF GoesOn, OnceThere, MarketOrders
<1>2. CASE \E o \in Orders : Fill(o)
  BY <1>0, <1>2 DEF GoesOn, OnceThere, MarketOrders, Fill
<1>3. ASSUME NEW o \in Orders, market[o].state = "open",
             market' = [market EXCEPT ![o].state = "canceled"]
      PROVE  \A p \in Orders : GoesOn(p)
  BY <1>0, <1>3 DEF GoesOn, OnceThere, MarketOrders
<1>4. ASSUME NEW r \in wire, NEW i \in Ids, Accept(r, i)
      PROVE  \A o \in Orders : GoesOn(o)
  <2>1. r.order \in Orders /\ r = Request("submit", r.order)
    BY <1>0, <1>4 DEF Accept, Requests, Request
  <2>2. market[r.order].placed = 0 /\ market[r.order].state = "none"
    BY <2>1 DEF PlacedInv, OnceThere
  <2>3. market[r.order].filled = 0
    BY <2>1, <2>2 DEF TypeInv, MarketInv
  <2>4. market' = [market EXCEPT ![r.order] = [state |-> "open", id |-> i, filled |-> 0,
                                               placed |-> 1]]
    BY <1>4, <2>2 DEF Accept
  <2>5. QED
    BY <1>0, <2>1, <2>2, <2>3, <2>4 DEF GoesOn, OnceThere, MarketOrders
<1>5. QED
  BY <1>0, <1>1, <1>2, <1>3, <1>4 DEF Withdraw, CancelAtExchange, Requests

\* The exchange going on falsifies nothing the manager, or an answer, says.
LEMMA GoingOnKeeps ==
  ASSUME TypeInv, TypeInv', LifeInv, \A o \in Orders : GoesOn(o), UNCHANGED <<status, filled, exchangeId>>
  PROVE  /\ NeverAhead' /\ OnceThere'
         /\ UNCHANGED <<call, answer>> => AnswerInv'
<1> USE OrderAssumption DEF OrderAssumption
<1>0. /\ market \in [Orders -> MarketOrders] /\ filled \in [Orders -> 0 .. Quantity]
      /\ call \in Requests \cup {NoCall} /\ answer \in Answers
  BY DEF TypeInv, TypeOK, MarketOrders, Answers
<1>1. OnceThere'
  BY DEF GoesOn, OnceThere
<1>2. ASSUME NEW o \in Orders
      PROVE  market[o].state = "none" => status[o] \notin Active
  BY DEF LifeInv, NeverAhead, TypeInv, MarketInv
<1>3. NeverAhead'
  <2> SUFFICES ASSUME NEW o \in Orders
               PROVE  /\ filled[o] <= market'[o].filled
                      /\ status[o] = "FILLED" => market'[o].state = "closed"
                      /\ status[o] = "CANCELLED" => market'[o].state = "canceled"
                      /\ status[o] \in Active => market'[o].id = exchangeId[o]
                                                 /\ exchangeId[o] # NoId
    BY DEF NeverAhead
  <2>1. market[o].filled \in Nat /\ filled[o] \in Nat
    BY <1>0 DEF MarketOrders
  <2>2. market'[o].filled \in Nat
    BY DEF TypeInv, TypeOK
  <2>3. QED
    BY <1>2, <2>1, <2>2 DEF LifeInv, NeverAhead, GoesOn
<1>4. ASSUME UNCHANGED <<call, answer>> PROVE AnswerInv'
  <2>1. CASE call = NoCall
    BY <1>4, <2>1 DEF LifeInv, CallInv, AnswerInv, NoAnswer
  <2>2. CASE call \in Requests
    <3>1. call.order \in Orders /\ filled[call.order] \in Nat /\ answer.filled \in Nat
          /\ market[call.order].filled \in Nat /\ market'[call.order].filled \in Nat
      BY <1>0, <2>2 DEF Requests, MarketOrders, Answers, TypeInv, TypeOK
    <3>2. QED
      BY <1>4, <3>1 DEF LifeInv, AnswerInv, GoesOn
  <2>3. QED
    BY <1>0, <2>1, <2>2
<1>5. QED
  BY <1>1, <1>3, <1>4

\* The end of a call takes the order it is about one step on in its life, or
\* leaves it alone; what the manager now says of it the exchange says too.
Placed(o) == /\ status[o] = "PENDING"
             /\ market[o].id # NoId
             /\ status' = [status EXCEPT ![o] = "SUBMITTED"] /\ UNCHANGED filled
             /\ exchangeId' = [exchangeId EXCEPT ![o] = market[o].id]
Failed(o) == /\ status[o] = "PENDING"
             /\ status' = [status EXCEPT ![o] = "FAILED"] /\ UNCHANGED <<filled, exchangeId>>
Cancelled(o) == /\ status[o] \in Active /\ market[o].state = "canceled"
                /\ status' = [status EXCEPT ![o] = "CANCELLED"] /\ UNCHANGED <<filled, exchangeId>>
Closed(o) == /\ status[o] \in Active /\ market[o].state = "closed"
             /\ status' = [status EXCEPT ![o] = "FILLED"]
             /\ filled' = [filled EXCEPT ![o] = Quantity] /\ UNCHANGED exchangeId
Partly(o) == /\ status[o] \in Active
             /\ status' = [status EXCEPT ![o] = "PARTIAL"]
             /\ \E n \in 1 .. Quantity :
                  /\ filled[o] <= n /\ n < Quantity /\ n <= market[o].filled
                  /\ filled' = [filled EXCEPT ![o] = n]
             /\ UNCHANGED exchangeId
Outcome(o) == \/ Placed(o) \/ Failed(o) \/ Cancelled(o) \/ Closed(o) \/ Partly(o)
              \/ UNCHANGED <<status, filled, exchangeId>>

LEMMA CallOutcome ==
  ASSUME TypeInv, PlacedInv, LifeInv, NEW a, a \in {answer, NoAnswer}, CallEnds(a)
  PROVE  call.order \in Orders /\ Outcome(call.order)
<1> USE OrderAssumption DEF OrderAssumption
<1> DEFINE o == call.order
<1>0. /\ call \in Requests /\ a \in Answers /\ o \in Orders
      /\ status \in [Orders -> Statuses] /\ filled \in [Orders -> 0 .. Quantity]
      /\ market \in [Orders -> MarketOrders]
  BY Constants DEF CallEnds, NoCall, TypeInv, TypeOK, Answers, Requests, MarketOrders
<1>1. /\ a.verdict = "accepted" => a.id = market[o].id /\ market[o].id # NoId
      /\ a.verdict \in {"cancelled", "canceled"} => market[o].state = "canceled"
      /\ a.verdict = "closed" => market[o].state = "closed"
      /\ a.verdict = "open" => filled[o] <= a.filled /\ a.filled <= market[o].filled
  BY <1>0 DEF LifeInv, AnswerInv, NoAnswer, TypeInv, MarketInv
<1>2. CASE call.op = "submit" /\ SubmitEnds(a)
  <2>1. call = Request("submit", o)
    BY <1>0, <1>2 DEF Requests, Request
  <2>2. status[o] = "PENDING"
    BY <1>0, <2>1 DEF PlacedInv
  <2>3. QED
    BY <1>0, <1>1, <1>2, <2>2 DEF SubmitEnds, Outcome, Placed, Failed
<1>3. CASE call.op = "cancel" /\ CancelEnds(a)
  BY <1>0, <1>1, <1>3 DEF CancelEnds, Outcome, Cancelled, LifeInv, CallInv
<1>4. CASE call.op = "status" /\ StatusEnds(a)
  <2>0. status[o] \in Active
    BY <1>4 DEF LifeInv, CallInv
  <2>1. CASE a.verdict = "closed"
    BY <1>0, <1>1, <1>4, <2>0, <2>1 DEF StatusEnds, Outcome, Closed
  <2>2. CASE a.verdict = "canceled"
    BY <1>0, <1>1, <1>4, <2>0, <2>2 DEF StatusEnds, Outcome, Cancelled
  <2>3. CASE a.verdict = "open" /\ a.filled > 0 /\ a.filled < Quantity
    <3>1. a.filled \in 1 .. Quantity
      BY <1>0, <2>3 DEF Answers
    <3>2. Partly(o)
      BY <1>0, <1>1, <1>4, <2>0, <2>3, <3>1 DEF StatusEnds, Partly
    <3>3. QED
      BY <1>0, <3>2 DEF Outcome
  <2>4. CASE ~(a.verdict \in {"closed", "canceled"})
             /\ ~(a.verdict = "open" /\ a.filled > 0 /\ a.filled < Quantity)
    BY <1>0, <1>4, <2>4 DEF StatusEnds, Outcome
  <2>5. QED
    BY <2>1, <2>2, <2>3, <2>4
<1>5. QED
  BY <1>0, <1>2, <1>3, <1>4 DEF CallEnds

\* It leaves the manager behind the exchange.
LEMMA OutcomeKeeps ==
  ASSUME TypeInv, LifeInv, NEW o \in Orders, Outcome(o), UNCHANGED market
  PROVE  NeverAhead'
<1> USE OrderAssumption DEF OrderAssumption
<1>0. /\ status \in [Orders -> Statuses] /\ filled \in [Orders -> 0 .. Quantity]
      /\ exchangeId \in [Orders -> Ids \cup {NoId}]
      /\ market \in [Orders -> MarketOrders]
  BY DEF TypeInv, TypeOK, MarketOrders
<1>1. NeverAhead /\ MarketInv
  BY DEF LifeInv, TypeInv
<1>2. CASE Placed(o)
  BY <1>0, <1>1, <1>2 DEF Placed, NeverAhead, Active
<1>3. CASE Failed(o)
  BY <1>0, <1>1, <1>3 DEF Failed, NeverAhead, Active
<1>4. CASE Cancelled(o)
  BY <1>0, <1>1, <1>4 DEF Cancelled, NeverAhead, Active
<1>5. CASE Closed(o)
  <2>1. market[o].filled = Quantity
    BY <1>1, <1>5 DEF Closed, MarketInv
  <2>2. QED
    BY <1>0, <1>1, <1>5, <2>1 DEF Closed, NeverAhead, Active
<1>6. CASE Partly(o)
  BY <1>0, <1>1, <1>6 DEF Partly, NeverAhead, Active
<1>7. CASE UNCHANGED <<status, filled, exchangeId>>
  BY <1>1, <1>7 DEF NeverAhead
<1>8. QED
  BY <1>2, <1>3, <1>4, <1>5, <1>6, <1>7 DEF Outcome

\* A request is answered with what the exchange then knows.
Truthful(r, a) ==
  /\ a.verdict = "accepted" => a.id = market'[r.order].id /\ market'[r.order].state # "none"
  /\ a.verdict \in {"cancelled", "canceled"} => market'[r.order].state = "canceled"
  /\ a.verdict = "closed" => market'[r.order].state = "closed"
  /\ a.verdict = "open" => a.filled = market'[r.order].filled

LEMMA ReplyKeeps ==
  ASSUME TypeInv, TypeInv', LifeInv, \A o \in Orders : GoesOn(o),
         NEW r \in wire, NEW a \in Answers, Reply(r, a), Truthful(r, a)
  PROVE  LifeInv'
<1>1. UNCHANGED <<status, filled, exchangeId, call, batch>>
  BY DEF Reply, manager
<1>2. NeverAhead' /\ OnceThere'
  BY <1>1, GoingOnKeeps
<1>3. AnswerInv' /\ (call = NoCall => answer' = NoAnswer)
  <2>1. wire \subseteq Requests
    BY DEF TypeInv, TypeOK
  <2>2. CASE r = call
    <3>1. answer' = a /\ call.order \in Orders /\ call # NoCall
      BY <2>1, <2>2, Constants DEF Reply, Requests
    <3>2. filled[call.order] <= market'[call.order].filled
      BY <1>1, <1>2, <3>1 DEF NeverAhead
    <3>3. market'[call.order].filled \in Nat
      BY <3>1, OrderAssumption DEF TypeInv, TypeOK, OrderAssumption
    <3>4. QED
      BY <1>1, <2>2, <3>1, <3>2, <3>3 DEF Truthful, AnswerInv
  <2>3. CASE r # call
    BY <1>1, <2>3, GoingOnKeeps DEF Reply, LifeInv, CallInv
  <2>4. QED
    BY <2>2, <2>3
<1>4. QED
  BY <1>1, <1>2, <1>3 DEF LifeInv, CallInv

LEMMA LifeInvCorrect == ASSUME Uninit = {} PROVE Safety => []LifeInv
<1> USE OrderAssumption DEF OrderAssumption
<1>1. Init => LifeInv
  BY DEF Init, LifeInv, NeverAhead, AnswerInv, CallInv, OnceThere, Unknown, NoAnswer, NoCall,
         NoBatch, Active
<1>2. TypeInv /\ TypeInv' /\ PlacedInv /\ LifeInv /\ [Next]_vars => LifeInv'
  <2> SUFFICES ASSUME TypeInv, TypeInv', PlacedInv, LifeInv, [Next]_vars PROVE LifeInv'
    OBVIOUS
  <2>0. /\ market \in [Orders -> MarketOrders] /\ wire \subseteq Requests
        /\ status \in [Orders -> Statuses] /\ call \in Requests \cup {NoCall}
        /\ answer \in Answers
        /\ batch \in [op : {"cancel", "status"}, orders : SUBSET Orders] \cup {NoBatch}
    BY DEF TypeInv, TypeOK, MarketOrders, Answers
  <2>g. UNCHANGED market => \A o \in Orders : GoesOn(o)
    BY ExchangeGoesOn DEF LifeInv
  <2>i. Idle => answer = NoAnswer
    BY DEF Idle, LifeInv, CallInv
  <2> USE DEF manager
  <2>1. ASSUME NEW orders \in SUBSET Orders, Create(orders) PROVE LifeInv'
    <3>1. /\ call = NoCall /\ batch = NoBatch /\ \A o \in orders : status[o] = "NONE"
          /\ UNCHANGED <<filled, exchangeId, call, batch, answer, market>>
          /\ status' = [o \in Orders |-> IF o \in orders THEN "PENDING" ELSE status[o]]
      BY <2>1 DEF Create, Idle
    <3>2. NeverAhead'
      BY <2>0, <3>1 DEF LifeInv, NeverAhead, Active
    <3>3. CallInv'
      BY <3>1, <2>i, <2>1 DEF CallInv, NoCall, NoBatch, Create
    <3>4. AnswerInv' /\ OnceThere'
      BY <3>1 DEF LifeInv, AnswerInv, OnceThere
    <3>5. QED
      BY <3>2, <3>3, <3>4 DEF LifeInv
  <2>2. ASSUME NEW o \in Orders, Submit(o) PROVE LifeInv'
    <3>1. /\ answer = NoAnswer /\ batch = NoBatch /\ call' = Request("submit", o)
          /\ UNCHANGED <<status, filled, exchangeId, batch, answer, market>>
      BY <2>2, <2>i DEF Submit, Send, Idle, Request
    <3>2. NeverAhead' /\ OnceThere'
      BY <3>1 DEF LifeInv, NeverAhead, OnceThere
    <3>3. AnswerInv' /\ CallInv'
      BY <3>1 DEF AnswerInv, CallInv, NoAnswer, NoBatch, Request
    <3>4. QED
      BY <3>2, <3>3 DEF LifeInv
  <2>3. ASSUME NEW o \in Orders, BatchNext(o) PROVE LifeInv'
    <3>1. /\ answer = NoAnswer /\ call' = Request(batch.op, o) /\ o \in batch.orders
          /\ UNCHANGED <<status, filled, exchangeId, answer, market>>
          /\ batch' = [batch EXCEPT !.orders = @ \ {o}]
      BY <2>3 DEF BatchNext, Send, Request, LifeInv, CallInv
    <3>2. batch \in [op : {"cancel", "status"}, orders : SUBSET Orders]
      BY <2>0, <3>1, Constants
    <3>3. NeverAhead' /\ OnceThere'
      BY <3>1 DEF LifeInv, NeverAhead, OnceThere
    <3>4. AnswerInv' /\ CallInv'
      BY <3>1, <3>2 DEF AnswerInv, CallInv, NoAnswer, Request, LifeInv, NoCall
    <3>5. QED
      BY <3>3, <3>4 DEF LifeInv
  <2>4. ASSUME NEW op, NEW orders \in SUBSET ActiveOrders, Idle, Begin(op, orders)
        PROVE  LifeInv'
    <3>1. /\ call = NoCall /\ batch'.orders = orders
          /\ UNCHANGED <<status, filled, exchangeId, call, answer, market>>
      BY <2>4 DEF Begin, Idle
    <3>2. NeverAhead' /\ OnceThere' /\ AnswerInv'
      BY <3>1 DEF LifeInv, NeverAhead, OnceThere, AnswerInv
    <3>3. CallInv'
      BY <3>1, <2>i, <2>4 DEF CallInv, NoCall, ActiveOrders
    <3>4. QED
      BY <3>2, <3>3 DEF LifeInv
  <2>5. CASE Answered \/ TimedOut
    <3>1. PICK a \in {answer, NoAnswer} : CallEnds(a)
      BY <2>5 DEF Answered, TimedOut
    <3>2. call.order \in Orders /\ Outcome(call.order) /\ UNCHANGED <<market, batch>>
          /\ call' = NoCall /\ answer' = NoAnswer
      BY <3>1, CallOutcome DEF CallEnds
    <3>3. NeverAhead' /\ OnceThere'
      BY <3>2, OutcomeKeeps DEF LifeInv, OnceThere
    <3>4. \A o \in Orders \ {call.order} : status'[o] = status[o]
      BY <2>0, <3>2 DEF Outcome, Placed, Failed, Cancelled, Closed, Partly
    <3>5. CallInv' /\ AnswerInv'
      BY <2>0, <3>2, <3>4 DEF CallInv, AnswerInv, LifeInv, NoCall, NoAnswer, NoBatch
    <3>6. QED
      BY <3>3, <3>5 DEF LifeInv
  <2>6. CASE BatchEnd
    BY <2>6 DEF BatchEnd, LifeInv, NeverAhead, AnswerInv, CallInv, OnceThere, NoBatch
  <2>7. CASE Terminated \/ UNCHANGED vars \/ \E o \in Orders : Expire(o)
    <3>1. UNCHANGED <<status, filled, exchangeId, call, batch, answer, market>>
      BY <2>7 DEF Terminated, vars, Expire
    <3>2. QED
      BY <3>1 DEF LifeInv, NeverAhead, AnswerInv, CallInv, OnceThere
  <2>8. ASSUME NEW o \in Orders, Fill(o) \/ Withdraw(o) PROVE LifeInv'
    <3>1. UNCHANGED <<status, filled, exchangeId, call, batch, answer>>
      BY <2>8 DEF Fill, Withdraw
    <3>2. \A p \in Orders : GoesOn(p)
      BY <2>8, ExchangeGoesOn DEF LifeInv
    <3>3. QED
      BY <3>1, <3>2, GoingOnKeeps DEF LifeInv, CallInv
  <2>9. ASSUME NEW r \in wire, Lose(r) PROVE LifeInv'
    BY <2>9 DEF Lose, LifeInv, NeverAhead, AnswerInv, CallInv, OnceThere
  <2>10. ASSUME NEW r \in wire, NEW i \in Ids, Accept(r, i) PROVE LifeInv'
    <3> DEFINE a == [verdict |-> "accepted", id |-> i, filled |-> 0]
    <3>1. a \in Answers /\ Reply(r, a) /\ r.order \in Orders
      BY <2>0, <2>10 DEF Answers, Verdicts, Accept, Requests
    <3>2. \A p \in Orders : GoesOn(p)
      BY <2>10, ExchangeGoesOn DEF LifeInv
    <3>3. Truthful(r, a)
      BY <2>0, <2>10, <3>1 DEF Truthful, Accept
    <3> HIDE DEF a
    <3>4. QED
      BY <3>1, <3>2, <3>3, ReplyKeeps
  <2>11. ASSUME NEW r \in wire, Refuse(r) PROVE LifeInv'
    <3>1. Verdict("refused") \in Answers /\ Truthful(r, Verdict("refused"))
      BY DEF Verdict, Answers, Verdicts, Truthful
    <3>2. QED
      BY <2>g, <2>11, <3>1, ReplyKeeps DEF Refuse
  <2>12. ASSUME NEW r \in wire, CancelAtExchange(r) PROVE LifeInv'
    <3>1. market'[r.order].state = "canceled"
      BY <2>0, <2>12 DEF CancelAtExchange, Requests, MarketOrders
    <3>2. Verdict("cancelled") \in Answers /\ Truthful(r, Verdict("cancelled"))
      BY <3>1 DEF Verdict, Answers, Verdicts, Truthful
    <3>3. \A p \in Orders : GoesOn(p)
      BY <2>12, ExchangeGoesOn DEF LifeInv
    <3>4. QED
      BY <2>12, <3>2, <3>3, ReplyKeeps DEF CancelAtExchange
  <2>13. ASSUME NEW r \in wire, NEW n \in 0 .. Quantity, Report(r, n) PROVE LifeInv'
    <3> DEFINE a == [verdict |-> market[r.order].state, id |-> market[r.order].id, filled |-> n]
    <3>1. a \in Answers /\ Reply(r, a) /\ UNCHANGED market
      BY <2>0, <2>13 DEF Answers, Verdicts, MarketOrders, Requests, Report
    <3>2. market[r.order].state \notin {"accepted", "cancelled"} /\ n = market[r.order].filled
      BY <2>0, <2>13, Uninit = {} DEF Report, Requests, MarketOrders
    <3>3. Truthful(r, a)
      BY <3>1, <3>2 DEF Truthful
    <3> HIDE DEF a
    <3>4. QED
      BY <2>g, <3>1, <3>3, ReplyKeeps
  <2>14. CASE UpdateAll \/ CancelExpired \/ Destroy \/ (\E s \in Sessions : CancelSession(s))
              \/ \E o \in Orders : One("cancel", o) \/ One("status", o)
    BY <2>4, <2>14
       DEF UpdateAll, CancelExpired, Destroy, BeginExpired, CancelSession, One, ShouldCancel
  <2>15. QED
    BY <2>1, <2>2, <2>3, <2>5, <2>6, <2>7, <2>8, <2>9, <2>10, <2>11, <2>12, <2>13, <2>14,
       OperateCases
       DEF Next, Proceed, Environment
<1>3. QED
  BY <1>1, <1>2, TypeInvCorrect, PlacedInvCorrect, PTL DEF Safety

\* Whatever is lost, late or filled meanwhile, the manager never says more
\* than the exchange does, if the gateway's answers hold every quantity.
THEOREM NeverAheadCorrect == ASSUME Uninit = {} PROVE Safety => []NeverAhead
<1>1. LifeInv => NeverAhead
  BY DEF LifeInv
<1>2. QED
  BY <1>1, LifeInvCorrect, PTL

-----------------------------------------------------------------------------
\* The end of a call is a step of the order it is about, or no step.
LEMMA OutcomeSteps ==
  ASSUME TypeInv, NEW o \in Orders, Outcome(o)
  PROVE  Lifecycle!Step(o) \/ UNCHANGED <<status, filled>>
<1> USE DEF Lifecycle!Become, Lifecycle!Active, Active
<1>1. CASE Placed(o)
  BY <1>1 DEF Placed, Lifecycle!Step, Lifecycle!Submit
<1>2. CASE Failed(o)
  BY <1>2 DEF Failed, Lifecycle!Step, Lifecycle!Fail
<1>3. CASE Cancelled(o)
  BY <1>3 DEF Cancelled, Lifecycle!Step, Lifecycle!Cancel
<1>4. CASE Closed(o)
  BY <1>4 DEF Closed, Lifecycle!Step, Lifecycle!FillAll
<1>5. CASE Partly(o)
  BY <1>5 DEF Partly, Lifecycle!Step, Lifecycle!FillPart
<1>6. QED
  BY <1>1, <1>2, <1>3, <1>4, <1>5 DEF Outcome

\* With a gateway that loses and delays requests, and an exchange that fills
\* orders all the while, the manager implements OrderLifecycle.
THEOREM ImplementsLifecycleCorrect ==
  ASSUME Uninit = {} PROVE Safety => ImplementsLifecycle
<1>1. Init => Lifecycle!Init
  BY DEF Init, Lifecycle!Init
<1>2. TypeInv /\ PlacedInv /\ LifeInv /\ [Next]_vars
        => [Lifecycle!Next]_(Lifecycle!lifecycleVars)
  <2> SUFFICES ASSUME TypeInv, PlacedInv, LifeInv, [Next]_vars
               PROVE  Lifecycle!Next \/ UNCHANGED <<status, filled>>
    BY DEF Lifecycle!lifecycleVars
  <2> USE DEF manager
  <2>1. CASE \E o, q \in Orders : CreateOne(o) \/ CreateTwo(o, q)
    <3>1. PICK o \in Orders, q \in Orders : Create({o, q})
      <4>1. CASE \E o \in Orders : CreateOne(o)
        <5>1. PICK o \in Orders : Create({o})
          BY <4>1 DEF CreateOne
        <5>2. {o} = {o, o}
          OBVIOUS
        <5>3. QED
          BY <5>1, <5>2
      <4>2. CASE \E o, q \in Orders : CreateTwo(o, q)
        BY <4>2 DEF CreateTwo
      <4>3. QED
        BY <2>1, <4>1, <4>2
    <3>2. Lifecycle!Create({o, q})
      BY <3>1 DEF Create, Lifecycle!Create
    <3>3. QED
      BY <3>2 DEF Lifecycle!Next
  <2>2. CASE Answered \/ TimedOut
    <3>1. PICK a \in {answer, NoAnswer} : CallEnds(a)
      BY <2>2 DEF Answered, TimedOut
    <3>2. call.order \in Orders /\ Outcome(call.order)
      BY <3>1, CallOutcome
    <3>3. QED
      BY <3>2, OutcomeSteps DEF Lifecycle!Next
  <2>3. CASE \/ UpdateAll \/ CancelExpired \/ Destroy \/ BatchEnd \/ Terminated \/ UNCHANGED vars
             \/ \E s \in Sessions : CancelSession(s)
             \/ \E i \in Ids : OneById("cancel", i) \/ OneById("status", i)
             \/ \E o \in Orders : Submit(o) \/ One("cancel", o) \/ One("status", o) \/ BatchNext(o)
    BY <2>3 DEF UpdateAll, CancelExpired, Destroy, BeginExpired, CancelSession, OneById, One, Begin,
                Submit, BatchNext, Send, BatchEnd, Terminated, vars
  <2>4. CASE Environment
    BY <2>4 DEF Environment, Fill, Withdraw, Expire, Refuse, CancelAtExchange, Lose, Accept,
                Report, Reply
  <2>5. QED
    BY <2>1, <2>2, <2>3, <2>4 DEF Next, Operate, Proceed
<1>3. QED
  BY <1>1, <1>2, TypeInvCorrect, PlacedInvCorrect, LifeInvCorrect, PTL
     DEF Safety, ImplementsLifecycle, Lifecycle!Safety
=============================================================================
