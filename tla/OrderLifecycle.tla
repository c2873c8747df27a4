--------------------------- MODULE OrderLifecycle ---------------------------
(***************************************************************************)
(* What a caller of OrderManager (src/order_manager.cpp) relies on, with   *)
(* no gateway, no exchange and no lost message: an order is created, on    *)
(* its own or together with another, is submitted or fails, is filled      *)
(* piece by piece, and is at last filled or cancelled.  What was filled    *)
(* never shrinks, and an order that is filled, cancelled or failed never   *)
(* changes again.                                                          *)
(***************************************************************************)
EXTENDS Integers

CONSTANTS Orders,
          Quantity   \* what every order is for, in the smallest units

VARIABLES status,    \* status[o]
          filled     \* filled[o]: how much of o is filled

lifecycleVars == <<status, filled>>

Active == {"SUBMITTED", "PARTIAL"}
Final == {"FILLED", "CANCELLED", "FAILED"}

Init == /\ status = [o \in Orders |-> "NONE"]
        /\ filled = [o \in Orders |-> 0]

Become(o, from, to) == /\ status[o] \in from
                       /\ status' = [status EXCEPT ![o] = to]

Create(orders) ==
  /\ \A o \in orders : status[o] = "NONE"
  /\ status' = [o \in Orders |-> IF o \in orders THEN "PENDING" ELSE status[o]]
  /\ UNCHANGED filled

Submit(o) == Become(o, {"PENDING"}, "SUBMITTED") /\ UNCHANGED filled

Fail(o) == Become(o, {"PENDING"}, "FAILED") /\ UNCHANGED filled

FillPart(o, n) == /\ Become(o, Active, "PARTIAL")
                  /\ filled[o] <= n /\ n < Quantity
                  /\ filled' = [filled EXCEPT ![o] = n]

FillAll(o) == /\ Become(o, Active, "FILLED")
              /\ filled' = [filled EXCEPT ![o] = Quantity]

Cancel(o) == Become(o, Active, "CANCELLED") /\ UNCHANGED filled

Step(o) == \/ Submit(o) \/ Fail(o) \/ FillAll(o) \/ Cancel(o)
           \/ \E n \in 1 .. Quantity : FillPart(o, n)

Next == (\E o \in Orders : Step(o)) \/ \E o, q \in Orders : Create({o, q})

Safety == Init /\ [][Next]_lifecycleVars
=============================================================================
