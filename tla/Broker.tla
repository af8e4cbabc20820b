------------------------------- MODULE Broker -------------------------------
(***************************************************************************)
(* The IBKR account as the bot sees it through IBKRClient: orders that the *)
(* gateway accepted, and the net position of each symbol.  The bot places  *)
(* market and limit orders and never cancels one, so an accepted order     *)
(* stays at work until the exchange fills it or lets it die, at any later  *)
(* time.  Fills are whole.                                                 *)
(***************************************************************************)
EXTENDS TradeStore

CONSTANT MaxOrders   \* bound: orders the account ever accepts

ASSUME BrokerAssumption == MaxOrders \in Nat

VARIABLES
  orders,     \* every order accepted so far, by order id
  lastOrder,  \* the newest order id
  working,    \* the ids neither filled nor dead
  position    \* net quantity held of each symbol: negative is a short position

brokerVars == <<orders, lastOrder, working, position>>

OrderIds == 1 .. MaxOrders

Order == [symbol: Symbols \cup {"none"}, side: Sides, qty: Nat]
NoOrder == [symbol |-> "none", side |-> "BUY", qty |-> 0]

\* client.place_order, when the order reaches the gateway.
PlaceOrder(sym, side, qty) ==
  /\ lastOrder < MaxOrders
  /\ lastOrder' = lastOrder + 1
  /\ orders' = [orders EXCEPT ![lastOrder + 1] =
                  [symbol |-> sym, side |-> side, qty |-> qty]]
  /\ working' = working \cup {lastOrder + 1}
  /\ UNCHANGED position

Signed(o) == IF orders[o].side = "BUY" THEN orders[o].qty ELSE -orders[o].qty

FillOrder(o) ==
  /\ o \in working
  /\ working' = working \ {o}
  /\ position' = [position EXCEPT ![orders[o].symbol] = @ + Signed(o)]
  /\ UNCHANGED <<orders, lastOrder>>

\* Rejected by the exchange, or a limit order that expires at the close.
KillOrder(o) ==
  /\ o \in working
  /\ working' = working \ {o}
  /\ UNCHANGED <<orders, lastOrder, position>>

\* client.get_portfolio: the symbols with a position.
Portfolio == {s \in Symbols : position[s] # 0}

BrokerInit ==
  /\ orders = [o \in OrderIds |-> NoOrder]
  /\ lastOrder = 0
  /\ working = {}
  /\ position = [s \in Symbols |-> 0]

BrokerTypeOK ==
  /\ orders \in [OrderIds -> Order]
  /\ lastOrder \in 0 .. MaxOrders
  /\ working \in SUBSET (1 .. lastOrder)
  /\ position \in [Symbols -> Int]
=============================================================================
