------------------------------ MODULE OrderApi ------------------------------
(***************************************************************************)
(* The order endpoints of api/main.py, each request in a thread of its     *)
(* own: POST /orders/place, /orders/close/{symbol} and /orders/close-all   *)
(* (Telegram's /cerrar calls the last two).  No lock is held.              *)
(***************************************************************************)
EXTENDS SignalProcessor

CONSTANT Handlers   \* request threads

VARIABLE handler    \* the local state of each

HandlerIdle ==
  [pc |-> "idle", symbol |-> "none", side |-> "BUY", order |-> None, todo |-> {}]

HandlerState ==
  [pc: {"idle", "place_check", "place_send", "place_insert",
        "close", "close_send", "close_db"},
   symbol: Symbols \cup {"none"}, side: Sides, order: Nat \cup {None},
   todo: SUBSET TradeIds]

Finish(h) == handler' = [handler EXCEPT ![h] = HandlerIdle]

---------------------------------------------------------------------------
(* POST /orders/place *)

\* The portfolio is counted and the risk validator asked before the human is.
PlaceRequest(h, sym, side) ==
  /\ handler[h].pc = "idle"
  /\ Cardinality(Portfolio) < MaxPositions
  /\ handler' = [handler EXCEPT ![h].pc = "place_check", ![h].symbol = sym,
                                ![h].side = side]
  /\ UNCHANGED <<storeVars, brokerVars, recent>>

\* Approval, preflight and duplicate check pass.
PlaceCheck(h) ==
  /\ handler[h].pc = "place_check"
  /\ ~IsDuplicate(EntryKey(handler[h].symbol, handler[h].side))
  /\ handler' = [handler EXCEPT ![h].pc = "place_send"]
  /\ UNCHANGED <<storeVars, brokerVars, recent>>

PlaceRefused(h) ==
  /\ handler[h].pc = "place_check"
  /\ Finish(h)
  /\ UNCHANGED <<storeVars, brokerVars, recent>>

PlaceSend(h) ==
  /\ handler[h].pc = "place_send"
  /\ PlaceOrder(handler[h].symbol, handler[h].side, EntryQty)
  /\ handler' = [handler EXCEPT ![h].pc = "place_insert", ![h].order = lastOrder + 1]
  /\ UNCHANGED <<storeVars, recent>>

\* Mutant of PlaceSendFailed: the order is booked though it never left.
BookUnplacedRequest(h) ==
  /\ handler[h].pc = "place_send"
  /\ handler' = [handler EXCEPT ![h].pc = "place_insert", ![h].order = lastOrder + 1]
  /\ UNCHANGED <<storeVars, brokerVars, recent>>

PlaceSendFailed(h) ==
  /\ handler[h].pc = "place_send"
  /\ \/ PlaceOrder(handler[h].symbol, handler[h].side, EntryQty)
     \/ UNCHANGED brokerVars
  /\ Finish(h)
  /\ UNCHANGED <<storeVars, recent>>

PlaceInsert(h) ==
  /\ handler[h].pc = "place_insert"
  /\ Record(EntryKey(handler[h].symbol, handler[h].side))
  /\ InsertTrade(handler[h].symbol, handler[h].side, EntryQty, EntryQty, "FILLED",
                 handler[h].order)
  /\ Finish(h)
  /\ UNCHANGED brokerVars

PlaceInsertFailed(h) ==
  /\ handler[h].pc = "place_insert"
  /\ Record(EntryKey(handler[h].symbol, handler[h].side))
  /\ Finish(h)
  /\ UNCHANGED <<storeVars, brokerVars>>

---------------------------------------------------------------------------
(* POST /orders/close/{symbol} and /orders/close-all *)

\* The first open row of the symbol.
CloseRequest(h, sym) ==
  /\ handler[h].pc = "idle"
  /\ OpenTradesOf(sym) # {}
  /\ handler' = [handler EXCEPT ![h].pc = "close", ![h].todo = {First(OpenTradesOf(sym))}]
  /\ UNCHANGED <<storeVars, brokerVars, recent>>

CloseAllRequest(h) ==
  /\ handler[h].pc = "idle"
  /\ GetOpenTrades # {}
  /\ handler' = [handler EXCEPT ![h].pc = "close", ![h].todo = GetOpenTrades]
  /\ UNCHANGED <<storeVars, brokerVars, recent>>

Target(h) == First(handler[h].todo)
TargetRow(h) == trades[Target(h)]
TargetKey(h) == EntryKey(TargetRow(h).symbol, Opposite(TargetRow(h).side))

Drop(h) == handler' = [handler EXCEPT ![h].pc = "close", ![h].todo = @ \ {Target(h)}]

\* Neither endpoint looks at the row again: only the duplicate window and the
\* preflight stand between the rows read and the order.
CloseCheck(h) ==
  /\ handler[h].pc = "close" /\ handler[h].todo # {}
  /\ ~IsDuplicate(TargetKey(h))
  /\ handler' = [handler EXCEPT ![h].pc = "close_send"]
  /\ UNCHANGED <<storeVars, brokerVars, recent>>

\* No price, a duplicate, or a failed preflight.
CloseRefused(h) ==
  /\ handler[h].pc = "close" /\ handler[h].todo # {}
  /\ Drop(h)
  /\ UNCHANGED <<storeVars, brokerVars, recent>>

\* The order is for the entry quantity, whatever remains of the row.
CloseSend(h) ==
  /\ handler[h].pc = "close_send"
  /\ PlaceOrder(TargetRow(h).symbol, Opposite(TargetRow(h).side), TargetRow(h).qty)
  /\ Record(TargetKey(h))
  /\ handler' = [handler EXCEPT ![h].pc = "close_db"]
  /\ UNCHANGED storeVars

\* place_order raised: the row stays open, though the order may have left.
CloseSendFailed(h) ==
  /\ handler[h].pc = "close_send"
  /\ \/ PlaceOrder(TargetRow(h).symbol, Opposite(TargetRow(h).side), TargetRow(h).qty)
     \/ UNCHANGED brokerVars
  /\ Drop(h)
  /\ UNCHANGED <<storeVars, recent>>

CloseDb(h) ==
  /\ handler[h].pc = "close_db"
  /\ CloseTrade(Target(h), "MANUAL")
  /\ Drop(h)
  /\ UNCHANGED <<brokerVars, recent>>

\* close_trade raised, after the order was sent.
CloseDbFailed(h) ==
  /\ handler[h].pc = "close_db"
  /\ Drop(h)
  /\ UNCHANGED <<storeVars, brokerVars, recent>>

CloseDone(h) ==
  /\ handler[h].pc = "close" /\ handler[h].todo = {}
  /\ Finish(h)
  /\ UNCHANGED <<storeVars, brokerVars, recent>>

ApiRequest(h) ==
  \/ \E sym \in Symbols, side \in EntrySides : PlaceRequest(h, sym, side)
  \/ \E sym \in Symbols : CloseRequest(h, sym)
  \/ CloseAllRequest(h)

ApiStep(h) ==
  \/ PlaceCheck(h) \/ PlaceRefused(h) \/ PlaceSend(h) \/ PlaceSendFailed(h)
  \/ PlaceInsert(h) \/ PlaceInsertFailed(h)
  \/ CloseCheck(h) \/ CloseRefused(h) \/ CloseSend(h) \/ CloseSendFailed(h)
  \/ CloseDb(h) \/ CloseDbFailed(h) \/ CloseDone(h)

ApiInit == handler = [h \in Handlers |-> HandlerIdle]
ApiTypeOK == handler \in [Handlers -> HandlerState]
=============================================================================
