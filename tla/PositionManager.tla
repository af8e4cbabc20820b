--------------------------- MODULE PositionManager ---------------------------
(***************************************************************************)
(* The position_manager job (positions/manager.py).  check_positions holds *)
(* a lock for the whole pass, reads the open rows once and works on those  *)
(* copies: partial exit, trailing stop, then stop loss or take profit.     *)
(* Where the price stands is left open here; ExitRules models it.          *)
(***************************************************************************)
EXTENDS SignalProcessor

VARIABLE mgr   \* the pass's local state

mgrIdle == [pc |-> "idle", todo |-> {}, snap |-> [t \in TradeIds |-> NoRow],
            qty |-> 0, reason |-> "none"]

MgrState ==
  [pc: {"idle", "price", "open", "send", "db", "trail", "exit"}, todo: SUBSET TradeIds,
   snap: [TradeIds -> Row], qty: Nat,
   reason: {"none", "EXIT", "PARTIAL_50PCT", "PARTIAL_FULL"}]

Mine == First(mgr.todo)
MyRow == mgr.snap[Mine]
Partial == mgr.reason \in {"PARTIAL_50PCT", "PARTIAL_FULL"}
MyKey == ExitKey(MyRow.symbol, Opposite(MyRow.side), Mine, mgr.reason)

MgrLocal == UNCHANGED <<storeVars, brokerVars, recent>>

MgrStart ==
  /\ mgr.pc = "idle"
  /\ GetOpenTrades # {}
  /\ mgr' = [mgrIdle EXCEPT !.pc = "price", !.todo = GetOpenTrades,
       !.snap = [t \in TradeIds |-> IF t \in GetOpenTrades THEN trades[t] ELSE NoRow]]
  /\ MgrLocal

NextTrade == [mgr EXCEPT !.pc = "price", !.todo = @ \ {Mine}, !.snap[Mine] = NoRow,
                         !.qty = 0, !.reason = "none"]

MgrNoPrice ==
  /\ mgr.pc = "price" /\ mgr.todo # {}
  /\ mgr' = NextTrade
  /\ MgrLocal

\* PartialExitManager.check_exit: half of what remains, or all of it when half
\* would leave less than MinRemaining.
Half(row) == Total(row) \div 2
ExitsAll(row) == Total(row) - Half(row) < MinRemaining

\* Mutant of MgrPartial: a full exit is for the entry quantity, not for what remains.
PartialOfEntry ==
  /\ mgr.pc = "price" /\ mgr.todo # {}
  /\ ~MyRow.partialDone
  /\ mgr' = [mgr EXCEPT !.pc = "open",
       !.qty = IF ExitsAll(MyRow) THEN MyRow.qty ELSE Half(MyRow),
       !.reason = IF ExitsAll(MyRow) THEN "PARTIAL_FULL" ELSE "PARTIAL_50PCT"]
  /\ MgrLocal

MgrPartial ==
  /\ mgr.pc = "price" /\ mgr.todo # {}
  /\ ~MyRow.partialDone
  /\ mgr' = [mgr EXCEPT !.pc = "open",
       !.qty = IF ExitsAll(MyRow) THEN Total(MyRow) ELSE Half(MyRow),
       !.reason = IF ExitsAll(MyRow) THEN "PARTIAL_FULL" ELSE "PARTIAL_50PCT"]
  /\ MgrLocal

MgrNoPartial ==
  /\ mgr.pc = "price" /\ mgr.todo # {}
  /\ mgr' = [mgr EXCEPT !.pc = "trail"]
  /\ MgrLocal

\* _is_trade_open, the duplicate window and the preflight.
MgrMayClose ==
  /\ mgr.pc = "open"
  /\ trades[Mine].status = "OPEN"
  /\ ~IsDuplicate(MyKey)
  /\ mgr' = [mgr EXCEPT !.pc = "send"]
  /\ MgrLocal

\* After a refused 50% exit the pass goes on to the trailing stop; after any other
\* refused exit, to the next row.
AfterExit ==
  IF mgr.reason = "PARTIAL_50PCT"
    THEN [mgr EXCEPT !.pc = "trail", !.qty = 0, !.reason = "none"]
    ELSE NextTrade

MgrRefused ==
  /\ mgr.pc = "open"
  /\ mgr' = AfterExit
  /\ MgrLocal

MgrSend ==
  /\ mgr.pc = "send"
  /\ PlaceOrder(MyRow.symbol, Opposite(MyRow.side), mgr.qty)
  /\ Record(MyKey)
  /\ mgr' = [mgr EXCEPT !.pc = "db"]
  /\ UNCHANGED storeVars

\* place_order raised; the exception is logged and the row is updated all the same.
MgrSendFailed ==
  /\ mgr.pc = "send"
  /\ \/ PlaceOrder(MyRow.symbol, Opposite(MyRow.side), mgr.qty)
     \/ UNCHANGED brokerVars
  /\ mgr' = [mgr EXCEPT !.pc = "db"]
  /\ UNCHANGED <<storeVars, recent>>

\* `remaining - qty if remaining else quantity - qty`.
Reduced(row) == Total(row) - mgr.qty

\* Mutant of MgrPartialDb: the copy keeps the old remaining quantity.
PartialForgetsCopy ==
  /\ mgr.pc = "db" /\ Partial
  /\ UpdateTradeStatus(Mine, "PARTIAL", Reduced(MyRow))
  /\ mgr' = IF mgr.reason = "PARTIAL_FULL" THEN NextTrade
             ELSE [AfterExit EXCEPT !.snap[Mine].partialDone = TRUE]
  /\ UNCHANGED <<brokerVars, recent>>

\* A partial exit: the copy and the row are updated, but partial_exit_done only
\* in the copy.
MgrPartialDb ==
  /\ mgr.pc = "db" /\ Partial
  /\ UpdateTradeStatus(Mine, "PARTIAL", Reduced(MyRow))
  /\ mgr' = IF mgr.reason = "PARTIAL_FULL" THEN NextTrade
             ELSE [AfterExit EXCEPT !.snap[Mine].remaining = Reduced(MyRow),
                                    !.snap[Mine].partialDone = TRUE]
  /\ UNCHANGED <<brokerVars, recent>>

MgrCloseDb ==
  /\ mgr.pc = "db" /\ ~Partial
  /\ CloseTrade(Mine, "EXIT")
  /\ mgr' = NextTrade
  /\ UNCHANGED <<brokerVars, recent>>

\* The stop moved: update_trade_status writes the copy's trade_status back.
MgrTrail ==
  /\ mgr.pc = "trail"
  /\ UpdateTradeStatus(Mine, MyRow.tstatus, trades[Mine].remaining)
  /\ mgr' = [mgr EXCEPT !.pc = "exit"]
  /\ UNCHANGED <<brokerVars, recent>>

MgrNoTrail ==
  /\ mgr.pc = "trail"
  /\ mgr' = [mgr EXCEPT !.pc = "exit"]
  /\ MgrLocal

MgrExit ==
  /\ mgr.pc = "exit"
  /\ mgr' = [mgr EXCEPT !.pc = "open", !.qty = Total(MyRow), !.reason = "EXIT"]
  /\ MgrLocal

MgrHold ==
  /\ mgr.pc = "exit"
  /\ mgr' = NextTrade
  /\ MgrLocal

\* The database raised (_is_trade_open, update_trade_status or close_trade): nothing
\* catches it, and the pass is over.
MgrAborted ==
  /\ mgr.pc \in {"open", "db", "trail"}
  /\ mgr' = mgrIdle
  /\ MgrLocal

MgrEnd ==
  /\ mgr.pc = "price" /\ mgr.todo = {}
  /\ mgr' = mgrIdle
  /\ MgrLocal

MgrStep ==
  \/ MgrNoPrice \/ MgrPartial \/ MgrNoPartial \/ MgrMayClose \/ MgrRefused
  \/ MgrSend \/ MgrSendFailed \/ MgrPartialDb \/ MgrCloseDb
  \/ MgrTrail \/ MgrNoTrail \/ MgrExit \/ MgrHold
  \/ MgrAborted \/ MgrEnd

MgrInit == mgr = mgrIdle
MgrTypeOK == mgr \in MgrState
=============================================================================
