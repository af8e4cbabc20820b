------------------------- MODULE TradingLedgerProofs -------------------------
(***************************************************************************)
(* Theorems about what TradingSystem writes in the trades table: that the  *)
(* rows match the broker's orders, that the table implements TradeLedger,  *)
(* and that the remaining quantities stay in range.                        *)
(***************************************************************************)
EXTENDS TradingSystemProofs

---------------------------------------------------------------------------
(* What a step can do to the table. *)

Books(sym, side, order) == InsertTrade(sym, side, EntryQty, EntryQty, "FILLED", order)

Adopts ==
  \E sym \in Symbols, side \in Sides, qty \in Nat :
    InsertTrade(sym, side, qty, None, "PENDING", None)

Closes ==
  \E t \in TradeIds, why \in CloseReasons : t <= lastTrade /\ CloseTrade(t, why)

Updates ==
  \E t \in TradeIds, tstatus \in {"PENDING", "FILLED", "PARTIAL", "CLOSED"},
     remaining \in Nat \cup {None} :
    t <= lastTrade /\ UpdateTradeStatus(t, tstatus, remaining)

\* A thread that has placed an entry order and not booked it yet.
LoopHolds == loop.pc = "insert"
HandlerHolds(h) == handler[h].pc = "place_insert"

\* No thread comes to hold an unbooked order.
NoNewHolder ==
  /\ loop' = loop \/ loop'.pc # "insert"
  /\ \A h \in Handlers : handler'[h] = handler[h] \/ handler'[h].pc # "place_insert"

QuietStep == NoNewHolder /\ (UNCHANGED storeVars \/ Adopts \/ Closes)
UpdateStep == NoNewHolder /\ Updates

LoopPlaces == LoopPlace /\ UNCHANGED handler
LoopBooks == LoopInsert /\ UNCHANGED handler
HandlerPlaces(h) == PlaceSend(h) /\ UNCHANGED loop
HandlerBooks(h) == PlaceInsert(h) /\ UNCHANGED loop

\* The steps of one request thread leave the others where they are.
LEMMA QuietHandler ==
  ASSUME NEW h \in Handlers, NEW local, ApiInv, UNCHANGED loop,
         handler' = [handler EXCEPT ![h] = local], local.pc # "place_insert"
  PROVE  NoNewHolder
BY DEF NoNewHolder, ApiInv, ApiTypeOK

LEMMA QuietLoop ==
  ASSUME UNCHANGED handler, UNCHANGED loop \/ loop'.pc # "insert"
  PROVE  NoNewHolder
BY DEF NoNewHolder

LEMMA SignalEffects ==
  ASSUME TypeInv, SignalJob
  PROVE  QuietStep \/ LoopPlaces \/ LoopBooks
<1>1. UNCHANGED handler /\ loop \in LoopState
  BY DEF SignalJob, TypeInv, SignalInv, SignalTypeOK
<1>2. CASE LoopPlace \/ LoopInsert
  BY <1>1, <1>2 DEF LoopPlaces, LoopBooks
<1>3. CASE LoopSkipOpen \/ LoopIgnore \/ LoopGiveUp \/ LoopPlaceFailed \/ LoopInsertFailed
           \/ LoopMark
  <2>1. UNCHANGED storeVars /\ Advance
    BY <1>3
    DEF LoopSkipOpen, LoopIgnore, LoopGiveUp, LoopPlaceFailed, LoopInsertFailed, LoopMark
  <2>2. loop'.pc = "next"
    BY <1>1, <2>1 DEF Advance, LoopState
  <2> QED
    BY <1>1, <2>1, <2>2, QuietLoop DEF QuietStep
<1>4. CASE LoopStart \/ LoopCheck \/ LoopEnd \/ LoopMarkFailed
  <2>1. CASE LoopStart
    BY <1>1, <2>1, QuietLoop DEF LoopStart, LoopIdle, QuietStep
  <2>2. CASE LoopCheck
    <3>1. loop'.pc = "place" /\ UNCHANGED storeVars
      BY <1>1, <2>2 DEF LoopCheck, LoopState
    <3> QED
      BY <1>1, <3>1, QuietLoop DEF QuietStep
  <2>3. CASE LoopEnd \/ LoopMarkFailed
    BY <1>1, <2>3, QuietLoop DEF LoopEnd, LoopMarkFailed, LoopIdle, QuietStep
  <2> QED
    BY <1>4, <2>1, <2>2, <2>3
<1>5. ASSUME NEW side \in EntrySides, LoopDecide(side)
      PROVE  QuietStep
  <2>1. UNCHANGED storeVars /\ loop'.pc # "insert"
    BY <1>1, <1>5 DEF LoopDecide, LoopState
  <2> QED
    BY <1>1, <2>1, QuietLoop DEF QuietStep
<1>6. ASSUME NEW s \in Signals, InsertSignal(s)
      PROVE  QuietStep
  BY <1>1, <1>6, QuietLoop DEF InsertSignal, QuietStep
<1> QED
  BY <1>2, <1>3, <1>4, <1>5, <1>6 DEF SignalJob, SignalNext

LEMMA ApiEffects ==
  ASSUME TypeInv, NEW h \in Handlers, ApiThread(h)
  PROVE  QuietStep \/ HandlerPlaces(h) \/ HandlerBooks(h)
<1>1. /\ UNCHANGED loop /\ handler[h] \in HandlerState /\ ApiInv /\ StoreInv
      /\ HandlerIdle.pc = "idle" /\ handler \in [Handlers -> HandlerState]
  BY DEF ApiThread, signalVars, TypeInv, ApiInv, ApiTypeOK, HandlerIdle
<1>2. CASE PlaceSend(h) \/ PlaceInsert(h)
  BY <1>1, <1>2 DEF HandlerPlaces, HandlerBooks
<1>3. CASE CloseDb(h)
  <2>1. handler[h].todo # {}
    BY <1>1, <1>3 DEF CloseDb, ApiInv, HandlerInv
  <2>2. Closes
    BY <1>1, <1>3, <2>1, TargetIsUsed DEF CloseDb, Closes, CloseReasons
  <2>3. NoNewHolder
    BY <1>1, <1>3 DEF CloseDb, Drop, NoNewHolder, HandlerState
  <2> QED
    BY <2>2, <2>3 DEF QuietStep
<1>4. CASE PlaceRefused(h) \/ PlaceSendFailed(h) \/ PlaceInsertFailed(h) \/ CloseDone(h)
  <2>1. UNCHANGED storeVars /\ Finish(h)
    BY <1>4 DEF PlaceRefused, PlaceSendFailed, PlaceInsertFailed, CloseDone
  <2> QED
    BY <1>1, <2>1, QuietHandler DEF Finish, QuietStep
<1>5. CASE CloseRefused(h) \/ CloseSendFailed(h) \/ CloseDbFailed(h)
  <2>1. UNCHANGED storeVars /\ Drop(h)
    BY <1>5 DEF CloseRefused, CloseSendFailed, CloseDbFailed
  <2>2. NoNewHolder
    BY <1>1, <2>1 DEF Drop, NoNewHolder, HandlerState
  <2> QED
    BY <2>1, <2>2 DEF QuietStep
<1>6. CASE PlaceCheck(h) \/ CloseCheck(h) \/ CloseSend(h)
  BY <1>1, <1>6
  DEF PlaceCheck, CloseCheck, CloseSend, NoNewHolder, HandlerState, QuietStep
<1>7. ASSUME NEW sym \in Symbols, NEW side \in EntrySides, PlaceRequest(h, sym, side)
      PROVE  QuietStep
  BY <1>1, <1>7 DEF PlaceRequest, NoNewHolder, HandlerState, QuietStep
<1>8. ASSUME NEW sym \in Symbols, CloseRequest(h, sym)
      PROVE  QuietStep
  BY <1>1, <1>8 DEF CloseRequest, NoNewHolder, HandlerState, QuietStep
<1>9. CASE CloseAllRequest(h)
  BY <1>1, <1>9 DEF CloseAllRequest, NoNewHolder, HandlerState, QuietStep
<1> QED
  BY <1>2, <1>3, <1>4, <1>5, <1>6, <1>7, <1>8, <1>9
  DEF ApiThread, ApiStep, ApiRequest

LEMMA MgrEffects ==
  ASSUME TypeInv, ManagerJob
  PROVE  QuietStep \/ UpdateStep
<1>1. StoreInv /\ MgrInv /\ UNCHANGED loop /\ UNCHANGED handler
  BY DEF TypeInv, ManagerJob, signalVars
<1>2. CASE MgrTrail
  <2>1. mgr.todo # {}
    BY <1>1, <1>2 DEF MgrTrail, MgrInv
  <2>2. /\ Mine \in TradeIds /\ Mine <= lastTrade
        /\ MyRow.tstatus \in {"PENDING", "FILLED", "PARTIAL", "CLOSED"}
        /\ trades[Mine].remaining \in Nat \cup {None}
    BY <1>1, <2>1, MineIsUsed DEF StoreInv, StoreTypeOK, Row
  <2> QED
    BY <1>1, <1>2, <2>2, QuietLoop DEF MgrTrail, Updates, UpdateStep
<1>3. CASE MgrPartialDb
  <2>1. mgr.todo # {} /\ mgr.qty \in Nat /\ mgr.qty <= Total(MyRow)
    BY <1>1, <1>3 DEF MgrPartialDb, MgrInv, MgrTypeOK, MgrState
  <2>2. Mine \in TradeIds /\ Mine <= lastTrade /\ Reduced(MyRow) \in Nat
    BY <1>1, <2>1, MineIsUsed DEF Reduced
  <2> QED
    BY <1>1, <1>3, <2>2, QuietLoop DEF MgrPartialDb, Updates, UpdateStep
<1>4. CASE MgrCloseDb
  <2>1. Mine \in TradeIds /\ Mine <= lastTrade
    BY <1>1, <1>4, MineIsUsed DEF MgrCloseDb, MgrInv
  <2> QED
    BY <1>1, <1>4, <2>1, QuietLoop DEF MgrCloseDb, Closes, CloseReasons, QuietStep
<1>5. ASSUME ~MgrTrail, ~MgrPartialDb, ~MgrCloseDb PROVE UNCHANGED storeVars
  BY <1>5
  DEF ManagerJob, MgrStart, MgrStep, MgrNoPrice, MgrPartial, MgrNoPartial, MgrMayClose,
      MgrRefused, MgrSend, MgrSendFailed, MgrNoTrail, MgrExit, MgrHold, MgrAborted,
      MgrEnd, MgrLocal
<1> QED
  BY <1>1, <1>2, <1>3, <1>4, <1>5, QuietLoop DEF QuietStep

LEMMA RecEffects ==
  ASSUME TypeInv, NEW r \in Reconcilers, RecStart(r) \/ RecStep(r) \/ RecDbFailed(r),
         UNCHANGED loop, UNCHANGED handler
  PROVE  QuietStep
<1>1. /\ StoreInv /\ rec[r].db \in SUBSET TradeIds /\ rec[r].ib \in [Symbols -> Int]
      /\ \A t \in rec[r].db : t <= lastTrade
  BY DEF TypeInv, RecInv, RecTypeOK, RecState
<1>2. CASE RecClose(r)
  <2>1. Ghosts(r) \in SUBSET Nat /\ Ghosts(r) # {} /\ Ghosts(r) \subseteq rec[r].db
    BY <1>1, <1>2, StoreAssumption DEF RecClose, Ghosts, TradeIds
  <2>2. First(Ghosts(r)) \in TradeIds /\ First(Ghosts(r)) <= lastTrade
    BY <1>1, <2>1, FirstIsMember
  <2> QED
    BY <1>2, <2>2, QuietLoop DEF RecClose, Closes, CloseReasons, QuietStep
<1>3. ASSUME NEW sym \in Symbols, RecCreate(r, sym)
      PROVE  QuietStep
  <2> DEFINE held == rec[r].ib[sym]
             side == IF held > 0 THEN "BUY" ELSE "SELL"
             qty == IF held > 0 THEN held ELSE -held
  <2>1. side \in Sides /\ qty \in Nat
    BY <1>1 DEF Sides
  <2>2. InsertTrade(sym, side, qty, None, "PENDING", None)
    BY <1>3 DEF RecCreate
  <2> HIDE DEF side, qty
  <2> QED
    BY <2>1, <2>2, QuietLoop DEF Adopts, QuietStep
<1>4. ASSUME ~RecClose(r), \A sym \in Symbols : ~RecCreate(r, sym)
      PROVE  UNCHANGED storeVars
  BY <1>4
  DEF RecStart, RecStep, RecPortfolio, RecPortfolioFailed, RecDbFailed, RecEnd, RecLocal
<1> QED
  BY <1>2, <1>3, <1>4, QuietLoop DEF QuietStep

LEMMA StepEffects ==
  ASSUME TypeInv, [Next]_vars
  PROVE  \/ QuietStep \/ LoopPlaces \/ LoopBooks
         \/ ManagerJob /\ UpdateStep
         \/ \E h \in Handlers : HandlerPlaces(h) \/ HandlerBooks(h)
<1>1. CASE UNCHANGED vars \/ BootOffline \/ BootDone \/ Exchange \/ WindowExpires
  BY <1>1, QuietLoop
  DEF vars, sharedVars, signalVars, BootOffline, BootDone, Exchange, WindowExpires, QuietStep
<1>2. CASE Crash
  BY <1>2 DEF Crash, QuietStep, NoNewHolder, LoopIdle, HandlerIdle
<1>3. CASE BootReconcile \/ BootFailed
  BY <1>3, RecEffects, SystemAssumption DEF BootReconcile, BootFailed, signalVars
<1>4. ASSUME NEW r \in Reconcilers, ReconcilerStart(r) \/ ReconcilerThread(r)
      PROVE  QuietStep
  BY <1>4, RecEffects DEF ReconcilerStart, ReconcilerThread, signalVars
<1> QED
  BY <1>1, <1>2, <1>3, <1>4, SignalEffects, ApiEffects, MgrEffects DEF Next

---------------------------------------------------------------------------
(* The rows match the orders.  Inductive because an order that a thread has placed
   and not booked yet is no row's, and no other thread's. *)

\* An accepted entry order that no row names.
Unbooked(order, sym, side) ==
  /\ order \in 1 .. lastOrder
  /\ orders[order] = [symbol |-> sym, side |-> side, qty |-> EntryQty]
  /\ \A t \in TradeIds : trades[t].order # order

HoldersDiffer ==
  /\ \A h \in Handlers : LoopHolds /\ HandlerHolds(h) => loop.order # handler[h].order
  /\ \A g, h \in Handlers :
       HandlerHolds(g) /\ HandlerHolds(h) /\ g # h => handler[g].order # handler[h].order

LoopBooking == LoopHolds => Unbooked(loop.order, CurrentSymbol, loop.side)

HandlerBooking(h) ==
  HandlerHolds(h) => Unbooked(handler[h].order, handler[h].symbol, handler[h].side)

BookInv ==
  /\ RowsMatchOrders
  /\ LoopBooking
  /\ \A h \in Handlers : HandlerBooking(h)
  /\ HoldersDiffer

\* The rows that name an order are the rows that named it before.
OnlyOldOrders ==
  \A t \in TradeIds :
    trades'[t].order = None \/ TermsOf(trades'[t]) = TermsOf(trades[t])

LEMMA ClosedTerms ==
  ASSUME NEW row \in Row, NEW why
  PROVE  TermsOf([row EXCEPT !.status = "CLOSED", !.tstatus = "CLOSED", !.reason = why])
           = TermsOf(row)
BY DEF TermsOf, Row

LEMMA QuietRows ==
  ASSUME StoreInv, UNCHANGED storeVars \/ Adopts \/ Closes \/ Updates
  PROVE  OnlyOldOrders
<1> USE DEF OnlyOldOrders, StoreInv, StoreTypeOK
<1>1. CASE UNCHANGED storeVars
  BY <1>1 DEF storeVars
<1>2. CASE Adopts
  BY <1>2 DEF Adopts, InsertTrade
<1>3. ASSUME NEW t \in TradeIds, NEW why \in CloseReasons, CloseTrade(t, why)
      PROVE  OnlyOldOrders
  BY <1>3, ClosedTerms DEF CloseTrade
<1>4. ASSUME NEW t \in TradeIds, NEW tstatus, NEW remaining,
             UpdateTradeStatus(t, tstatus, remaining)
      PROVE  OnlyOldOrders
  <2>1. trades[t] \in Row /\ \A u \in TradeIds \ {t} : trades'[u] = trades[u]
    BY <1>4 DEF UpdateTradeStatus
  <2>2. trades'[t] = [trades[t] EXCEPT !.tstatus = tstatus, !.remaining = remaining]
    BY <1>4 DEF UpdateTradeStatus
  <2>3. TermsOf(trades'[t]) = TermsOf(trades[t])
    BY <2>1, <2>2 DEF TermsOf, Row
  <2>4. \A u \in TradeIds : TermsOf(trades'[u]) = TermsOf(trades[u])
    BY <2>1, <2>3, Zenon
  <2> QED
    BY <2>4, Zenon
<1> QED
  BY <1>1, <1>2, <1>3, <1>4 DEF Closes, Updates

\* What the rows that name an order after a quiet step say of it.
LEMMA OldRow ==
  ASSUME OnlyOldOrders, NEW t \in TradeIds, trades'[t].order # None
  PROVE  /\ trades'[t].order = trades[t].order
         /\ trades'[t].symbol = trades[t].symbol
         /\ trades'[t].side = trades[t].side
         /\ trades'[t].qty = trades[t].qty
BY DEF OnlyOldOrders, TermsOf

LEMMA OrderKept ==
  ASSUME BrokerInv, BrokerInv', OrdersKept, NEW order \in 1 .. lastOrder
  PROVE  order \in 1 .. lastOrder' /\ orders'[order] = orders[order]
BY DEF BrokerInv, BrokerTypeOK, OrdersKept

LEMMA UnbookedKept ==
  ASSUME BrokerInv, BrokerInv', OrdersKept, OnlyOldOrders,
         NEW order, NEW sym, NEW side, Unbooked(order, sym, side)
  PROVE  Unbooked(order, sym, side)'
<1>1. order \in 1 .. lastOrder /\ order # None
  BY DEF Unbooked, None
<1>2. order \in 1 .. lastOrder' /\ orders'[order] = orders[order]
  BY <1>1, OrderKept
<1>3. \A t \in TradeIds : trades'[t].order # order
  BY <1>1, OldRow DEF Unbooked
<1> QED
  BY <1>2, <1>3 DEF Unbooked

LEMMA RowsStillMatch ==
  ASSUME BrokerInv, BrokerInv', OrdersKept, OnlyOldOrders, RowsMatchOrders
  PROVE  RowsMatchOrders'
<1> SUFFICES ASSUME NEW t \in TradeIds, trades'[t].order # None
             PROVE  /\ trades'[t].order \in 1 .. lastOrder'
                    /\ orders'[trades'[t].order] =
                         [symbol |-> trades'[t].symbol, side |-> trades'[t].side,
                          qty |-> trades'[t].qty]
                    /\ \A u \in TradeIds : trades'[u].order = trades'[t].order => u = t
  BY DEF RowsMatchOrders
<1>1. trades[t].order \in 1 .. lastOrder
  BY OldRow DEF RowsMatchOrders
<1>2. /\ trades[t].order \in 1 .. lastOrder'
      /\ orders'[trades[t].order] = orders[trades[t].order]
  BY <1>1, OrderKept
<1>3. ASSUME NEW u \in TradeIds, trades'[u].order = trades'[t].order
      PROVE  u = t
  <2>1. trades'[u].order = trades[u].order /\ trades'[t].order = trades[t].order
    BY <1>3, OldRow
  <2>2. trades[t].order # None
    BY <2>1
  <2> QED
    BY <1>3, <2>1, <2>2 DEF RowsMatchOrders
<1> QED
  BY <1>2, <1>3, OldRow DEF RowsMatchOrders

---------------------------------------------------------------------------
(* One lemma for each kind of step. *)

LEMMA QuietKeepsBooks ==
  ASSUME StoreInv, BrokerInv, BrokerInv', OrdersKept, BookInv, QuietStep \/ UpdateStep
  PROVE  BookInv'
<1>1. OnlyOldOrders
  BY QuietRows DEF QuietStep, UpdateStep
<1>2. RowsMatchOrders'
  BY <1>1, RowsStillMatch DEF BookInv
<1>3. LoopBooking'
  <2> SUFFICES ASSUME LoopHolds' PROVE Unbooked(loop.order, CurrentSymbol, loop.side)'
    BY DEF LoopBooking
  <2>1. UNCHANGED loop /\ Unbooked(loop.order, CurrentSymbol, loop.side)
    BY DEF LoopHolds, QuietStep, UpdateStep, NoNewHolder, BookInv, LoopBooking
  <2> QED
    BY <1>1, <2>1, UnbookedKept DEF Unbooked, CurrentSymbol, Current
<1>4. ASSUME NEW h \in Handlers PROVE HandlerBooking(h)'
  <2> SUFFICES ASSUME HandlerHolds(h)'
               PROVE  Unbooked(handler[h].order, handler[h].symbol, handler[h].side)'
    BY DEF HandlerBooking
  <2>1. /\ handler'[h] = handler[h]
        /\ Unbooked(handler[h].order, handler[h].symbol, handler[h].side)
    BY DEF HandlerHolds, QuietStep, UpdateStep, NoNewHolder, BookInv, HandlerBooking
  <2> QED
    BY <1>1, <2>1, UnbookedKept DEF Unbooked
<1>5. HoldersDiffer'
  BY DEF HoldersDiffer, BookInv, QuietStep, UpdateStep, NoNewHolder, LoopHolds, HandlerHolds
<1> QED
  BY <1>2, <1>3, <1>4, <1>5 DEF BookInv

\* A booking writes one new row, which names the order that was held.
LEMMA BookedRows ==
  ASSUME StoreInv, NEW sym \in Symbols, NEW side \in Sides, NEW order \in Nat,
         Books(sym, side, order)
  PROVE  /\ lastTrade + 1 \in TradeIds
         /\ \A t \in TradeIds \ {lastTrade + 1} : trades'[t] = trades[t]
         /\ trades'[lastTrade + 1].order = order
         /\ trades'[lastTrade + 1].symbol = sym
         /\ trades'[lastTrade + 1].side = side
         /\ trades'[lastTrade + 1].qty = EntryQty
BY StoreAssumption DEF Books, InsertTrade, StoreInv, StoreTypeOK, TradeIds

\* The rows still match after one booking, and the orders that others hold stay free.
LEMMA BookingKeepsRows ==
  ASSUME StoreInv, BrokerInv, UNCHANGED brokerVars, RowsMatchOrders,
         NEW sym \in Symbols, NEW side \in Sides, NEW order,
         Unbooked(order, sym, side), Books(sym, side, order)
  PROVE  /\ RowsMatchOrders'
         /\ \A o, s, d : o # order /\ Unbooked(o, s, d) => Unbooked(o, s, d)'
<1>1. order \in 1 .. lastOrder /\ order \in Nat /\ order # None
  BY DEF Unbooked, BrokerInv, BrokerTypeOK, None
<1> DEFINE new == lastTrade + 1
<1>2. /\ new \in TradeIds
      /\ \A t \in TradeIds \ {new} : trades'[t] = trades[t]
      /\ trades'[new].order = order
      /\ trades'[new].symbol = sym
      /\ trades'[new].side = side
      /\ trades'[new].qty = EntryQty
  BY <1>1, BookedRows
<1>3. \A t \in TradeIds : trades[t].order # order
  BY DEF Unbooked
<1>4. orders' = orders /\ lastOrder' = lastOrder
  BY DEF brokerVars
<1> HIDE DEF new
<1>5. ASSUME NEW t \in TradeIds, trades'[t].order # None
      PROVE  /\ trades'[t].order \in 1 .. lastOrder
             /\ orders[trades'[t].order] =
                  [symbol |-> trades'[t].symbol, side |-> trades'[t].side,
                   qty |-> trades'[t].qty]
             /\ \A u \in TradeIds : trades'[u].order = trades'[t].order => u = t
  <2>1. CASE t = new
    BY <1>1, <1>2, <1>3, <2>1 DEF Unbooked
  <2>2. CASE t # new
    <3>1. trades'[t] = trades[t] /\ trades'[t].order # order
      BY <1>2, <1>3, <2>2
    <3> QED
      BY <1>2, <1>5, <3>1 DEF RowsMatchOrders
  <2> QED
    BY <2>1, <2>2
<1>6. ASSUME NEW o, NEW s, NEW d, o # order, Unbooked(o, s, d)
      PROVE  Unbooked(o, s, d)'
  <2>1. \A t \in TradeIds : trades'[t].order # o
    BY <1>2, <1>6 DEF Unbooked
  <2> QED
    BY <1>4, <1>6, <2>1 DEF Unbooked
<1> QED
  BY <1>4, <1>5, <1>6 DEF RowsMatchOrders

LEMMA LoopBooksKeepsBooks ==
  ASSUME StoreInv, BrokerInv, SignalInv, ApiInv, BookInv, LoopBooks
  PROVE  BookInv'
<1>1. /\ LoopHolds /\ Unbooked(loop.order, CurrentSymbol, loop.side)
      /\ CurrentSymbol \in Symbols /\ loop.side \in Sides
  BY CurrentIsPending, SignalAssumption
  DEF LoopBooks, LoopInsert, LoopHolds, BookInv, LoopBooking, SignalInv, SignalTypeOK,
      LoopState, CurrentSymbol
<1>2. Books(CurrentSymbol, loop.side, loop.order) /\ UNCHANGED brokerVars
      /\ UNCHANGED handler
  BY DEF LoopBooks, LoopInsert, Books
<1>3. loop'.pc = "mark"
  BY DEF LoopBooks, LoopInsert, SignalInv, SignalTypeOK, LoopState
<1>4. /\ RowsMatchOrders'
      /\ \A o, s, d : o # loop.order /\ Unbooked(o, s, d) => Unbooked(o, s, d)'
  BY <1>1, <1>2, BookingKeepsRows DEF BookInv
<1>5. ASSUME NEW h \in Handlers PROVE HandlerBooking(h)'
  BY <1>1, <1>2, <1>4 DEF HandlerBooking, HandlerHolds, BookInv, HoldersDiffer, Unbooked
<1> QED
  BY <1>1, <1>2, <1>3, <1>4, <1>5
  DEF BookInv, LoopBooking, LoopHolds, HandlerHolds, HoldersDiffer

LEMMA HandlerBooksKeepsBooks ==
  ASSUME StoreInv, BrokerInv, SignalInv, ApiInv, BookInv,
         NEW h \in Handlers, HandlerBooks(h)
  PROVE  BookInv'
<1> DEFINE order == handler[h].order
           sym == handler[h].symbol
           side == handler[h].side
<1>1. HandlerHolds(h) /\ Unbooked(order, sym, side) /\ sym \in Symbols /\ side \in Sides
  BY DEF HandlerBooks, PlaceInsert, HandlerHolds, BookInv, HandlerBooking, ApiInv,
         ApiTypeOK, HandlerInv, HandlerState
<1>2. Books(sym, side, order) /\ UNCHANGED brokerVars /\ UNCHANGED loop
  BY DEF HandlerBooks, PlaceInsert, Books
<1>3. /\ handler'[h].pc = "idle"
      /\ \A g \in Handlers \ {h} : handler'[g] = handler[g]
  BY DEF HandlerBooks, PlaceInsert, Finish, HandlerIdle, ApiInv, ApiTypeOK
<1>4. /\ RowsMatchOrders'
      /\ \A o, s, d : o # order /\ Unbooked(o, s, d) => Unbooked(o, s, d)'
  BY <1>1, <1>2, BookingKeepsRows DEF BookInv
<1> HIDE DEF sym, side
<1>5. ASSUME NEW g \in Handlers PROVE HandlerBooking(g)'
  BY <1>1, <1>3, <1>4 DEF HandlerBooking, HandlerHolds, BookInv, HoldersDiffer, Unbooked
<1>6. LoopBooking'
  <2> SUFFICES ASSUME LoopHolds' PROVE Unbooked(loop.order, CurrentSymbol, loop.side)'
    BY DEF LoopBooking
  <2>1. LoopHolds /\ Unbooked(loop.order, CurrentSymbol, loop.side) /\ loop.order # order
    BY <1>1, <1>2 DEF LoopHolds, BookInv, LoopBooking, HoldersDiffer
  <2> QED
    BY <1>2, <1>4, <2>1 DEF Unbooked, CurrentSymbol, Current
<1>7. HoldersDiffer'
  BY <1>2, <1>3 DEF BookInv, HoldersDiffer, LoopHolds, HandlerHolds
<1> QED
  BY <1>4, <1>5, <1>6, <1>7 DEF BookInv

\* A new order is nobody's and no row's.
LEMMA PlacedIsUnbooked ==
  ASSUME StoreInv, BrokerInv, BookInv, NEW sym \in Symbols, NEW side \in Sides,
         NEW new, new = lastOrder + 1,
         PlaceOrder(sym, side, EntryQty), UNCHANGED storeVars
  PROVE  /\ Unbooked(new, sym, side)'
         /\ RowsMatchOrders'
         /\ \A o, s, d : Unbooked(o, s, d) => Unbooked(o, s, d)' /\ o # new
<1>1. BrokerInv' /\ OrdersKept /\ OnlyOldOrders
  BY PlaceIsSafe, QuietRows, StoreAssumption
<1>2. RowsMatchOrders'
  BY <1>1, RowsStillMatch DEF BookInv
<1>3. \A o, s, d : Unbooked(o, s, d) => Unbooked(o, s, d)'
  BY <1>1, UnbookedKept
<1>4. \A o, s, d : Unbooked(o, s, d) => o # new
  BY DEF Unbooked, BrokerInv, BrokerTypeOK
<1>5. \A t \in TradeIds : trades'[t].order # new
  <2>1. \A t \in TradeIds : trades[t].order = None \/ trades[t].order \in 1 .. lastOrder
    BY DEF BookInv, RowsMatchOrders
  <2> QED
    BY <2>1 DEF None, BrokerInv, BrokerTypeOK, storeVars
<1>6. /\ new \in 1 .. lastOrder'
      /\ orders'[new] = [symbol |-> sym, side |-> side, qty |-> EntryQty]
  BY BrokerAssumption DEF PlaceOrder, BrokerInv, BrokerTypeOK, OrderIds
<1> QED
  BY <1>2, <1>3, <1>4, <1>5, <1>6 DEF Unbooked

LEMMA LoopPlacesKeepsBooks ==
  ASSUME StoreInv, BrokerInv, SignalInv, ApiInv, BookInv, LoopPlaces
  PROVE  BookInv'
<1>1. CurrentSymbol \in Symbols /\ loop.side \in Sides /\ loop \in LoopState
  BY CurrentIsPending
  DEF LoopPlaces, LoopPlace, SignalInv, SignalTypeOK, LoopState
<1>2. /\ PlaceOrder(CurrentSymbol, loop.side, EntryQty) /\ UNCHANGED storeVars
      /\ UNCHANGED handler
      /\ loop' = [loop EXCEPT !.pc = "insert", !.order = lastOrder + 1]
  BY DEF LoopPlaces, LoopPlace
<1>3. PICK new \in Nat, sym \in Symbols, side \in Sides :
        new = lastOrder + 1 /\ sym = CurrentSymbol /\ side = loop.side
  BY <1>1 DEF BrokerInv, BrokerTypeOK
<1>4. /\ Unbooked(new, sym, side)'
      /\ RowsMatchOrders'
      /\ \A o, s, d : Unbooked(o, s, d) => Unbooked(o, s, d)' /\ o # new
  BY <1>2, <1>3, PlacedIsUnbooked
<1>5. /\ loop'.order = new /\ loop'.side = side /\ CurrentSymbol' = sym
  BY <1>1, <1>2, <1>3 DEF LoopState, CurrentSymbol, Current
<1>6. LoopBooking'
  <2> SUFFICES Unbooked(loop.order, CurrentSymbol, loop.side)'
    BY DEF LoopBooking
  <2> QED
    BY <1>4, <1>5 DEF Unbooked
<1>7. ASSUME NEW g \in Handlers PROVE HandlerBooking(g)'
  BY <1>2, <1>4 DEF HandlerBooking, HandlerHolds, BookInv, Unbooked
<1>8. HoldersDiffer'
  BY <1>2, <1>4, <1>5 DEF BookInv, HoldersDiffer, HandlerBooking, HandlerHolds
<1> QED
  BY <1>4, <1>6, <1>7, <1>8 DEF BookInv

LEMMA HandlerPlacesKeepsBooks ==
  ASSUME StoreInv, BrokerInv, SignalInv, ApiInv, BookInv,
         NEW h \in Handlers, HandlerPlaces(h)
  PROVE  BookInv'
<1>1. /\ handler[h].symbol \in Symbols /\ handler[h].side \in Sides
      /\ handler \in [Handlers -> HandlerState]
  BY DEF HandlerPlaces, PlaceSend, ApiInv, ApiTypeOK, HandlerInv, HandlerState
<1>2. /\ PlaceOrder(handler[h].symbol, handler[h].side, EntryQty) /\ UNCHANGED storeVars
      /\ UNCHANGED loop
      /\ handler' = [handler EXCEPT ![h].pc = "place_insert", ![h].order = lastOrder + 1]
  BY DEF HandlerPlaces, PlaceSend
<1>3. PICK new \in Nat, sym \in Symbols, side \in Sides :
        new = lastOrder + 1 /\ sym = handler[h].symbol /\ side = handler[h].side
  BY <1>1 DEF BrokerInv, BrokerTypeOK
<1>4. /\ Unbooked(new, sym, side)'
      /\ RowsMatchOrders'
      /\ \A o, s, d : Unbooked(o, s, d) => Unbooked(o, s, d)' /\ o # new
  BY <1>2, <1>3, PlacedIsUnbooked
<1>5. /\ handler'[h].order = new /\ handler'[h].side = side /\ handler'[h].symbol = sym
      /\ \A g \in Handlers \ {h} : handler'[g] = handler[g]
  BY <1>1, <1>2, <1>3 DEF HandlerState
<1>6. LoopBooking'
  <2> SUFFICES ASSUME LoopHolds' PROVE Unbooked(loop.order, CurrentSymbol, loop.side)'
    BY DEF LoopBooking
  <2>1. Unbooked(loop.order, CurrentSymbol, loop.side)
    BY <1>2 DEF LoopHolds, BookInv, LoopBooking
  <2> QED
    BY <1>2, <1>4, <2>1 DEF Unbooked, CurrentSymbol, Current
<1>7. ASSUME NEW g \in Handlers PROVE HandlerBooking(g)'
  BY <1>4, <1>5 DEF HandlerBooking, HandlerHolds, BookInv, Unbooked
<1>8. HoldersDiffer'
  <2>1. \A g \in Handlers \ {h} : HandlerHolds(g) => handler[g].order # new
    BY <1>4 DEF BookInv, HandlerBooking
  <2>2. LoopHolds => loop.order # new
    BY <1>4 DEF BookInv, LoopBooking
  <2>3. ASSUME NEW g \in Handlers, LoopHolds', HandlerHolds(g)'
        PROVE  loop'.order # handler'[g].order
    BY <1>2, <1>5, <2>2, <2>3 DEF BookInv, HoldersDiffer, HandlerHolds, LoopHolds
  <2>4. ASSUME NEW g \in Handlers, NEW k \in Handlers, g # k,
               HandlerHolds(g)', HandlerHolds(k)'
        PROVE  handler'[g].order # handler'[k].order
    BY <1>5, <2>1, <2>4 DEF BookInv, HoldersDiffer, HandlerHolds
  <2> QED
    BY <2>3, <2>4 DEF HoldersDiffer
<1> QED
  BY <1>4, <1>6, <1>7, <1>8 DEF BookInv

LEMMA NextKeepsBooks ==
  ASSUME TypeInv, BookInv, [Next]_vars
  PROVE  BookInv'
<1>1. TypeInv' /\ OrdersKept
  BY NextIsTyped DEF SharedKept
<1> QED
  BY <1>1, StepEffects, QuietKeepsBooks, LoopPlacesKeepsBooks, LoopBooksKeepsBooks,
     HandlerPlacesKeepsBooks, HandlerBooksKeepsBooks DEF TypeInv

LEMMA InitBooks == Init => BookInv
BY DEF Init, StoreInit, NoRow, SignalInit, LoopIdle, ApiInit, HandlerIdle, BookInv,
       RowsMatchOrders, LoopBooking, LoopHolds, HandlerBooking, HandlerHolds, HoldersDiffer

\* Each booked row names an accepted order of its own, with its terms.
THEOREM RowsAlwaysMatchOrders == Spec => []RowsMatchOrders
<1>1. Init => TypeInv /\ BookInv
  BY InitIsTyped, InitBooks
<1>2. TypeInv /\ BookInv /\ [Next]_vars => (TypeInv /\ BookInv)'
  BY NextIsTyped, NextKeepsBooks
<1>3. TypeInv /\ BookInv => RowsMatchOrders
  BY DEF BookInv
<1> QED
  BY <1>1, <1>2, <1>3, PTL DEF Spec

---------------------------------------------------------------------------
(* The table implements the ledger: inserting opens an entry, the first close closes
   it, and every other step leaves the entries as they are. *)

LEMMA UsedEntries ==
  ASSUME StoreInv, NEW t \in TradeIds
  PROVE  /\ TableEntries[t] = EntryOf(trades[t])
         /\ TableEntries[t].terms = TermsOf(trades[t])
         /\ TableEntries[t].state # "unused" <=> t <= lastTrade
         /\ t <= lastTrade <=> t \in Ledger!Used
BY DEF TableEntries, EntryOf, LedgerState, StoreInv, StoreTypeOK, Row, Ledger!Used

LEMMA NextEntries ==
  TableEntries' = [t \in TradeIds |-> EntryOf(trades'[t])]
BY DEF TableEntries, EntryOf, LedgerState, TermsOf

LEMMA InsertOpens ==
  ASSUME StoreInv, NEW sym \in Symbols, NEW side \in Sides, NEW qty \in Nat,
         NEW remaining, NEW tstatus, NEW order \in OrderIds \cup {None},
         order # None => \A t \in TradeIds : trades[t].order # order,
         InsertTrade(sym, side, qty, remaining, tstatus, order)
  PROVE  Ledger!LedgerNext
<1> DEFINE new == lastTrade + 1
           terms == [symbol |-> sym, side |-> side, qty |-> qty, order |-> order]
<1>1. /\ new \in TradeIds /\ lastTrade \in Nat
      /\ trades' = [trades EXCEPT ![new] =
           [status |-> "OPEN", symbol |-> sym, side |-> side, qty |-> qty,
            remaining |-> remaining, tstatus |-> tstatus, partialDone |-> FALSE,
            order |-> order, reason |-> "none"]]
  BY StoreAssumption DEF InsertTrade, StoreInv, StoreTypeOK, TradeIds
<1>2. new \notin Ledger!Used /\ \A u \in TradeIds : u < new => u \in Ledger!Used
  BY <1>1, UsedEntries DEF TradeIds
<1>3. terms \in EntryTerms
  BY DEF EntryTerms
<1> HIDE DEF new
<1>4. EntryOf(trades'[new]) = [state |-> "open", terms |-> terms]
  <2>1. /\ trades'[new].status = "OPEN" /\ trades'[new].symbol = sym
        /\ trades'[new].side = side /\ trades'[new].qty = qty
        /\ trades'[new].order = order
    BY <1>1 DEF StoreInv, StoreTypeOK
  <2>2. TermsOf(trades'[new]) = terms
    BY <2>1 DEF TermsOf
  <2> QED
    BY <2>1, <2>2 DEF EntryOf, LedgerState
<1>5. \A t \in TradeIds \ {new} : trades'[t] = trades[t]
  BY <1>1 DEF StoreInv, StoreTypeOK
<1>6. terms.order # None => \A u \in Ledger!Used : TableEntries[u].terms.order # terms.order
  <2>1. \A u \in Ledger!Used : u \in TradeIds
    BY DEF Ledger!Used
  <2>2. ASSUME NEW u \in TradeIds PROVE TableEntries[u].terms.order = trades[u].order
    <3>1. TableEntries[u].terms = TermsOf(trades[u])
      BY UsedEntries
    <3> QED
      BY <3>1 DEF TermsOf
  <2> QED
    BY <2>1, <2>2
<1> HIDE DEF terms
<1>7. TableEntries' = [TableEntries EXCEPT ![new] = [state |-> "open", terms |-> terms]]
  <2>1. new \in TradeIds
    BY <1>1
  <2> QED
    BY <1>4, <1>5, <2>1 DEF TableEntries
<1>8. TableEntries'[new].terms = terms
  BY <1>1, <1>4, NextEntries
<1>9. Ledger!Open(new)
  BY <1>2, <1>3, <1>6, <1>7, <1>8 DEF Ledger!Open
<1> QED
  BY <1>1, <1>9 DEF Ledger!LedgerNext

LEMMA ClosesImplement ==
  ASSUME StoreInv, NEW t \in TradeIds, t <= lastTrade, NEW why, CloseTrade(t, why)
  PROVE  Ledger!LedgerNext \/ UNCHANGED TableEntries
<1>1. /\ trades[t] \in Row /\ trades[t].status \in {"OPEN", "CLOSED"}
      /\ \A u \in TradeIds \ {t} : trades'[u] = trades[u]
      /\ trades'[t] =
           [trades[t] EXCEPT !.status = "CLOSED", !.tstatus = "CLOSED", !.reason = why]
  BY DEF CloseTrade, StoreInv, StoreTypeOK, Row
<1>2. TermsOf(trades'[t]) = TermsOf(trades[t]) /\ trades'[t].status = "CLOSED"
  BY <1>1 DEF TermsOf, Row
<1>3. EntryOf(trades'[t]) = [state |-> "closed", terms |-> TermsOf(trades[t])]
  BY <1>2 DEF EntryOf, LedgerState
<1>4. TableEntries' = [TableEntries EXCEPT ![t] =
                         [state |-> "closed", terms |-> TermsOf(trades[t])]]
  BY <1>1, <1>3 DEF TableEntries
<1>5. CASE trades[t].status = "OPEN"
  <2>1. TableEntries[t] = [state |-> "open", terms |-> TermsOf(trades[t])]
    BY <1>5 DEF TableEntries, EntryOf, LedgerState
  <2>2. [TableEntries[t] EXCEPT !.state = "closed"]
          = [state |-> "closed", terms |-> TermsOf(trades[t])]
    BY <2>1
  <2>3. TableEntries' = [TableEntries EXCEPT ![t].state = "closed"]
    BY <1>4, <2>2, Zenon
  <2>4. Ledger!Close(t)
    BY <2>1, <2>3 DEF Ledger!Close
  <2> QED
    BY <2>4 DEF Ledger!LedgerNext
<1>6. CASE trades[t].status = "CLOSED"
  <2>1. TableEntries[t] = [state |-> "closed", terms |-> TermsOf(trades[t])]
    BY <1>6 DEF TableEntries, EntryOf, LedgerState
  <2> QED
    BY <1>4, <2>1 DEF TableEntries
<1> QED
  BY <1>1, <1>5, <1>6

LEMMA UpdatesImplement ==
  ASSUME StoreInv, NEW t \in TradeIds, NEW tstatus, NEW remaining,
         UpdateTradeStatus(t, tstatus, remaining)
  PROVE  UNCHANGED TableEntries
<1>1. /\ trades[t] \in Row
      /\ \A u \in TradeIds \ {t} : trades'[u] = trades[u]
      /\ trades'[t] = [trades[t] EXCEPT !.tstatus = tstatus, !.remaining = remaining]
  BY DEF UpdateTradeStatus, StoreInv, StoreTypeOK
<1>2. EntryOf(trades'[t]) = EntryOf(trades[t])
  BY <1>1 DEF EntryOf, TermsOf, Row
<1> QED
  BY <1>1, <1>2 DEF TableEntries

LEMMA BookingImplements ==
  ASSUME StoreInv, BrokerInv, NEW sym \in Symbols, NEW side \in Sides, NEW order,
         Unbooked(order, sym, side), Books(sym, side, order)
  PROVE  Ledger!LedgerNext
<1>1. order \in OrderIds \cup {None} /\ \A t \in TradeIds : trades[t].order # order
  BY BrokerAssumption DEF Unbooked, BrokerInv, BrokerTypeOK, OrderIds
<1>2. InsertTrade(sym, side, EntryQty, EntryQty, "FILLED", order)
  BY DEF Books
<1> QED
  BY <1>1, <1>2, InsertOpens, StoreAssumption

LEMMA NextImplements ==
  ASSUME TypeInv, BookInv, [Next]_vars
  PROVE  Ledger!LedgerNext \/ UNCHANGED TableEntries
<1>1. CASE UNCHANGED storeVars
  BY <1>1 DEF storeVars, TableEntries
<1>2. CASE Adopts
  BY <1>2, InsertOpens DEF Adopts, TypeInv
<1>3. CASE Closes
  BY <1>3, ClosesImplement DEF Closes, TypeInv
<1>4. CASE Updates
  BY <1>4, UpdatesImplement DEF Updates, TypeInv
<1>5. CASE LoopPlaces
  BY <1>1, <1>5 DEF LoopPlaces, LoopPlace
<1>6. ASSUME NEW h \in Handlers, HandlerPlaces(h)
      PROVE  UNCHANGED storeVars
  BY <1>6 DEF HandlerPlaces, PlaceSend
<1>7. CASE LoopBooks
  <2>1. /\ CurrentSymbol \in Symbols /\ loop.side \in Sides
        /\ Unbooked(loop.order, CurrentSymbol, loop.side)
    BY <1>7, CurrentIsPending
    DEF TypeInv, LoopBooks, LoopInsert, LoopHolds, BookInv, LoopBooking, SignalInv,
        SignalTypeOK, LoopState
  <2>2. Books(CurrentSymbol, loop.side, loop.order)
    BY <1>7 DEF LoopBooks, LoopInsert, Books
  <2> QED
    BY <2>1, <2>2, BookingImplements DEF TypeInv
<1>8. ASSUME NEW h \in Handlers, HandlerBooks(h)
      PROVE  Ledger!LedgerNext
  <2>1. /\ handler[h].symbol \in Symbols /\ handler[h].side \in Sides
        /\ Unbooked(handler[h].order, handler[h].symbol, handler[h].side)
    BY <1>8 DEF TypeInv, HandlerBooks, PlaceInsert, HandlerHolds, BookInv, HandlerBooking,
                ApiInv, ApiTypeOK, HandlerInv, HandlerState
  <2>2. Books(handler[h].symbol, handler[h].side, handler[h].order)
    BY <1>8 DEF HandlerBooks, PlaceInsert, Books
  <2> QED
    BY <2>1, <2>2, BookingImplements DEF TypeInv
<1> QED
  BY <1>1, <1>2, <1>3, <1>4, <1>5, <1>6, <1>7, <1>8, StepEffects DEF QuietStep, UpdateStep

\* The table, written by every thread, across crashes, implements TradeLedger.
THEOREM TableImplementsLedger == Spec => TableIsLedger
<1>1. Init => TypeInv /\ BookInv
  BY InitIsTyped, InitBooks
<1>2. TypeInv /\ BookInv /\ [Next]_vars => (TypeInv /\ BookInv)'
  BY NextIsTyped, NextKeepsBooks
<1>3. Init => Ledger!LedgerInit
  BY DEF Init, StoreInit, Ledger!LedgerInit, Ledger!Blank, TableEntries, EntryOf,
         LedgerState, NoRow
<1>4. TypeInv /\ BookInv /\ [Next]_vars => [Ledger!LedgerNext]_TableEntries
  BY NextImplements
<1> QED
  BY <1>1, <1>2, <1>3, <1>4, PTL DEF Spec, TableIsLedger, Ledger!LedgerSpec

---------------------------------------------------------------------------
(* The remaining quantity of the rows: the copies that the position manager *)
(* works on do not go stale in it, and what it writes back stays in range.  *)
(* Each needs the other: the range of what is written follows from the      *)
(* copy, and the copy from the fact that no other thread writes the column  *)
(* of an existing row.                                                      *)

InRange(row) == row.remaining # None => row.remaining \in 0 .. row.qty

\* The copy has the terms of its row, and its remaining quantity.
CopyIsCurrent(t) ==
  mgr.snap[t].remaining = trades[t].remaining /\ mgr.snap[t].qty = trades[t].qty

CopyInv ==
  /\ RemainingInRange
  /\ \A t \in mgr.todo : CopyIsCurrent(t)

\* Steps of the other threads leave the column alone, and new rows are in range.
OnlyNewRemaining ==
  /\ RemainingInRange'
  /\ \A t \in TradeIds : t <= lastTrade =>
       trades'[t].remaining = trades[t].remaining /\ trades'[t].qty = trades[t].qty

LEMMA InsertKeepsRemaining ==
  ASSUME StoreInv, RemainingInRange, NEW sym, NEW side, NEW qty \in Nat,
         NEW remaining \in {qty, None}, NEW tstatus, NEW order,
         InsertTrade(sym, side, qty, remaining, tstatus, order)
  PROVE  OnlyNewRemaining
<1>1. /\ lastTrade + 1 \in TradeIds /\ lastTrade \in Nat
      /\ \A t \in TradeIds \ {lastTrade + 1} : trades'[t] = trades[t]
      /\ trades'[lastTrade + 1].remaining = remaining
      /\ trades'[lastTrade + 1].qty = qty
  BY StoreAssumption DEF InsertTrade, StoreInv, StoreTypeOK, TradeIds
<1>2. RemainingInRange'
  BY <1>1 DEF RemainingInRange
<1> QED
  BY <1>1, <1>2 DEF OnlyNewRemaining, TradeIds

LEMMA CloseKeepsRemaining ==
  ASSUME StoreInv, RemainingInRange, NEW t \in TradeIds, NEW why, CloseTrade(t, why)
  PROVE  OnlyNewRemaining
<1>1. trades[t] \in Row /\ \A u \in TradeIds \ {t} : trades'[u] = trades[u]
  BY DEF CloseTrade, StoreInv, StoreTypeOK
<1>2. trades'[t].remaining = trades[t].remaining /\ trades'[t].qty = trades[t].qty
  BY <1>1 DEF CloseTrade, StoreInv, StoreTypeOK, Row
<1> QED
  BY <1>1, <1>2 DEF OnlyNewRemaining, RemainingInRange

LEMMA StutterKeepsRemaining ==
  ASSUME RemainingInRange, UNCHANGED storeVars
  PROVE  OnlyNewRemaining
BY DEF OnlyNewRemaining, RemainingInRange, storeVars

LEMMA OthersKeepRemaining ==
  ASSUME TypeInv, RemainingInRange, [Next]_vars, ~ManagerJob
  PROVE  OnlyNewRemaining
<1>1. StoreInv /\ EntryQty \in Nat
  BY StoreAssumption DEF TypeInv
<1>2. CASE QuietStep
  <2>1. CASE Adopts
    BY <1>1, <2>1, InsertKeepsRemaining DEF Adopts
  <2>2. CASE Closes
    BY <1>1, <2>2, CloseKeepsRemaining DEF Closes
  <2> QED
    BY <1>2, <2>1, <2>2, StutterKeepsRemaining DEF QuietStep
<1>3. CASE LoopPlaces
  BY <1>3, StutterKeepsRemaining DEF LoopPlaces, LoopPlace
<1>4. CASE LoopBooks
  BY <1>1, <1>4, InsertKeepsRemaining DEF LoopBooks, LoopInsert
<1>5. ASSUME NEW h \in Handlers, HandlerPlaces(h) PROVE OnlyNewRemaining
  BY <1>5, StutterKeepsRemaining DEF HandlerPlaces, PlaceSend
<1>6. ASSUME NEW h \in Handlers, HandlerBooks(h) PROVE OnlyNewRemaining
  BY <1>1, <1>6, InsertKeepsRemaining DEF HandlerBooks, PlaceInsert
<1> QED
  BY <1>2, <1>3, <1>4, <1>5, <1>6, StepEffects

LEMMA OthersLeaveCopies ==
  ASSUME [Next]_vars, ~ManagerJob
  PROVE  UNCHANGED mgr \/ mgr' = mgrIdle
BY DEF Next, vars, BootReconcile, BootOffline, BootDone, BootFailed, Crash, SignalJob, ApiThread,
       ReconcilerStart, ReconcilerThread, Exchange, WindowExpires

LEMMA OthersKeepCopies ==
  ASSUME TypeInv, CopyInv, [Next]_vars, ~ManagerJob
  PROVE  CopyInv'
<1>1. OnlyNewRemaining
  BY OthersKeepRemaining DEF CopyInv
<1>2. CASE UNCHANGED mgr
  <2>1. \A t \in mgr.todo : t \in TradeIds /\ t <= lastTrade
    BY DEF TypeInv, MgrInv, MgrTypeOK, MgrState
  <2> QED
    BY <1>1, <1>2, <2>1 DEF CopyInv, CopyIsCurrent, OnlyNewRemaining
<1>3. CASE mgr' = mgrIdle
  BY <1>1, <1>3 DEF CopyInv, OnlyNewRemaining, mgrIdle
<1> QED
  BY <1>2, <1>3, OthersLeaveCopies

---------------------------------------------------------------------------
(* The position manager's own steps. *)

\* The rows left to do keep their copies.
CopiesKept ==
  \A t \in mgr'.todo : t \in mgr.todo /\ mgr'.snap[t] = mgr.snap[t]

LEMMA NextTradeKeepsCopies ==
  ASSUME MgrInv, mgr.todo # {}, mgr' = NextTrade
  PROVE  CopiesKept /\ mgr'.todo = mgr.todo \ {Mine}
<1>1. mgr \in MgrState /\ Mine \in TradeIds
  BY MineIsUsed DEF MgrInv, MgrTypeOK
<1> HIDE DEF Mine
<1>2. mgr'.todo = mgr.todo \ {Mine} /\ mgr'.snap = [mgr.snap EXCEPT ![Mine] = NoRow]
  BY <1>1 DEF NextTrade, MgrState
<1> QED
  BY <1>1, <1>2 DEF CopiesKept, MgrState

LEMMA SameCopies ==
  ASSUME mgr'.todo = mgr.todo, mgr'.snap = mgr.snap
  PROVE  CopiesKept
BY DEF CopiesKept

LEMMA KeptCopiesAreCurrent ==
  ASSUME MgrInv, CopyInv, OnlyNewRemaining, CopiesKept
  PROVE  CopyInv'
<1>1. \A t \in mgr.todo : t \in TradeIds /\ t <= lastTrade
  BY DEF MgrInv, MgrTypeOK, MgrState
<1> QED
  BY <1>1 DEF CopyInv, CopyIsCurrent, OnlyNewRemaining, CopiesKept

\* What remains of a row is within its quantity, and so is what a partial exit leaves.
LEMMA TotalInRange ==
  ASSUME NEW row \in Row, InRange(row)
  PROVE  Total(row) \in 0 .. row.qty
BY DEF Row, InRange, Total, None

LEMMA ReducedInRange ==
  ASSUME MgrInv, CopyInv, mgr.todo # {}, mgr.qty <= Total(MyRow)
  PROVE  Reduced(MyRow) \in 0 .. trades[Mine].qty
<1>1. /\ Mine \in mgr.todo /\ Mine \in TradeIds /\ MyRow \in Row /\ mgr.qty \in Nat
  BY MineIsUsed DEF MgrInv, MgrTypeOK, MgrState
<1>2. MyRow.remaining = trades[Mine].remaining /\ MyRow.qty = trades[Mine].qty
  BY <1>1 DEF CopyInv, CopyIsCurrent, MyRow
<1>3. InRange(MyRow)
  BY <1>1, <1>2 DEF InRange, CopyInv, RemainingInRange
<1>4. Total(MyRow) \in 0 .. MyRow.qty /\ MyRow.qty \in Nat
  BY <1>1, <1>3, TotalInRange DEF Row
<1> QED
  BY <1>1, <1>2, <1>4 DEF Reduced

LEMMA PartialKeepsCopies ==
  ASSUME StoreInv, MgrInv, CopyInv, MgrPartialDb
  PROVE  CopyInv'
<1> DEFINE left == Reduced(MyRow)
<1>1. mgr \in MgrState /\ mgr.todo # {} /\ mgr.qty <= Total(MyRow)
  BY DEF MgrPartialDb, MgrInv, MgrTypeOK
<1>2. Mine \in mgr.todo /\ Mine \in TradeIds /\ MyRow \in Row
  BY <1>1, MineIsUsed
<1>3. left \in 0 .. trades[Mine].qty
  BY <1>1, ReducedInRange
<1>4. /\ \A u \in TradeIds \ {Mine} : trades'[u] = trades[u]
      /\ trades'[Mine].remaining = left /\ trades'[Mine].qty = trades[Mine].qty
  <2>1. UpdateTradeStatus(Mine, "PARTIAL", left)
    BY DEF MgrPartialDb
  <2> HIDE DEF left, Mine
  <2> QED
    BY <1>2, <2>1 DEF UpdateTradeStatus, StoreInv, StoreTypeOK, Row
<1> HIDE DEF left
<1>5. RemainingInRange'
  BY <1>3, <1>4 DEF CopyInv, RemainingInRange
<1>6. mgr.todo \subseteq TradeIds
  BY <1>1 DEF MgrState
<1>7. CASE mgr.reason = "PARTIAL_FULL"
  <2>1. CopiesKept /\ mgr'.todo = mgr.todo \ {Mine}
    BY <1>1, <1>7, NextTradeKeepsCopies DEF MgrPartialDb
  <2> QED
    BY <1>4, <1>5, <1>6, <2>1 DEF CopyInv, CopyIsCurrent, CopiesKept
<1>8. CASE mgr.reason = "PARTIAL_50PCT"
  <2> DEFINE copy == [MyRow EXCEPT !.remaining = left, !.partialDone = TRUE]
  <2>1. mgr' = [mgr EXCEPT !.pc = "trail", !.qty = 0, !.reason = "none",
                           !.snap = [mgr.snap EXCEPT ![Mine] = copy]]
    BY <1>1, <1>2, <1>8 DEF MgrPartialDb, AfterExit, MgrState, MyRow, left
  <2>2. copy.remaining = left /\ copy.qty = MyRow.qty
    BY <1>2 DEF Row
  <2> HIDE DEF copy, Mine
  <2>3. mgr'.todo = mgr.todo /\ mgr'.snap = [mgr.snap EXCEPT ![Mine] = copy]
    BY <1>1, <2>1 DEF MgrState
  <2>4. ASSUME NEW t \in mgr'.todo PROVE CopyIsCurrent(t)'
    <3>1. CASE t = Mine
      <4>1. mgr'.snap[Mine] = copy
        BY <1>1, <1>2, <2>3 DEF MgrState
      <4> QED
        BY <1>2, <1>4, <2>2, <3>1, <4>1 DEF CopyInv, CopyIsCurrent, MyRow
    <3>2. CASE t # Mine
      <4>1. mgr'.snap[t] = mgr.snap[t] /\ trades'[t] = trades[t] /\ t \in mgr.todo
        BY <1>1, <1>4, <1>6, <2>3, <2>4, <3>2 DEF MgrState
      <4> QED
        BY <4>1 DEF CopyInv, CopyIsCurrent
    <3> QED
      BY <3>1, <3>2
  <2> QED
    BY <1>5, <2>4 DEF CopyInv
<1> QED
  BY <1>7, <1>8 DEF MgrPartialDb, Partial

\* The stop-loss update writes back the remaining quantity that is there.
LEMMA TrailKeepsRemaining ==
  ASSUME StoreInv, RemainingInRange, NEW t \in TradeIds, NEW tstatus,
         UpdateTradeStatus(t, tstatus, trades[t].remaining)
  PROVE  OnlyNewRemaining
<1>1. /\ \A u \in TradeIds \ {t} : trades'[u] = trades[u]
      /\ trades'[t].remaining = trades[t].remaining /\ trades'[t].qty = trades[t].qty
  BY DEF UpdateTradeStatus, StoreInv, StoreTypeOK, Row
<1> QED
  BY <1>1 DEF OnlyNewRemaining, RemainingInRange

LEMMA ManagerKeepsCopies ==
  ASSUME TypeInv, CopyInv, ManagerJob
  PROVE  CopyInv'
<1>1. StoreInv /\ MgrInv /\ mgr \in MgrState /\ RemainingInRange
  BY DEF TypeInv, MgrInv, MgrTypeOK, CopyInv
<1>2. CASE MgrPartialDb
  BY <1>1, <1>2, PartialKeepsCopies
<1>3. CASE MgrCloseDb
  <2>1. mgr.todo # {} /\ mgr' = NextTrade
    BY <1>1, <1>3 DEF MgrCloseDb, MgrInv
  <2>2. OnlyNewRemaining
    BY <1>1, <1>3, <2>1, MineIsUsed, CloseKeepsRemaining DEF MgrCloseDb
  <2> QED
    BY <1>1, <2>1, <2>2, NextTradeKeepsCopies, KeptCopiesAreCurrent
<1>4. CASE MgrTrail
  <2>1. Mine \in TradeIds
    BY <1>1, <1>4, MineIsUsed DEF MgrTrail, MgrInv
  <2>2. OnlyNewRemaining
    BY <1>1, <1>4, <2>1, TrailKeepsRemaining DEF MgrTrail
  <2>3. mgr'.todo = mgr.todo /\ mgr'.snap = mgr.snap
    BY <1>1, <1>4 DEF MgrTrail, MgrState
  <2> QED
    BY <1>1, <2>2, <2>3, SameCopies, KeptCopiesAreCurrent
<1>5. CASE MgrStart
  <2> DEFINE copies == [t \in TradeIds |-> IF t \in GetOpenTrades THEN trades[t] ELSE NoRow]
  <2>1. mgr' = [mgrIdle EXCEPT !.pc = "price", !.todo = GetOpenTrades, !.snap = copies]
        /\ UNCHANGED trades
    BY <1>5 DEF MgrStart, MgrLocal, storeVars
  <2>2. \A t \in GetOpenTrades : copies[t] = trades[t]
    BY DEF GetOpenTrades
  <2> HIDE DEF copies
  <2>3. mgr'.todo = GetOpenTrades /\ mgr'.snap = copies
    BY <2>1 DEF mgrIdle
  <2> QED
    BY <1>1, <2>1, <2>2, <2>3 DEF CopyInv, CopyIsCurrent, RemainingInRange
<1>6. CASE MgrEnd \/ MgrAborted
  BY <1>1, <1>6
  DEF MgrEnd, MgrAborted, MgrLocal, storeVars, mgrIdle, CopyInv, RemainingInRange
<1>7. CASE MgrNoPrice \/ MgrHold \/ MgrRefused
  <2>1. mgr.todo # {} /\ UNCHANGED storeVars /\ (mgr' = NextTrade \/ mgr' = AfterExit)
    BY <1>1, <1>7 DEF MgrNoPrice, MgrHold, MgrRefused, MgrLocal, MgrInv
  <2>2. CopiesKept
    <3>1. CASE mgr' = NextTrade
      BY <1>1, <2>1, <3>1, NextTradeKeepsCopies
    <3>2. CASE mgr' # NextTrade
      <4>1. mgr' = [mgr EXCEPT !.pc = "trail", !.qty = 0, !.reason = "none"]
        BY <2>1, <3>2 DEF AfterExit
      <4> QED
        BY <1>1, <4>1, SameCopies DEF MgrState
    <3> QED
      BY <3>1, <3>2
  <2> QED
    BY <1>1, <2>1, <2>2, StutterKeepsRemaining, KeptCopiesAreCurrent
<1>8. CASE \/ MgrPartial \/ MgrNoPartial \/ MgrMayClose \/ MgrSend \/ MgrSendFailed
           \/ MgrNoTrail \/ MgrExit
  <2>1. UNCHANGED storeVars
    BY <1>8
    DEF MgrPartial, MgrNoPartial, MgrMayClose, MgrSend, MgrSendFailed, MgrNoTrail, MgrExit,
        MgrLocal
  <2>2. mgr'.todo = mgr.todo /\ mgr'.snap = mgr.snap
    <3>1. ASSUME NEW pc, NEW qty, NEW reason,
                 mgr' = [mgr EXCEPT !.pc = pc, !.qty = qty, !.reason = reason]
          PROVE  mgr'.todo = mgr.todo /\ mgr'.snap = mgr.snap
      BY <1>1, <3>1 DEF MgrState
    <3>2. ASSUME NEW pc, mgr' = [mgr EXCEPT !.pc = pc]
          PROVE  mgr'.todo = mgr.todo /\ mgr'.snap = mgr.snap
      BY <1>1, <3>2 DEF MgrState
    <3>3. CASE MgrPartial
      BY <3>1, <3>3, Zenon DEF MgrPartial
    <3>4. CASE MgrExit
      BY <3>1, <3>4, Zenon DEF MgrExit
    <3>5. CASE \/ MgrNoPartial \/ MgrMayClose \/ MgrSend \/ MgrSendFailed \/ MgrNoTrail
      BY <3>2, <3>5, Zenon
      DEF MgrNoPartial, MgrMayClose, MgrSend, MgrSendFailed, MgrNoTrail
    <3> QED
      BY <1>8, <3>3, <3>4, <3>5
  <2> QED
    BY <1>1, <2>1, <2>2, SameCopies, StutterKeepsRemaining, KeptCopiesAreCurrent
<1> QED
  BY <1>2, <1>3, <1>4, <1>5, <1>6, <1>7, <1>8 DEF ManagerJob, MgrStep

---------------------------------------------------------------------------
(* The theorems. *)

LEMMA NextKeepsCopies ==
  ASSUME TypeInv, CopyInv, [Next]_vars
  PROVE  CopyInv'
BY OthersKeepCopies, ManagerKeepsCopies

\* The inductive invariant of both theorems below.
THEOREM CopiesAreCurrent == Spec => [](TypeInv /\ CopyInv)
<1>1. Init => TypeInv /\ CopyInv
  <2>1. Init => CopyInv
    BY DEF Init, StoreInit, NoRow, MgrInit, mgrIdle, CopyInv, RemainingInRange
  <2> QED
    BY <2>1, InitIsTyped
<1>2. TypeInv /\ CopyInv /\ [Next]_vars => (TypeInv /\ CopyInv)'
  BY NextIsTyped, NextKeepsCopies
<1> QED
  BY <1>1, <1>2, PTL DEF Spec

\* For every row the manager has not dealt with, its copy's remaining quantity is the
\* table's.
THEOREM ManagerCopyStaysCurrent == Spec => []ManagerCopyIsCurrent
<1>1. CopyInv => ManagerCopyIsCurrent
  BY DEF CopyInv, CopyIsCurrent, ManagerCopyIsCurrent
<1> QED
  BY <1>1, CopiesAreCurrent, PTL

\* No exit, refusal, retry or crash takes what remains out of 0 .. quantity.
THEOREM RemainingStaysInRange == Spec => []RemainingInRange
<1>1. CopyInv => RemainingInRange
  BY DEF CopyInv
<1> QED
  BY <1>1, CopiesAreCurrent, PTL
=============================================================================
