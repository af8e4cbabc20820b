------------------------- MODULE TradingSystemProofs -------------------------
(***************************************************************************)
(* Theorems of TradingSystem, for every value of its constants.            *)
(*                                                                         *)
(* The argument is rely-guarantee.  The table and the account have an      *)
(* invariant each (StoreInv, BrokerInv), and every step keeps the terms of *)
(* the rows and of the orders that exist (RowsKept, OrdersKept).  Each     *)
(* thread has an invariant of its own about its locals, which its own      *)
(* steps preserve and which no other thread's step can disturb, because of *)
(* what every step keeps.                                                  *)
(***************************************************************************)
EXTENDS TradingSystem, TLAPS, WellFoundedInduction

---------------------------------------------------------------------------
(* The parts of the inductive invariant. *)

\* The rows in use are those numbered up to lastTrade.
StoreInv ==
  /\ StoreTypeOK
  /\ \A t \in TradeIds :
       /\ trades[t].status # "NONE" <=> t <= lastTrade
       /\ t <= lastTrade => trades[t].symbol \in Symbols
       /\ t > lastTrade => trades[t] = NoRow

BrokerInv ==
  /\ BrokerTypeOK
  /\ \A o \in 1 .. lastOrder : orders[o].symbol \in Symbols

SignalInv ==
  /\ SignalTypeOK
  /\ loop.pc \in {"check", "place", "insert", "mark"} => loop.batch # {}
  /\ BatchIsPending

HandlerInv(h) ==
  /\ handler[h].pc \in {"place_check", "place_send", "place_insert"}
       => handler[h].symbol \in Symbols
  /\ handler[h].pc \in {"close_send", "close_db"} => handler[h].todo # {}
  /\ \A t \in handler[h].todo : t <= lastTrade

ApiInv == ApiTypeOK /\ \A h \in Handlers : HandlerInv(h)

MgrInv ==
  /\ MgrTypeOK
  /\ mgr.pc \in {"open", "send", "db", "trail", "exit"} => mgr.todo # {}
  /\ mgr.pc \in {"open", "send", "db"} => mgr.qty <= Total(MyRow)
  /\ \A t \in mgr.todo : t <= lastTrade /\ mgr.snap[t].symbol \in Symbols

RecInv ==
  /\ RecTypeOK
  /\ \A r \in Reconcilers : \A t \in rec[r].db : t <= lastTrade

SystemInv == phase \in {"boot", "reconciling", "up"} /\ crashes \in 0 .. MaxCrashes

TypeInv ==
  /\ StoreInv /\ BrokerInv /\ DedupTypeOK
  /\ SignalInv /\ ApiInv /\ MgrInv /\ RecInv /\ SystemInv

\* What every step keeps.
RowsKept ==
  /\ lastTrade <= lastTrade'
  /\ \A t \in TradeIds : t <= lastTrade =>
       /\ TermsOf(trades'[t]) = TermsOf(trades[t])
       /\ trades[t].status = "CLOSED" => trades'[t].status = "CLOSED"

OrdersKept ==
  /\ lastOrder <= lastOrder'
  /\ \A o \in 1 .. lastOrder : orders'[o] = orders[o]

---------------------------------------------------------------------------
(* The operations of the table, the account and the duplicate window. *)

\* The first of some ids is one of them.
LEMMA FirstIsMember ==
  ASSUME NEW S \in SUBSET Nat, S # {}
  PROVE  First(S) \in S
<1>1. OpToRel(<, Nat) = {ss \in Nat \X Nat : ss[1] < ss[2]}
  BY DEF OpToRel
<1> DEFINE Less == {ss \in Nat \X Nat : ss[1] < ss[2]}
<1>2. IsWellFoundedOn(Less, Nat)
  BY <1>1, NatLessThanWellFounded, Zenon
<1> HIDE DEF Less
<1>3. PICK x \in S : \A y \in S : ~(<<y, x>> \in Less)
  BY <1>2, WFMin, Zenon
<1>4. \A y \in S : <<y, x>> \in Less <=> y < x
  BY DEF Less
<1>5. ASSUME NEW y \in S PROVE x <= y
  <2>1. ~(y < x)
    BY <1>3, <1>4, Zenon
  <2> QED
    BY <2>1
<1> QED
  BY <1>5 DEF First

LEMMA InsertIsSafe ==
  ASSUME StoreInv, NEW sym \in Symbols, NEW side \in Sides, NEW qty \in Nat,
         NEW remaining \in Nat \cup {None}, NEW tstatus \in {"FILLED", "PENDING"},
         NEW order \in Nat \cup {None},
         InsertTrade(sym, side, qty, remaining, tstatus, order)
  PROVE  StoreInv' /\ RowsKept
<1> USE StoreAssumption DEF StoreInv, InsertTrade, TradeIds, None
<1>1. StoreTypeOK'
  BY DEF StoreTypeOK, Row, CloseReasons, Sides
<1>2. \A u \in TradeIds :
        /\ trades'[u].status # "NONE" <=> u <= lastTrade'
        /\ u <= lastTrade' => trades'[u].symbol \in Symbols
        /\ u > lastTrade' => trades'[u] = NoRow
  BY DEF StoreTypeOK, Row
<1>3. RowsKept
  BY DEF StoreTypeOK, RowsKept, TermsOf, Row
<1> QED
  BY <1>1, <1>2, <1>3

LEMMA ClosedRowIsRow ==
  ASSUME NEW row \in Row, NEW why \in CloseReasons
  PROVE  [row EXCEPT !.status = "CLOSED", !.tstatus = "CLOSED", !.reason = why] \in Row
BY DEF Row

LEMMA CloseIsSafe ==
  ASSUME StoreInv, NEW t \in TradeIds, t <= lastTrade, NEW why \in CloseReasons,
         CloseTrade(t, why)
  PROVE  StoreInv' /\ RowsKept
<1> USE StoreAssumption DEF StoreInv, CloseTrade, TradeIds, None
<1>1. StoreTypeOK'
  <2> DEFINE row ==
        [trades[t] EXCEPT !.status = "CLOSED", !.tstatus = "CLOSED", !.reason = why]
  <2> HIDE DEF row
  <2>0. trades[t] \in Row
    BY DEF StoreTypeOK
  <2>1. row \in Row
    BY <2>0, ClosedRowIsRow, Zenon DEF row
  <2>2. trades' = [trades EXCEPT ![t] = row] /\ lastTrade' = lastTrade
    BY DEF row
  <2> QED
    BY <2>1, <2>2 DEF StoreTypeOK
<1>2. \A u \in TradeIds :
        /\ trades'[u].status # "NONE" <=> u <= lastTrade'
        /\ u <= lastTrade' => trades'[u].symbol \in Symbols
        /\ u > lastTrade' => trades'[u] = NoRow
  BY DEF StoreTypeOK, Row
<1>3. RowsKept
  BY DEF StoreTypeOK, RowsKept, TermsOf, Row
<1> QED
  BY <1>1, <1>2, <1>3

LEMMA UpdateIsSafe ==
  ASSUME StoreInv, NEW t \in TradeIds, t <= lastTrade,
         NEW tstatus \in {"PENDING", "FILLED", "PARTIAL", "CLOSED"},
         NEW remaining \in Nat \cup {None}, UpdateTradeStatus(t, tstatus, remaining)
  PROVE  StoreInv' /\ RowsKept
<1> USE StoreAssumption DEF StoreInv, UpdateTradeStatus, TradeIds, None
<1>1. StoreTypeOK'
  <2> DEFINE row ==
        [trades[t] EXCEPT !.tstatus = tstatus, !.remaining = remaining]
  <2>1. row \in Row
    BY DEF StoreTypeOK, Row
  <2>2. trades' = [trades EXCEPT ![t] = row] /\ lastTrade' = lastTrade
    OBVIOUS
  <2> QED
    BY <2>1, <2>2 DEF StoreTypeOK
<1>2. \A u \in TradeIds :
        /\ trades'[u].status # "NONE" <=> u <= lastTrade'
        /\ u <= lastTrade' => trades'[u].symbol \in Symbols
        /\ u > lastTrade' => trades'[u] = NoRow
  BY DEF StoreTypeOK, Row
<1>3. RowsKept
  BY DEF StoreTypeOK, RowsKept, TermsOf, Row
<1> QED
  BY <1>1, <1>2, <1>3

LEMMA StoreStutter ==
  ASSUME StoreInv, UNCHANGED storeVars
  PROVE  StoreInv' /\ RowsKept
BY StoreAssumption DEF StoreInv, StoreTypeOK, storeVars, RowsKept, TermsOf, TradeIds

LEMMA PlaceIsSafe ==
  ASSUME BrokerInv, NEW sym \in Symbols, NEW side \in Sides, NEW qty \in Nat,
         PlaceOrder(sym, side, qty)
  PROVE  BrokerInv' /\ OrdersKept
BY BrokerAssumption
DEF BrokerInv, BrokerTypeOK, PlaceOrder, OrdersKept, OrderIds, Order

LEMMA BrokerStutter ==
  ASSUME BrokerInv, UNCHANGED brokerVars
  PROVE  BrokerInv' /\ OrdersKept
BY BrokerAssumption DEF BrokerInv, BrokerTypeOK, brokerVars, OrdersKept, OrderIds

LEMMA ExchangeIsSafe ==
  ASSUME BrokerInv, NEW o \in working, FillOrder(o) \/ KillOrder(o)
  PROVE  BrokerInv' /\ OrdersKept
<1> USE BrokerAssumption DEF BrokerInv, BrokerTypeOK, OrdersKept, OrderIds
<1>1. CASE KillOrder(o)
  BY <1>1 DEF KillOrder
<1>2. CASE FillOrder(o)
  <2>1. orders[o].symbol \in Symbols /\ Signed(o) \in Int
    BY DEF Signed, Order
  <2> QED
    BY <1>2, <2>1 DEF FillOrder
<1> QED
  BY <1>1, <1>2

LEMMA DedupStutter ==
  ASSUME DedupTypeOK, UNCHANGED recent
  PROVE  DedupTypeOK'
BY DEF DedupTypeOK

LEMMA RecordIsSafe ==
  ASSUME DedupTypeOK, NEW key \in DedupKey, Record(key)
  PROVE  DedupTypeOK'
BY DEF DedupTypeOK, Record

LEMMA KeysAreKeys ==
  ASSUME NEW sym \in Symbols, NEW side \in Sides, NEW t \in TradeIds,
         NEW why \in {"none", "EXIT", "PARTIAL_50PCT", "PARTIAL_FULL"}
  PROVE  EntryKey(sym, side) \in DedupKey /\ ExitKey(sym, side, t, why) \in DedupKey
BY DEF EntryKey, ExitKey, DedupKey

LEMMA SidesAreSides ==
  ASSUME NEW side \in Sides
  PROVE  Opposite(side) \in Sides
BY DEF Sides, Opposite

\* What a step does to what the threads share.
SharedKept ==
  /\ StoreInv' /\ BrokerInv' /\ DedupTypeOK'
  /\ RowsKept /\ OrdersKept

LEMMA SharedStutter ==
  ASSUME StoreInv, BrokerInv, DedupTypeOK, UNCHANGED sharedVars
  PROVE  SharedKept
BY StoreStutter, BrokerStutter, DedupStutter DEF sharedVars, SharedKept

---------------------------------------------------------------------------
(* The steps of each thread. *)

LEMMA CurrentIsPending ==
  ASSUME SignalInv, loop.batch # {}
  PROVE  Current \in loop.batch /\ Current \in Signals /\ CurrentSymbol \in Symbols
<1>1. loop.batch \in SUBSET Nat
  BY SignalAssumption DEF SignalInv, SignalTypeOK, LoopState
<1>2. Current \in loop.batch
  BY <1>1, FirstIsMember DEF Current
<1>3. Current \in Signals
  BY <1>2 DEF SignalInv, SignalTypeOK, LoopState
<1> QED
  BY <1>2, <1>3, SignalAssumption DEF CurrentSymbol

LEMMA AdvanceIsSafe ==
  ASSUME SignalInv, loop.batch # {}, Advance,
         UNCHANGED signal \/ MarkSignalProcessed(Current)
  PROVE  SignalInv'
<1>1. Current \in loop.batch /\ Current \in Signals
  BY CurrentIsPending
<1>2. loop' \in LoopState /\ loop'.pc = "next" /\ loop'.batch = loop.batch \ {Current}
  BY DEF SignalInv, SignalTypeOK, LoopState, Advance
<1> HIDE DEF Current
<1>3. SignalTypeOK'
  BY <1>1, <1>2 DEF SignalInv, SignalTypeOK, MarkSignalProcessed
<1>4. BatchIsPending'
  BY <1>1, <1>2 DEF SignalInv, SignalTypeOK, BatchIsPending, Pending, MarkSignalProcessed
<1> QED
  BY <1>2, <1>3, <1>4 DEF SignalInv

LEMMA SignalSteps ==
  ASSUME StoreInv, BrokerInv, DedupTypeOK, SignalInv, LoopStart \/ SignalNext
  PROVE  SharedKept /\ SignalInv'
<1>1. CASE LoopStart
  <2>1. UNCHANGED sharedVars
    BY <1>1 DEF LoopStart, sharedVars
  <2>2. OpenSymbols \in SUBSET (Symbols \cup {"none"})
    BY DEF OpenSymbols, GetOpenTrades, StoreInv, StoreTypeOK, Row
  <2>3. SignalInv'
    BY <1>1, <2>2
    DEF LoopStart, SignalInv, SignalTypeOK, LoopState, LoopIdle, BatchIsPending, Pending,
        Sides, None
  <2> QED
    BY <2>1, <2>3, SharedStutter
<1>2. ASSUME NEW s \in Signals, InsertSignal(s)
      PROVE  SharedKept /\ SignalInv'
  <2>1. UNCHANGED sharedVars
    BY <1>2 DEF InsertSignal, sharedVars
  <2>2. SignalInv'
    BY <1>2 DEF InsertSignal, SignalInv, SignalTypeOK, BatchIsPending, Pending
  <2> QED
    BY <2>1, <2>2, SharedStutter
<1>3. CASE LoopSkipOpen \/ LoopIgnore \/ LoopGiveUp \/ LoopMark
  <2>1. UNCHANGED sharedVars
    BY <1>3 DEF LoopSkipOpen, LoopIgnore, LoopGiveUp, LoopMark, sharedVars
  <2>2. loop.batch # {} /\ Advance /\ (UNCHANGED signal \/ MarkSignalProcessed(Current))
    BY <1>3 DEF LoopSkipOpen, LoopIgnore, LoopGiveUp, LoopMark, SignalInv
  <2> QED
    BY <2>1, <2>2, SharedStutter, AdvanceIsSafe
<1>4. ASSUME NEW side \in EntrySides, LoopDecide(side)
      PROVE  SharedKept /\ SignalInv'
  <2>1. UNCHANGED sharedVars
    BY <1>4 DEF LoopDecide, sharedVars
  <2>2. SignalInv'
    BY <1>4, SignalAssumption
    DEF LoopDecide, SignalInv, SignalTypeOK, LoopState, BatchIsPending, Pending
  <2> QED
    BY <2>1, <2>2, SharedStutter
<1>5. CASE LoopCheck
  <2>1. UNCHANGED sharedVars
    BY <1>5 DEF LoopCheck, sharedVars
  <2>2. SignalInv'
    BY <1>5 DEF LoopCheck, SignalInv, SignalTypeOK, LoopState, BatchIsPending, Pending
  <2> QED
    BY <2>1, <2>2, SharedStutter
<1>6. CASE LoopEnd \/ LoopMarkFailed
  <2>1. UNCHANGED sharedVars
    BY <1>6 DEF LoopEnd, LoopMarkFailed, sharedVars
  <2>2. SignalInv'
    BY <1>6
    DEF LoopEnd, LoopMarkFailed, SignalInv, SignalTypeOK, LoopState, LoopIdle,
        BatchIsPending, Sides, None
  <2> QED
    BY <2>1, <2>2, SharedStutter
<1>7. CASE LoopPlace \/ LoopPlaceFailed
  <2>1. loop.batch # {} /\ loop.side \in Sides
    BY <1>7 DEF LoopPlace, LoopPlaceFailed, SignalInv, SignalTypeOK, LoopState
  <2>2. CurrentSymbol \in Symbols /\ EntryQty \in Nat
    BY <2>1, CurrentIsPending, StoreAssumption
  <2>3. BrokerInv' /\ OrdersKept
    BY <1>7, <2>1, <2>2, PlaceIsSafe, BrokerStutter DEF LoopPlace, LoopPlaceFailed
  <2>4. SharedKept
    BY <1>7, <2>3, StoreStutter, DedupStutter DEF LoopPlace, LoopPlaceFailed, SharedKept
  <2>5. CASE LoopPlace
    <3>1. lastOrder + 1 \in Nat
      BY BrokerAssumption DEF BrokerInv, BrokerTypeOK
    <3>2. SignalInv'
      BY <2>1, <2>5, <3>1
      DEF LoopPlace, SignalInv, SignalTypeOK, LoopState, BatchIsPending, Pending
    <3> QED
      BY <2>4, <3>2
  <2>6. CASE LoopPlaceFailed
    BY <2>1, <2>4, <2>6, AdvanceIsSafe DEF LoopPlaceFailed
  <2> QED
    BY <1>7, <2>5, <2>6
<1>8. CASE LoopInsert \/ LoopInsertFailed
  <2>1. loop.batch # {} /\ loop.side \in Sides /\ loop.order \in Nat \cup {None}
    BY <1>8 DEF LoopInsert, LoopInsertFailed, SignalInv, SignalTypeOK, LoopState
  <2>2. CurrentSymbol \in Symbols /\ EntryQty \in Nat
    BY <2>1, CurrentIsPending, StoreAssumption
  <2>3. DedupTypeOK'
    <3>1. EntryKey(CurrentSymbol, loop.side) \in DedupKey
      BY <2>1, <2>2 DEF EntryKey, DedupKey
    <3> QED
      BY <1>8, <3>1, RecordIsSafe DEF LoopInsert, LoopInsertFailed
  <2>4. StoreInv' /\ RowsKept
    BY <1>8, <2>1, <2>2, InsertIsSafe, StoreStutter DEF LoopInsert, LoopInsertFailed
  <2>5. SharedKept
    BY <1>8, <2>3, <2>4, BrokerStutter DEF LoopInsert, LoopInsertFailed, SharedKept
  <2>6. CASE LoopInsert
    <3>1. SignalInv'
      BY <2>1, <2>6
      DEF LoopInsert, SignalInv, SignalTypeOK, LoopState, BatchIsPending, Pending
    <3> QED
      BY <2>5, <3>1
  <2>7. CASE LoopInsertFailed
    BY <2>1, <2>5, <2>7, AdvanceIsSafe DEF LoopInsertFailed
  <2> QED
    BY <1>8, <2>6, <2>7
<1> QED
  BY <1>1, <1>2, <1>3, <1>4, <1>5, <1>6, <1>7, <1>8 DEF SignalNext

\* A request thread with rows to close: the first one is a row in use.
LEMMA TargetIsUsed ==
  ASSUME StoreInv, ApiInv, NEW h \in Handlers, handler[h].todo # {}
  PROVE  /\ Target(h) \in handler[h].todo /\ Target(h) \in TradeIds
         /\ Target(h) <= lastTrade
         /\ TargetRow(h).symbol \in Symbols /\ TargetRow(h).side \in Sides
         /\ TargetRow(h).qty \in Nat
         /\ TargetKey(h) \in DedupKey
<1>1. handler[h].todo \in SUBSET TradeIds
  BY DEF ApiInv, ApiTypeOK, HandlerState
<1>2. Target(h) \in handler[h].todo
  BY <1>1, FirstIsMember, StoreAssumption DEF Target, TradeIds
<1>3. Target(h) \in TradeIds /\ Target(h) <= lastTrade
  BY <1>1, <1>2 DEF ApiInv, HandlerInv
<1>4. TargetRow(h) \in Row /\ TargetRow(h).symbol \in Symbols
  BY <1>3 DEF TargetRow, StoreInv, StoreTypeOK
<1>5. TargetRow(h).side \in Sides /\ TargetRow(h).qty \in Nat
  BY <1>4 DEF Row
<1>6. TargetKey(h) \in DedupKey
  BY <1>4, <1>5, SidesAreSides DEF TargetKey, EntryKey, DedupKey
<1> QED
  BY <1>2, <1>3, <1>4, <1>5, <1>6

\* Replacing one thread's locals.
LEMMA HandlerReplaced ==
  ASSUME ApiInv, RowsKept, StoreInv, StoreInv', NEW h \in Handlers,
         NEW local \in HandlerState, handler' = [handler EXCEPT ![h] = local],
         local.pc \in {"place_check", "place_send", "place_insert"}
           => local.symbol \in Symbols,
         local.pc \in {"close_send", "close_db"} => local.todo # {},
         \A t \in local.todo : t <= lastTrade
  PROVE  ApiInv'
<1>1. lastTrade \in Nat /\ lastTrade' \in Nat /\ lastTrade <= lastTrade'
  BY StoreAssumption DEF StoreInv, StoreTypeOK, RowsKept
<1>2. \A g \in Handlers : handler[g].todo \in SUBSET Nat
  BY StoreAssumption DEF ApiInv, ApiTypeOK, HandlerState, TradeIds
<1>3. local.todo \in SUBSET Nat
  BY StoreAssumption DEF HandlerState, TradeIds
<1>4. ApiTypeOK'
  BY DEF ApiInv, ApiTypeOK
<1>5. ASSUME NEW g \in Handlers PROVE HandlerInv(g)'
  BY <1>1, <1>2, <1>3 DEF ApiInv, ApiTypeOK, HandlerInv
<1> QED
  BY <1>4, <1>5 DEF ApiInv

LEMMA ApiKept ==
  ASSUME ApiInv, RowsKept, StoreInv, StoreInv', UNCHANGED handler
  PROVE  ApiInv'
<1>1. lastTrade \in Nat /\ lastTrade' \in Nat /\ lastTrade <= lastTrade'
  BY StoreAssumption DEF StoreInv, StoreTypeOK, RowsKept
<1>2. \A g \in Handlers : handler[g].todo \in SUBSET Nat
  BY StoreAssumption DEF ApiInv, ApiTypeOK, HandlerState, TradeIds
<1> QED
  BY <1>1, <1>2 DEF ApiInv, ApiTypeOK, HandlerInv

LEMMA OpenTradesAreUsed ==
  ASSUME StoreInv
  PROVE  /\ GetOpenTrades \in SUBSET TradeIds
         /\ \A t \in GetOpenTrades : t <= lastTrade /\ trades[t].symbol \in Symbols
BY DEF GetOpenTrades, StoreInv

LEMMA ApiSteps ==
  ASSUME StoreInv, BrokerInv, DedupTypeOK, ApiInv, NEW h \in Handlers,
         ApiRequest(h) \/ ApiStep(h)
  PROVE  SharedKept /\ ApiInv'
<1> USE DEF HandlerInv
<1>0. handler[h] \in HandlerState /\ HandlerInv(h) /\ HandlerIdle \in HandlerState
  BY DEF ApiInv, ApiTypeOK, HandlerState, HandlerIdle, Sides, None
<1>1. ASSUME NEW sym \in Symbols, NEW side \in EntrySides, PlaceRequest(h, sym, side)
      PROVE  SharedKept /\ ApiInv'
  <2>1. UNCHANGED sharedVars
    BY <1>1 DEF PlaceRequest, sharedVars
  <2>2. SharedKept
    BY <2>1, SharedStutter
  <2> DEFINE local == [handler[h] EXCEPT !.pc = "place_check", !.symbol = sym,
                                         !.side = side]
  <2>3. local \in HandlerState /\ handler' = [handler EXCEPT ![h] = local]
    BY <1>0, <1>1, SignalAssumption DEF PlaceRequest, HandlerState, ApiInv, ApiTypeOK
  <2>4. local.pc = "place_check" /\ local.symbol = sym /\ local.todo = handler[h].todo
    BY <1>0 DEF HandlerState
  <2> HIDE DEF local
  <2> QED
    BY <1>0, <2>2, <2>3, <2>4, HandlerReplaced DEF SharedKept
<1>2. ASSUME NEW todo \in SUBSET TradeIds, \A t \in todo : t <= lastTrade,
             handler' = [handler EXCEPT ![h].pc = "close", ![h].todo = todo],
             SharedKept
      PROVE  SharedKept /\ ApiInv'
  <2> DEFINE local == [handler[h] EXCEPT !.pc = "close", !.todo = todo]
  <2>3. local \in HandlerState /\ handler' = [handler EXCEPT ![h] = local]
    BY <1>0, <1>2 DEF HandlerState, ApiInv, ApiTypeOK
  <2>4. local.pc = "close" /\ local.todo = todo
    BY <1>0 DEF HandlerState
  <2> HIDE DEF local
  <2> QED
    BY <1>2, <2>3, <2>4, HandlerReplaced DEF SharedKept
<1>3. ASSUME NEW sym \in Symbols, CloseRequest(h, sym)
      PROVE  SharedKept /\ ApiInv'
  <2>1. UNCHANGED sharedVars
    BY <1>3 DEF CloseRequest, sharedVars
  <2>2. OpenTradesOf(sym) \in SUBSET GetOpenTrades
    BY DEF OpenTradesOf
  <2>3. First(OpenTradesOf(sym)) \in OpenTradesOf(sym)
    BY <1>3, <2>2, OpenTradesAreUsed, FirstIsMember, StoreAssumption
    DEF CloseRequest, TradeIds
  <2>4. First(OpenTradesOf(sym)) \in TradeIds /\ First(OpenTradesOf(sym)) <= lastTrade
    BY <2>2, <2>3, OpenTradesAreUsed
  <2>5. {First(OpenTradesOf(sym))} \in SUBSET TradeIds
    BY <2>4
  <2> QED
    BY <1>2, <1>3, <2>1, <2>4, <2>5, SharedStutter DEF CloseRequest
<1>4. CASE CloseAllRequest(h)
  <2>1. UNCHANGED sharedVars
    BY <1>4 DEF CloseAllRequest, sharedVars
  <2> QED
    BY <1>2, <1>4, <2>1, OpenTradesAreUsed, SharedStutter DEF CloseAllRequest
<1>5. ASSUME handler[h].todo # {}, Drop(h), SharedKept
      PROVE  SharedKept /\ ApiInv'
  <2>1. handler[h].todo \ {Target(h)} \in SUBSET TradeIds
    BY <1>0 DEF HandlerState
  <2>2. \A t \in handler[h].todo \ {Target(h)} : t <= lastTrade
    BY <1>0
  <2>3. handler' = [handler EXCEPT ![h].pc = "close",
                                   ![h].todo = handler[h].todo \ {Target(h)}]
    BY <1>5 DEF Drop
  <2> HIDE DEF HandlerInv
  <2> QED
    BY <1>2, <1>5, <2>1, <2>2, <2>3
<1>6. ASSUME Finish(h), SharedKept
      PROVE  SharedKept /\ ApiInv'
  <2>1. HandlerIdle.pc = "idle" /\ HandlerIdle.todo = {}
    BY DEF HandlerIdle
  <2> QED
    BY <1>0, <1>6, <2>1, HandlerReplaced DEF Finish, SharedKept
<1>7. ASSUME NEW pc \in {"place_send", "close_send", "close_db"},
             pc = "place_send" => handler[h].pc = "place_check",
             pc # "place_send" => handler[h].todo # {},
             handler' = [handler EXCEPT ![h].pc = pc],
             SharedKept
      PROVE  SharedKept /\ ApiInv'
  <2> DEFINE local == [handler[h] EXCEPT !.pc = pc]
  <2>3. local \in HandlerState /\ handler' = [handler EXCEPT ![h] = local]
    BY <1>0, <1>7 DEF HandlerState, ApiInv, ApiTypeOK
  <2>4. local.pc = pc /\ local.symbol = handler[h].symbol /\ local.todo = handler[h].todo
    BY <1>0 DEF HandlerState
  <2> HIDE DEF local
  <2> QED
    BY <1>0, <1>7, <2>3, <2>4, HandlerReplaced DEF SharedKept
<1>8. CASE PlaceCheck(h)
  <2>1. UNCHANGED sharedVars
    BY <1>8 DEF PlaceCheck, sharedVars
  <2> QED
    BY <1>7, <1>8, <2>1, SharedStutter DEF PlaceCheck
<1>9. CASE PlaceRefused(h) \/ CloseDone(h)
  <2>1. UNCHANGED sharedVars
    BY <1>9 DEF PlaceRefused, CloseDone, sharedVars
  <2> QED
    BY <1>6, <1>9, <2>1, SharedStutter DEF PlaceRefused, CloseDone
<1>10. CASE CloseCheck(h) \/ CloseRefused(h) \/ CloseDbFailed(h)
  <2>1. UNCHANGED sharedVars
    BY <1>10 DEF CloseCheck, CloseRefused, CloseDbFailed, sharedVars
  <2>2. handler[h].todo # {}
    BY <1>0, <1>10 DEF CloseCheck, CloseRefused, CloseDbFailed, ApiInv, HandlerInv
  <2> QED
    BY <1>5, <1>7, <1>10, <2>1, <2>2, SharedStutter
    DEF CloseCheck, CloseRefused, CloseDbFailed
<1>11. CASE PlaceSend(h) \/ PlaceSendFailed(h)
  <2>1. handler[h].symbol \in Symbols /\ handler[h].side \in Sides /\ EntryQty \in Nat
    BY <1>0, <1>11, StoreAssumption DEF PlaceSend, PlaceSendFailed, HandlerState
  <2>2. BrokerInv' /\ OrdersKept
    BY <1>11, <2>1, PlaceIsSafe, BrokerStutter DEF PlaceSend, PlaceSendFailed
  <2>3. SharedKept
    BY <1>11, <2>2, StoreStutter, DedupStutter DEF PlaceSend, PlaceSendFailed, SharedKept
  <2>4. CASE PlaceSend(h)
    <3> DEFINE local == [handler[h] EXCEPT !.pc = "place_insert", !.order = lastOrder + 1]
    <3>1. lastOrder + 1 \in Nat
      BY BrokerAssumption DEF BrokerInv, BrokerTypeOK
    <3>2. local \in HandlerState /\ handler' = [handler EXCEPT ![h] = local]
      BY <1>0, <2>4, <3>1 DEF PlaceSend, HandlerState, ApiInv, ApiTypeOK
    <3>3. local.pc = "place_insert" /\ local.symbol = handler[h].symbol
          /\ local.todo = handler[h].todo
      BY <1>0 DEF HandlerState
    <3> HIDE DEF local
    <3> QED
      BY <1>0, <2>1, <2>3, <3>2, <3>3, HandlerReplaced DEF SharedKept
  <2>5. CASE PlaceSendFailed(h)
    BY <1>6, <2>3, <2>5 DEF PlaceSendFailed
  <2> QED
    BY <1>11, <2>4, <2>5
<1>12. CASE PlaceInsert(h) \/ PlaceInsertFailed(h)
  <2>1. /\ handler[h].symbol \in Symbols /\ handler[h].side \in Sides
        /\ handler[h].order \in Nat \cup {None} /\ EntryQty \in Nat
    BY <1>0, <1>12, StoreAssumption DEF PlaceInsert, PlaceInsertFailed, HandlerState
  <2>2. EntryKey(handler[h].symbol, handler[h].side) \in DedupKey
    BY <2>1 DEF EntryKey, DedupKey
  <2>3. StoreInv' /\ RowsKept
    BY <1>12, <2>1, InsertIsSafe, StoreStutter DEF PlaceInsert, PlaceInsertFailed
  <2>4. SharedKept
    BY <1>12, <2>2, <2>3, RecordIsSafe, BrokerStutter
    DEF PlaceInsert, PlaceInsertFailed, SharedKept
  <2> QED
    BY <1>6, <1>12, <2>4 DEF PlaceInsert, PlaceInsertFailed
<1>13. CASE CloseSend(h) \/ CloseSendFailed(h)
  <2>1. handler[h].todo # {}
    BY <1>0, <1>13 DEF CloseSend, CloseSendFailed
  <2>2. /\ TargetRow(h).symbol \in Symbols /\ Opposite(TargetRow(h).side) \in Sides
        /\ TargetRow(h).qty \in Nat /\ TargetKey(h) \in DedupKey
    BY <2>1, TargetIsUsed, SidesAreSides
  <2>3. BrokerInv' /\ OrdersKept
    BY <1>13, <2>2, PlaceIsSafe, BrokerStutter DEF CloseSend, CloseSendFailed
  <2>4. SharedKept
    BY <1>13, <2>2, <2>3, StoreStutter, DedupStutter, RecordIsSafe
    DEF CloseSend, CloseSendFailed, SharedKept
  <2> QED
    BY <1>5, <1>7, <1>13, <2>1, <2>4 DEF CloseSend, CloseSendFailed
<1>14. CASE CloseDb(h)
  <2>1. handler[h].todo # {}
    BY <1>0, <1>14 DEF CloseDb
  <2>2. StoreInv' /\ RowsKept
    BY <1>14, <2>1, TargetIsUsed, CloseIsSafe DEF CloseDb, CloseReasons
  <2>3. SharedKept
    BY <1>14, <2>2, BrokerStutter, DedupStutter DEF CloseDb, SharedKept
  <2> QED
    BY <1>5, <1>14, <2>1, <2>3 DEF CloseDb
<1> QED
  BY <1>1, <1>3, <1>4, <1>8, <1>9, <1>10, <1>11, <1>12, <1>13, <1>14
  DEF ApiRequest, ApiStep

LEMMA TotalIsNat ==
  ASSUME NEW row \in Row
  PROVE  /\ Total(row) \in Nat /\ Half(row) \in Nat /\ Half(row) <= Total(row)
BY DEF Row, Total, Half, None

\* A pass with rows left: the row it is at is in use, and its copy is a row.
LEMMA MineIsUsed ==
  ASSUME MgrInv, mgr.todo # {}
  PROVE  /\ Mine \in mgr.todo /\ Mine \in TradeIds /\ Mine <= lastTrade
         /\ MyRow \in Row /\ MyRow.symbol \in Symbols /\ MyRow.side \in Sides
         /\ Total(MyRow) \in Nat
<1>1. mgr.todo \in SUBSET TradeIds /\ mgr.snap \in [TradeIds -> Row]
  BY DEF MgrInv, MgrTypeOK, MgrState
<1>2. Mine \in mgr.todo
  BY <1>1, FirstIsMember, StoreAssumption DEF Mine, TradeIds
<1>3. MyRow \in Row /\ MyRow.symbol \in Symbols
  BY <1>1, <1>2 DEF MyRow, MgrInv
<1> QED
  BY <1>1, <1>2, <1>3, TotalIsNat DEF MgrInv, Row

LEMMA NoRowIsRow == NoRow \in Row
BY DEF NoRow, Row, Sides, None

\* The pass moves on within the row it is at.
LEMMA SameTrade ==
  ASSUME MgrInv, mgr.todo # {}, NEW pc \in {"open", "send", "db", "trail", "exit"},
         NEW qty \in Nat, NEW reason \in {"none", "EXIT", "PARTIAL_50PCT", "PARTIAL_FULL"},
         qty <= Total(MyRow),
         mgr' = [mgr EXCEPT !.pc = pc, !.qty = qty, !.reason = reason],
         RowsKept, StoreInv, StoreInv'
  PROVE  MgrInv'
<1>1. /\ mgr' \in MgrState /\ mgr'.pc = pc /\ mgr'.qty = qty
      /\ mgr'.todo = mgr.todo /\ mgr'.snap = mgr.snap
  BY DEF MgrInv, MgrTypeOK, MgrState
<1>2. MyRow' = MyRow
  BY <1>1 DEF MyRow, Mine
<1>3. lastTrade \in Nat /\ lastTrade' \in Nat /\ lastTrade <= lastTrade'
  BY StoreAssumption DEF StoreInv, StoreTypeOK, RowsKept
<1>4. mgr.todo \in SUBSET Nat
  BY StoreAssumption DEF MgrInv, MgrTypeOK, MgrState, TradeIds
<1>5. Total(MyRow)' = Total(MyRow)
  BY <1>2 DEF Total
<1>6. \A t \in mgr'.todo : t <= lastTrade' /\ mgr'.snap[t].symbol \in Symbols
  BY <1>1, <1>3, <1>4 DEF MgrInv
<1> QED
  BY <1>1, <1>5, <1>6 DEF MgrInv, MgrTypeOK

LEMMA OnToNextTrade ==
  ASSUME MgrInv, mgr.todo # {}, mgr' = NextTrade, RowsKept, StoreInv, StoreInv'
  PROVE  MgrInv'
<1>1. Mine \in TradeIds
  BY MineIsUsed
<1> HIDE DEF Mine
<1>2. /\ mgr' \in MgrState /\ mgr'.pc = "price" /\ mgr'.todo = mgr.todo \ {Mine}
      /\ mgr'.snap = [mgr.snap EXCEPT ![Mine] = NoRow]
  BY <1>1, NoRowIsRow DEF MgrInv, MgrTypeOK, MgrState, NextTrade
<1>3. lastTrade \in Nat /\ lastTrade' \in Nat /\ lastTrade <= lastTrade'
  BY StoreAssumption DEF StoreInv, StoreTypeOK, RowsKept
<1>4. mgr.todo \in SUBSET TradeIds /\ mgr.snap \in [TradeIds -> Row]
  BY DEF MgrInv, MgrTypeOK, MgrState
<1>5. ASSUME NEW t \in mgr'.todo
      PROVE  t <= lastTrade' /\ mgr'.snap[t].symbol \in Symbols
  <2>1. t \in mgr.todo /\ t # Mine /\ t \in TradeIds
    BY <1>2, <1>4
  <2>2. mgr'.snap[t] = mgr.snap[t]
    BY <1>2, <1>4, <2>1
  <2>3. t \in Nat
    BY <2>1, StoreAssumption DEF TradeIds
  <2> QED
    BY <1>3, <2>1, <2>2, <2>3 DEF MgrInv
<1> QED
  BY <1>2, <1>5 DEF MgrInv, MgrTypeOK

LEMMA ExitRefused ==
  ASSUME MgrInv, mgr.todo # {}, mgr' = AfterExit, RowsKept, StoreInv, StoreInv'
  PROVE  MgrInv'
<1>1. 0 \in Nat /\ 0 <= Total(MyRow)
  BY MineIsUsed
<1>2. CASE mgr.reason = "PARTIAL_50PCT"
  <2>1. mgr' = [mgr EXCEPT !.pc = "trail", !.qty = 0, !.reason = "none"]
    BY <1>2 DEF AfterExit
  <2> QED
    BY <1>1, <2>1, SameTrade
<1>3. CASE mgr.reason # "PARTIAL_50PCT"
  BY <1>3, OnToNextTrade DEF AfterExit
<1> QED
  BY <1>2, <1>3

LEMMA MgrSteps ==
  ASSUME StoreInv, BrokerInv, DedupTypeOK, MgrInv, MgrStart \/ MgrStep
  PROVE  SharedKept /\ MgrInv'
<1>1. mgr \in MgrState /\ mgr.qty \in Nat
  BY DEF MgrInv, MgrTypeOK, MgrState
<1>2. mgr.todo # {} =>
        /\ Mine \in TradeIds /\ Mine <= lastTrade /\ MyRow \in Row
        /\ MyRow.symbol \in Symbols /\ Opposite(MyRow.side) \in Sides
        /\ Total(MyRow) \in Nat
  BY MineIsUsed, SidesAreSides
<1>3. SharedKept => RowsKept /\ StoreInv'
  BY DEF SharedKept
<1>4. CASE MgrStart
  <2>1. UNCHANGED sharedVars
    BY <1>4 DEF MgrStart, MgrLocal, sharedVars
  <2>2. GetOpenTrades \in SUBSET TradeIds
    BY OpenTradesAreUsed
  <2> DEFINE copies == [t \in TradeIds |-> IF t \in GetOpenTrades THEN trades[t] ELSE NoRow]
  <2>3. copies \in [TradeIds -> Row]
    BY NoRowIsRow DEF StoreInv, StoreTypeOK
  <2>4. \A t \in GetOpenTrades : t <= lastTrade /\ copies[t].symbol \in Symbols
    BY <2>2, OpenTradesAreUsed
  <2>5. mgr' = [mgrIdle EXCEPT !.pc = "price", !.todo = GetOpenTrades, !.snap = copies]
    BY <1>4 DEF MgrStart
  <2>6. lastTrade' = lastTrade
    BY <2>1 DEF sharedVars, storeVars
  <2> HIDE DEF copies
  <2>7. /\ mgr' \in MgrState /\ mgr'.pc = "price" /\ mgr'.todo = GetOpenTrades
        /\ mgr'.snap = copies
    BY <2>2, <2>3, <2>5 DEF mgrIdle, MgrState
  <2>8. MgrInv'
    BY <2>4, <2>6, <2>7 DEF MgrInv, MgrTypeOK
  <2> QED
    BY <2>1, <2>8, SharedStutter
<1>5. CASE MgrNoPrice \/ MgrHold
  <2>1. UNCHANGED sharedVars
    BY <1>5 DEF MgrNoPrice, MgrHold, MgrLocal, sharedVars
  <2>2. mgr.todo # {} /\ mgr' = NextTrade
    BY <1>5 DEF MgrNoPrice, MgrHold, MgrInv
  <2> QED
    BY <1>3, <2>1, <2>2, SharedStutter, OnToNextTrade
<1>6. CASE MgrEnd \/ MgrAborted
  <2>1. UNCHANGED sharedVars
    BY <1>6 DEF MgrEnd, MgrAborted, MgrLocal, sharedVars
  <2>2. [t \in TradeIds |-> NoRow] \in [TradeIds -> Row]
    BY NoRowIsRow
  <2>3. MgrInv'
    BY <1>6, <2>2 DEF MgrEnd, MgrAborted, MgrInv, MgrTypeOK, mgrIdle, MgrState
  <2> QED
    BY <2>1, <2>3, SharedStutter
<1>7. CASE MgrRefused
  <2>1. UNCHANGED sharedVars
    BY <1>7 DEF MgrRefused, MgrLocal, sharedVars
  <2>2. mgr.todo # {} /\ mgr' = AfterExit
    BY <1>7 DEF MgrRefused, MgrInv
  <2> QED
    BY <1>3, <2>1, <2>2, SharedStutter, ExitRefused
<1>8. CASE MgrPartial
  <2>1. UNCHANGED sharedVars /\ mgr.todo # {}
    BY <1>8 DEF MgrPartial, MgrLocal, sharedVars
  <2>2. /\ Half(MyRow) \in Nat /\ Half(MyRow) <= Total(MyRow)
        /\ Total(MyRow) \in Nat /\ Total(MyRow) <= Total(MyRow)
    BY <1>2, <2>1, TotalIsNat
  <2>3. CASE ExitsAll(MyRow)
    <3>1. mgr' = [mgr EXCEPT !.pc = "open", !.qty = Total(MyRow), !.reason = "PARTIAL_FULL"]
      BY <1>8, <2>3 DEF MgrPartial
    <3> QED
      BY <1>3, <2>1, <2>2, <3>1, SharedStutter, SameTrade
  <2>4. CASE ~ExitsAll(MyRow)
    <3>1. mgr' = [mgr EXCEPT !.pc = "open", !.qty = Half(MyRow), !.reason = "PARTIAL_50PCT"]
      BY <1>8, <2>4 DEF MgrPartial
    <3> QED
      BY <1>3, <2>1, <2>2, <3>1, SharedStutter, SameTrade
  <2> QED
    BY <2>3, <2>4
<1>9. ASSUME NEW pc \in {"trail", "exit"}, mgr.todo # {}, SharedKept,
             mgr.pc \in {"price", "trail"}, mgr' = [mgr EXCEPT !.pc = pc]
      PROVE  MgrInv'
  <2>1. /\ mgr' \in MgrState /\ mgr'.pc = pc
        /\ mgr'.todo = mgr.todo /\ mgr'.snap = mgr.snap
    BY <1>1, <1>9 DEF MgrState
  <2>2. lastTrade \in Nat /\ lastTrade' \in Nat /\ lastTrade <= lastTrade'
    BY <1>9, StoreAssumption DEF SharedKept, StoreInv, StoreTypeOK, RowsKept
  <2>3. mgr.todo \in SUBSET Nat
    BY <1>1, StoreAssumption DEF MgrState, TradeIds
  <2> QED
    BY <1>9, <2>1, <2>2, <2>3 DEF MgrInv, MgrTypeOK
<1>10. CASE MgrNoPartial \/ MgrNoTrail
  <2>1. UNCHANGED sharedVars /\ mgr.todo # {}
    BY <1>10 DEF MgrNoPartial, MgrNoTrail, MgrLocal, sharedVars, MgrInv
  <2> QED
    BY <1>9, <1>10, <2>1, SharedStutter DEF MgrNoPartial, MgrNoTrail
<1>11. CASE MgrTrail
  <2>1. mgr.todo # {}
    BY <1>11 DEF MgrTrail, MgrInv
  <2>2. /\ MyRow.tstatus \in {"PENDING", "FILLED", "PARTIAL", "CLOSED"}
        /\ trades[Mine].remaining \in Nat \cup {None}
    BY <1>2, <2>1 DEF StoreInv, StoreTypeOK, Row
  <2>3. SharedKept
    BY <1>2, <1>11, <2>1, <2>2, UpdateIsSafe, BrokerStutter, DedupStutter
    DEF MgrTrail, SharedKept
  <2> QED
    BY <1>9, <1>11, <2>1, <2>3 DEF MgrTrail
<1>12. CASE MgrMayClose
  <2>1. UNCHANGED sharedVars /\ mgr.todo # {} /\ mgr.qty <= Total(MyRow)
    BY <1>12 DEF MgrMayClose, MgrLocal, sharedVars, MgrInv
  <2>2. mgr' = [mgr EXCEPT !.pc = "send", !.qty = mgr.qty, !.reason = mgr.reason]
    BY <1>1, <1>12 DEF MgrMayClose, MgrState
  <2> QED
    BY <1>1, <1>3, <2>1, <2>2, SharedStutter, SameTrade DEF MgrState
<1>13. CASE MgrExit
  <2>1. UNCHANGED sharedVars /\ mgr.todo # {}
    BY <1>13 DEF MgrExit, MgrLocal, sharedVars, MgrInv
  <2>2. mgr' = [mgr EXCEPT !.pc = "open", !.qty = Total(MyRow), !.reason = "EXIT"]
    BY <1>13 DEF MgrExit
  <2>3. Total(MyRow) \in Nat /\ Total(MyRow) <= Total(MyRow)
    BY <1>2, <2>1
  <2> QED
    BY <1>3, <2>1, <2>2, <2>3, SharedStutter, SameTrade
<1>14. CASE MgrSend \/ MgrSendFailed
  <2>1. mgr.todo # {} /\ mgr.qty <= Total(MyRow)
    BY <1>14 DEF MgrSend, MgrSendFailed, MgrInv
  <2>2. MyKey \in DedupKey
    BY <1>1, <1>2, <2>1, KeysAreKeys DEF MyKey, MgrState
  <2>3. BrokerInv' /\ OrdersKept
    BY <1>1, <1>2, <1>14, <2>1, PlaceIsSafe, BrokerStutter DEF MgrSend, MgrSendFailed
  <2>4. SharedKept
    BY <1>14, <2>2, <2>3, RecordIsSafe, DedupStutter, StoreStutter
    DEF MgrSend, MgrSendFailed, SharedKept
  <2>5. mgr' = [mgr EXCEPT !.pc = "db", !.qty = mgr.qty, !.reason = mgr.reason]
    BY <1>1, <1>14 DEF MgrSend, MgrSendFailed, MgrState
  <2> QED
    BY <1>1, <1>3, <2>1, <2>4, <2>5, SameTrade DEF MgrState
<1>15. CASE MgrCloseDb
  <2>1. mgr.todo # {} /\ mgr' = NextTrade
    BY <1>15 DEF MgrCloseDb, MgrInv
  <2>2. SharedKept
    BY <1>2, <1>15, <2>1, CloseIsSafe, BrokerStutter, DedupStutter
    DEF MgrCloseDb, SharedKept, CloseReasons
  <2> QED
    BY <1>3, <2>1, <2>2, OnToNextTrade
<1>16. CASE MgrPartialDb
  <2>1. mgr.todo # {} /\ mgr.qty <= Total(MyRow)
    BY <1>16 DEF MgrPartialDb, MgrInv
  <2>2. Reduced(MyRow) \in Nat
    BY <1>1, <1>2, <2>1 DEF Reduced
  <2>3. SharedKept
    BY <1>2, <1>16, <2>1, <2>2, UpdateIsSafe, BrokerStutter, DedupStutter
    DEF MgrPartialDb, SharedKept
  <2>4. CASE mgr.reason # "PARTIAL_50PCT"
    <3>1. mgr' = NextTrade
      BY <1>16, <2>4 DEF MgrPartialDb, Partial
    <3> QED
      BY <1>3, <2>1, <2>3, <3>1, OnToNextTrade
  <2>5. CASE mgr.reason = "PARTIAL_50PCT"
    <3> DEFINE copy == [MyRow EXCEPT !.remaining = Reduced(MyRow), !.partialDone = TRUE]
    <3>1. copy \in Row /\ copy.symbol = MyRow.symbol
      BY <1>2, <2>1, <2>2 DEF Row
    <3>2. mgr' = [mgr EXCEPT !.pc = "trail", !.qty = 0, !.reason = "none",
                             !.snap = [mgr.snap EXCEPT ![Mine] = copy]]
      BY <1>1, <1>2, <1>16, <2>1, <2>5 DEF MgrPartialDb, AfterExit, MgrState, MyRow
    <3> HIDE DEF copy
    <3>3. /\ mgr' \in MgrState /\ mgr'.pc = "trail" /\ mgr'.todo = mgr.todo
          /\ mgr'.snap = [mgr.snap EXCEPT ![Mine] = copy]
      BY <1>1, <1>2, <2>1, <3>1, <3>2 DEF MgrState
    <3>4. lastTrade \in Nat /\ lastTrade' \in Nat /\ lastTrade <= lastTrade'
      BY <2>3, StoreAssumption DEF SharedKept, StoreInv, StoreTypeOK, RowsKept
    <3>5. mgr.todo \in SUBSET TradeIds /\ mgr.snap \in [TradeIds -> Row]
      BY <1>1 DEF MgrState
    <3>6. ASSUME NEW t \in mgr.todo
          PROVE  t <= lastTrade' /\ mgr'.snap[t].symbol \in Symbols
      <4>1. t \in Nat /\ t \in TradeIds
        BY <3>5, StoreAssumption DEF TradeIds
      <4>2. mgr'.snap[t] = IF t = Mine THEN copy ELSE mgr.snap[t]
        BY <3>3, <3>5, <4>1
      <4> QED
        BY <1>2, <2>1, <3>1, <3>4, <4>1, <4>2 DEF MgrInv
    <3> QED
      BY <2>1, <2>3, <3>3, <3>6 DEF MgrInv, MgrTypeOK
  <2> QED
    BY <2>4, <2>5
<1> QED
  BY <1>4, <1>5, <1>6, <1>7, <1>8, <1>10, <1>11, <1>12, <1>13, <1>14, <1>15, <1>16
  DEF MgrStep

LEMMA RecReplaced ==
  ASSUME RecInv, RowsKept, StoreInv, StoreInv', NEW r \in Reconcilers,
         NEW local \in RecState, rec' = [rec EXCEPT ![r] = local],
         \A t \in local.db : t <= lastTrade
  PROVE  RecInv'
<1>1. lastTrade \in Nat /\ lastTrade' \in Nat /\ lastTrade <= lastTrade'
  BY StoreAssumption DEF StoreInv, StoreTypeOK, RowsKept
<1>2. \A q \in Reconcilers : rec[q].db \in SUBSET Nat
  BY StoreAssumption DEF RecInv, RecTypeOK, RecState, TradeIds
<1>3. local.db \in SUBSET Nat
  BY StoreAssumption DEF RecState, TradeIds
<1>4. RecTypeOK'
  BY DEF RecInv, RecTypeOK
<1>5. ASSUME NEW q \in Reconcilers, NEW t \in rec'[q].db PROVE t <= lastTrade'
  BY <1>1, <1>2, <1>3 DEF RecInv, RecTypeOK
<1> QED
  BY <1>4, <1>5 DEF RecInv

LEMMA RecKept ==
  ASSUME RecInv, RowsKept, StoreInv, StoreInv', UNCHANGED rec
  PROVE  RecInv'
<1>1. lastTrade \in Nat /\ lastTrade' \in Nat /\ lastTrade <= lastTrade'
  BY StoreAssumption DEF StoreInv, StoreTypeOK, RowsKept
<1>2. \A q \in Reconcilers : rec[q].db \in SUBSET Nat
  BY StoreAssumption DEF RecInv, RecTypeOK, RecState, TradeIds
<1> QED
  BY <1>1, <1>2 DEF RecInv, RecTypeOK

LEMMA MgrKept ==
  ASSUME MgrInv, RowsKept, StoreInv, StoreInv', UNCHANGED mgr
  PROVE  MgrInv'
<1>1. lastTrade \in Nat /\ lastTrade' \in Nat /\ lastTrade <= lastTrade'
  BY StoreAssumption DEF StoreInv, StoreTypeOK, RowsKept
<1>2. mgr.todo \in SUBSET Nat
  BY StoreAssumption DEF MgrInv, MgrTypeOK, MgrState, TradeIds
<1>3. Total(MyRow)' = Total(MyRow)
  BY DEF Total, MyRow, Mine
<1> QED
  BY <1>1, <1>2, <1>3 DEF MgrInv, MgrTypeOK

LEMMA RecIdleIsState == RecIdle \in RecState /\ RecIdle.db = {}
BY DEF RecIdle, RecState, NoHoldings

LEMMA RecSteps ==
  ASSUME StoreInv, BrokerInv, DedupTypeOK, RecInv, NEW r \in Reconcilers,
         RecStart(r) \/ RecStep(r) \/ RecDbFailed(r)
  PROVE  SharedKept /\ RecInv'
<1>0. /\ rec[r] \in RecState /\ rec[r].db \in SUBSET TradeIds
      /\ \A t \in rec[r].db : t <= lastTrade
      /\ rec[r].ib \in [Symbols -> Int]
  BY DEF RecInv, RecTypeOK, RecState
<1>1. SharedKept => RowsKept /\ StoreInv'
  BY DEF SharedKept
<1>2. CASE RecStart(r)
  <2>1. UNCHANGED sharedVars
    BY <1>2 DEF RecStart, RecLocal, sharedVars
  <2>2. /\ OpenSymbols \in SUBSET (Symbols \cup {"none"})
        /\ GetOpenTrades \in SUBSET TradeIds /\ \A t \in GetOpenTrades : t <= lastTrade
    BY OpenTradesAreUsed DEF OpenSymbols
  <2> DEFINE local == [rec[r] EXCEPT !.pc = "portfolio", !.db = GetOpenTrades,
                                     !.known = OpenSymbols]
  <2>3. local \in RecState /\ local.db = GetOpenTrades
    BY <1>0, <2>2 DEF RecState
  <2>4. rec' = [rec EXCEPT ![r] = local]
    BY <1>2 DEF RecStart, RecInv, RecTypeOK
  <2> HIDE DEF local
  <2> QED
    BY <1>1, <2>1, <2>2, <2>3, <2>4, RecReplaced, SharedStutter
<1>3. CASE RecPortfolio(r)
  <2>1. UNCHANGED sharedVars
    BY <1>3 DEF RecPortfolio, RecLocal, sharedVars
  <2> DEFINE local == [rec[r] EXCEPT !.pc = "apply", !.ib = position]
  <2>2. local \in RecState /\ local.db = rec[r].db
    BY <1>0 DEF RecState, BrokerInv, BrokerTypeOK
  <2>3. rec' = [rec EXCEPT ![r] = local]
    BY <1>3 DEF RecPortfolio, RecInv, RecTypeOK
  <2> HIDE DEF local
  <2> QED
    BY <1>0, <1>1, <2>1, <2>2, <2>3, RecReplaced, SharedStutter
<1>4. CASE RecPortfolioFailed(r) \/ RecDbFailed(r) \/ RecEnd(r)
  <2>1. UNCHANGED sharedVars
    BY <1>4 DEF RecPortfolioFailed, RecDbFailed, RecEnd, RecLocal, sharedVars
  <2>2. rec' = [rec EXCEPT ![r] = RecIdle]
    BY <1>4 DEF RecPortfolioFailed, RecDbFailed, RecEnd
  <2> QED
    BY <1>1, <2>1, <2>2, RecIdleIsState, RecReplaced, SharedStutter
<1>5. CASE RecClose(r)
  <2> DEFINE t == First(Ghosts(r))
  <2>1. t \in rec[r].db
    <3>1. Ghosts(r) \in SUBSET Nat /\ Ghosts(r) # {} /\ Ghosts(r) \subseteq rec[r].db
      BY <1>0, <1>5, StoreAssumption DEF RecClose, Ghosts, TradeIds
    <3> QED
      BY <3>1, FirstIsMember
  <2> HIDE DEF t
  <2>2. SharedKept
    <3>1. CloseTrade(t, "NOT_IN_IB") /\ UNCHANGED <<brokerVars, recent>>
      BY <1>5 DEF RecClose, t
    <3>2. t \in TradeIds /\ t <= lastTrade /\ "NOT_IN_IB" \in CloseReasons
      BY <1>0, <2>1 DEF CloseReasons
    <3> QED
      BY <3>1, <3>2, CloseIsSafe, BrokerStutter, DedupStutter DEF SharedKept
  <2> DEFINE local == [rec[r] EXCEPT !.db = rec[r].db \ {t}]
  <2>3. local \in RecState /\ local.db = rec[r].db \ {t}
    BY <1>0 DEF RecState
  <2>4. rec' = [rec EXCEPT ![r] = local]
    BY <1>5 DEF RecClose, RecInv, RecTypeOK, t
  <2> HIDE DEF local
  <2> QED
    BY <1>0, <1>1, <2>2, <2>3, <2>4, RecReplaced
<1>6. ASSUME NEW sym \in Symbols, RecCreate(r, sym)
      PROVE  SharedKept /\ RecInv'
  <2> DEFINE held == rec[r].ib[sym]
             side == IF held > 0 THEN "BUY" ELSE "SELL"
             qty == IF held > 0 THEN held ELSE -held
  <2>1. side \in Sides /\ qty \in Nat
    BY <1>0 DEF Sides
  <2>2. InsertTrade(sym, side, qty, None, "PENDING", None)
    BY <1>6 DEF RecCreate
  <2> HIDE DEF side, qty
  <2>3. SharedKept
    BY <1>6, <2>1, <2>2, InsertIsSafe, BrokerStutter, DedupStutter
    DEF RecCreate, SharedKept
  <2> DEFINE local == [rec[r] EXCEPT !.known = rec[r].known \cup {sym}]
  <2>4. local \in RecState /\ local.db = rec[r].db
    BY <1>0 DEF RecState
  <2>5. rec' = [rec EXCEPT ![r] = local]
    BY <1>6 DEF RecCreate, RecInv, RecTypeOK
  <2> HIDE DEF local
  <2> QED
    BY <1>0, <1>1, <2>3, <2>4, <2>5, RecReplaced
<1> QED
  BY <1>2, <1>3, <1>4, <1>5, <1>6 DEF RecStep

---------------------------------------------------------------------------
(* The whole system. *)

LEMMA InitIsTyped ==
  ASSUME Init
  PROVE  TypeInv
<1>1. StoreInv
  BY StoreAssumption, NoRowIsRow
  DEF Init, StoreInit, StoreInv, StoreTypeOK, NoRow, TradeIds
<1>2. BrokerInv
  BY BrokerAssumption
  DEF Init, BrokerInit, BrokerInv, BrokerTypeOK, Order, NoOrder, Sides
<1>3. DedupTypeOK
  BY DEF Init, DedupInit, DedupTypeOK
<1>4. SignalInv
  BY DEF Init, SignalInit, SignalInv, SignalTypeOK, LoopIdle, LoopState, BatchIsPending,
         Sides, None
<1>5. ApiInv
  BY DEF Init, ApiInit, ApiInv, ApiTypeOK, HandlerInv, HandlerIdle, HandlerState, Sides,
         None
<1>6. MgrInv
  BY NoRowIsRow DEF Init, MgrInit, MgrInv, MgrTypeOK, mgrIdle, MgrState
<1>7. RecInv
  BY RecIdleIsState DEF Init, RecInit, RecInv, RecTypeOK
<1>8. SystemInv
  BY SystemAssumption DEF Init, SystemInv
<1> QED
  BY <1>1, <1>2, <1>3, <1>4, <1>5, <1>6, <1>7, <1>8 DEF TypeInv

LEMMA CrashIsTyped ==
  ASSUME TypeInv, Crash
  PROVE  SharedKept /\ TypeInv'
<1>1. StoreInv' /\ RowsKept /\ BrokerInv' /\ OrdersKept
  BY StoreStutter, BrokerStutter DEF Crash, TypeInv
<1>2. DedupTypeOK'
  BY DEF Crash, DedupTypeOK
<1>3. SignalInv'
  BY DEF Crash, TypeInv, SignalInv, SignalTypeOK, LoopIdle, LoopState, BatchIsPending,
         Sides, None
<1>4. ApiInv'
  BY DEF Crash, ApiInv, ApiTypeOK, HandlerInv, HandlerIdle, HandlerState, Sides, None
<1>5. MgrInv'
  BY NoRowIsRow DEF Crash, MgrInv, MgrTypeOK, mgrIdle, MgrState
<1>6. RecInv'
  BY RecIdleIsState DEF Crash, RecInv, RecTypeOK
<1>7. SystemInv'
  BY SystemAssumption DEF Crash, TypeInv, SystemInv
<1> QED
  BY <1>1, <1>2, <1>3, <1>4, <1>5, <1>6, <1>7 DEF TypeInv, SharedKept

LEMMA NextIsTyped ==
  ASSUME TypeInv, [Next]_vars
  PROVE  SharedKept /\ TypeInv'
<1> USE DEF TypeInv
<1>1. SharedKept => StoreInv' /\ RowsKept
  BY DEF SharedKept
<1>2. UNCHANGED signalVars => SignalInv'
  BY DEF signalVars, SignalInv, SignalTypeOK, BatchIsPending, Pending
<1>3. UNCHANGED systemVars => SystemInv'
  BY DEF systemVars, SystemInv
<1>4. SharedKept /\ SignalInv' /\ ApiInv' /\ MgrInv' /\ RecInv' /\ SystemInv' => TypeInv'
  BY DEF SharedKept
<1> HIDE DEF TypeInv
<1>5. StoreInv /\ BrokerInv /\ DedupTypeOK /\ SignalInv /\ ApiInv /\ MgrInv /\ RecInv
      /\ SystemInv
  BY DEF TypeInv
<1>6. CASE UNCHANGED vars
  BY <1>1, <1>2, <1>3, <1>4, <1>5, <1>6, SharedStutter, ApiKept, MgrKept, RecKept DEF vars
<1>7. CASE BootReconcile \/ BootFailed
  <2>1. SharedKept /\ RecInv'
    BY <1>5, <1>7, SystemAssumption, RecSteps DEF BootReconcile, BootFailed
  <2>2. SystemInv'
    BY <1>5, <1>7 DEF BootReconcile, BootFailed, SystemInv
  <2> QED
    BY <1>1, <1>2, <1>4, <1>5, <1>7, <2>1, <2>2, ApiKept, MgrKept DEF BootReconcile, BootFailed
<1>8. CASE BootOffline \/ BootDone
  <2>1. SharedKept
    BY <1>5, <1>8, SharedStutter DEF BootOffline, BootDone
  <2>2. SystemInv'
    BY <1>5, <1>8 DEF BootOffline, BootDone, SystemInv
  <2> QED
    BY <1>1, <1>2, <1>4, <1>5, <1>8, <2>1, <2>2, ApiKept, MgrKept, RecKept
    DEF BootOffline, BootDone
<1>9. CASE Crash
  BY <1>9, CrashIsTyped
<1>10. CASE SignalJob
  <2>1. SharedKept /\ SignalInv'
    BY <1>5, <1>10, SignalSteps DEF SignalJob
  <2> QED
    BY <1>1, <1>3, <1>4, <1>5, <1>10, <2>1, ApiKept, MgrKept, RecKept DEF SignalJob
<1>11. CASE ManagerJob
  <2>1. SharedKept /\ MgrInv'
    BY <1>5, <1>11, MgrSteps DEF ManagerJob
  <2> QED
    BY <1>1, <1>2, <1>3, <1>4, <1>5, <1>11, <2>1, ApiKept, RecKept DEF ManagerJob
<1>12. ASSUME NEW h \in Handlers, ApiThread(h)
       PROVE  SharedKept /\ TypeInv'
  <2>1. SharedKept /\ ApiInv'
    BY <1>5, <1>12, ApiSteps DEF ApiThread
  <2> QED
    BY <1>1, <1>2, <1>3, <1>4, <1>5, <1>12, <2>1, MgrKept, RecKept DEF ApiThread
<1>13. ASSUME NEW r \in Reconcilers, ReconcilerStart(r) \/ ReconcilerThread(r)
       PROVE  SharedKept /\ TypeInv'
  <2>1. SharedKept /\ RecInv'
    BY <1>5, <1>13, RecSteps DEF ReconcilerStart, ReconcilerThread
  <2> QED
    BY <1>1, <1>2, <1>3, <1>4, <1>5, <1>13, <2>1, ApiKept, MgrKept
    DEF ReconcilerStart, ReconcilerThread
<1>14. CASE Exchange
  <2>1. SharedKept
    BY <1>5, <1>14, ExchangeIsSafe, StoreStutter, DedupStutter DEF Exchange, SharedKept
  <2> QED
    BY <1>1, <1>2, <1>3, <1>4, <1>5, <1>14, <2>1, ApiKept, MgrKept, RecKept DEF Exchange
<1>15. CASE WindowExpires
  <2>1. DedupTypeOK'
    BY <1>5, <1>15 DEF WindowExpires, ExpireKey, DedupTypeOK
  <2>2. SharedKept
    BY <1>5, <1>15, <2>1, StoreStutter, BrokerStutter DEF WindowExpires, SharedKept
  <2> QED
    BY <1>1, <1>2, <1>3, <1>4, <1>5, <1>15, <2>2, ApiKept, MgrKept, RecKept
    DEF WindowExpires
<1> QED
  BY <1>6, <1>7, <1>8, <1>9, <1>10, <1>11, <1>12, <1>13, <1>14, <1>15 DEF Next

\* Every variable keeps its type, and each thread's locals their shape, in every state
\* the system reaches.
THEOREM Typing == Spec => []TypeInv
<1>1. Init => TypeInv
  BY InitIsTyped
<1>2. TypeInv /\ [Next]_vars => TypeInv'
  BY NextIsTyped
<1> QED
  BY <1>1, <1>2, PTL DEF Spec

\* The type invariant that the runs check.
THEOREM TypeCorrect == Spec => []TypeOK
<1>1. TypeInv => TypeOK
  BY DEF TypeInv, TypeOK, StoreInv, BrokerInv, SignalInv, ApiInv, MgrInv, RecInv, SystemInv
<1> QED
  BY <1>1, Typing, PTL

\* The signals of the batch in hand are pending in the table.
THEOREM BatchStaysPending == Spec => []BatchIsPending
<1>1. TypeInv => BatchIsPending
  BY DEF TypeInv, SignalInv
<1> QED
  BY <1>1, Typing, PTL
=============================================================================
