----------------------------- MODULE TradeStore -----------------------------
(***************************************************************************)
(* The trades table (infrastructure/db/compat.py): the rows every actor of *)
(* the bot reads and writes.  Each call of compat.py opens its own SQLite  *)
(* connection and commits, so each is one atomic step and nothing but the  *)
(* table is shared between two of them.                                    *)
(***************************************************************************)
EXTENDS Integers, FiniteSets

CONSTANTS
  Symbols,      \* the traded symbols
  MaxTrades,    \* bound: rows the table can hold
  EntryQty,     \* quantity of an entry order
  MinRemaining  \* PartialExitManager.MIN_REMAINING_SHARES, in units of EntryQty

ASSUME StoreAssumption ==
  /\ "none" \notin Symbols
  /\ MaxTrades \in Nat
  /\ EntryQty \in Nat \ {0}
  /\ MinRemaining \in Nat \ {0}

VARIABLES
  trades,     \* the rows, by id
  lastTrade   \* the id of the newest row (AUTOINCREMENT)

storeVars == <<trades, lastTrade>>

TradeIds == 1 .. MaxTrades

Sides == {"BUY", "SELL"}
Opposite(side) == IF side = "BUY" THEN "SELL" ELSE "BUY"

None == -1   \* a NULL column: remaining_quantity or order_id

NoRow ==
  [status |-> "NONE", symbol |-> "none", side |-> "BUY", qty |-> 0,
   remaining |-> None, tstatus |-> "PENDING", partialDone |-> FALSE,
   order |-> None, reason |-> "none"]

CloseReasons == {"EXIT", "MANUAL", "NOT_IN_IB"}

\* tstatus is the trade_status column; "PENDING" stands for OPEN too, which init_db makes
\* of it when the process starts: nothing that writes trades tells the two apart.
Row ==
  [status: {"NONE", "OPEN", "CLOSED"}, symbol: Symbols \cup {"none"},
   side: Sides, qty: Nat, remaining: Nat \cup {None},
   tstatus: {"PENDING", "FILLED", "PARTIAL", "CLOSED"}, partialDone: BOOLEAN,
   order: Nat \cup {None}, reason: CloseReasons \cup {"none"}]

\* SELECT * FROM trades WHERE status='OPEN'
GetOpenTrades == {t \in TradeIds : trades[t].status = "OPEN"}

OpenTradesOf(sym) == {t \in GetOpenTrades : trades[t].symbol = sym}

OpenSymbols == {trades[t].symbol : t \in GetOpenTrades}

\* `trade.remaining_quantity or trade.quantity`: Python's `or` falls back to the
\* entry quantity both for None and for 0.
Total(row) == IF row.remaining \in {None, 0} THEN row.qty ELSE row.remaining

\* Mutant of InsertTrade: ids follow the number of open rows, so closed ones are reused.
InsertOverClosed(sym, side, qty, remaining, tstatus, order) ==
  /\ lastTrade < MaxTrades
  /\ lastTrade' = lastTrade + 1
  /\ trades' = [trades EXCEPT ![Cardinality(GetOpenTrades) + 1] =
       [status |-> "OPEN", symbol |-> sym, side |-> side, qty |-> qty,
        remaining |-> remaining, tstatus |-> tstatus, partialDone |-> FALSE,
        order |-> order, reason |-> "none"]]

InsertTrade(sym, side, qty, remaining, tstatus, order) ==
  /\ lastTrade < MaxTrades
  /\ lastTrade' = lastTrade + 1
  /\ trades' = [trades EXCEPT ![lastTrade + 1] =
       [status |-> "OPEN", symbol |-> sym, side |-> side, qty |-> qty,
        remaining |-> remaining, tstatus |-> tstatus, partialDone |-> FALSE,
        order |-> order, reason |-> "none"]]

\* update_trade_status writes the columns it is given, whatever the row's status,
\* and has no parameter for partial_exit_done.
UpdateTradeStatus(t, tstatus, remaining) ==
  /\ trades' = [trades EXCEPT ![t] =
       [@ EXCEPT !.tstatus = tstatus, !.remaining = remaining]]
  /\ UNCHANGED lastTrade

\* close_trade has no WHERE on the status: closing a closed row rewrites its exit.
CloseTrade(t, why) ==
  /\ trades' = [trades EXCEPT ![t] =
       [@ EXCEPT !.status = "CLOSED", !.tstatus = "CLOSED", !.reason = why]]
  /\ UNCHANGED lastTrade

StoreInit ==
  /\ trades = [t \in TradeIds |-> NoRow]
  /\ lastTrade = 0

StoreTypeOK ==
  /\ trades \in [TradeIds -> Row]
  /\ lastTrade \in 0 .. MaxTrades
=============================================================================
