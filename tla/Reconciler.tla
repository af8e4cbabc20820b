------------------------------ MODULE Reconciler ------------------------------
(***************************************************************************)
(* reconcile_positions (system/reconciler.py): compares the open rows with *)
(* the portfolio, closes the rows whose symbol is not held and creates a   *)
(* row for each held symbol without one.  The start-up code, the reconciler *)
(* job and the gateway watchdog all call it, the last two in threads of    *)
(* their own.  What is compared is read at two different times.            *)
(***************************************************************************)
EXTENDS SignalProcessor

CONSTANT Reconcilers   \* the threads that call it

VARIABLE rec           \* the local state of each

NoHoldings == [s \in Symbols |-> 0]

RecIdle == [pc |-> "idle", db |-> {}, known |-> {}, ib |-> NoHoldings]

RecState ==
  [pc: {"idle", "portfolio", "apply"}, db: SUBSET TradeIds,
   known: SUBSET (Symbols \cup {"none"}), ib: [Symbols -> Int]]

RecLocal == UNCHANGED <<storeVars, brokerVars, recent>>

\* Mutant of RecStart: closed rows count as known.
StartKnowsClosed(r) ==
  /\ rec[r].pc = "idle"
  /\ rec' = [rec EXCEPT ![r].pc = "portfolio", ![r].db = GetOpenTrades,
                        ![r].known = {trades[t].symbol : t \in 1 .. lastTrade}]
  /\ RecLocal

RecStart(r) ==
  /\ rec[r].pc = "idle"
  /\ rec' = [rec EXCEPT ![r].pc = "portfolio", ![r].db = GetOpenTrades,
                        ![r].known = OpenSymbols]
  /\ RecLocal

RecPortfolio(r) ==
  /\ rec[r].pc = "portfolio"
  /\ rec' = [rec EXCEPT ![r].pc = "apply", ![r].ib = position]
  /\ RecLocal

\* get_portfolio raised: nothing is done this time.
RecPortfolioFailed(r) ==
  /\ rec[r].pc = "portfolio"
  /\ rec' = [rec EXCEPT ![r] = RecIdle]
  /\ RecLocal

Held(r) == {s \in Symbols : rec[r].ib[s] # 0}

\* Mutant of Ghosts: an empty portfolio is taken for a failed read.
GhostsUnlessEmpty(r) ==
  {t \in rec[r].db : Held(r) # {} /\ trades[t].symbol \notin Held(r)}

Ghosts(r) == {t \in rec[r].db : trades[t].symbol \notin Held(r)}
Missing(r) == Held(r) \ rec[r].known

RecClose(r) ==
  /\ rec[r].pc = "apply" /\ Ghosts(r) # {}
  /\ CloseTrade(First(Ghosts(r)), "NOT_IN_IB")
  /\ rec' = [rec EXCEPT ![r].db = @ \ {First(Ghosts(r))}]
  /\ UNCHANGED <<brokerVars, recent>>

\* Mutant of RecCreate: the quantity is the signed position.
CreateSigned(r, sym) ==
  /\ rec[r].pc = "apply" /\ Ghosts(r) = {}
  /\ sym \in Missing(r)
  /\ LET held == rec[r].ib[sym]
     IN  InsertTrade(sym, IF held > 0 THEN "BUY" ELSE "SELL", held, None, "PENDING", None)
  /\ rec' = [rec EXCEPT ![r].known = @ \cup {sym}]
  /\ UNCHANGED <<brokerVars, recent>>

\* The row is built from the position that was read: no remaining_quantity, no order
\* id, and the trade_status a Trade has by default.
RecCreate(r, sym) ==
  /\ rec[r].pc = "apply" /\ Ghosts(r) = {}
  /\ sym \in Missing(r)
  /\ LET held == rec[r].ib[sym]
     IN  InsertTrade(sym, IF held > 0 THEN "BUY" ELSE "SELL",
                     IF held > 0 THEN held ELSE -held, None, "PENDING", None)
  /\ rec' = [rec EXCEPT ![r].known = @ \cup {sym}]
  /\ UNCHANGED <<brokerVars, recent>>

\* close_trade or insert_trade raised: the job's wrapper and the watchdog log it, and
\* this pass is over.
RecDbFailed(r) ==
  /\ rec[r].pc = "apply" /\ Ghosts(r) \cup Missing(r) # {}
  /\ rec' = [rec EXCEPT ![r] = RecIdle]
  /\ RecLocal

RecEnd(r) ==
  /\ rec[r].pc = "apply" /\ Ghosts(r) = {} /\ Missing(r) = {}
  /\ rec' = [rec EXCEPT ![r] = RecIdle]
  /\ RecLocal

RecStep(r) ==
  \/ RecPortfolio(r) \/ RecPortfolioFailed(r) \/ RecClose(r)
  \/ RecEnd(r)
  \/ \E sym \in Symbols : RecCreate(r, sym)

RecInit == rec = [r \in Reconcilers |-> RecIdle]
RecTypeOK == rec \in [Reconcilers -> RecState]
=============================================================================
