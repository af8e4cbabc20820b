---------------------------- MODULE TradingSystem ----------------------------
(***************************************************************************)
(* The running bot: the signal processor and position manager jobs, the    *)
(* order endpoints and the reconciler, interleaved step by step over one   *)
(* trades table and one broker account, with crashes of the process.  The  *)
(* table, the signals and the account survive a crash; the threads and the *)
(* duplicate window do not.                                                *)
(***************************************************************************)
EXTENDS OrderApi, PositionManager, Reconciler

CONSTANTS
  ReconcilerJob,    \* the reconciler that start-up and the scheduler run
  ManagerScheduled, \* whether the position_manager job runs
  MaxCrashes        \* bound: crashes of the process

ASSUME SystemAssumption ==
  /\ ReconcilerJob \in Reconcilers
  /\ ManagerScheduled \in BOOLEAN
  /\ MaxCrashes \in Nat

VARIABLES
  phase,    \* where start_system stands
  crashes

systemVars == <<phase, crashes>>
sharedVars == <<storeVars, brokerVars, recent>>
vars == <<sharedVars, signalVars, handler, mgr, rec, systemVars>>

Init ==
  /\ StoreInit /\ BrokerInit /\ DedupInit
  /\ SignalInit /\ ApiInit /\ MgrInit /\ RecInit
  /\ phase = "boot"
  /\ crashes = 0

TypeOK ==
  /\ StoreTypeOK /\ BrokerTypeOK /\ DedupTypeOK
  /\ SignalTypeOK /\ ApiTypeOK /\ MgrTypeOK /\ RecTypeOK
  /\ phase \in {"boot", "reconciling", "up"}
  /\ crashes \in 0 .. MaxCrashes

---------------------------------------------------------------------------
(* Start-up: one reconciliation if the gateway answers, then the scheduler and
   the API. *)

BootReconcile ==
  /\ phase = "boot"
  /\ RecStart(ReconcilerJob)
  /\ phase' = "reconciling"
  /\ UNCHANGED <<signalVars, handler, mgr, crashes>>

BootOffline ==
  /\ phase = "boot"
  /\ phase' = "up"
  /\ UNCHANGED <<sharedVars, signalVars, handler, mgr, rec, crashes>>

BootDone ==
  /\ phase = "reconciling"
  /\ rec[ReconcilerJob].pc = "idle"
  /\ phase' = "up"
  /\ UNCHANGED <<sharedVars, signalVars, handler, mgr, rec, crashes>>

\* A database error in that reconciliation is not caught: it ends the process, and the
\* service unit starts it again.
BootFailed ==
  /\ phase = "reconciling"
  /\ RecDbFailed(ReconcilerJob)
  /\ phase' = "boot"
  /\ UNCHANGED <<signalVars, handler, mgr, crashes>>

Crash ==
  /\ crashes < MaxCrashes
  /\ crashes' = crashes + 1
  /\ phase' = "boot"
  /\ recent' = {}
  /\ loop' = LoopIdle
  /\ handler' = [h \in Handlers |-> HandlerIdle]
  /\ mgr' = mgrIdle
  /\ rec' = [r \in Reconcilers |-> RecIdle]
  /\ UNCHANGED <<storeVars, brokerVars, signal>>

---------------------------------------------------------------------------
(* Each thread's steps leave the other threads' locals alone. *)

SignalJob ==
  /\ phase = "up"
  /\ LoopStart \/ SignalNext
  /\ UNCHANGED <<handler, mgr, rec, systemVars>>

ApiThread(h) ==
  /\ phase = "up"
  /\ ApiRequest(h) \/ ApiStep(h)
  /\ UNCHANGED <<signalVars, mgr, rec, systemVars>>

ManagerJob ==
  /\ phase = "up" /\ ManagerScheduled
  /\ MgrStart \/ MgrStep
  /\ UNCHANGED <<signalVars, handler, rec, systemVars>>

ReconcilerStart(r) ==
  /\ phase = "up"
  /\ RecStart(r)
  /\ UNCHANGED <<signalVars, handler, mgr, systemVars>>

ReconcilerThread(r) ==
  /\ RecStep(r) \/ (phase = "up" /\ RecDbFailed(r))
  /\ UNCHANGED <<signalVars, handler, mgr, systemVars>>

Exchange ==
  /\ \E o \in working : FillOrder(o) \/ KillOrder(o)
  /\ UNCHANGED <<storeVars, recent, signalVars, handler, mgr, rec, systemVars>>

WindowExpires ==
  /\ \E key \in recent : ExpireKey(key)
  /\ UNCHANGED <<storeVars, brokerVars, signalVars, handler, mgr, rec, systemVars>>

Next ==
  \/ BootReconcile \/ BootOffline \/ BootDone \/ BootFailed \/ Crash
  \/ SignalJob \/ ManagerJob
  \/ \E h \in Handlers : ApiThread(h)
  \/ \E r \in Reconcilers : ReconcilerStart(r) \/ ReconcilerThread(r)
  \/ Exchange \/ WindowExpires

Spec == Init /\ [][Next]_vars

\* A reconciler's step, as a step of the whole system.
ByReconciler(A) == A /\ UNCHANGED <<signalVars, handler, mgr, systemVars>>

\* The scheduler runs the reconciler again and again, and its calls return; the
\* gateway does not fail its portfolio read, nor the database its writes, for ever.
ReconcilerFairness ==
  /\ WF_vars(BootReconcile \/ BootOffline \/ BootDone)
  /\ WF_vars(ReconcilerStart(ReconcilerJob))
  /\ WF_vars(ReconcilerThread(ReconcilerJob))
  /\ SF_vars(ByReconciler(RecPortfolio(ReconcilerJob)))
  /\ SF_vars(ByReconciler(RecClose(ReconcilerJob)))
  /\ \A sym \in Symbols : SF_vars(ByReconciler(RecCreate(ReconcilerJob, sym)))

FairSpec == Spec /\ ReconcilerFairness

---------------------------------------------------------------------------
(* Properties that hold *)

\* Every row opened for an order names an order the broker accepted, for the same
\* symbol, side and quantity, and no two rows name the same one: the rule of
\* "register in the DB only once IBKR returned an order id", across every crash
\* and every interleaving of the threads that place and then book.
RowsMatchOrders ==
  \A t \in TradeIds : trades[t].order # None =>
    LET row == trades[t]
    IN  /\ row.order \in 1 .. lastOrder
        /\ orders[row.order] =
             [symbol |-> row.symbol, side |-> row.side, qty |-> row.qty]
        /\ \A u \in TradeIds : trades[u].order = row.order => u = t

\* The position manager works for a whole pass on copies of the rows.  For each row it
\* has not dealt with yet the copy's remaining quantity is still the table's, though
\* other threads write the same rows meanwhile.
ManagerCopyIsCurrent ==
  \A t \in mgr.todo : mgr.snap[t].remaining = trades[t].remaining

\* A signal of the batch being worked on is still pending in the table: nothing else
\* marks it, and the signal is dropped from the batch once it is marked.
BatchIsPending == loop.batch \subseteq Pending

\* Whatever partial exits, stale copies and retries do to it, the recorded remaining
\* quantity stays between nothing and the quantity of the entry.
RemainingInRange ==
  \A t \in TradeIds : trades[t].remaining # None =>
    trades[t].remaining \in 0 .. trades[t].qty

\* The table, as a ledger.
EntryTerms ==
  [symbol: Symbols \cup {"none"}, side: Sides, qty: Nat, order: OrderIds \cup {None}]

TermsOf(row) ==
  [symbol |-> row.symbol, side |-> row.side, qty |-> row.qty, order |-> row.order]

LedgerState == [NONE |-> "unused", OPEN |-> "open", CLOSED |-> "closed"]

EntryOf(row) == [state |-> LedgerState[row.status], terms |-> TermsOf(row)]

TableEntries == [t \in TradeIds |-> EntryOf(trades[t])]

Ledger == INSTANCE TradeLedger WITH
  Ids <- TradeIds,
  Terms <- EntryTerms,
  NoTerms <- TermsOf(NoRow),
  Unordered <- None,
  ledger <- TableEntries

\* The table written by all these threads is a ledger: rows open once, in order, with
\* terms that never change, for orders not booked before, and never reopen.
TableIsLedger == Ledger!LedgerSpec

\* A position with no open row is registered by the reconciler, so that the position
\* manager can protect it (an order whose row was lost in a crash, for one), unless the
\* position goes away first.
OrphanAdopted ==
  \A s \in Symbols :
    (position[s] # 0 /\ s \notin OpenSymbols)
      ~> (s \in OpenSymbols \/ position[s] = 0 \/ lastTrade = MaxTrades)

\* An open row for a symbol that is no longer held is closed, unless it is held again.
GhostClosed ==
  \A s \in Symbols, t \in TradeIds :
    (t \in OpenTradesOf(s) /\ position[s] = 0)
      ~> (t \notin OpenTradesOf(s) \/ position[s] # 0)

---------------------------------------------------------------------------
(* Claims of the repository that the code does not keep *)

\* The position manager checks that a trade is still open before it acts, for
\* idempotence: so when it sends an exit order the trade is open.
ExitsOnlyOpenTrades == mgr.pc = "send" => trades[Mine].status = "OPEN"

\* The order monitor keeps the database consistent with the state of IBKR: a row
\* marked FILLED is not the row of an order still at work.
FilledMeansFilled ==
  \A t \in TradeIds : trades[t].tstatus = "FILLED" => trades[t].order \notin working

\* "Only triggers once per trade": a trade with a 50% exit done has no second one.
PartialExitOnce ==
  [][\A t \in TradeIds :
       (trades[t].tstatus = "PARTIAL" /\ trades[t].remaining # 0)
         => trades'[t].remaining = trades[t].remaining]_vars

\* "At most 3 simultaneous positions, without exception".
PositionsWithinLimit == Cardinality(Portfolio) <= MaxPositions
=============================================================================
