# TLA+ models and proofs of ibrk_bot

The bot trades through Interactive Brokers: scans produce signals, an LLM decides, orders go
to IB Gateway, a job protects the open positions, and a reconciler keeps the trades table
and the account together. Everything lives in one Python process of many threads over one
SQLite file. This directory models the parts of it that move state, checks them with TLC and
proves the central results with TLAPS. Paths are relative to `src/app/`.

## 1. Inventory

### Components, their state and operations

| component | code | state | operations |
|---|---|---|---|
| trades table | `infrastructure/db/compat.py`, `db/models.py` | rows with status, side, quantity, remaining quantity, trade status, order id | `insert_trade`, `update_trade_status`, `close_trade`, `get_open_trades`: one connection and one commit each |
| broker | `ibkr/client.py` | orders, positions (at IBKR) | `place_order`, `get_portfolio` |
| deduplicator | `ibkr/dedup.py` | keys of the last minutes | `is_duplicate`, `record` |
| signal processor | `llm/loop.py`, `notifications/order_monitor.py`, `ibkr/fill_tracker.py` | pending signals; per run: batch, open symbols | `process_pending_signals`, `_execute_order`, `place_and_monitor` |
| order endpoints | `api/main.py` | per request | `/orders/place`, `/orders/close/{symbol}`, `/orders/close-all` |
| position manager | `positions/manager.py`, `risk/partial_exit.py` | per pass: copies of the open rows | `check_positions`, `_close_position`, `check_exit` |
| reconciler | `system/reconciler.py` | per run: the open rows and the holdings it read | `reconcile_positions` |
| start-up, scheduler | `bootstrap/runner.py` | jobs | start-up reconciliation, interval jobs, uvicorn |
| background jobs | `application/services/job_runner.py` | `background_jobs` rows, a pool of three threads | `submit`, `_run` |
| system control | `system/controller.py`, `application/use_cases/{pause_system,change_mode,control_queries}.py` | pause flag, mode, approval flag, paused jobs, `control_settings` | pause, resume, mode, trigger, circuit breaker |
| settings, audit log | `application/use_cases/update_control_setting.py`, `infrastructure/system/persisted_state.py`, `interfaces/api/routes/control_routes.py` | `control_settings`, `audit_log`, the pre-open triggers | validate, seal, persist, publish, reschedule, restart |
| approval of orders | `notifications/{telegram,approval}.py` | Telegram's updates, the table of pending approvals | ask, answer, read, time out, send |
| managed orders | `application/use_cases/{place_order,close_position}.py` | a lock per symbol, pending approvals | lock, check, ask, place, book |
| notices and alerts | `alerts/manager.py`, `notifications/{policy,telegram}.py` | `alerts` rows, the level of the policy | create, delete, check, notify, mark |
| gateway | `ibkr/client.py`, start-up and watchdog in `bootstrap/runner.py` | the client, its connection, the queue of missed scans | start, connect, lose, reconnect, run again |
| exit rules | `risk/*.py`, `positions/manager.py` | stop, target and shares of a row | partial exit, breakeven, trail, exit |
| analysis | `analysis/{pipeline,scorer,hard_rules,indicators}.py`, `ml/signal_filter.py`, `llm/agent.py` | one analysis, its timer, `candidate_decisions`, `decisions` | the eight steps, abort, decide |
| universe | `analysis/admission.py`, `system/reconciler.py` | `symbol_config.approved`, weights | discover, score, take out, put in, clean up |
| scans | `scanner/{market_open_selector,preprocessor,market_scanner}.py` | `active_symbols`, `signals` | select, classify, write |
| watchlist | `scanner/opportunity_scanner.py`, `scanner/market_scanner.py` | `daily_watchlist`, the caches it reads | three detectors, a summary |
| learning | `llm/postmortem.py`, `ml/{cycle,calibration}.py`, `analysis/{scorer,evaluator}.py`, `backtest/engine.py` | `symbol_parameters`, `candidate_decisions` | post-mortem, calibrate, evaluate, train, roll back |
| data cache | `analysis/data.py`, scanner tables | entries with their time | look up, drop, fetch, store, publish |
| market permissions | `ibkr/market_permissions.py` | `market_permissions`, client number 98 | connect, probe, save, disconnect |
| Telegram bot | `notifications/telegram_bot.py` | the update at hand, requests still running | the owner's commands, one at a time |
| reports | `reports/generator.py`, builders in `bootstrap/runner.py` | `pre_market_reports` | list, save, clear, link, delete |

What is left (pages, the MCP server, ORM models, the cooldown that nothing calls) keeps no state
of its own that matters to trading; `PROJECT.json` lists every part with what is left out of it
and why.

### How they interact

- The scheduler's jobs, the request threads of FastAPI and the Telegram bot share the trades
  table, the broker and the deduplicator. No lock spans two calls; only a pass of the position
  manager excludes another pass.
- Every actor follows the same pattern - read the table, check, call the broker, write the
  table - so each of these is a step that the others can come between.
- A crash loses the threads and the deduplicator; the table, the signals and the account stay.

### What is hard, and what makes each part correct

| behaviour | what must hold |
|---|---|
| an order is sent before its row exists; the process may die, or the write fail, in between | a row names an order that was accepted, with its terms, once (`RowsMatchOrders`); a position without a row gets one (`OrphanAdopted`) |
| several writers of one table, no locks, ids handed out by the table | the table is a ledger (`TableIsLedger`) |
| a pass works on copies while others write the rows | the copies stay current where it matters (`ManagerCopyIsCurrent`), the remaining quantity in range (`RemainingInRange`) |
| a batch read once and worked on for minutes, retried after errors | only pending signals are worked on (`BatchIsPending`) |
| two reads that are not of the same moment drive the reconciler's writes | it converges once the account stands still (`OrphanAdopted`, `GhostClosed`) |
| a job and its function share one pool; timeouts race late results | results are final and true, and every job ends (`TerminalIsFinal`, `SuccessMeansReturned`, `EveryJobEnds`); the whole of what a poller may count on is `JobsKeepBoard` |
| an answer to a question may come late, twice, or to another thread | an order that was asked about has an approval, and a press lets through one order (`AskedOrdersHaveAnApproval`, `OnePressOneOrder`); every question ends (`EveryQuestionEnds`) |
| the gateway goes and comes, scans are missed and repeated | what was missed stays queued (`MissedIsQueued`), the connection comes back (`ConnectionComesBack`) |
| updates of a setting overtake one another and a restart | no secret in clear (`SecretsStaySealed`) |
| each pass forgets the partial exit of the one before | the stop stays at breakeven or above (`ProfitIsLocked`), a loss is cut (`LossIsCut`) |
| a timer aborts an analysis between any two steps | what is traded went through all of it, and is what the model's word or the score stands for (`TradesAreAnalysed`) |
| several discoveries rotate at once or die half-way | SPY and QQQ stay (`ProtectedStayApproved`), a held symbol becomes tradable again (`HeldBecomesTradable`) |
| a missed selection runs late; bars fail one by one | held symbols stay in the scans (`HeldStayActive`), STRONG is not a default of the hour and the minutes, nor against a bearish week (`StrongIsAgreed`) |
| the API hangs while the bot waits for it | every command ends (`EveryCommandEnds`) |
| cache, permissions, reports: threads work from what they read before | `FreshEnough`, `IdIsFreed`, `LinksLive`, `ToldOnceADay`, `MeasuredOnce`, `NoNoticeAfterMark` |
| the training waits for a link that the insert of a trade leaves out | closed trades come to it sooner or later (`TradesReachTraining`, refuted) |
| two paths pause the bot, and a restart forgets half of it | the protection of positions is never paused (`SafetyJobsRun`), losses stop trading (`LossStopsTrading`) |

`PROJECT.json` lists the hazards line by line.

## 2. Modules

| module | what it models |
|---|---|
| `TradeStore` | the trades table and each statement that writes it |
| `Broker` (extends `TradeStore`) | accepted orders, fills, deaths of orders, net positions |
| `Dedup` | the window of recent keys |
| `SignalProcessor` (extends `Broker`, `Dedup`) | the signals table and the signal_processor job |
| `OrderApi`, `PositionManager`, `Reconciler` | the other three kinds of threads |
| `TradingSystem` | the composition: start-up, crash, interleaving of all threads, fairness, properties |
| `TradeLedger` | the abstract specification of the table |
| `JobRunner` | background jobs |
| `JobBoard` | the abstract specification of the background jobs |
| `SystemControl`, `Settings` | pause, mode, trigger, circuit breaker, restart; the settings table and its audit |
| `Approval`, `ManagedOrders` | the question of `/orders/place`; the use cases with their locks and `ApprovalManager` |
| `Notices` | alerts, and the policy every notice passes |
| `Gateway` | start-up, connection, watchdog, missed scans |
| `ExitRules` | the thresholds of one trade, pass by pass |
| `Analysis` | one analysis, from data to decision |
| `Universe`, `Scanner`, `Watchlist` | the approved symbols, the scans of the day, the opportunity scan |
| `Learning` | post-mortems, calibration, evaluation, training, rollback |
| `MarketData`, `Permissions` | the cache and the tables filled from it; client 98 |
| `Bot`, `Reports` | the commands; the pre-market reports |
| `MCTradingSystem`, `MCSystemControl`, `MCServices` | the instances TLC checks |
| `TradingSystemProofs`, `TradingLedgerProofs`, `JobRunnerProofs`, `SystemControlProofs`, `ServiceProofs`, `ApprovalProofs`, `BackgroundProofs`, `ServicesProofs` | theorems |

### Correspondence with the code

*Steps.* A thread's local state is a record with a program counter. A step is the code
between two points where another thread can be seen: a statement on the table, a call to the
broker, a read or write of the deduplicator. `LoopCheck`, for instance, is everything from the
read of the portfolio to the last check before the order; `MgrMayClose` and `MgrSend` are
apart because `_is_trade_open` and `place_order` are. The trading threads are:

| code | actions |
|---|---|
| `process_pending_signals` | `LoopStart`, `LoopSkipOpen`, `LoopIgnore`, `LoopDecide`, `LoopGiveUp`, `LoopMark`, `LoopMarkFailed`, `LoopEnd` |
| `_execute_order`, `place_and_monitor` | `LoopCheck`, `LoopPlace`, `LoopPlaceFailed`, `LoopInsert`, `LoopInsertFailed` |
| `/orders/place` | `PlaceRequest`, `PlaceCheck`, `PlaceRefused`, `PlaceSend`, `PlaceSendFailed`, `PlaceInsert`, `PlaceInsertFailed` |
| `/orders/close`, `/orders/close-all` | `CloseRequest`, `CloseAllRequest`, `CloseCheck`, `CloseRefused`, `CloseSend`, `CloseSendFailed`, `CloseDb`, `CloseDbFailed`, `CloseDone` |
| `check_positions`, `_close_position`, `check_exit` | the `Mgr` actions |
| `reconcile_positions` | the `Rec` actions |
| `start_system`, systemd | `BootReconcile`, `BootOffline`, `BootDone`, `BootFailed`, `Crash` |

*Failures.* A broker call that raises may have placed its order all the same
(`_run_sync` gives up waiting after 30 s while the coroutine goes on), so each `...SendFailed`
has both outcomes. Database errors end the handler where the code lets them.

*Left open.* What the LLM answers, where prices stand, whether preflight and approval say yes:
an action and its refusal are both possible. Prices and P&L are not in the rows, and
`trade_status` keeps only the values something tells apart. Orders fill whole or die; IBKR's
partial fills are not modelled.

*Quantities.* `EntryQty` is the quantity of every entry, `MinRemaining` the least that a
partial exit leaves behind, in the same unit; with 4 and 2, a position goes through a 50% exit
and then a full one, the two branches of `check_exit`.

*Jobs.* `worker[w]` is a thread of the pool, `queue` its FIFO, `future[j]` the future of the
job's function, `row[j]` its row. A timeout passes while the function runs, or while it is
queued and every thread is waiting or running a function: other steps take no time next to
60 s. `JobBoard` has no threads and no queue: a job is reported by its row (`PhaseOf`), or as
abandoned when no task of the pool is left to write that row (`Attended`), and its function has
been called when a thread has taken it (`CallOf`).

*Control.* `ctrl` is the controller's memory, `settings` the two rows of `control_settings`,
`flags` the module variables of `config/settings.py`, `jobs` the scheduler. A request is a
thread that pauses or resumes job by job, then sets memory, then writes the two keys, each a
step and each write able to fail. The use cases behind `/control/*` skip the memory.

*Approval.* Telegram keeps an update until a poll gives an offset. `Poll` gives none, so it may
see any press again; the bot's updater takes them away (`UpdaterConfirms`), and a restart of it
drops them (`BotRestarts`). In `ManagedOrders` a press finds its request through the table under the symbol:
`GetLock` follows `FindLock` and `MakeLock`, between which another thread may make its own lock.

*Gateway.* `missed[s]` counts the entries of a scan in `_MISSING_SCAN_JOBS`; the order in which
the watchdog goes through its copy of the queue is left open. Every call of the client connects
first, which is `CallConnects`.

*Settings.* A value is a member of a class that the code tells apart: within the bounds, below,
above, words, nan, a secret in clear or sealed, redacted. The old value, the write, the event and the
audit row are steps of their own.

*Exit rules.* A price is the gain it means for the trade, in steps of the entry price, so that a
long and a short trade are one. `StopLoss`, `TakeProfit` and `Buffer` are the percentages in that
unit. Quantities are integers as in the code; where the rows and the other writers meet,
`PositionManager` has the same pass without the thresholds.

*Analysis.* The model's answer is any word: those the prompt asks for, those that are only
the score's, and one that is neither. `compute_features` returns one of `FeatureSets`; the score is computed from it in
hundredths of a point, by the dimensions, weights and multipliers of `scorer.py`. `StepEnds` is
the look at the abort flag after a step.

*Scans, learning.* Of a bar series only the class that the classifier makes of it matters
(`Strengths`, or that it is missing; of a week whether it is bearish), of a backtest its profit factor, of a decision its age in days. `Updated` is an
UPDATE that has no row to update.

*Cache, permissions, reports.* One key of the cache, and with the bars of SPY a second one, under which
`get_spy_price_on` keeps the price it took from them; of the tables one that is filled from the key,
and `top_movers`, which is filled from tables. One client number, one calendar day: `Ttl`, `age` and
`today` count units of time that pass as a step of their own.

*Bot.* Each command is the list of calls it makes (`Api`, `Db`, `Pool`); a call to the API blocks
until the answer or its timeout, while the request goes on in the API.

## 3. Runs

| run | instance | shows |
|---|---|---|
| `entries` | 1 symbol, 2 signals for it, 1 request thread, reconciler, 2 rows, 2 orders | `TypeOK`, `RowsMatchOrders`, `BatchIsPending`, and `TableIsLedger` (a refinement), with portfolio, broker and database failures |
| `exits` | 1 row, the position manager against a request thread, the reconciler and a crash | `ManagerCopyIsCurrent`, `RemainingInRange` |
| `reconcile` | 2 rows, 2 orders, a crash, fairness | `OrphanAdopted`, `GhostClosed`, `RowsMatchOrders` |
| `closed_underfoot` | manager and one request | an exit order for a trade closed meanwhile (found) |
| `phantom_fill` | one request, reconciler | a row FILLED whose order is at work (found) |
| `partial_twice` | manager and one request | the partial exit taken twice (found) |
| `too_many_positions` | 2 signals, 2 symbols, limit 1 | two orders pass one check (found) |
| `control` | 2 request threads, 2 requests, breaker, 1 restart, fairness | `TypeOK`, `SafetyJobsRun`, `LossStopsTrading` |
| `paused_restart` | 1 request, 1 restart | the restarted bot is paused and runs (found) |
| `unapproved_order` | 2 requests, 1 symbol | a late answer approves the order after it (found) |
| `never_learned` | 1 closing thread, 10 trades, fairness | ten closed trades never come to the training (found) |
| `services` | sixteen components, each with its own bounds (`Services.cfg`) | the table below |

`services` is a sum and not a product: these components share no state, so a behaviour of
`MCServices` is a behaviour of the one that `scope` names, with the fairness its module states,
while the others stay where they started. One run checks them all:

| scope | instance | shows |
|---|---|---|
| `jobs` | 3 jobs, 2 threads, 1 failed write, 1 crash | `SuccessMeansReturned`, `TerminalIsFinal`, `JobsKeepBoard` (a refinement), `EveryJobEnds` |
| `notices` | 2 alerts, 1 price or mark that fails | `NoNoticeAfterMark`, `MovedAlertsFire` |
| `approval` | 2 request threads, 2 symbols, 2 questions, a press | `AskedOrdersHaveAnApproval`, `EveryQuestionEnds` |
| `gateway` | 2 scans, 3 entries each | `MissedIsQueued`, `ConnectionComesBack` |
| `settings` | 2 threads, 2 requests, 1 restart | `SecretsStaySealed` |
| `exits` | 8 gains around the thresholds, 5 shares, 1 refused exit | `ProfitIsLocked`, `LossIsCut` |
| `analysis` | 5 feature records, 2 sets of multipliers, with and without a filter's model, 9 answers of the LLM | `TradesAreAnalysed` |
| `universe` | 3 symbols, 1 protected, 2 discoveries | `ProtectedStayApproved`, `HeldBecomesTradable` |
| `scanner` | 2 symbols, selections of the best one | `HeldStayActive`, `StrongIsAgreed` |
| `watchlist` | 2 movers, 1 pair, 2 scans | `ToldOnceADay` |
| `learning` | 2 closing threads, 2 calibrated pairs | `MeasuredOnce` |
| `bot` | 3 messages, 1 change | `EveryCommandEnds` |
| `market` | 2 threads, every kind of key, up to three units of time | `FreshEnough` |
| `permissions` | 2 discoveries, 2 markets | `IdIsFreed` |
| `managed` | 2 callers, 2 presses | `OnePressOneOrder` |
| `reports` | 2 builders, 2 reports, 2 days | `LinksLive` |

### Bounds

`MaxTrades`, `MaxOrders`, `MaxCrashes`, `MaxDbErrors`, `MaxRequests` and `MaxRestarts` bound
counters that the system does not; the sets of symbols, signals, threads and jobs are
constants. At a bound an insert or an order is not possible, so that a handler takes its
failure branch instead. Why they are enough:

- Two rows and two orders are what it takes to book one order twice, to reuse an id, to enter a
  symbol twice and to adopt what another thread is about to book. One symbol puts all of that
  on the same rows; the deduplicator keys differ by side and thread even so.
- `exits` has one row because a pass deals with rows one after the other and writes only the
  row at hand; two orders are a partial exit and a second exit, or an exit and an API close.
- Two pool threads and three jobs give threads waiting for functions behind one another.
- The hazards of the services are between two threads that do the same thing; each has two of
  them, and one fault more than it takes to get into the retry.
- `GainsV` has a gain on either side of every threshold; `Days` an age at, before and past the
  marks; `FeatureSetsV` a record for each recommendation, one for each refusal, and one with
  nothing known.
- Two requests race each other and the breaker, and either of them may be cut by the restart.

`entries` and `exits` leave one another out (the manager or the signals are switched off by
`ManagerScheduled` and `Signals`) for the size of the state space only; the theorems have all
threads together, and any number of each.

Deadlock is checked except in `services`, `unapproved_order` and `never_learned`: jobs, messages, trades,
presses and days are a bounded supply there, and an analysis ends, so that a component with
nothing left to do stops. In the other models some thread can always start again.

### Fairness

- `ReconcilerFairness`: APScheduler runs the reconciler job for ever (weak fairness of its start
  and of its steps). Its portfolio read and its writes are tried anew in each run, so that not
  failing for ever is strong fairness of `RecPortfolio`, `RecClose` and `RecCreate`. Nothing is
  assumed of the exchange, the requests, the signals or the manager.
- `JobRunner!FairSpec`: each pool thread goes on, timeouts pass, and functions end: the calls
  to the model and to the broker have timeouts of their own.
- `SystemControl!FairSpec`: the scheduler runs the circuit breaker, whose run ends. Nothing is
  assumed of requests.

- `NoticeFairness`, `RuleFairness`, `UniverseFairness`, `GatewayFairness`: the alert checker, the
  position manager, the reconciler and the watchdog are interval jobs, whose passes end. A mark,
  a price or an exit fails a bounded number of times (`MaxFaults`, `MaxRefusals`).
- `ApprovalFairness`: the clock of a request runs and the broker answers. Nothing is assumed of
  Telegram or of the owner.
- `LearnFairSpec`: the scheduler runs the learning cycle every day.
- `BotFairness`: the bot's thread is scheduled, and what it starts in the executor returns. Nothing
  is assumed of the API.

### Disagreements found

Each violation run quotes the text it refutes in `PROJECT.json`.

- `closed_underfoot`: `_close_position` re-checks that the row is open "for idempotence", but
  an endpoint may close it before the order goes out; its deduplicator key is another one.
- `phantom_fill`: a missing fill is replaced by the market price, so the monitor that
  "ensures DB consistency with actual IBKR state" books unfilled orders as filled.
- `partial_twice`: the `partial_exit_done` flag is never written, so the exit that "only
  triggers once per trade" repeats in each pass until less than the minimum is left.
- `too_many_positions`: orders on their way are in no portfolio, so the limit of three
  positions "without exception" is passed.
- `paused_restart`: the flag comes back, the pause does not.
- `unapproved_order`: the updates are read with no offset and told apart by the symbol, so that
  the answer to a question that timed out approves the next order for the symbol.
- `never_learned`: a trade is to be linked to its snapshot when it is inserted, and ten linked trades are
  to be given to the training of the filter; the insert does not write the link, so that the
  cycle finds no trade for ever.

### Seen while modelling

Behaviours that the models have and that no text of the repository contradicts word for word, or
that lie outside what a property says:

- *Approval.* The first of two `ApprovalManager` requests to end deletes the entry of the other,
  which ends with a `KeyError`. `PlaceOrderUseCase._get_lock` may hand out two locks for one
  symbol, and closing takes none.
- *Exits.* `_check_symbol_tradable` (`ibkr/dedup.py`) refuses the exit of a symbol that was rotated
  out, until the reconciler approves it again. Later partial exits take a trailed stop back to
  breakeven, where the trailing stop by itself "Never moves SL backward" (`risk/trailing_stop.py`,
  line 23); `ProfitIsLocked` says no more than breakeven. An adopted short has stop and target swapped. `PARTIAL_FULL` leaves an open row with
  nothing remaining.
- *Analysis.* Whatever word the model answers is the recommendation, and the agent maps it: PRIORITY, which
  the prompt does not offer, is a BUY at any score. A portfolio that cannot be read scores as an empty one, the hard rules get an empty
  one always. `daily_discovery` persists `UNKNOWN` below its score.
- *Universe.* `POST /jobs/opportunity-scan` runs the discovery on mock data and rotates the real
  universe. A rotation is two transactions: a crash between them leaves one symbol less.
- *Scans.* WEAK signals are written. A market whose liquid hours are unknown is scanned at any
  hour. When positions cannot be read, held symbols are not put on the list. The sector and
  implied-move tables keep their rows when there are no bars. A week that cannot be had is
  no veto, as AC-05.4 of the requirements wants, so that a STRONG signal may come without one.
- *Learning.* `feature_snapshot_id`, `trade_count` and `previous_json` are written by nothing, so
  that the filter keeps the model it was loaded with (the repository comes with
  `models/signal_filter.pkl`) or its heuristic, no weight is adjusted and no rollback happens. A calibration
  of a symbol without parameters is lost. A decision that was not looked at around its mark is
  never evaluated.
- *Cache.* Two threads that drop one entry raise a `KeyError` out of a function that promises not
  to raise. `get_spy_price_on` keeps for a lifetime what it took from bars kept for up to a lifetime
  (only its tests call it). `top_movers` is made of the gainers and losers that the tables have: when
  their scan raised or their rows could not be written, old rows get a new time, although the
  statement is to "Replace all results for a scan_type with fresh data" (`compat.py`, line 1427).
- *Permissions.* The second of two discoveries is refused and reports nothing; a connection lost
  midway stores the remaining markets as not available; a slower discovery overwrites a later one.
- *Settings.* `nan` passes the bounds and is stored as `max_risk_pct`, where the design
  (`refactor/06-interface-design.md`, line 68) says "valida rango (0.001–0.10) → persiste"; keys that
  are not registered are not validated; a new hour is scheduled before it is stored.
- *Notices.* Every notice has the type `generic`, which the default level keeps back.
- *Bot.* Commands report success whatever the API answered; one that waits holds up `/stop`; a bot
  that could not reach Telegram at start stays dead.
- *Start-up.* With no data layer at start the jobs of discovery, evaluation and learning are not
  scheduled until a restart. The reminder of a long disconnection needs the seconds to be a
  multiple of 900.
- *Signals.* The approval flag imported by `llm/loop.py` is never used: the orders of signals wait
  for nobody.

## 4. Proofs

Run `tlapm` on the eight modules; nothing is assumed beyond the named `ASSUME`s of the
constants. The theorems of the trading system hold for any number of symbols, rows, orders,
signals, request threads and reconcilers, those of the job runner for any number of jobs and
threads, with crashes at any time; those of the control model for any number of requests at
once.

- `TradingSystemProofs!TypeCorrect`, `BatchStaysPending`. `TypeInv` is `TypeOK` with what it
  needs to be inductive: rows up to `lastTrade` are in use and no others, orders up to
  `lastOrder` were accepted, a pass and a reconciler know only rows in use, and each copy is a row.
  The batch is a conjunct of it, since the thread that marks a signal is the one that drops it.
- `TradingLedgerProofs!RowsAlwaysMatchOrders`. `RowsMatchOrders` alone is not inductive: a
  thread that has placed an order and not inserted its row yet must hold an order no row names
  (`LoopBooking`, `HandlerBooking`), and no two threads hold the same one (`HoldersDiffer`).
  Together they are `BookInv`. Steps fall into four kinds - quiet, placing, booking,
  placing-and-forgetting - classified once by `StepEffects`, and the invariant is proved by kind.
- `TradingLedgerProofs!TableImplementsLedger`. Each kind of step maps to `Open`, `Close` or a
  stutter of `TradeLedger` under the mapping `TableEntries`; `Open` needs `BookInv` for the clause
  that no order is entered twice.
- `TradingLedgerProofs!ManagerCopyStaysCurrent`, `RemainingStaysInRange`. `CopyInv`: the range
  needs the copies to be current, for the manager computes the new value from its copy; the
  copies stay current because no other thread writes the column of a row in use.
- `JobRunnerProofs!JobsTyped`, `SuccessIsTrue`, `FinishedJobsStay`. `JobInv`: the row of a job
  has one keeper, the queued `_run` (`QueuedRuns`) or the one thread that took it
  (`OneKeeper`), and is pending or running as long as that thread keeps it (`KeptRows`); hence
  nobody is left who would write a finished row. That success is true needs the same of the
  function: one thread runs it (`OneExecutor`), and only after the row says running
  (`NotStarted`), so that nothing sets the future back once it has returned.
- `JobRunnerProofs!PoolImplementsBoard`. Under the mapping `JobPhases`, `JobCalls` each action of
  the pool is one of `JobBoard` or a stutter: a `_run` that is taken changes nothing on the board,
  a keeper that lets go without its write abandons the job (`LetGo`), a crash is `Lost`. The step
  that needs an invariant of its own is `TakeFunction`, which must be a call for a running job:
  a function is queued only while the keeper of its job waits for it (`QueuedIsAwaited`), since
  the keeper cancels it before it gives up.
- `SystemControlProofs!ControlTyped`, `SafetyJobsNeverStop`. `SafetyJobsRun` is not inductive: a
  thread between two jobs of its list pauses whatever comes next, so `NoSafetyJobToDo` says that
  no list in any thread has a safety job left in it.

- `ServiceProofs`. `ProtectedTheorem`: a discovery holds the symbol it will take out from one
  transaction to the next, so that what it holds must be unprotected (`LeaversUnprotected`).
  `SecretsTheorem`: a thread between its steps holds a value that was validated
  (`WritersValidated`), every write of a secret seals it, and the hour that a restart reads was
  validated too (`HourStored`). `IdTheorem`: the number is held by exactly the discovery that is
  between connecting and disconnecting. `MissedTheorem`: the entries the watchdog has still to
  retry are all in the queue (`RetriesQueued`), so that taking one out takes out the entry that
  was run. `HeldTheorem` and `StrongTheorem` need no more than themselves; the second rests on the
  case analysis of the classifiers (`StrongClassified`): the defaults of missing bars are too weak.
- `ApprovalProofs`. `ApprovalTheorem`: who is about to send has an approval for the symbol in what
  was pressed (`SendersApproved`). `PressTheorem` counts: approved orders and the callers whose
  approval is unused together never exceed the presses that found a request pending; the table
  holds only requests that wait, and only a waiting one is unanswered (`PendingWaits`,
  `Unanswered`). `AnalysedTheorem`: nothing is tradable before the model's part (`NothingEarly`),
  and a tradable verdict has been earned when the timer can no more touch it (`VerdictEarned`);
  that a score above 75 is what an unaided BUY rests on needs the score to be an integer for all
  features and multipliers (`ScoreTyped`).
- `BackgroundProofs`. `LockTheorem` (`StopInv`, with `TrailedUp` on the arithmetic),
  `NoticeTheorem` (a pass holds alerts that are not marked, `PassUnmarked`), `ToldTheorem` (what a
  scan has found new was told of by nobody, `NewUntold`), `FreshTheorem` (an entry that will be served
  a while longer is younger than its lifetime by as much, `EntryYoung`; a price than two lifetimes,
  `PriceYoung`), `LinksTheorem` (`RowsMade`, `ClearedOutdated`: only what is past
  its days was cleared, though builders carry dates of days before), `MeasuredTheorem`.

- *Types.* Each component has a theorem `...Typed` for its type invariant, which most of the
  invariants above contain. Four needed more than the types themselves: that a button pressed is
  of a message that was sent (`ApprovalTyped`); that the score stays between 0 and 100 per cent
  (`AnalysisTyped`, by `ScoreInRange`, a bound on the weighted mean for all features and
  multipliers); that the calls of a command are one of the listed sequences (`BotTyped`,
  `OnlyLists`); that the columns that learning waits for stay empty (`LearnTyped`, `NothingToLearnFrom`).
- `ServicesProofs`. `OnlyOneMoves`: a step of `ServicesNext` is a step of one component and a
  stutter of the others, so a behaviour of `ServicesSpec` is a behaviour of each component
  (`ServicesAreTheirOwn`). Therefore `ServicesTyped`, and `ServicesKeepTheirPromises`: what was
  proved of each component alone holds in the run that checks them all.

Every invariant and every action property of the passing runs, and both refinements, are
stated by a theorem.

*Model-checked only*: the liveness properties (`OrphanAdopted`, `GhostClosed`, `EveryJobEnds`,
`LossStopsTrading`, `MovedAlertsFire`, `EveryQuestionEnds`, `ConnectionComesBack`, `LossIsCut`,
`HeldBecomesTradable`, `EveryCommandEnds`): the prover does not reason about fairness and
`ENABLED`. The claims that the code does not keep are refuted by TLC and by nothing else.

*Assumptions.* Those named in the modules: bounds and sizes are natural numbers, sentinel values
are outside the sets they stand outside of, the pool has threads, the multipliers of a score are
between 50 and 150 per cent (the clamp of the weight updates), and the breakeven buffer is
positive and at most one and a half times the stop, as with every default of the settings. TLC
evaluates each of them.

## 5. Plan

1. *Done*: the trading core and its abstract ledger, `JobRunner`, `SystemControl`, and the
   theorems of each.
2. *Done*: the components around the core, one module each, and the safety properties of each
   proved for every value of the constants, alone and side by side.
3. *Done*: an abstract specification of the background jobs, and its refinement.
4. To come: `Gateway` composed with the trading core (a call that finds no connection is so far a
   failure that may happen at any time, which covers it without saying when); the backtest engine
   as a function over a short list of bars; abstract specifications of the approval and of the
   cache, in the way `TradeLedger` is one of the table.

## 6. Not modelled

- *Nothing calls it*: cooldown, dynamic sizing, drawdown, time filter, market regime, the
  notification queue, the daily operations report. The trading routes that would call the managed
  use cases are not included in the app; `ManagedOrders` models them as the container wires them.
- *Reads that make pages*: dashboard, control pages, the MCP server, which forwards to the API.
- *Computation left open*: indicators, prices and P&L, the backtests, scikit-learn, the texts of
  messages and the model's answers; where they decide a branch, every branch is possible.
- *Declarations*: ORM models, migrations, configuration, contracts, liquid hours.
- *Of the broker*: partial fills, modified and cancelled orders, and the event loop of the client
  singleton.

The reason for each is with its component in `PROJECT.json`.
