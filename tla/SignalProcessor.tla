-------------------------- MODULE SignalProcessor --------------------------
(***************************************************************************)
(* LLMSignalProcessor (llm/loop.py), the signal_processor job: it reads the *)
(* pending signals and the open symbols once, then takes the signals one   *)
(* by one, asks the LLM, checks, places an entry order and records it.     *)
(* The scheduler runs at most one instance (max_instances=1).              *)
(***************************************************************************)
EXTENDS Broker, Dedup

CONSTANTS
  Signals,      \* ids of the rows of the signals table, in order of creation
  SignalOf,     \* the symbol of each signal
  EntrySides,   \* the actions the LLM and the API's callers ask for
  MaxPositions, \* settings.MAX_POSITIONS
  PortfolioMayFail  \* whether get_portfolio may raise in _execute_order

ASSUME SignalAssumption ==
  /\ Signals \subseteq Nat
  /\ SignalOf \in [Signals -> Symbols]
  /\ EntrySides \subseteq Sides
  /\ MaxPositions \in Nat
  /\ PortfolioMayFail \in BOOLEAN

VARIABLES
  signal,  \* signals table: not inserted yet, processed=0 or processed=1
  loop     \* the job's local state

signalVars == <<signal, loop>>

Pending == {s \in Signals : signal[s] = "pending"}

First(S) == CHOOSE x \in S : \A y \in S : x <= y

LoopIdle == [pc |-> "idle", batch |-> {}, open |-> {}, side |-> "BUY", order |-> None]

LoopState ==
  [pc: {"idle", "next", "check", "place", "insert", "mark"}, batch: SUBSET Signals,
   open: SUBSET (Symbols \cup {"none"}), side: Sides, order: Nat \cup {None}]

Current == First(loop.batch)
CurrentSymbol == SignalOf[Current]

\* The scanner inserts a signal every time it classifies a symbol.
InsertSignal(s) ==
  /\ signal[s] = "none"
  /\ \A x \in Signals : x < s => signal[x] # "none"
  /\ signal' = [signal EXCEPT ![s] = "pending"]
  /\ UNCHANGED <<storeVars, brokerVars, recent, loop>>

MarkSignalProcessed(s) == signal' = [signal EXCEPT ![s] = "processed"]

Advance == loop' = [loop EXCEPT !.pc = "next", !.batch = @ \ {Current}, !.order = None]

\* Mutant of LoopStart: the query has lost its "processed=0".
StartWithAllSignals ==
  /\ loop.pc = "idle"
  /\ Pending # {}
  /\ loop' = [LoopIdle EXCEPT !.pc = "next", !.batch = {s \in Signals : signal[s] # "none"},
                              !.open = OpenSymbols]
  /\ UNCHANGED <<storeVars, brokerVars, recent, signal>>

\* get_pending_signals, then get_open_trades: what the whole batch is judged by.
LoopStart ==
  /\ loop.pc = "idle"
  /\ Pending # {}
  /\ loop' = [LoopIdle EXCEPT !.pc = "next", !.batch = Pending, !.open = OpenSymbols]
  /\ UNCHANGED <<storeVars, brokerVars, recent, signal>>

LoopSkipOpen ==
  /\ loop.pc = "next" /\ loop.batch # {}
  /\ CurrentSymbol \in loop.open
  /\ MarkSignalProcessed(Current)
  /\ Advance
  /\ UNCHANGED <<storeVars, brokerVars, recent>>

LoopIgnore ==
  /\ loop.pc = "next" /\ loop.batch # {}
  /\ CurrentSymbol \notin loop.open
  /\ MarkSignalProcessed(Current)
  /\ Advance
  /\ UNCHANGED <<storeVars, brokerVars, recent>>

LoopDecide(side) ==
  /\ loop.pc = "next" /\ loop.batch # {}
  /\ CurrentSymbol \notin loop.open
  /\ loop' = [loop EXCEPT !.pc = "check", !.side = side]
  /\ UNCHANGED <<storeVars, brokerVars, recent, signal>>

\* The LLM raised, or a check of _execute_order (price, size, buying power, risk
\* validator, preflight, duplicate) refused: the signal stays pending.
LoopGiveUp ==
  /\ \/ loop.pc = "next" /\ loop.batch # {} /\ CurrentSymbol \notin loop.open
     \/ loop.pc = "check"
  /\ Advance
  /\ UNCHANGED <<storeVars, brokerVars, recent, signal>>

\* active_positions: a portfolio that cannot be read counts as an empty one.
ActivePositions == {Cardinality(Portfolio)} \cup (IF PortfolioMayFail THEN {0} ELSE {})

LoopCheck ==
  /\ loop.pc = "check"
  /\ \E n \in ActivePositions : n < MaxPositions
  /\ ~IsDuplicate(EntryKey(CurrentSymbol, loop.side))
  /\ loop' = [loop EXCEPT !.pc = "place"]
  /\ UNCHANGED <<storeVars, brokerVars, recent, signal>>

\* place_and_monitor reports success: the broker accepted the order and a price
\* was found -- get_fill_price_fallback falls back to the market price, so the
\* order may still be at work.
LoopPlace ==
  /\ loop.pc = "place"
  /\ PlaceOrder(CurrentSymbol, loop.side, EntryQty)
  /\ loop' = [loop EXCEPT !.pc = "insert", !.order = lastOrder + 1]
  /\ UNCHANGED <<storeVars, recent, signal>>

\* Mutant of LoopPlaceFailed: the order is booked though it never left.
BookUnplaced ==
  /\ loop.pc = "place"
  /\ loop' = [loop EXCEPT !.pc = "insert", !.order = lastOrder + 1]
  /\ UNCHANGED <<storeVars, brokerVars, recent, signal>>

\* place_and_monitor reports TIMEOUT or REJECTED.  The call may have failed before
\* the order left, or after the gateway accepted it: nothing cancels it.
LoopPlaceFailed ==
  /\ loop.pc = "place"
  /\ \/ PlaceOrder(CurrentSymbol, loop.side, EntryQty)
     \/ UNCHANGED brokerVars
  /\ Advance
  /\ UNCHANGED <<storeVars, recent, signal>>

LoopInsert ==
  /\ loop.pc = "insert"
  /\ Record(EntryKey(CurrentSymbol, loop.side))
  /\ InsertTrade(CurrentSymbol, loop.side, EntryQty, EntryQty, "FILLED", loop.order)
  /\ loop' = [loop EXCEPT !.pc = "mark"]
  /\ UNCHANGED <<brokerVars, signal>>

\* insert_trade raised: the signal is left for the next cycle to retry.
LoopInsertFailed ==
  /\ loop.pc = "insert"
  /\ Record(EntryKey(CurrentSymbol, loop.side))
  /\ Advance
  /\ UNCHANGED <<storeVars, brokerVars, signal>>

LoopMark ==
  /\ loop.pc = "mark"
  /\ MarkSignalProcessed(Current)
  /\ Advance
  /\ UNCHANGED <<storeVars, brokerVars, recent>>

\* mark_signal_processed raised, outside the try: the job is over for this cycle.
LoopMarkFailed ==
  /\ loop.pc = "mark" \/ (loop.pc = "next" /\ loop.batch # {})
  /\ loop' = LoopIdle
  /\ UNCHANGED <<storeVars, brokerVars, recent, signal>>

LoopEnd ==
  /\ loop.pc = "next" /\ loop.batch = {}
  /\ loop' = LoopIdle
  /\ UNCHANGED <<storeVars, brokerVars, recent, signal>>

SignalNext ==
  \/ \E s \in Signals : InsertSignal(s)
  \/ LoopSkipOpen \/ LoopIgnore \/ LoopGiveUp \/ LoopCheck
  \/ LoopPlace \/ LoopPlaceFailed \/ LoopInsert \/ LoopInsertFailed
  \/ LoopMark \/ LoopMarkFailed \/ LoopEnd
  \/ \E side \in EntrySides : LoopDecide(side)

SignalInit ==
  /\ signal = [s \in Signals |-> "none"]
  /\ loop = LoopIdle

SignalTypeOK ==
  /\ signal \in [Signals -> {"none", "pending", "processed"}]
  /\ loop \in LoopState
=============================================================================
