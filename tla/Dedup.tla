-------------------------------- MODULE Dedup --------------------------------
(***************************************************************************)
(* OrderDeduplicator (ibkr/dedup.py): the orders recorded in the last 30   *)
(* seconds, in memory only and shared by every thread.  Asking and         *)
(* recording are two calls, with the order placed between them.            *)
(***************************************************************************)
EXTENDS TradeStore

VARIABLE recent   \* the keys recorded less than 30 seconds ago

\* Entries and the API's closes use (symbol, action); the position manager uses
\* (symbol, action_tradeid_reason).  0 is no trade.
EntryKey(sym, side) ==
  [symbol |-> sym, side |-> side, trade |-> 0, reason |-> "none"]
ExitKey(sym, side, t, why) ==
  [symbol |-> sym, side |-> side, trade |-> t, reason |-> why]

DedupKey ==
  [symbol: Symbols \cup {"none"}, side: Sides, trade: TradeIds \cup {0},
   reason: {"none", "EXIT", "PARTIAL_50PCT", "PARTIAL_FULL"}]

IsDuplicate(key) == key \in recent

Record(key) == recent' = recent \cup {key}

\* Thirty seconds pass after a record.
ExpireKey(key) ==
  /\ key \in recent
  /\ recent' = recent \ {key}

DedupInit == recent = {}
DedupTypeOK == recent \in SUBSET DedupKey
=============================================================================
