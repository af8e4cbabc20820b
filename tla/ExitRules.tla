----------------------------- MODULE ExitRules -----------------------------
(***************************************************************************)
(* The prices behind one open trade: what each pass of the position        *)
(* manager does to its stop, its target and its shares.  Prices are given  *)
(* as the gain they mean for the trade, in steps of the entry price, so a  *)
(* long and a short trade are the same.  PositionManager has the rows, the *)
(* orders and the other writers; here are the thresholds.                  *)
(***************************************************************************)
EXTENDS Integers

CONSTANTS
  StopLoss,    \* stop_loss_pct
  TakeProfit,  \* take_profit_pct
  Buffer,      \* BREAKEVEN_BUFFER
  Gains,       \* the gains a price may mean
  Shares,      \* quantity at entry
  MaxRefusals  \* bound: exits in a row that the pass may not send

\* Nothing bounds stop_loss_pct from below but what the model is told to answer.
ASSUME ExitAssumption ==
  /\ StopLoss \in Nat /\ TakeProfit \in Nat /\ Buffer \in Nat
  /\ 0 < Buffer /\ 2 * Buffer <= 3 * StopLoss
  /\ Gains \subseteq Int
  /\ Shares \in Nat \ {0}
  /\ MaxRefusals \in Nat

VARIABLES
  gain,     \* what the price of the symbol means for the trade
  held,     \* the row: open or not, its stop, its target and the shares remaining
  step,     \* the pass: where it is, the gain it goes by, and its partial_exit_done
  armed,    \* some pass has seen the gain beyond the breakeven threshold
  refusals  \* exits refused since the last one that was sent

ruleVars == <<gain, held, step, armed, refusals>>

NoStep == [pc |-> "idle", seen |-> 0, partialDone |-> FALSE]

\* An entry of the bot; and a position the reconciler adopts, with a stop of 3% below and
\* a target of 6% above its cost, for a short as for a long.
EntryLevels == [stop |-> -StopLoss, target |-> TakeProfit]
AdoptedLevels(long) ==
  IF long THEN [stop |-> -StopLoss, target |-> 2 * StopLoss]
          ELSE [stop |-> StopLoss, target |-> -2 * StopLoss]

NewRow(levels) == [open |-> TRUE, stop |-> levels.stop, target |-> levels.target, left |-> Shares]

RuleInit ==
  /\ gain \in Gains
  /\ \/ held = NewRow(EntryLevels)
     \/ \E long \in BOOLEAN : held = NewRow(AdoptedLevels(long))
  /\ step = NoStep
  /\ armed = FALSE
  /\ refusals = 0

RuleTypeOK ==
  /\ gain \in Gains
  /\ held \in [open: BOOLEAN, stop: Int, target: Int, left: 0 .. Shares]
  /\ step \in [pc: {"idle", "partial", "trail", "exit", "close"}, seen: Gains \cup {0},
               partialDone: BOOLEAN]
  /\ armed \in BOOLEAN
  /\ refusals \in 0 .. MaxRefusals

---------------------------------------------------------------------------
(* The rules *)

\* `remaining or quantity`
ToExit == IF held.left = 0 THEN Shares ELSE held.left

PartialDue == ~step.partialDone /\ 2 * step.seen >= 3 * StopLoss

\* Half would leave less than MIN_REMAINING_SHARES.
PartialTakesAll == ToExit < 2

Best(a, b) == IF a > b THEN a ELSE b

\* Mutant of BreakevenStop: the buffer on the other side, as for a trade of the other side.
BreakevenBehind == -Buffer

BreakevenStop == Buffer

\* update_stop_levels: at 1.5 times the stop, breakeven; at 3 times, half the gain; and
\* only if that is better than the stop there is.
TrailedStop(stop, seen) ==
  LET breakeven == IF 2 * seen > 3 * StopLoss THEN Best(stop, BreakevenStop) ELSE stop
  IN  IF seen > 3 * StopLoss THEN Best(breakeven, seen \div 2) ELSE breakeven

\* Mutant of ExitDue: the stop is looked at only when the target is not set.
ExitAtTarget == step.seen >= held.target

\* No row says MEDIUM, only MANUAL or MANUAL_RECONCILED: the exit of MEDIUM signals at a gain
\* of one percent is never taken.
ExitDue == step.seen <= held.stop \/ step.seen >= held.target

---------------------------------------------------------------------------
PriceGoes(g) ==
  /\ gain' = g
  /\ UNCHANGED <<held, step, armed, refusals>>

\* The price is read, and used until the pass has done with the trade.  partial_exit_done
\* is not in the table: each pass starts without it.
PassStarts ==
  /\ step.pc = "idle" /\ held.open
  /\ step' = [pc |-> "partial", seen |-> gain, partialDone |-> FALSE]
  /\ UNCHANGED <<gain, held, armed, refusals>>

GoTo(pc) == step' = [step EXCEPT !.pc = pc]

PartialNotDue ==
  /\ step.pc = "partial" /\ ~PartialDue
  /\ GoTo("trail")
  /\ UNCHANGED <<gain, held, armed, refusals>>

\* All but half goes: the row stays open, with nothing left, and the pass leaves the trade.
PartialOfAll ==
  /\ step.pc = "partial" /\ PartialDue /\ PartialTakesAll
  /\ held' = [held EXCEPT !.left = 0, !.stop = BreakevenStop]
  /\ step' = NoStep
  /\ refusals' = 0
  /\ UNCHANGED <<gain, armed>>

\* The stop goes to breakeven, wherever it was.
PartialOfHalf ==
  /\ step.pc = "partial" /\ PartialDue /\ ~PartialTakesAll
  /\ \E half \in {ToExit \div 2, ToExit - ToExit \div 2} :
       held' = [held EXCEPT !.left = half, !.stop = BreakevenStop]
  /\ step' = [step EXCEPT !.pc = "trail", !.partialDone = TRUE]
  /\ refusals' = 0
  /\ UNCHANGED <<gain, armed>>

\* The duplicate window, the preflight, or another writer was there first.
Refused ==
  /\ refusals < MaxRefusals
  /\ refusals' = refusals + 1
  /\ UNCHANGED <<gain, held, armed>>

PartialRefused ==
  /\ step.pc = "partial" /\ PartialDue
  /\ Refused
  /\ IF PartialTakesAll THEN step' = NoStep ELSE GoTo("trail")

Trail ==
  /\ step.pc = "trail"
  /\ held' = [held EXCEPT !.stop = TrailedStop(@, step.seen)]
  /\ armed' = (armed \/ 2 * step.seen > 3 * StopLoss)
  /\ GoTo("exit")
  /\ UNCHANGED <<gain, refusals>>

\* Neither is reached: the trade is kept.
Keep ==
  /\ step.pc = "exit" /\ ~ExitDue
  /\ step' = NoStep
  /\ UNCHANGED <<gain, held, armed, refusals>>

Exit ==
  /\ step.pc = "exit" /\ ExitDue
  /\ held' = [held EXCEPT !.open = FALSE]
  /\ step' = NoStep
  /\ refusals' = 0
  /\ UNCHANGED <<gain, armed>>

ExitRefused ==
  /\ step.pc = "exit" /\ ExitDue
  /\ Refused
  /\ step' = NoStep

RuleStep ==
  \/ PassStarts
  \/ PartialNotDue \/ PartialOfAll \/ PartialOfHalf \/ PartialRefused
  \/ Trail
  \/ Keep \/ Exit \/ ExitRefused

RuleNext == (\E g \in Gains : PriceGoes(g)) \/ RuleStep

RuleSpec == RuleInit /\ [][RuleNext]_ruleVars

\* The position manager runs every half minute, and a pass ends.
RuleFairness == WF_ruleVars(RuleStep)

---------------------------------------------------------------------------
(* Properties that hold *)

\* Once a pass has seen a trade gain more than 1.5 times its stop, its stop is never again
\* at a loss: the partial exits of later passes set it back, but not below breakeven.
ProfitIsLocked == armed => held.stop >= Buffer

\* A trade that is at its stop of entry for good is closed in the end, whatever gains and
\* partial exits came before and whatever exits were refused.
LossIsCut == []<>(~held.open \/ gain > -StopLoss)
=============================================================================
