------------------------------ MODULE Learning ------------------------------
(***************************************************************************)
(* What the bot draws from its past: the post-mortem of a closed trade     *)
(* suggests weights, the daily cycle measures what came of old decisions,  *)
(* trains the signal filter and takes back bad parameters, and a symbol    *)
(* that is approved is calibrated by backtests.  Post-mortems run in the   *)
(* threads that close trades, calibrations in threads of their own.        *)
(***************************************************************************)
EXTENDS Integers

CONSTANTS
  Closers,   \* the threads that close trades, of one symbol
  Grid,      \* the pairs of stop and target that a calibration tries
  MaxClosed, \* bound: trades closed
  Days,      \* the ages at which the decision is looked at, in days
  MinTrades  \* MIN_TRADE_COUNT

ASSUME LearningAssumption ==
  MinTrades \in Nat \ {0} /\ 0 \in Days /\ Days \subseteq Nat /\ MaxClosed \in Nat

VARIABLES
  params,   \* the symbol_parameters row
  closed,   \* the closed trades with a feature snapshot, and those without
  mortem,   \* the post-mortems under way
  filter,   \* whether the signal filter has a model, and whether it was given trades to train on
  calib,    \* the calibration under way: what it has tried, the best of it
  decision  \* a candidate_decisions row: its age, and at which age its returns were measured

learnVars == <<params, closed, mortem, filter, calib, decision>>

None == -1
Factors == 0 .. 2  \* profit factors; a backtest of fewer than five trades has None
Default == <<25, 60>>
NoParams == [row |-> FALSE, mult |-> 100, pair |-> Default, trades |-> 0, previous |-> FALSE]
Resting == [on |-> FALSE, tried |-> [g \in {} |-> None], best |-> <<>>]

\* A model that was saved before is loaded, and the repository comes with one; without it the
\* filter is a heuristic.
LearnInit ==
  /\ params \in {NoParams, [NoParams EXCEPT !.row = TRUE]}
  /\ closed = [linked |-> 0, bare |-> 0]
  /\ mortem = [c \in Closers |-> None]
  /\ filter \in [model: BOOLEAN, asked: {FALSE}]
  /\ calib = Resting
  /\ decision = [age |-> 0, week |-> None, month |-> None]

Results == UNION {[tried -> Factors \cup {None}] : tried \in SUBSET Grid}

LearnTypeOK ==
  /\ params \in [row: BOOLEAN, mult: 50 .. 150, pair: Grid \cup {Default}, trades: 0 .. MinTrades, previous: BOOLEAN]
  /\ closed \in [linked: 0 .. MaxClosed, bare: 0 .. MaxClosed]
  /\ mortem \in [Closers -> {None} \cup (50 .. 150)]
  /\ filter \in [model: BOOLEAN, asked: BOOLEAN]
  /\ calib \in [on: BOOLEAN, tried: Results, best: Grid \cup {<<>>}]
  /\ decision \in [age: Days, week: Days \cup {None}, month: Days \cup {None}]

---------------------------------------------------------------------------
(* The row: get_or_create_symbol_parameters and update_symbol_parameters *)

\* An analysis, a post-mortem or a page that asks for the parameters creates them.
AskParameters ==
  /\ params' = [params EXCEPT !.row = TRUE]
  /\ UNCHANGED <<closed, mortem, filter, calib, decision>>

\* An UPDATE with no row to update changes nothing, and does not say so.
Updated(changed) == IF params.row THEN changed ELSE params

---------------------------------------------------------------------------
(* run_postmortem *)

Clamp(m) == IF m < 50 THEN 50 ELSE IF m > 150 THEN 150 ELSE m
Suggested(old, to, confidence) == Clamp(old + ((to - old) * confidence * 15) \div 10000)

\* A trade has no feature_snapshot_id: the insert does not write the column.  Its closing
\* asks for the multiplier of a dimension, in percent.
Close(c) ==
  /\ mortem[c] = None
  /\ closed.bare < MaxClosed
  /\ closed' = [closed EXCEPT !.bare = @ + 1]
  /\ params' = [params EXCEPT !.row = TRUE]
  /\ mortem' = [mortem EXCEPT ![c] = params.mult]
  /\ UNCHANGED <<filter, calib, decision>>

\* trade_count: no statement of the program raises it.
Enough == params.trades >= MinTrades

\* update_weights_attenuated writes what it worked out from the multiplier it had read; the
\* model may suggest nothing, or nothing with confidence.
Adjust(c) ==
  /\ mortem[c] # None
  /\ \/ UNCHANGED params
     \/ /\ Enough
        /\ \E to \in {0, 100, 300} : params' = Updated([params EXCEPT !.mult = Suggested(mortem[c], to, 70)])
  /\ mortem' = [mortem EXCEPT ![c] = None]
  /\ UNCHANGED <<closed, filter, calib, decision>>

---------------------------------------------------------------------------
(* on_symbol_approved *)

Calibrate ==
  /\ ~calib.on
  /\ calib' = [Resting EXCEPT !.on = TRUE]
  /\ UNCHANGED <<params, closed, mortem, filter, decision>>

Worth(results, g) == IF g = <<>> THEN None ELSE results[g]

Better(factor) == factor # None /\ factor > Worth(calib.tried, calib.best)

\* A backtest that fails, or has fewer than five trades, does not count.
TryPair(g) ==
  /\ calib.on /\ g \notin DOMAIN calib.tried
  /\ \E factor \in Factors \cup {None} :
       calib' = [on |-> TRUE,
                 tried |-> [p \in DOMAIN calib.tried \cup {g} |-> IF p = g THEN factor ELSE calib.tried[p]],
                 best |-> IF Better(factor) THEN g ELSE calib.best]
  /\ UNCHANGED <<params, closed, mortem, filter, decision>>

\* Best or default, the pair is written if the symbol has a row by then.
Calibrated ==
  /\ calib.on /\ DOMAIN calib.tried = Grid
  /\ params' = Updated([params EXCEPT !.pair = IF calib.best = <<>> THEN Default ELSE calib.best])
  /\ calib' = Resting
  /\ UNCHANGED <<closed, mortem, filter, decision>>

---------------------------------------------------------------------------
(* run_learning_cycle and run_return_evaluator *)

\* Mutant of Due: a decision is measured whenever it is of the age.
DueAgain(age, measured) == decision.age \in age - 1 .. age + 1

\* get_candidate_decisions_for_evaluation
Due(age, measured) == measured = None /\ decision.age \in age - 1 .. age + 1

Measured(age, measured) == IF Due(age, measured) THEN {measured, decision.age} ELSE {measured}

\* The evaluation also runs on its own, in the morning.  A price that cannot be had leaves
\* the decision for another pass.
Measure ==
  /\ \E week \in Measured(7, decision.week), month \in Measured(30, decision.month) :
       decision' = [decision EXCEPT !.week = week, !.month = month]
  /\ UNCHANGED <<params, closed, mortem, filter, calib>>

\* The filter is given trades with a snapshot, ten or more, and may have a model of them then: it
\* leaves out those that made next to nothing, and the rest may be too few or all of one kind.
Retrain ==
  IF closed.linked >= 10
  THEN \E fitted \in BOOLEAN : filter' = [model |-> filter.model \/ fitted, asked |-> TRUE]
  ELSE UNCHANGED filter

\* Of five trades one winner or none takes back the previous parameters, which nothing keeps.
LearningCycle ==
  /\ Retrain
  /\ \E losing \in BOOLEAN :
       params' = IF losing /\ params.previous THEN [params EXCEPT !.mult = 100, !.pair = Default] ELSE params
  /\ UNCHANGED <<closed, mortem, calib, decision>>

\* The bot may be down for days.
DaysPass ==
  /\ \E age \in Days : age > decision.age /\ decision' = [decision EXCEPT !.age = age]
  /\ UNCHANGED <<params, closed, mortem, filter, calib>>

\* A restart ends the threads; what they had not written is lost.
LearnRestart ==
  /\ calib' = Resting
  /\ mortem' = [c \in Closers |-> None]
  /\ UNCHANGED <<params, closed, filter, decision>>

LearnNext ==
  \/ AskParameters \/ Calibrate \/ Calibrated \/ Measure \/ LearningCycle \/ DaysPass \/ LearnRestart
  \/ \E c \in Closers : Close(c) \/ Adjust(c)
  \/ \E g \in Grid : TryPair(g)

LearnSpec == LearnInit /\ [][LearnNext]_learnVars

\* The scheduler runs the cycle every day after the close.
LearnFairSpec == LearnSpec /\ WF_learnVars(LearningCycle)

---------------------------------------------------------------------------
(* Properties *)

\* A trade is linked to its snapshot when it is inserted, and the daily cycle calls the training
\* when there are ten such trades: so ten closed trades sooner or later come to it, whatever it
\* makes of them (08-prd.md of mtf-learning-engine, lines 28 and 201).
TradesReachTraining == closed.linked + closed.bare >= 10 ~> filter.asked

\* What came of a decision is measured once at each mark, within a day of it.
MeasuredOnce ==
  [][/\ decision'.week # decision.week => decision.week = None /\ decision'.week \in 6 .. 8
     /\ decision'.month # decision.month => decision.month = None /\ decision'.month \in 29 .. 31]_learnVars
=============================================================================
