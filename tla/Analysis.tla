------------------------------ MODULE Analysis ------------------------------
(***************************************************************************)
(* AnalysisPipeline: one analysis of one symbol, from the market data to   *)
(* the recommendation and, for a signal, to the decision that is traded.   *)
(* A timer thread may abort it at any time; the pipeline looks at the flag *)
(* between its steps, and the database, the broker and the model may fail  *)
(* at each.  Indicators are members of a small set of feature records.     *)
(***************************************************************************)
EXTENDS Integers

CONSTANTS
  FeatureSets,  \* what compute_features may return
  Multipliers,  \* the sets of weight multipliers in symbol_parameters, in percent
  Portfolios    \* how many positions the broker may report

\* update_weights_attenuated keeps a multiplier between 0.5 and 1.5.
ASSUME AnalysisAssumption ==
  /\ Portfolios \subseteq Nat
  /\ \A mult \in Multipliers : \A k \in DOMAIN mult : mult[k] \in 50 .. 150

VARIABLES
  pipe,     \* the pipeline: its step, what it has, and its result
  aborted,  \* the step during which the timer fired
  model,    \* whether the signal filter found a trained model when it was made
  recorded, \* the candidate_decisions row
  logged,   \* the decisions row
  traded    \* what analyze_signal has returned

analysisVars == <<pipe, aborted, model, recorded, logged, traded>>

Modes == {"auto_signal", "daily_discovery", "on_demand"}
Steps == {"fetch_data", "compute_indicators", "score", "hard_rules", "gate", "llm_interpret",
          "persist", "result", "done"}
QuantVerdicts == {"REJECTED", "WATCHLIST", "PROPOSE", "PRIORITY"}
\* The prompt asks for one of five words, and any other is taken as well: "other" is one that is
\* in neither list.
ModelAnswers == {"BUY", "SELL", "IGNORE", "WATCHLIST", "PROPOSE", "PRIORITY", "REJECTED", "ERROR",
                 "other"}
Verdicts == QuantVerdicts \cup ModelAnswers \cup {"UNKNOWN", "ERROR"}
Missing == -1000   \* None
NoFeatures ==
  [rsi |-> Missing, macd |-> FALSE, volume |-> Missing, atr |-> Missing, rs |-> Missing,
   boll |-> Missing, change |-> Missing, sma |-> Missing, uptrend |-> FALSE, news |-> "none"]

AnalysisInit ==
  /\ \E mode \in Modes :
       pipe = [step |-> "fetch_data", mode |-> mode, features |-> NoFeatures, score |-> Missing,
               passed |-> FALSE, ignored |-> FALSE, answer |-> "none", verdict |-> "UNKNOWN"]
  /\ aborted = "never"
  /\ model \in BOOLEAN
  /\ recorded = "none" /\ logged = "none" /\ traded = "none"

AnalysisTypeOK ==
  /\ pipe \in [step: Steps, mode: Modes, features: FeatureSets \cup {NoFeatures},
               score: 0 .. 10000 \cup {Missing}, passed: BOOLEAN, ignored: BOOLEAN,
               answer: ModelAnswers \cup {"none"}, verdict: Verdicts]
  /\ aborted \in Steps \cup {"never"}
  /\ model \in BOOLEAN
  /\ recorded \in Verdicts \cup {"none"}
  /\ {logged, traded} \subseteq {"none", "BUY", "SELL", "IGNORE"}

---------------------------------------------------------------------------
(* compute_score: the dimensions, in percent *)

Momentum(f) ==
  LET rsi == CASE f.rsi = Missing -> 0
               [] f.rsi # Missing /\ (f.rsi < 25 \/ f.rsi > 75) -> 50
               [] f.rsi \in 25 .. 34 \cup 66 .. 75 -> 30
               [] f.rsi \in 35 .. 44 \cup 56 .. 65 -> 10
               [] OTHER -> 0
  IN  rsi + (IF f.macd THEN 40 ELSE 0)

Trend(f) ==
  LET rs == IF f.rs = Missing \/ f.rs <= 0 THEN 0 ELSE IF f.rs > 5 THEN 30 ELSE 15
      boll == IF f.boll = Missing \/ f.boll <= 40 THEN 0 ELSE IF f.boll > 60 THEN 20 ELSE 10
  IN  (IF f.uptrend THEN 50 ELSE 0) + rs + boll

\* volume_ratio_20d is in percent.
Volume(f) ==
  CASE f.volume = Missing -> 0
    [] f.volume >= 300 -> 100
    [] f.volume \in 200 .. 299 -> 85
    [] f.volume \in 150 .. 199 -> 70
    [] f.volume \in 100 .. 149 -> 50
    [] f.volume \in 70 .. 99 -> 30
    [] OTHER -> 10

\* atr_pct and price_change_pct are in tenths of a percent.
Volatility(f) ==
  CASE f.atr = Missing -> 0
    [] f.atr \in 10 .. 25 -> 100
    [] f.atr \in 5 .. 9 -> 60
    [] f.atr \in 26 .. 40 -> 50
    [] f.atr > 40 -> 20
    [] OTHER -> 30

PriceChange(f) ==
  CASE f.change = Missing -> 0
    [] f.change \in 10 .. 40 -> 90
    [] f.change \in 0 .. 9 -> 60
    [] f.change > 40 -> 70
    [] f.change \in -10 .. -1 -> 40
    [] f.change \in -30 .. -11 -> 20
    [] OTHER -> 10

PortfolioFit(positions) ==
  CASE positions = 0 -> 100 [] positions = 1 -> 70 [] positions = 2 -> 40 [] OTHER -> 0

Sentiment(f) ==
  CASE f.news = "good" -> 100 [] f.news = "mixed" -> 50 [] OTHER -> 0

Weights == [momentum |-> 20, trend |-> 15, volume |-> 15, volatility |-> 10,
            portfolio_fit |-> 10, sentiment |-> 10, price_change |-> 20]

Dimensions(f, positions) ==
  [momentum |-> Momentum(f), trend |-> Trend(f), volume |-> Volume(f),
   volatility |-> Volatility(f), portfolio_fit |-> PortfolioFit(positions),
   sentiment |-> Sentiment(f), price_change |-> PriceChange(f)]

Total(r) ==
  r["momentum"] + r["trend"] + r["volume"] + r["volatility"] + r["portfolio_fit"]
    + r["sentiment"] + r["price_change"]

\* The weights times the symbol's multipliers, made to add up to one again; in hundredths
\* of a point.
Score(f, positions, mult) ==
  LET weight == [k \in DOMAIN Weights |-> Weights[k] * (IF k \in DOMAIN mult THEN mult[k] ELSE 100)]
      dims == Dimensions(f, positions)
  IN  (100 * Total([k \in DOMAIN Weights |-> weight[k] * dims[k]])) \div Total(weight)

Recommendation(score) ==
  CASE score <= 3500 -> "REJECTED"
    [] score \in 3501 .. 5500 -> "WATCHLIST"
    [] score \in 5501 .. 7500 -> "PROPOSE"
    [] OTHER -> "PRIORITY"

---------------------------------------------------------------------------
(* check_all and the signal filter *)

\* check_all gets an empty portfolio: the rule about positions of one category passes.
\* The price it reckons with is sma20, or 100, and it wants one whole share.
HardRulesPass(f, earnings) ==
  /\ f.volume = Missing \/ f.volume >= 30
  /\ earnings = "unknown" \/ earnings = "far"
  /\ f.sma = Missing \/ f.sma <= 400

\* _heuristic_predict, in percent: with no value, a value that changes nothing.
Heuristic(f) ==
  50 + (IF f.rsi # Missing /\ (f.rsi < 30 \/ f.rsi > 70) THEN 10 ELSE 0)
     + (IF f.volume # Missing /\ f.volume > 150 THEN 10 ELSE 0)
     - (IF f.atr # Missing /\ f.atr > 40 THEN 10 ELSE 0)
     + (IF f.rs # Missing /\ f.rs > 2 THEN 5 ELSE 0)

\* A trained model may say anything, and fails over to the heuristic.
MayIgnore(f) == model \/ Heuristic(f) < 45

---------------------------------------------------------------------------
(* run *)

AtStep(step) == pipe.step = step
RowsKept == UNCHANGED <<aborted, model, recorded, logged, traded>>
Fails == [pipe EXCEPT !.step = "result", !.verdict = "ERROR"]

\* Mutant of StepEnds: the flag is not looked at after the step.
StepEndsUnchecked(next) == pipe' = next /\ RowsKept

\* _check_abort after a step: the result is ERROR, and nothing is persisted.
StepEnds(next) ==
  /\ pipe' = IF aborted = "never" THEN next ELSE Fails
  /\ RowsKept

\* Fewer than 15 bars are an ERROR that is persisted.
FetchData ==
  /\ AtStep("fetch_data")
  /\ \/ StepEnds([pipe EXCEPT !.step = "compute_indicators"])
     \/ StepEnds([pipe EXCEPT !.step = "persist", !.verdict = "ERROR"])

ComputeIndicators ==
  /\ AtStep("compute_indicators")
  /\ \E f \in FeatureSets : StepEnds([pipe EXCEPT !.step = "score", !.features = f])

\* A portfolio that cannot be read scores as an empty one.
ComputeScore ==
  /\ AtStep("score")
  /\ \E positions \in Portfolios \cup {0}, mult \in Multipliers :
       StepEnds([pipe EXCEPT !.step = "hard_rules", !.score = Score(pipe.features, positions, mult)])

CheckHardRules ==
  /\ AtStep("hard_rules")
  /\ \E earnings \in {"unknown", "near", "far"} :
       StepEnds([pipe EXCEPT !.step = "gate", !.passed = HardRulesPass(pipe.features, earnings)])

\* Who the model is asked about.  What daily_discovery skips stays UNKNOWN.
Gate ==
  /\ AtStep("gate")
  /\ \/ /\ ~pipe.passed
        /\ pipe' = [pipe EXCEPT !.step = "persist", !.verdict = "REJECTED"]
     \/ /\ pipe.passed /\ pipe.mode = "daily_discovery" /\ pipe.score < 6000
        /\ pipe' = [pipe EXCEPT !.step = "persist"]
     \/ /\ pipe.passed /\ ~(pipe.mode = "daily_discovery" /\ pipe.score < 6000)
        /\ \/ /\ MayIgnore(pipe.features)
              /\ pipe' = [pipe EXCEPT !.step = "persist", !.verdict = "REJECTED", !.ignored = TRUE]
           \/ /\ model \/ ~MayIgnore(pipe.features)
              /\ pipe' = [pipe EXCEPT !.step = "llm_interpret"]
  /\ RowsKept

\* The model's word is taken as it is; without one, or with an answer that cannot be read, the
\* score's recommendation stands.
LlmInterpret ==
  /\ AtStep("llm_interpret")
  /\ \/ StepEnds([pipe EXCEPT !.step = "persist", !.verdict = Recommendation(pipe.score)])
     \/ \E a \in ModelAnswers :
          StepEnds([pipe EXCEPT !.step = "persist", !.verdict = a, !.answer = a])

\* A row that cannot be written is logged and forgotten.
Persist ==
  /\ AtStep("persist")
  /\ pipe' = [pipe EXCEPT !.step = "result"]
  /\ recorded' \in {recorded, pipe.verdict}
  /\ UNCHANGED <<aborted, model, logged, traded>>

\* A step raised; what the model's part raises is caught there.
StepRaised ==
  /\ pipe.step \notin {"llm_interpret", "persist", "result", "done"}
  /\ pipe' = Fails
  /\ RowsKept

\* The ten minutes are over: the flag is set, and the step goes on.
TimerFires ==
  /\ pipe.step \notin {"result", "done"}
  /\ aborted = "never"
  /\ aborted' = pipe.step
  /\ UNCHANGED <<pipe, model, recorded, logged, traded>>

---------------------------------------------------------------------------
(* analyze_signal *)

Action(verdict) ==
  CASE verdict \in {"BUY", "PRIORITY"} -> "BUY" [] verdict = "SELL" -> "SELL" [] OTHER -> "IGNORE"

\* The decision is written down, or it is IGNORE.
Decide ==
  /\ AtStep("result")
  /\ pipe' = [pipe EXCEPT !.step = "done"]
  /\ IF pipe.mode = "auto_signal"
       THEN \/ traded' = Action(pipe.verdict) /\ logged' = Action(pipe.verdict)
            \/ traded' = "IGNORE" /\ UNCHANGED logged
       ELSE UNCHANGED <<traded, logged>>
  /\ UNCHANGED <<aborted, model, recorded>>

AnalysisNext ==
  \/ FetchData \/ ComputeIndicators \/ ComputeScore \/ CheckHardRules \/ Gate
  \/ LlmInterpret \/ Persist \/ StepRaised \/ TimerFires \/ Decide

AnalysisSpec == AnalysisInit /\ [][AnalysisNext]_analysisVars

---------------------------------------------------------------------------
(* Properties *)

\* A signal is traded only if its analysis went through in time: the hard rules passed, the
\* filter let it by, and the timer had not fired before the model's part was over.  What is
\* traded is what the model's word stands for, PRIORITY at any score included; without its
\* word it is a BUY, and the score alone was above 75.  The trade is in the decisions table.
TradesAreAnalysed ==
  traded \in {"BUY", "SELL"} =>
    /\ pipe.passed /\ ~pipe.ignored
    /\ aborted \in {"never", "persist"}
    /\ IF pipe.answer = "none" THEN traded = "BUY" /\ pipe.score > 7500
                               ELSE traded = Action(pipe.answer)
    /\ logged = traded
=============================================================================
