---------------------------- MODULE MCServices ----------------------------
(***************************************************************************)
(* The components around the trading core, for TLC.  They share no state   *)
(* with one another, so the product of their states would say nothing that *)
(* their sum does not: a behaviour is one of the component that `scope`    *)
(* names, and the others stay in one initial state.                        *)
(***************************************************************************)
EXTENDS JobRunner, Notices, Approval, Gateway, Settings, ExitRules, Analysis, Universe, Scanner,
        Watchlist, Learning, Bot, MarketData, Permissions, ManagedOrders, Reports, TLC

VARIABLE scope

(* Values of the constants *)

\* Four different cases of the score and of the gate, and symbols nothing is known of.
Features(r, m, v, a, rs, b, c, sm, u, n) ==
  [rsi |-> r, macd |-> m, volume |-> v, atr |-> a, rs |-> rs, boll |-> b, change |-> c,
   sma |-> sm, uptrend |-> u, news |-> n]
FeatureSetsV ==
  {Features(20, TRUE, 320, 20, 8, 70, 20, 100, TRUE, "good"),
   Features(72, FALSE, 160, 45, 1, 50, 50, 100, TRUE, "mixed"),
   Features(38, TRUE, 80, 30, 6, 90, -20, 450, TRUE, "none"),
   Features(60, FALSE, 110, 50, 0, 45, 5, Missing, FALSE, "mixed"), NoFeatures}
MultipliersV == {<<>>, [trend |-> 50, volume |-> 150]}

GainsV == {-4, 0, 1, 4, 6, 7, 13, 24}
GridV == {<<20, 40>>, <<35, 80>>}

\* Three units of time for what is kept longest.
TtlV == "trade_entry" :> 0 @@ "on_demand" :> 1 @@ "dashboard_chart" :> 2 @@ "scanner" :> 2
          @@ "backtest" :> 3 @@ "fundamentals" :> 3

---------------------------------------------------------------------------
Scopes == {"jobs", "notices", "approval", "gateway", "settings", "exits", "analysis", "universe",
           "scanner", "watchlist", "learning", "bot", "market", "permissions", "managed", "reports"}

\* Outside its scope a component starts in one state.
ServicesInit ==
  /\ scope \in Scopes
  /\ Init /\ NoticeInit /\ SettingsInit /\ WatchInit /\ BotInit /\ ReportInit
  /\ PermissionInit
  /\ GatewayInit /\ (scope = "gateway" \/ ~online)
  /\ ApprovalInit /\ (scope = "approval" \/ ~required)
  /\ RuleInit /\ (scope = "exits" \/ (gain = 0 /\ held = NewRow(EntryLevels)))
  /\ AnalysisInit /\ (scope = "analysis" \/ (pipe.mode = "on_demand" /\ ~model))
  /\ UniverseInit /\ (scope = "universe" \/ (approved = Symbols /\ weight = [s \in Symbols |-> 50]))
  /\ ScannerInit /\ (scope = "scanner" \/ universe = {})
  /\ LearnInit /\ (scope = "learning" \/ (params = NoParams /\ ~filter.model))
  /\ MarketInit /\ (scope = "market" \/ wanted.what = "news")
  /\ ManagedInit /\ (scope = "managed" \/ wired = [required |-> FALSE, bot |-> FALSE])

\* The others stay as they are.
Only(component) ==
  /\ scope = component /\ UNCHANGED scope
  /\ IF component = "jobs" THEN TRUE ELSE UNCHANGED vars
  /\ IF component = "notices" THEN TRUE ELSE UNCHANGED noticeVars
  /\ IF component = "approval" THEN TRUE ELSE UNCHANGED approvalVars
  /\ IF component = "gateway" THEN TRUE ELSE UNCHANGED gatewayVars
  /\ IF component = "settings" THEN TRUE ELSE UNCHANGED settingVars
  /\ IF component = "exits" THEN TRUE ELSE UNCHANGED ruleVars
  /\ IF component = "analysis" THEN TRUE ELSE UNCHANGED analysisVars
  /\ IF component = "universe" THEN TRUE ELSE UNCHANGED universeVars
  /\ IF component = "scanner" THEN TRUE ELSE UNCHANGED scannerVars
  /\ IF component = "watchlist" THEN TRUE ELSE UNCHANGED watchVars
  /\ IF component = "learning" THEN TRUE ELSE UNCHANGED learnVars
  /\ IF component = "bot" THEN TRUE ELSE UNCHANGED botVars
  /\ IF component = "market" THEN TRUE ELSE UNCHANGED marketVars
  /\ IF component = "permissions" THEN TRUE ELSE UNCHANGED permissionVars
  /\ IF component = "managed" THEN TRUE ELSE UNCHANGED managedVars
  /\ IF component = "reports" THEN TRUE ELSE UNCHANGED reportVars

ServicesNext ==
  \/ Only("jobs") /\ Next
  \/ Only("notices") /\ NoticeNext
  \/ Only("approval") /\ ApprovalNext
  \/ Only("gateway") /\ GatewayNext
  \/ Only("settings") /\ SettingsNext
  \/ Only("exits") /\ RuleNext
  \/ Only("analysis") /\ AnalysisNext
  \/ Only("universe") /\ UniverseNext
  \/ Only("scanner") /\ ScannerNext
  \/ Only("watchlist") /\ WatchNext
  \/ Only("learning") /\ LearnNext
  \/ Only("bot") /\ BotNext
  \/ Only("market") /\ MarketNext
  \/ Only("permissions") /\ PermissionNext
  \/ Only("managed") /\ ManagedNext
  \/ Only("reports") /\ ReportNext

servicesVars ==
  <<scope, vars, noticeVars, approvalVars, gatewayVars, settingVars, ruleVars, analysisVars,
    universeVars, scannerVars, watchVars, learnVars, botVars, marketVars, permissionVars,
    managedVars, reportVars>>

\* The fairness that each module states, for the component in scope.
ServicesSpec ==
  /\ ServicesInit /\ [][ServicesNext]_servicesVars
  /\ \A w \in Workers : WF_vars(scope = "jobs" /\ Thread(w))
  /\ WF_noticeVars(scope = "notices" /\ StartPass)
  /\ WF_noticeVars(scope = "notices" /\ \E a \in Alerts : CheckAlert(a))
  /\ \A t \in Askers :
       WF_approvalVars(scope = "approval" /\ (Deadline(t) \/ SendOrder(t) \/ SendRefused(t)))
  /\ WF_gatewayVars(scope = "gateway" /\ WaitForGateway)
  /\ WF_gatewayVars(scope = "gateway" /\ (MakeClient \/ MakeClientFailed))
  /\ WF_gatewayVars(scope = "gateway" /\ Watchdog)
  /\ WF_ruleVars(scope = "exits" /\ RuleStep)
  /\ WF_universeVars(scope = "universe" /\ Reconcile)
  /\ WF_botVars(scope = "bot" /\ BotStep)

\* The variables of the component in scope have their types.
ServicesTypeOK ==
  CASE scope = "jobs" -> TypeOK
    [] scope = "notices" -> NoticeTypeOK
    [] scope = "approval" -> ApprovalTypeOK
    [] scope = "gateway" -> GatewayTypeOK
    [] scope = "settings" -> SettingsTypeOK
    [] scope = "exits" -> RuleTypeOK
    [] scope = "analysis" -> AnalysisTypeOK
    [] scope = "universe" -> UniverseTypeOK
    [] scope = "scanner" -> ScannerTypeOK
    [] scope = "watchlist" -> WatchTypeOK
    [] scope = "learning" -> LearnTypeOK
    [] scope = "bot" -> BotTypeOK
    [] scope = "market" -> MarketTypeOK
    [] scope = "permissions" -> PermissionTypeOK
    [] scope = "managed" -> ManagedTypeOK
    [] scope = "reports" -> ReportTypeOK
=============================================================================
