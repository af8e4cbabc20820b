--------------------------- MODULE ServicesProofs ---------------------------
(***************************************************************************)
(* The components around the trading core, side by side: each keeps to its *)
(* own specification whichever of them moves, so what is proved of one     *)
(* alone holds of all of them together.                                    *)
(***************************************************************************)
EXTENDS MCServices, JobRunnerProofs, ServiceProofs, ApprovalProofs, BackgroundProofs

\* A step of one component is a stutter of every other.
LEMMA OnlyOneMoves ==
  [ServicesNext]_servicesVars =>
    /\ [Next]_vars
    /\ [NoticeNext]_noticeVars
    /\ [ApprovalNext]_approvalVars
    /\ [GatewayNext]_gatewayVars
    /\ [SettingsNext]_settingVars
    /\ [RuleNext]_ruleVars
    /\ [AnalysisNext]_analysisVars
    /\ [UniverseNext]_universeVars
    /\ [ScannerNext]_scannerVars
    /\ [WatchNext]_watchVars
    /\ [LearnNext]_learnVars
    /\ [BotNext]_botVars
    /\ [MarketNext]_marketVars
    /\ [PermissionNext]_permissionVars
    /\ [ManagedNext]_managedVars
    /\ [ReportNext]_reportVars
<1> SUFFICES ASSUME [ServicesNext]_servicesVars
             PROVE  /\ [Next]_vars /\ [NoticeNext]_noticeVars /\ [ApprovalNext]_approvalVars
                    /\ [GatewayNext]_gatewayVars /\ [SettingsNext]_settingVars
                    /\ [RuleNext]_ruleVars /\ [AnalysisNext]_analysisVars
                    /\ [UniverseNext]_universeVars /\ [ScannerNext]_scannerVars
                    /\ [WatchNext]_watchVars /\ [LearnNext]_learnVars /\ [BotNext]_botVars
                    /\ [MarketNext]_marketVars /\ [PermissionNext]_permissionVars
                    /\ [ManagedNext]_managedVars /\ [ReportNext]_reportVars
  OBVIOUS
<1>1. CASE UNCHANGED servicesVars
  BY <1>1 DEF servicesVars
<1>2. CASE Only("jobs") /\ Next
  BY <1>2, Zenon DEF Only
<1>3. CASE Only("notices") /\ NoticeNext
  BY <1>3, Zenon DEF Only
<1>4. CASE Only("approval") /\ ApprovalNext
  BY <1>4, Zenon DEF Only
<1>5. CASE Only("gateway") /\ GatewayNext
  BY <1>5, Zenon DEF Only
<1>6. CASE Only("settings") /\ SettingsNext
  BY <1>6, Zenon DEF Only
<1>7. CASE Only("exits") /\ RuleNext
  BY <1>7, Zenon DEF Only
<1>8. CASE Only("analysis") /\ AnalysisNext
  BY <1>8, Zenon DEF Only
<1>9. CASE Only("universe") /\ UniverseNext
  BY <1>9, Zenon DEF Only
<1>10. CASE Only("scanner") /\ ScannerNext
  BY <1>10, Zenon DEF Only
<1>11. CASE Only("watchlist") /\ WatchNext
  BY <1>11, Zenon DEF Only
<1>12. CASE Only("learning") /\ LearnNext
  BY <1>12, Zenon DEF Only
<1>13. CASE Only("bot") /\ BotNext
  BY <1>13, Zenon DEF Only
<1>14. CASE Only("market") /\ MarketNext
  BY <1>14, Zenon DEF Only
<1>15. CASE Only("permissions") /\ PermissionNext
  BY <1>15, Zenon DEF Only
<1>16. CASE Only("managed") /\ ManagedNext
  BY <1>16, Zenon DEF Only
<1>17. CASE Only("reports") /\ ReportNext
  BY <1>17, Zenon DEF Only
<1> QED
  BY <1>1, <1>2, <1>3, <1>4, <1>5, <1>6, <1>7, <1>8, <1>9, <1>10, <1>11, <1>12, <1>13, <1>14,
     <1>15, <1>16, <1>17 DEF ServicesNext

\* Without the fairness that only its liveness needs, the run of all components is a run of each.
LEMMA ServicesAreTheirOwn ==
  ServicesSpec =>
    /\ Spec
    /\ NoticeSpec
    /\ ApprovalSpec
    /\ GatewaySpec
    /\ SettingsSpec
    /\ RuleSpec
    /\ AnalysisSpec
    /\ UniverseSpec
    /\ ScannerSpec
    /\ WatchSpec
    /\ LearnSpec
    /\ BotSpec
    /\ MarketSpec
    /\ PermissionSpec
    /\ ManagedSpec
    /\ ReportSpec
<1>1. ServicesInit => /\ Init /\ NoticeInit /\ ApprovalInit /\ GatewayInit
                      /\ SettingsInit /\ RuleInit /\ AnalysisInit /\ UniverseInit
                      /\ ScannerInit /\ WatchInit /\ LearnInit /\ BotInit
                      /\ MarketInit /\ PermissionInit /\ ManagedInit /\ ReportInit
  BY DEF ServicesInit
<1> QED
  BY <1>1, OnlyOneMoves, PTL
     DEF ServicesSpec, Spec, NoticeSpec, ApprovalSpec, GatewaySpec, SettingsSpec, RuleSpec,
         AnalysisSpec, UniverseSpec, ScannerSpec, WatchSpec, LearnSpec,
         BotSpec, MarketSpec, PermissionSpec, ManagedSpec, ReportSpec

\* For all constants that meet the components' assumptions: the component that moves has its
\* types, and starts from a state that has them.
THEOREM ServicesTyped == ServicesSpec => []ServicesTypeOK
<1> DEFINE AllTypeOK ==
             /\ TypeOK
             /\ NoticeTypeOK
             /\ ApprovalTypeOK
             /\ GatewayTypeOK
             /\ SettingsTypeOK
             /\ RuleTypeOK
             /\ AnalysisTypeOK
             /\ UniverseTypeOK
             /\ ScannerTypeOK
             /\ WatchTypeOK
             /\ LearnTypeOK
             /\ BotTypeOK
             /\ MarketTypeOK
             /\ PermissionTypeOK
             /\ ManagedTypeOK
             /\ ReportTypeOK
<1> DEFINE Scoped == scope \in Scopes
<1>1. ServicesInit => Scoped
  BY DEF ServicesInit
<1>2. Scoped /\ [ServicesNext]_servicesVars => Scoped'
  BY DEF ServicesNext, servicesVars, Only
<1>3. Scoped /\ AllTypeOK => ServicesTypeOK
  BY DEF Scopes, ServicesTypeOK
<1>4. ServicesSpec => []AllTypeOK
  BY ServicesAreTheirOwn, JobsTyped, NoticesTyped, ApprovalTyped, GatewayTyped, SettingsTyped,
     RuleTyped, AnalysisTyped, UniverseTyped, ScannerTyped, WatchTyped, LearnTyped, BotTyped,
     MarketTyped, PermissionTyped, ManagedTyped, ReportsTyped, PTL
<1> HIDE DEF AllTypeOK, Scoped
<1>5. ServicesSpec => []Scoped
  BY <1>1, <1>2, PTL DEF ServicesSpec
<1> QED
  BY <1>3, <1>4, <1>5, PTL

\* No component needs another to stand still: what each of them promises holds while the others
\* do whatever they do.
THEOREM ServicesKeepTheirPromises ==
  ServicesSpec =>
    /\ []SuccessMeansReturned
    /\ []AskedOrdersHaveAnApproval
    /\ []MissedIsQueued
    /\ []SecretsStaySealed
    /\ []ProfitIsLocked
    /\ []TradesAreAnalysed
    /\ []ProtectedStayApproved
    /\ []HeldStayActive
    /\ []StrongIsAgreed
    /\ []ToldOnceADay
    /\ []FreshEnough
    /\ []IdIsFreed
    /\ []OnePressOneOrder
    /\ []LinksLive
    /\ TerminalIsFinal
    /\ NoNoticeAfterMark
    /\ MeasuredOnce
    /\ JobsKeepBoard
BY ServicesAreTheirOwn, SuccessIsTrue, FinishedJobsStay, PoolImplementsBoard, NoticeTheorem,
   ApprovalTheorem, MissedTheorem,
   SecretsTheorem, LockTheorem, AnalysedTheorem, ProtectedTheorem, HeldTheorem,
   StrongTheorem, ToldTheorem, MeasuredTheorem, FreshTheorem,
   IdTheorem, PressTheorem, LinksTheorem, PTL
=============================================================================
