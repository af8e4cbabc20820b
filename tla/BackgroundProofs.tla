--------------------------- MODULE BackgroundProofs --------------------------
(***************************************************************************)
(* The jobs that run beside the trading loop: the stop of a trade, alerts, *)
(* the watchlist, the caches, the reports and what is learnt.              *)
(***************************************************************************)
EXTENDS ExitRules, Notices, Watchlist, MarketData, Reports, Learning, TLAPS

(* The stop *)

HeldRows == [open: BOOLEAN, stop: Int, target: Int, left: Nat]
PassStates ==
  [pc: {"idle", "partial", "trail", "exit", "close"}, seen: Int, partialDone: BOOLEAN]

StopTypes == held \in HeldRows /\ step \in PassStates /\ gain \in Int

StopInv == StopTypes /\ ProfitIsLocked

LEMMA RuleConstants ==
  /\ StopLoss \in Nat /\ TakeProfit \in Nat /\ Buffer \in Nat
  /\ Gains \subseteq Int /\ Shares \in Nat /\ Shares > 0
BY ExitAssumption

LEMMA NoStepTyped == NoStep \in PassStates
BY DEF NoStep, PassStates

LEMMA StopInvInit == RuleInit => StopInv
<1> SUFFICES ASSUME RuleInit PROVE StopInv
  OBVIOUS
<1>1. /\ NewRow(EntryLevels) \in HeldRows
      /\ NewRow(AdoptedLevels(TRUE)) \in HeldRows
      /\ NewRow(AdoptedLevels(FALSE)) \in HeldRows
  BY RuleConstants DEF NewRow, EntryLevels, AdoptedLevels, HeldRows
<1>2. held \in HeldRows
  BY <1>1 DEF RuleInit
<1> QED
  BY <1>2, RuleConstants, NoStepTyped DEF RuleInit, StopInv, StopTypes, ProfitIsLocked

\* A trailed stop is not below the one before, nor below breakeven when the gain is beyond.
LEMMA TrailedUp ==
  ASSUME NEW stop \in Int, NEW seen \in Int
  PROVE  /\ TrailedStop(stop, seen) \in Int
         /\ TrailedStop(stop, seen) >= stop
         /\ 2 * seen > 3 * StopLoss => TrailedStop(stop, seen) >= Buffer
<1> DEFINE breakeven == IF 2 * seen > 3 * StopLoss THEN Best(stop, BreakevenStop) ELSE stop
<1>1. /\ breakeven \in Int /\ breakeven >= stop
      /\ 2 * seen > 3 * StopLoss => breakeven >= Buffer
  BY RuleConstants DEF Best, BreakevenStop
<1>2. seen \div 2 \in Int
  OBVIOUS
<1>3. TrailedStop(stop, seen) =
        IF seen > 3 * StopLoss THEN Best(breakeven, seen \div 2) ELSE breakeven
  BY DEF TrailedStop
<1> HIDE DEF breakeven
<1> QED
  BY <1>1, <1>2, <1>3, RuleConstants DEF Best

LEMMA StopInvNext == StopInv /\ [RuleNext]_ruleVars => StopInv'
<1> SUFFICES ASSUME StopInv, [RuleNext]_ruleVars
             PROVE  StopInv'
  OBVIOUS
<1>0. held \in HeldRows /\ step \in PassStates /\ gain \in Int /\ (armed => held.stop >= Buffer)
  BY DEF StopInv, StopTypes, ProfitIsLocked
<1>1. step' \in PassStates
  <2>1. \A pc \in {"idle", "partial", "trail", "exit", "close"} :
          [step EXCEPT !.pc = pc] \in PassStates
    BY <1>0 DEF PassStates
  <2>2. [step EXCEPT !.pc = "trail", !.partialDone = TRUE] \in PassStates
    BY <1>0 DEF PassStates
  <2>3. [pc |-> "partial", seen |-> gain, partialDone |-> FALSE] \in PassStates
    BY <1>0 DEF PassStates
  <2> QED
    BY <1>0, <2>1, <2>2, <2>3, NoStepTyped
       DEF RuleNext, RuleStep, ruleVars, PriceGoes, PassStarts, PartialNotDue, PartialOfAll,
           PartialOfHalf, PartialRefused, Trail, Keep, Exit, ExitRefused, GoTo
<1>2. gain' \in Int
  BY <1>0, RuleConstants
     DEF RuleNext, RuleStep, ruleVars, PriceGoes, PassStarts, PartialNotDue, PartialOfAll,
         PartialOfHalf, PartialRefused, Trail, Keep, Exit, ExitRefused, Refused
<1>3. CASE PartialOfAll \/ PartialOfHalf
  <2>1. ToExit \in Nat
    BY <1>0, RuleConstants DEF ToExit, HeldRows
  <2>2. ToExit \div 2 \in Nat /\ ToExit - ToExit \div 2 \in Nat
    BY <2>1
  <2>3. PICK left \in Nat : held' = [held EXCEPT !.left = left, !.stop = Buffer]
    BY <1>3, <2>2 DEF PartialOfAll, PartialOfHalf, BreakevenStop
  <2>4. held' \in HeldRows /\ held'.stop = Buffer
    <3>1. Buffer \in Int
      BY RuleConstants
    <3>2. held' = [open |-> held.open, stop |-> Buffer, target |-> held.target, left |-> left]
      BY <1>0, <2>3 DEF HeldRows
    <3> QED
      BY <1>0, <3>1, <3>2 DEF HeldRows
  <2> QED
    BY <1>1, <1>2, <2>4, RuleConstants DEF StopInv, StopTypes, ProfitIsLocked
<1>4. CASE Trail
  <2>1. /\ held.stop \in Int /\ step.seen \in Int
        /\ held' = [held EXCEPT !.stop = TrailedStop(held.stop, step.seen)]
        /\ armed' = (armed \/ 2 * step.seen > 3 * StopLoss)
    BY <1>0, <1>4 DEF Trail, HeldRows, PassStates
  <2>2. /\ TrailedStop(held.stop, step.seen) \in Int
        /\ TrailedStop(held.stop, step.seen) >= held.stop
        /\ 2 * step.seen > 3 * StopLoss => TrailedStop(held.stop, step.seen) >= Buffer
    BY <2>1, TrailedUp
  <2>3. held' \in HeldRows /\ held'.stop = TrailedStop(held.stop, step.seen)
    BY <1>0, <2>1, <2>2 DEF HeldRows
  <2>4. armed' => held'.stop >= Buffer
    <3>1. CASE armed
      BY <1>0, <2>1, <2>2, <2>3, <3>1, RuleConstants
    <3>2. CASE 2 * step.seen > 3 * StopLoss
      BY <2>2, <2>3, <3>2
    <3> QED
      BY <2>1, <3>1, <3>2
  <2> QED
    BY <1>1, <1>2, <2>3, <2>4 DEF StopInv, StopTypes, ProfitIsLocked
<1>5. CASE Exit
  <2>1. held' \in HeldRows /\ held'.stop = held.stop /\ armed' = armed
    BY <1>0, <1>5 DEF Exit, HeldRows
  <2> QED
    BY <1>0, <1>1, <1>2, <2>1 DEF StopInv, StopTypes, ProfitIsLocked
<1>6. CASE UNCHANGED <<held, armed>>
  BY <1>0, <1>1, <1>2, <1>6 DEF StopInv, StopTypes, ProfitIsLocked
<1> QED
  BY <1>3, <1>4, <1>5, <1>6
     DEF RuleNext, RuleStep, ruleVars, PriceGoes, PassStarts, PartialNotDue, PartialRefused, Keep,
         ExitRefused, Refused

\* For every stop, target, number of shares and price path: a trade that a pass has seen beyond
\* the threshold never has its stop below breakeven again (risk/trailing_stop.py,
\* update_stop_levels, and the partial exit of positions/manager.py).
THEOREM LockTheorem == RuleSpec => []ProfitIsLocked
<1>1. StopInv => ProfitIsLocked
  BY DEF StopInv
<1> QED
  BY <1>1, StopInvInit, StopInvNext, PTL DEF RuleSpec

\* The shares left never exceed those of the entry, and a pass goes by a gain that was one.
RuleTypes ==
  /\ StopTypes
  /\ gain \in Gains /\ step.seen \in Gains \cup {0}
  /\ held.left <= Shares
  /\ armed \in BOOLEAN
  /\ refusals \in 0 .. MaxRefusals

LEMMA RuleTypesInit == RuleInit => RuleTypes
<1> SUFFICES ASSUME RuleInit PROVE RuleTypes
  OBVIOUS
<1>1. StopTypes
  BY StopInvInit DEF StopInv
<1>2. held.left = Shares
  BY DEF RuleInit, NewRow
<1> QED
  <2>1. refusals \in 0 .. MaxRefusals /\ step.seen = 0 /\ held.left <= Shares
    BY <1>2, ExitAssumption DEF RuleInit, NoStep
  <2>2. armed \in BOOLEAN /\ gain \in Gains
    BY DEF RuleInit
  <2> QED
    BY <1>1, <2>1, <2>2 DEF RuleTypes

LEMMA RuleTypesNext == RuleTypes /\ StopInv /\ [RuleNext]_ruleVars => RuleTypes'
<1> SUFFICES ASSUME RuleTypes, StopInv, [RuleNext]_ruleVars
             PROVE  RuleTypes'
  OBVIOUS
<1>1. StopTypes'
  BY StopInvNext DEF StopInv
<1>2. gain' \in Gains
  BY DEF RuleTypes, RuleNext, RuleStep, ruleVars, PriceGoes, PassStarts, PartialNotDue,
     PartialOfAll,
         PartialOfHalf, PartialRefused, Trail, Keep, Exit, ExitRefused, Refused
<1>3. step'.seen \in Gains \cup {0}
  <2>1. step \in PassStates /\ step.seen \in Gains \cup {0} /\ gain \in Gains
    BY DEF RuleTypes, StopTypes
  <2>2. CASE PassStarts
    BY <2>1, <2>2 DEF PassStarts
  <2>3. CASE PartialOfHalf
    <3>1. step' = [step EXCEPT !.pc = "trail", !.partialDone = TRUE]
      BY <2>3 DEF PartialOfHalf
    <3> QED
      BY <2>1, <3>1 DEF PassStates
  <2>4. CASE GoTo("trail") \/ GoTo("exit")
    BY <2>1, <2>4 DEF GoTo, PassStates
  <2>5. CASE step' = NoStep
    BY <2>5 DEF NoStep
  <2>6. CASE step' = step
    BY <2>1, <2>6
  <2> QED
    BY <2>2, <2>3, <2>4, <2>5, <2>6
       DEF RuleNext, RuleStep, ruleVars, PriceGoes, PartialNotDue, PartialOfAll, PartialRefused,
           Trail, Keep, Exit, ExitRefused
<1>4. held'.left <= Shares
  <2>1. held.left \in Nat /\ held.left <= Shares /\ Shares \in Nat
    BY RuleConstants DEF RuleTypes, StopTypes, HeldRows
  <2>2. CASE PartialOfAll
    <3>1. held'.left = 0
      BY <2>2 DEF PartialOfAll, RuleTypes, StopTypes, HeldRows
    <3> QED
      BY <2>1, <3>1
  <2>3. CASE PartialOfHalf
    <3>1. ToExit \in 0 .. Shares
      BY <2>1 DEF ToExit
    <3>2. PICK half \in {ToExit \div 2, ToExit - ToExit \div 2} :
            held' = [held EXCEPT !.left = half, !.stop = BreakevenStop]
      BY <2>3 DEF PartialOfHalf
    <3>3. held'.left = half
      BY <3>2 DEF RuleTypes, StopTypes, HeldRows
    <3> HIDE DEF ToExit
    <3> QED
      BY <2>1, <3>1, <3>2, <3>3
  <2>4. CASE Trail \/ Exit
    <3>1. held'.left = held.left
      BY <2>4 DEF Trail, Exit, RuleTypes, StopTypes, HeldRows
    <3> QED
      BY <2>1, <3>1
  <2>5. CASE held' = held
    BY <2>1, <2>5
  <2> QED
    BY <2>2, <2>3, <2>4, <2>5
       DEF RuleNext, RuleStep, ruleVars, PriceGoes, PassStarts, PartialNotDue, PartialRefused, Keep,
           ExitRefused, Refused
<1>5. armed' \in BOOLEAN
  <2>1. CASE Trail
    BY <2>1 DEF Trail
  <2>2. CASE armed' = armed
    BY <2>2 DEF RuleTypes
  <2> QED
    BY <2>1, <2>2
       DEF RuleNext, RuleStep, ruleVars, PriceGoes, PassStarts, PartialNotDue, PartialOfAll,
           PartialOfHalf, PartialRefused, Keep, Exit, ExitRefused, Refused
<1>6. refusals' \in 0 .. MaxRefusals
  <2>1. refusals \in 0 .. MaxRefusals /\ MaxRefusals \in Nat
    BY ExitAssumption DEF RuleTypes
  <2>2. CASE Refused
    BY <2>1, <2>2 DEF Refused
  <2>3. CASE refusals' \in {0, refusals}
    BY <2>1, <2>3
  <2> QED
    BY <2>2, <2>3
       DEF RuleNext, RuleStep, ruleVars, PriceGoes, PassStarts, PartialNotDue, PartialOfAll,
           PartialOfHalf, PartialRefused, Trail, Keep, Exit, ExitRefused
<1> QED
  BY <1>1, <1>2, <1>3, <1>4, <1>5, <1>6 DEF RuleTypes

LEMMA RuleTypesOK == RuleTypes => RuleTypeOK
BY RuleConstants DEF RuleTypes, RuleTypeOK, StopTypes, HeldRows, PassStates

\* For every stop, target and price path: a trade never has more shares left than it bought
\* (positions/manager.py, the partial exit).
THEOREM RuleTyped == RuleSpec => []RuleTypeOK
BY StopInvInit, StopInvNext, RuleTypesInit, RuleTypesNext, RuleTypesOK, PTL DEF RuleSpec

---------------------------------------------------------------------------
(* The alerts *)

\* A pass goes only through alerts that are not marked.
PassUnmarked ==
  /\ notices \in [Alerts -> Nat]
  /\ alerts \in [Alerts -> {"none", "active", "triggered", "deleted"}]
  /\ pass \in [pc: {"idle", "check", "mark"}, todo: SUBSET Alerts]
  /\ \A a \in pass.todo : alerts[a] \in {"active", "deleted"}

LEMMA PassInit == NoticeInit => PassUnmarked
BY DEF NoticeInit, PassUnmarked, NoPass

LEMMA PassNext == PassUnmarked /\ [NoticeNext]_noticeVars => PassUnmarked'
<1> SUFFICES ASSUME PassUnmarked, [NoticeNext]_noticeVars
             PROVE  PassUnmarked'
  OBVIOUS
<1> USE DEF PassUnmarked
<1>1. CASE \E l \in Levels : SetLevel(l)
  BY <1>1 DEF SetLevel
<1>2. CASE \E a \in Alerts : CreateAlert(a) \/ DeleteAlert(a) \/ PriceMoves(a)
  BY <1>2 DEF CreateAlert, DeleteAlert, PriceMoves
<1>3. CASE StartPass
  BY <1>3 DEF StartPass, ActiveAlerts
<1>4. CASE \E a \in Alerts : SkipAlert(a)
  BY <1>4 DEF SkipAlert, Continue, GoOn
<1>5. CASE \E a \in Alerts, delivered \in BOOLEAN : NotifyAlert(a, delivered)
  BY <1>5, NoticeAssumption DEF NotifyAlert
<1>6. CASE \E a \in Alerts : MarkTriggered(a)
  BY <1>6 DEF MarkTriggered, GoOn
<1>7. CASE MarkFailed
  BY <1>7 DEF MarkFailed, NoPass
<1>8. CASE UNCHANGED noticeVars
  BY <1>8 DEF noticeVars
<1> QED
  BY <1>1, <1>2, <1>3, <1>4, <1>5, <1>6, <1>7, <1>8 DEF NoticeNext, CheckAlert

LEMMA NoticeStep ==
  ASSUME PassUnmarked, [NoticeNext]_noticeVars, NEW a \in Alerts, notices'[a] > notices[a]
  PROVE  alerts[a] # "triggered"
<1>1. CASE \E b \in Alerts, delivered \in BOOLEAN : NotifyAlert(b, delivered)
  <2>1. PICK b \in Alerts, delivered \in BOOLEAN : NotifyAlert(b, delivered)
    BY <1>1
  <2>2. b \in pass.todo
    BY <2>1 DEF NotifyAlert, AtHand
  <2>3. a = b
    BY <2>1 DEF NotifyAlert, PassUnmarked
  <2> QED
    BY <2>2, <2>3 DEF PassUnmarked
<1>2. CASE notices' = notices
  BY <1>2 DEF PassUnmarked
<1> QED
  BY <1>1, <1>2
     DEF NoticeNext, noticeVars, SetLevel, CreateAlert, DeleteAlert, PriceMoves, StartPass,
         CheckAlert, SkipAlert, MarkTriggered, MarkFailed

\* For any number of alerts: a step that tells of an alert finds it unmarked, whatever the owner
\* creates or deletes while a pass goes on (alerts/manager.py, check_all).
THEOREM NoticeTheorem == NoticeSpec => NoNoticeAfterMark
<1>1. PassUnmarked /\ [NoticeNext]_noticeVars =>
        [\A a \in Alerts : notices'[a] > notices[a] => alerts[a] # "triggered"]_noticeVars
  BY NoticeStep
<1> QED
  BY <1>1, PassInit, PassNext, PTL DEF NoticeSpec, NoNoticeAfterMark

LEMMA NoticeTypesInit == NoticeInit => NoticeTypeOK
BY NoticeAssumption DEF NoticeInit, NoticeTypeOK, NoPass, Levels

LEMMA NoticeTypesNext == NoticeTypeOK /\ [NoticeNext]_noticeVars => NoticeTypeOK'
<1> SUFFICES ASSUME NoticeTypeOK, [NoticeNext]_noticeVars
             PROVE  NoticeTypeOK'
  OBVIOUS
<1> USE DEF NoticeTypeOK
<1>1. ASSUME Fault PROVE faults' \in 0 .. MaxFaults
  BY <1>1, NoticeAssumption DEF Fault
<1>2. CASE \E l \in Levels : SetLevel(l)
  BY <1>2 DEF SetLevel
<1>3. CASE \E a \in Alerts : CreateAlert(a) \/ DeleteAlert(a) \/ PriceMoves(a)
  BY <1>3 DEF CreateAlert, DeleteAlert, PriceMoves
<1>4. CASE StartPass
  BY <1>4 DEF StartPass, ActiveAlerts
<1>5. CASE \E a \in Alerts : SkipAlert(a)
  <2>1. pass' \in [pc: {"idle", "check"}, todo: SUBSET Alerts] /\ faults' \in 0 .. MaxFaults
    BY <1>1, <1>5 DEF SkipAlert, Continue, GoOn
  <2> QED
    BY <1>5, <2>1 DEF SkipAlert
<1>6. CASE \E a \in Alerts, delivered \in BOOLEAN : NotifyAlert(a, delivered)
  <2>1. PICK a \in Alerts, delivered \in BOOLEAN : NotifyAlert(a, delivered)
    BY <1>6
  <2>2. notices' \in [Alerts -> 0 .. MaxTold]
    BY <2>1, NoticeAssumption DEF NotifyAlert
  <2>3. pass' = [pc |-> "mark", todo |-> pass.todo] /\ a \in pass.todo
    BY <2>1 DEF NotifyAlert, AtHand
  <2> QED
    BY <2>1, <2>2, <2>3 DEF NotifyAlert
<1>7. CASE \E a \in Alerts : MarkTriggered(a)
  <2>1. pass' \in [pc: {"idle", "check"}, todo: SUBSET Alerts]
    BY <1>7 DEF MarkTriggered, GoOn
  <2> QED
    BY <1>7, <2>1 DEF MarkTriggered
<1>8. CASE MarkFailed
  BY <1>1, <1>8 DEF MarkFailed, NoPass
<1>9. CASE UNCHANGED noticeVars
  BY <1>9 DEF noticeVars
<1> QED
  BY <1>2, <1>3, <1>4, <1>5, <1>6, <1>7, <1>8, <1>9 DEF NoticeNext, CheckAlert

\* The types of the alerts, for any number of them.
THEOREM NoticesTyped == NoticeSpec => []NoticeTypeOK
BY NoticeTypesInit, NoticeTypesNext, PTL DEF NoticeSpec

---------------------------------------------------------------------------
(* The watchlist *)

\* What is new is listed and was not told; what was told is listed.
NewUntold ==
  /\ listed \subseteq WatchSymbols
  /\ hunt \in [at: {"idle", "movers", "news", "lags", "notify"}, todo: SUBSET WatchSymbols,
               known: SUBSET WatchSymbols, new: SUBSET WatchSymbols]
  /\ cached \in [movers: SUBSET Movers, news: SUBSET WatchSymbols]
  /\ told \in [WatchSymbols -> {0, 1}]
  /\ hunt.new \subseteq listed
  /\ \A s \in WatchSymbols : told[s] = 1 => s \in listed /\ s \notin hunt.new

LEMMA WatchInitial == WatchInit => NewUntold
BY DEF WatchInit, NewUntold, Quiet

LEMMA UpsertKeeps ==
  ASSUME NewUntold, NEW s \in WatchSymbols, Upsert(s)
  PROVE  NewUntold'
<1>1. PICK more \in {{}, {s}} :
        /\ hunt' = [hunt EXCEPT !.todo = hunt.todo \ {s}, !.new = hunt.new \cup more]
        /\ more = {s} => s \notin listed
  BY DEF Upsert, NotHunting, IsNew
<1>2. hunt' = [at |-> hunt.at, todo |-> hunt.todo \ {s}, known |-> hunt.known,
               new |-> hunt.new \cup more]
  BY <1>1 DEF NewUntold
<1>3. hunt' \in [at: {"idle", "movers", "news", "lags", "notify"}, todo: SUBSET WatchSymbols,
                 known: SUBSET WatchSymbols, new: SUBSET WatchSymbols]
  BY <1>1, <1>2 DEF NewUntold
<1>4. hunt'.new = hunt.new \cup more
  BY <1>2
<1>5. UNCHANGED <<told, cached>> /\ listed' = listed \cup {s}
  BY DEF Upsert, NotHunting
<1> QED
  BY <1>1, <1>3, <1>4, <1>5 DEF NewUntold

LEMMA NotifyKeeps ==
  ASSUME NewUntold, Notify
  PROVE  NewUntold'
<1>1. PICK said \in SUBSET hunt.new :
        told' = [s \in WatchSymbols |-> told[s] + (IF s \in said THEN 1 ELSE 0)]
  BY DEF Notify
<1>2. \A s \in WatchSymbols : s \in hunt.new => told[s] = 0 /\ s \in listed
  BY DEF NewUntold
<1>3. told' \in [WatchSymbols -> {0, 1}]
  BY <1>1, <1>2 DEF NewUntold
<1>4. \A s \in WatchSymbols : told'[s] = 1 => s \in listed
  BY <1>1, <1>2 DEF NewUntold
<1>5. hunt' = Quiet /\ UNCHANGED <<listed, cached>>
  BY DEF Notify, NotHunting
<1> QED
  BY <1>3, <1>4, <1>5 DEF NewUntold, Quiet

LEMMA WatchKeeps == NewUntold /\ [WatchNext]_watchVars => NewUntold'
<1> SUFFICES ASSUME NewUntold, [WatchNext]_watchVars
             PROVE  NewUntold'
  OBVIOUS
<1>1. CASE Refill
  BY <1>1 DEF Refill, NewUntold
<1>2. CASE Begin
  BY <1>2 DEF Begin, NotHunting, NewUntold, Quiet, WatchSymbols
<1>3. CASE NextPart
  <2>1. Pairs \subseteq WatchSymbols /\ UNCHANGED <<listed, told, cached>>
    BY <1>3 DEF NextPart, NotHunting, WatchSymbols
  <2>2. PICK at \in {"news", "lags", "notify"}, todo \in SUBSET WatchSymbols,
             known \in SUBSET WatchSymbols :
          hunt' = [at |-> at, todo |-> todo, known |-> known, new |-> hunt.new]
    <3>1. CASE hunt.at = "movers"
      BY <1>3, <3>1 DEF NextPart, Hunting, NotHunting, NewUntold
    <3>2. CASE hunt.at = "news"
      BY <1>3, <2>1, <3>2 DEF NextPart, Hunting, NotHunting, NewUntold
    <3>3. CASE hunt.at = "lags"
      BY <1>3, <3>3 DEF NextPart, Hunting, NotHunting, NewUntold
    <3> QED
      BY <1>3, <3>1, <3>2, <3>3 DEF NextPart, Hunting
  <2>3. hunt'.new = hunt.new
    BY <2>2
  <2>4. hunt' \in [at: {"idle", "movers", "news", "lags", "notify"}, todo: SUBSET WatchSymbols,
                   known: SUBSET WatchSymbols, new: SUBSET WatchSymbols]
    BY <2>2 DEF NewUntold
  <2> QED
    BY <2>1, <2>3, <2>4 DEF NewUntold
<1>4. CASE \E s \in WatchSymbols : Skip(s)
  BY <1>4 DEF Skip, NotHunting, NewUntold
<1>5. CASE HuntDies
  BY <1>5 DEF HuntDies, NotHunting, NewUntold, Quiet
<1>6. CASE UNCHANGED watchVars
  BY <1>6 DEF watchVars, NewUntold
<1> QED
  BY <1>1, <1>2, <1>3, <1>4, <1>5, <1>6, UpsertKeeps, NotifyKeeps DEF WatchNext

\* For any symbols and any number of scans of a day: no symbol is told twice, though scans die
\* and three detectors find it (bootstrap/runner.py, _run_opportunity_scan).
THEOREM ToldTheorem == WatchSpec => []ToldOnceADay
<1>1. NewUntold => ToldOnceADay
  BY DEF NewUntold, ToldOnceADay
<1> QED
  BY <1>1, WatchInitial, WatchKeeps, PTL DEF WatchSpec

\* A symbol is told by a scan that has begun.
ScansBegun ==
  /\ hunts \in 0 .. MaxScans
  /\ hunt.at # "idle" => hunts > 0
  /\ \A s \in WatchSymbols : told[s] <= hunts
  /\ sector \in {-20, 0, 20}

LEMMA ScansBegunStep == NewUntold /\ ScansBegun /\ [WatchNext]_watchVars => ScansBegun'
<1> SUFFICES ASSUME NewUntold, ScansBegun, [WatchNext]_watchVars
             PROVE  ScansBegun'
  OBVIOUS
<1>0. /\ MaxScans \in Nat /\ hunts \in 0 .. MaxScans /\ told \in [WatchSymbols -> {0, 1}]
      /\ sector \in {-20, 0, 20} /\ (hunt.at # "idle" => hunts > 0)
      /\ \A s \in WatchSymbols : told[s] <= hunts
  BY WatchAssumption DEF ScansBegun, NewUntold
<1>1. CASE Refill
  BY <1>0, <1>1 DEF Refill, ScansBegun
<1>2. CASE Begin
  <2>1. hunts < MaxScans /\ hunts' = hunts + 1 /\ UNCHANGED <<told, sector>>
    BY <1>2 DEF Begin, NotHunting
  <2> QED
    BY <1>0, <2>1 DEF ScansBegun
<1>3. CASE Notify
  <2>1. hunts > 0 /\ UNCHANGED <<hunts, sector>>
    BY <1>0, <1>3 DEF Notify, Hunting, NotHunting
  <2>2. told' \in [WatchSymbols -> {0, 1}]
    BY <1>3, NotifyKeeps DEF NewUntold
  <2>3. \A s \in WatchSymbols : told'[s] <= hunts
    BY <1>0, <2>1, <2>2
  <2> QED
    BY <1>0, <2>1, <2>3 DEF ScansBegun
<1>4. CASE NextPart \/ HuntDies \/ \E s \in WatchSymbols : Skip(s) \/ Upsert(s)
  <2>1. UNCHANGED <<told, hunts, sector>>
    BY <1>4 DEF NextPart, HuntDies, Skip, Upsert, NotHunting
  <2>2. hunt.at = "idle" => hunt'.at = "idle"
    <3>1. CASE \E s \in WatchSymbols : Upsert(s)
      <4>1. PICK s \in WatchSymbols : Upsert(s)
        BY <3>1
      <4>2. PICK new : hunt' = [hunt EXCEPT !.todo = hunt.todo \ {s}, !.new = new]
        BY <4>1 DEF Upsert, NotHunting
      <4> QED
        BY <4>2 DEF NewUntold
    <3>2. CASE \E s \in WatchSymbols : Skip(s)
      BY <3>2 DEF Skip, NotHunting, NewUntold
    <3> QED
      BY <1>4, <3>1, <3>2 DEF NextPart, HuntDies, Hunting
  <2> QED
    BY <1>0, <2>1, <2>2 DEF ScansBegun
<1>5. CASE UNCHANGED watchVars
  BY <1>0, <1>5 DEF watchVars, ScansBegun
<1> QED
  BY <1>1, <1>2, <1>3, <1>4, <1>5 DEF WatchNext

\* For any symbols and scans: a symbol was told at most as often as scans were begun, and the
\* lists hold symbols that are watched (bootstrap/runner.py, _run_opportunity_scan).
THEOREM WatchTyped == WatchSpec => []WatchTypeOK
<1>1. WatchInit => ScansBegun
  BY WatchAssumption DEF WatchInit, ScansBegun, Quiet
<1>2. NewUntold /\ ScansBegun => WatchTypeOK
  <2> SUFFICES ASSUME NewUntold, ScansBegun PROVE WatchTypeOK
    OBVIOUS
  <2>1. \A s \in WatchSymbols : told[s] \in 0 .. MaxScans
    BY WatchAssumption DEF NewUntold, ScansBegun
  <2> QED
    BY <2>1 DEF NewUntold, ScansBegun, WatchTypeOK
<1> QED
  BY <1>1, <1>2, WatchInitial, WatchKeeps, ScansBegunStep, PTL DEF WatchSpec

---------------------------------------------------------------------------
(* The caches *)

\* What is served a while longer is younger than the time to live by as much.
EntryYoung == cache.left > 0 => cache.age + cache.left <= Ttl[wanted.context]

\* A price was taken from bars that were still served.
PriceYoung == price.left > 0 => price.age + price.left < 2 * Ttl["backtest"]

\* Only the bars of a price are asked for by who wants one.
PriceWanted == \A r \in Readers : reader[r].price \/ served[r].price => HasPrice

MarketInv == MarketTypeOK /\ EntryYoung /\ PriceYoung /\ PriceWanted /\ FreshEnough

CacheEntries == [value: {"absent", "some", "empty", "None"}, age: 0 .. Oldest, left: 0 .. Ttl["fundamentals"]]
PriceEntries == [value: {"absent", "some"}, age: 0 .. Oldest, left: 0 .. Ttl["fundamentals"]]
ReaderStates == [pc: {"idle", "price_expired", "lookup", "expired", "fetching"}, price: BOOLEAN]
Given == {"absent", "some", "empty", "None", "raised"}
MarketAnswers == [value: Given, age: 0 .. Oldest, price: BOOLEAN]
ScanRows == [value: {"absent", "some", "empty"}, lag: 0 .. Oldest, age: 0 .. Oldest]
TopRows == [value: {"absent", "some", "empty"}, old: BOOLEAN]

LEMMA MarketTypes ==
  MarketTypeOK <=>
    /\ wanted \in Wanted /\ cache \in CacheEntries /\ price \in PriceEntries
    /\ reader \in [Readers -> ReaderStates] /\ served \in [Readers -> MarketAnswers]
    /\ rows \in ScanRows /\ topMovers \in TopRows
BY DEF MarketTypeOK, CacheEntries, PriceEntries, ReaderStates, Given, MarketAnswers, ScanRows, TopRows

LEMMA TtlKnown ==
  /\ Ttl["fundamentals"] \in Nat /\ Oldest = 2 * Ttl["fundamentals"] /\ Oldest \in Nat
  /\ Ttl["backtest"] \in 0 .. Ttl["fundamentals"] /\ Ttl["scanner"] \in 0 .. Ttl["fundamentals"]
  /\ wanted \in Wanted => Ttl[wanted.context] \in 0 .. Ttl["fundamentals"]
<1>1. Ttl["fundamentals"] \in Nat /\ \A c \in Contexts : Ttl[c] \in 0 .. Ttl["fundamentals"]
  BY MarketAssumption DEF Contexts
<1>2. wanted \in Wanted => wanted.context \in Contexts
  BY DEF Wanted, Contexts
<1>3. {"backtest", "scanner"} \subseteq Contexts
  BY DEF Contexts
<1> QED
  BY <1>1, <1>2, <1>3 DEF Oldest

\* An empty entry, no answer and a thread at rest are in order.
LEMMA NothingThere ==
  /\ NoEntry \in CacheEntries /\ NoEntry \in PriceEntries /\ NoEntry.left = 0
  /\ NoAnswer \in MarketAnswers /\ NoAnswer.age = 0 /\ ~NoAnswer.price
  /\ NotReading \in ReaderStates /\ ~NotReading.price
BY TtlKnown
   DEF NoEntry, NoAnswer, NotReading, CacheEntries, PriceEntries, ReaderStates, MarketAnswers, Given

LEMMA MarketInvInit == MarketInit => MarketInv
<1> SUFFICES ASSUME MarketInit PROVE MarketInv
  OBVIOUS
<1>1. rows \in ScanRows /\ rows.lag = 0 /\ topMovers \in TopRows
  BY TtlKnown DEF MarketInit, NoRows, ScanRows, TopRows
<1>2. MarketTypeOK
  BY <1>1, NothingThere, MarketTypes DEF MarketInit
<1>3. EntryYoung /\ PriceYoung /\ PriceWanted /\ FreshEnough
  BY <1>1, NothingThere DEF MarketInit, EntryYoung, PriceYoung, PriceWanted, FreshEnough
<1> QED
  BY <1>2, <1>3 DEF MarketInv

\* What is kept grows older by as much as it is served less.
LEMMA GrownYoung ==
  ASSUME NEW values, NEW entry \in [value: values, age: 0 .. Oldest, left: 0 .. Ttl["fundamentals"]]
  PROVE  /\ Grown(entry) \in [value: values, age: 0 .. Oldest, left: 0 .. Ttl["fundamentals"]]
         /\ Grown(entry).left > 0 =>
              entry.left > 0 /\ Grown(entry).age + Grown(entry).left <= entry.age + entry.left
<1>1. CASE entry.value = "absent"
  BY <1>1, TtlKnown DEF Grown
<1>2. CASE entry.value # "absent"
  <2>1. Grown(entry) = [value |-> entry.value, age |-> Older(entry.age, Oldest),
                        left |-> IF entry.left = 0 THEN 0 ELSE entry.left - 1]
    BY <1>2 DEF Grown
  <2>2. Older(entry.age, Oldest) \in 0 .. Oldest /\ Older(entry.age, Oldest) <= entry.age + 1
    BY TtlKnown DEF Older
  <2> QED
    BY <2>1, <2>2, TtlKnown
<1> QED
  BY <1>1, <1>2

LEMMA TickKeeps ==
  ASSUME MarketInv, MarketTick
  PROVE  MarketInv'
<1>1. /\ cache \in CacheEntries /\ price \in PriceEntries /\ rows \in ScanRows
      /\ EntryYoung /\ PriceYoung /\ FreshEnough /\ PriceWanted
  BY MarketTypes DEF MarketInv
<1>2. UNCHANGED <<wanted, reader, served, topMovers>> /\ cache' = Grown(cache) /\ price' = Grown(price)
  BY DEF MarketTick
<1>3. cache' \in CacheEntries /\ EntryYoung'
  <2>1. /\ Grown(cache) \in CacheEntries
        /\ Grown(cache).left > 0 => cache.left > 0 /\ Grown(cache).age + Grown(cache).left <= cache.age + cache.left
    BY <1>1, GrownYoung DEF CacheEntries
  <2> QED
    BY <1>1, <1>2, <2>1, TtlKnown, MarketTypes DEF EntryYoung, MarketInv, CacheEntries
<1>4. price' \in PriceEntries /\ PriceYoung'
  <2>1. /\ Grown(price) \in PriceEntries
        /\ Grown(price).left > 0 => price.left > 0 /\ Grown(price).age + Grown(price).left <= price.age + price.left
    BY <1>1, GrownYoung DEF PriceEntries
  <2> QED
    BY <1>1, <1>2, <2>1, TtlKnown DEF PriceYoung, PriceEntries
<1>5. rows' \in ScanRows /\ rows'.lag = rows.lag
  <2>1. Older(rows.age, Ttl["scanner"]) \in 0 .. Oldest
    BY <1>1, TtlKnown DEF Older, ScanRows
  <2> QED
    BY <1>1, <2>1 DEF MarketTick, ScanRows
<1>6. MarketTypeOK'
  BY <1>2, <1>3, <1>4, <1>5, MarketTypes DEF MarketInv, MarketTypeOK, CacheEntries, PriceEntries, ScanRows
<1>7. PriceWanted' /\ FreshEnough'
  BY <1>1, <1>2, <1>5 DEF PriceWanted, HasPrice, FreshEnough
<1> QED
  BY <1>3, <1>4, <1>6, <1>7 DEF MarketInv

\* A thread goes on, and may have dropped an entry.
LEMMA GoesKeeps ==
  ASSUME MarketInv, NEW r \in Readers, NEW state \in ReaderStates, state.price => HasPrice,
         Goes(r, state), cache' \in {cache, NoEntry}, price' \in {price, NoEntry},
         UNCHANGED <<wanted, rows, topMovers>>
  PROVE  MarketInv'
<1>1. /\ reader' = [reader EXCEPT ![r] = state] /\ served' = [served EXCEPT ![r] = NoAnswer]
  BY DEF Goes
<1>2. /\ wanted \in Wanted /\ cache \in CacheEntries /\ price \in PriceEntries
      /\ reader \in [Readers -> ReaderStates] /\ served \in [Readers -> MarketAnswers]
  BY MarketTypes DEF MarketInv
<1>3. MarketTypeOK'
  <2>1. /\ wanted' \in Wanted /\ cache' \in CacheEntries /\ price' \in PriceEntries
        /\ reader' \in [Readers -> ReaderStates] /\ served' \in [Readers -> MarketAnswers]
    BY <1>1, <1>2, NothingThere
  <2> QED
    BY <2>1 DEF MarketInv, MarketTypeOK, CacheEntries, PriceEntries, ReaderStates, MarketAnswers, Given
<1>4. EntryYoung' /\ PriceYoung'
  BY NothingThere DEF MarketInv, EntryYoung, PriceYoung
<1>5. PriceWanted' /\ FreshEnough'
  BY <1>1, <1>2, NothingThere DEF MarketInv, PriceWanted, HasPrice, FreshEnough
<1> QED
  BY <1>3, <1>4, <1>5 DEF MarketInv

\* A call that ends with what may be served.
LEMMA ServesKeeps ==
  ASSUME MarketInv, NEW r \in Readers, NEW value \in Given, NEW age \in 0 .. Oldest, NEW isPrice \in BOOLEAN,
         Serves(r, value, age, isPrice), isPrice => HasPrice,
         age = 0 \/ age < IF isPrice THEN 2 * Ttl["backtest"] ELSE Ttl[wanted.context],
         cache' \in CacheEntries, EntryYoung', price' \in PriceEntries, PriceYoung',
         UNCHANGED <<wanted, rows, topMovers>>
  PROVE  MarketInv'
<1> DEFINE answer == [value |-> value, age |-> age, price |-> isPrice]
<1>1. /\ reader' = [reader EXCEPT ![r] = NotReading] /\ served' = [served EXCEPT ![r] = answer]
  BY DEF Serves
<1>2. /\ reader \in [Readers -> ReaderStates] /\ served \in [Readers -> MarketAnswers]
  BY MarketTypes DEF MarketInv
<1>3. answer \in MarketAnswers /\ answer.age = age /\ answer.price = isPrice
  BY DEF MarketAnswers, Given
<1> HIDE DEF answer
<1>4. reader' \in [Readers -> ReaderStates] /\ served' \in [Readers -> MarketAnswers]
  BY <1>1, <1>2, <1>3, NothingThere
<1>5. MarketTypeOK'
  BY <1>4 DEF MarketInv, MarketTypeOK, CacheEntries, PriceEntries, ReaderStates, MarketAnswers, Given
<1>6. PriceWanted'
  BY <1>1, <1>2, <1>3, NothingThere DEF MarketInv, PriceWanted, HasPrice
<1>7. FreshEnough'
  BY <1>1, <1>2, <1>3 DEF MarketInv, FreshEnough
<1> QED
  BY <1>5, <1>6, <1>7 DEF MarketInv

\* What the look-up comes to is young, and a price taken from it is not much older.
LEMMA AnswerKeeps ==
  ASSUME MarketInv, NEW r \in Readers, NEW value \in Given, NEW age \in 0 .. Oldest,
         age = 0 \/ age < Ttl[wanted.context], Answer(r, value, age),
         cache' \in CacheEntries, EntryYoung', UNCHANGED <<wanted, rows, topMovers>>
  PROVE  MarketInv'
<1>1. /\ wanted \in Wanted /\ price \in PriceEntries /\ reader[r].price \in BOOLEAN
      /\ reader[r].price => HasPrice
  BY MarketTypes DEF MarketInv, PriceWanted, ReaderStates
<1>2. Ttl[wanted.context] \in Nat /\ (HasPrice => Ttl[wanted.context] = Ttl["backtest"])
  BY <1>1, TtlKnown DEF HasPrice
<1>3. price' \in PriceEntries /\ PriceYoung'
  <2>1. CASE price' = price
    BY <1>1, <2>1 DEF MarketInv, PriceYoung
  <2>2. CASE reader[r].price /\ price' = [value |-> "some", age |-> age, left |-> Ttl["backtest"]]
    BY <1>1, <1>2, <2>2, TtlKnown DEF PriceEntries, PriceYoung
  <2> QED
    BY <2>1, <2>2 DEF Answer
<1>4. age = 0 \/ age < IF reader[r].price THEN 2 * Ttl["backtest"] ELSE Ttl[wanted.context]
  BY <1>1, <1>2, TtlKnown
<1> QED
  BY <1>1, <1>3, <1>4, ServesKeeps DEF Answer

\* What is fetched is served at once, and kept for as long as its context says or not at all.
LEMMA FetchKeeps ==
  ASSUME MarketInv, NEW r \in Readers, Fetch(r)
  PROVE  MarketInv'
<1>1. PICK value \in {"some", "empty", "None"} :
        /\ Answer(r, value, 0) /\ UNCHANGED <<wanted, rows, topMovers>>
        /\ cache' = cache \/ cache' = [value |-> value, age |-> 0, left |-> Ttl[wanted.context]]
  BY DEF Fetch, FetchBars, FetchVolatility, FetchNews, FetchEarnings, FetchScan, FetchFails,
         Kept, Findings, Stored
<1>2. wanted \in Wanted /\ cache \in CacheEntries
  BY MarketTypes DEF MarketInv
<1>3. cache' \in CacheEntries /\ EntryYoung'
  BY <1>1, <1>2, TtlKnown DEF MarketInv, EntryYoung, CacheEntries
<1> QED
  BY <1>1, <1>3, AnswerKeeps, TtlKnown DEF Given

LEMMA ReadKeeps ==
  ASSUME MarketInv, NEW r \in Readers,
         CacheHit(r) \/ CacheMiss(r) \/ CacheExpired(r) \/ DropEntry(r) \/ DropRaises(r)
  PROVE  MarketInv'
<1>0. /\ wanted \in Wanted /\ cache \in CacheEntries /\ EntryYoung
      /\ reader[r] \in ReaderStates /\ (reader[r].price => HasPrice)
  BY MarketTypes DEF MarketInv, PriceWanted
<1>1. CASE CacheHit(r)
  <2>1. cache.value \in Given
    BY <1>0 DEF CacheEntries, Given
  <2>2. cache.age \in 0 .. Oldest /\ cache.age < Ttl[wanted.context]
    BY <1>0, <1>1, TtlKnown DEF CacheHit, EntryYoung, CacheEntries
  <2>3. cache' \in CacheEntries /\ EntryYoung' /\ UNCHANGED <<wanted, rows, topMovers>>
    BY <1>0, <1>1 DEF CacheHit, EntryYoung, Stored
  <2> QED
    BY <1>1, <2>1, <2>2, <2>3, AnswerKeeps DEF CacheHit
<1>2. CASE CacheMiss(r) \/ CacheExpired(r) \/ DropEntry(r)
  <2>1. PICK pc \in {"fetching", "expired"} : Goes(r, [reader[r] EXCEPT !.pc = pc])
    BY <1>2 DEF CacheMiss, CacheExpired, DropEntry
  <2>2. [reader[r] EXCEPT !.pc = pc] \in ReaderStates /\ [reader[r] EXCEPT !.pc = pc].price = reader[r].price
    BY <1>0 DEF ReaderStates
  <2>3. cache' \in {cache, NoEntry} /\ UNCHANGED <<wanted, price, rows, topMovers>>
    BY <1>2 DEF CacheMiss, CacheExpired, DropEntry, Stored
  <2> QED
    BY <1>0, <2>1, <2>2, <2>3, GoesKeeps
<1>3. CASE DropRaises(r)
  <2>1. /\ Answer(r, IF reader[r].price THEN "empty" ELSE "raised", 0)
        /\ cache' \in CacheEntries /\ EntryYoung' /\ UNCHANGED <<wanted, rows, topMovers>>
    BY <1>0, <1>3 DEF DropRaises, EntryYoung, Stored
  <2> QED
    BY <2>1, AnswerKeeps, TtlKnown DEF Given
<1> QED
  BY <1>1, <1>2, <1>3

\* The price is served while its entry is, or the bars are looked for.
LEMMA PriceKeeps ==
  ASSUME MarketInv, NEW r \in Readers,
         PriceHit(r) \/ PriceMiss(r) \/ DropPrice(r) \/ DropPriceRaises(r)
  PROVE  MarketInv'
<1>0. /\ cache \in CacheEntries /\ price \in PriceEntries /\ EntryYoung /\ PriceYoung
      /\ reader[r] \in ReaderStates /\ (reader[r].price => HasPrice)
  BY MarketTypes DEF MarketInv, PriceWanted
<1>1. CASE PriceHit(r)
  <2>1. price.value \in Given
    BY <1>0 DEF PriceEntries, Given
  <2>2. price.age \in 0 .. Oldest /\ price.age < 2 * Ttl["backtest"]
    BY <1>0, <1>1, TtlKnown DEF PriceHit, PriceYoung, PriceEntries
  <2>3. UNCHANGED <<wanted, cache, price, rows, topMovers>> /\ Serves(r, price.value, price.age, TRUE) /\ HasPrice
    BY <1>1 DEF PriceHit, Stored
  <2>4. cache' \in CacheEntries /\ price' \in PriceEntries /\ EntryYoung' /\ PriceYoung'
    BY <1>0, <2>3 DEF EntryYoung, PriceYoung
  <2> QED
    BY <2>1, <2>2, <2>3, <2>4, ServesKeeps
<1>2. CASE PriceMiss(r)
  <2>1. PICK pc \in {"lookup", "price_expired"} : Goes(r, [pc |-> pc, price |-> TRUE])
    BY <1>2 DEF PriceMiss
  <2>2. [pc |-> pc, price |-> TRUE] \in ReaderStates
    BY DEF ReaderStates
  <2>3. HasPrice /\ UNCHANGED <<wanted, cache, price, rows, topMovers>>
    BY <1>2 DEF PriceMiss, Stored
  <2> QED
    BY <2>1, <2>2, <2>3, GoesKeeps
<1>3. CASE DropPrice(r)
  <2>1. Goes(r, [reader[r] EXCEPT !.pc = "lookup"])
    BY <1>3 DEF DropPrice
  <2>2. [reader[r] EXCEPT !.pc = "lookup"] \in ReaderStates
        /\ [reader[r] EXCEPT !.pc = "lookup"].price = reader[r].price
    BY <1>0 DEF ReaderStates
  <2>3. price' = NoEntry /\ UNCHANGED <<wanted, cache, rows, topMovers>>
    BY <1>3 DEF DropPrice, Stored
  <2> QED
    BY <1>0, <2>1, <2>2, <2>3, GoesKeeps
<1>4. CASE DropPriceRaises(r)
  <2>1. Serves(r, "raised", 0, reader[r].price) /\ UNCHANGED <<wanted, cache, price, rows, topMovers>>
    BY <1>4 DEF DropPriceRaises, Stored
  <2>2. cache' \in CacheEntries /\ price' \in PriceEntries /\ EntryYoung' /\ PriceYoung'
    BY <1>0, <2>1 DEF EntryYoung, PriceYoung
  <2>3. reader[r].price \in BOOLEAN
    BY <1>0 DEF ReaderStates
  <2> QED
    BY <1>0, <2>1, <2>2, <2>3, ServesKeeps, TtlKnown DEF Given
<1> QED
  BY <1>1, <1>2, <1>3, <1>4

LEMMA PublishKeepsRows ==
  ASSUME MarketInv, NEW r \in Readers,
         PublishScan(r) \/ MergeMovers(r) \/ PublishSectors(r) \/ PublishImpliedMove(r)
  PROVE  MarketInv'
<1>0. served[r] \in MarketAnswers /\ rows \in ScanRows /\ topMovers \in TopRows
  BY MarketTypes DEF MarketInv
<1>1. UNCHANGED <<wanted, cache, price, reader, served>>
  BY DEF PublishScan, MergeMovers, PublishSectors, PublishImpliedMove, Publishes
<1>2. \/ rows' = rows
      \/ /\ rows' = [value |-> served[r].value, lag |-> served[r].age, age |-> served[r].age]
         /\ served[r].value \in {"some", "empty"} /\ ~HasPrice
  BY DEF PublishScan, MergeMovers, PublishSectors, PublishImpliedMove, Replace, HasPrice
<1>3. rows' \in ScanRows
  BY <1>0, <1>2 DEF ScanRows, MarketAnswers
<1>4. topMovers' \in TopRows
  <2>1. CASE MergeMovers(r)
    <3>1. PICK value \in {"some", "empty"}, old \in BOOLEAN : topMovers' = [value |-> value, old |-> old]
      <4>1. (rows.age >= Ttl["scanner"]) \in BOOLEAN
        OBVIOUS
      <4> QED
        BY <2>1, <4>1, Zenon DEF MergeMovers
    <3> QED
      BY <3>1 DEF TopRows
  <2>2. CASE topMovers' = topMovers
    BY <1>0, <2>2
  <2> QED
    BY <2>1, <2>2 DEF PublishScan, PublishSectors, PublishImpliedMove
<1>5. MarketTypeOK'
  BY <1>1, <1>3, <1>4 DEF MarketInv, MarketTypeOK, ScanRows, TopRows
<1>6. FreshEnough'
  BY <1>0, <1>1, <1>2 DEF MarketInv, FreshEnough, PriceWanted, MarketAnswers
<1> QED
  BY <1>1, <1>5, <1>6 DEF MarketInv, EntryYoung, PriceYoung, PriceWanted, HasPrice

LEMMA MarketInvNext == MarketInv /\ [MarketNext]_marketVars => MarketInv'
<1> SUFFICES ASSUME MarketInv, [MarketNext]_marketVars
             PROVE  MarketInv'
  OBVIOUS
<1>1. CASE UNCHANGED marketVars
  BY <1>1 DEF marketVars, MarketInv, MarketTypeOK, EntryYoung, PriceYoung, PriceWanted, FreshEnough, HasPrice
<1> QED
  BY <1>1, TickKeeps, FetchKeeps, ReadKeeps, PriceKeeps, PublishKeepsRows DEF MarketNext

\* For any threads and times to live: what is served under the key asked for, and what is written
\* to the tables of the scans, is younger than its context allows, and a price is younger than
\* twice that, however the threads share the two keys (analysis/data.py, _get_cached and
\* get_spy_price_on).
THEOREM FreshTheorem == MarketSpec => []FreshEnough
<1>1. MarketInv => FreshEnough
  BY DEF MarketInv
<1> QED
  BY <1>1, MarketInvInit, MarketInvNext, PTL DEF MarketSpec

\* For every table of times to live: an answer is never older than twice the longest of them,
\* and what the tables hold was fetched.
THEOREM MarketTyped == MarketSpec => []MarketTypeOK
<1>1. MarketInv => MarketTypeOK
  BY DEF MarketInv
<1> QED
  BY <1>1, MarketInvInit, MarketInvNext, PTL DEF MarketSpec

---------------------------------------------------------------------------
(* The reports *)

SymbolLists == [ReportSymbols -> {"none"} \cup LayerNames]
BuildStates ==
  [pc: {"idle", "positions", "movers", "universe", "date", "write", "clean", "send"},
   listed: SymbolLists, date: Nat, id: Nat]
ReportRows == [row: {"none", "kept", "cleaned", "deleted"}, date: Nat]

ReportTypes ==
  /\ today \in Nat
  /\ build \in [Builders -> BuildStates]
  /\ reports \in [ReportIds -> ReportRows]
  /\ links \subseteq ReportIds

\* A builder that is past its row, and a link that was sent, have a row that was made...
RowsMade ==
  /\ \A b \in Builders : build[b].pc \in {"clean", "send"} =>
       build[b].id \in ReportIds /\ reports[build[b].id].row # "none"
  /\ \A i \in links : reports[i].row # "none"

\* ...and what is cleared was outdated then, so it is now.
ClearedOutdated ==
  \A i \in ReportIds : reports[i].row = "cleaned" => reports[i].date + Retention < today

ReportsInv == ReportTypes /\ RowsMade /\ ClearedOutdated

LEMMA ReportConstants == Retention \in Nat /\ ReportIds \subseteq Nat
BY ReportAssumption DEF ReportIds

LEMMA NoBuildTyped == NoBuild \in BuildStates /\ NoBuild.pc = "idle"
BY DEF NoBuild, BuildStates, SymbolLists

LEMMA ReportsInvInit == ReportInit => ReportsInv
BY NoBuildTyped
   DEF ReportInit, ReportsInv, ReportTypes, RowsMade, ClearedOutdated, ReportRows

\* A step of a builder that leaves the table and the links alone, and makes no row its own.
LEMMA BuildMoves ==
  ASSUME ReportsInv, NEW b \in Builders, NEW state \in BuildStates,
         build' = [build EXCEPT ![b] = state],
         state.pc \in {"clean", "send"} => state.id = build[b].id /\ build[b].pc \in {"clean", "send"},
         UNCHANGED <<today, reports>>, links' = links
  PROVE  ReportsInv'
<1>1. ReportTypes' /\ ClearedOutdated'
  BY DEF ReportsInv, ReportTypes, ClearedOutdated
<1>2. \A c \in Builders : build'[c] = IF c = b THEN state ELSE build[c]
  BY DEF ReportsInv, ReportTypes
<1>3. RowsMade'
  BY <1>2 DEF ReportsInv, RowsMade
<1> QED
  BY <1>1, <1>3 DEF ReportsInv

With(r, list, pc) == [r EXCEPT !.listed = list, !.pc = pc]

LEMMA ListedState ==
  ASSUME NEW r \in BuildStates, NEW list \in SymbolLists, NEW pc \in {"movers", "universe", "date"}
  PROVE  With(r, list, pc) \in BuildStates /\ With(r, list, pc).pc = pc
<1> DEFINE q == [r EXCEPT !.listed = list]
<1>1. q \in BuildStates
  BY DEF BuildStates
<1>2. With(r, list, pc) = [q EXCEPT !.pc = pc]
  BY DEF With
<1> HIDE DEF q
<1>3. [q EXCEPT !.pc = pc] \in BuildStates /\ [q EXCEPT !.pc = pc].pc = pc
  BY <1>1 DEF BuildStates
<1> QED
  BY <1>2, <1>3

LEMMA ListKeeps ==
  ASSUME ReportsInv, NEW b \in Builders,
         \/ BeginReport(b) \/ DateReport(b) \/ ReportFails(b) \/ CleanFails(b)
         \/ \E found \in SUBSET ReportSymbols :
              ListPositions(b, found) \/ ListMovers(b, found) \/ ListUniverse(b, found)
  PROVE  ReportsInv'
<1>1. build[b] \in BuildStates /\ build[b].listed \in SymbolLists
  BY DEF ReportsInv, ReportTypes, BuildStates
<1>2. CASE BeginReport(b)
  <2>1. [build[b] EXCEPT !.pc = "positions"] \in BuildStates
    BY <1>1 DEF BuildStates
  <2>2. [build[b] EXCEPT !.pc = "positions"].pc = "positions"
    BY <1>1 DEF BuildStates
  <2> QED
    BY <1>2, <2>1, <2>2, BuildMoves DEF BeginReport
<1>3. CASE DateReport(b)
  <2> DEFINE state == [NoBuild EXCEPT !.date = today, !.pc = "write"]
  <2>1. state \in BuildStates /\ state.pc = "write"
    BY DEF NoBuild, BuildStates, SymbolLists, ReportsInv, ReportTypes
  <2>2. build' = [build EXCEPT ![b] = state]
    BY <1>3 DEF DateReport
  <2> HIDE DEF state
  <2> QED
    BY <1>3, <2>1, <2>2, BuildMoves DEF DateReport
<1>4. CASE ReportFails(b) \/ CleanFails(b)
  BY <1>4, NoBuildTyped, BuildMoves DEF ReportFails, CleanFails
<1>5. CASE \E found \in SUBSET ReportSymbols :
             ListPositions(b, found) \/ ListMovers(b, found) \/ ListUniverse(b, found)
  <2>1. PICK found \in SUBSET ReportSymbols :
          ListPositions(b, found) \/ ListMovers(b, found) \/ ListUniverse(b, found)
    BY <1>5
  <2>2. \A symbols : \A layer \in LayerNames : Listing(build[b].listed, symbols, layer) \in SymbolLists
    BY <1>1 DEF Listing, SymbolLists
  <2>3. PICK list \in SymbolLists, pc \in {"movers", "universe", "date"} : ListThus(b, pc, list)
    <3>1. CASE ListPositions(b, found)
      BY <2>2, <3>1 DEF ListPositions, LayerNames
    <3>2. CASE ListMovers(b, found)
      <4>1. PICK list \in Filling(build[b].listed, found, "market_mover") :
              ListThus(b, "universe", list)
        BY <3>2 DEF ListMovers
      <4>2. \E more : list = Listing(build[b].listed, more, "market_mover")
        BY <4>1 DEF Filling
      <4> QED
        BY <2>2, <4>1, <4>2 DEF LayerNames
    <3>3. CASE ListUniverse(b, found)
      <4>1. PICK list \in Filling(build[b].listed, found, "universe") : ListThus(b, "date", list)
        BY <3>3 DEF ListUniverse
      <4>2. \E more : list = Listing(build[b].listed, more, "universe")
        BY <4>1 DEF Filling
      <4> QED
        BY <2>2, <4>1, <4>2 DEF LayerNames
    <3> QED
      BY <2>1, <3>1, <3>2, <3>3
  <2> DEFINE state == With(build[b], list, pc)
  <2>4. state \in BuildStates /\ state.pc = pc
    BY <1>1, ListedState
  <2>5. build' = [build EXCEPT ![b] = state]
    BY <2>3 DEF ListThus, ReportsInv, ReportTypes, With
  <2>6. UNCHANGED <<today, reports, links>>
    BY <2>1 DEF ListPositions, ListMovers, ListUniverse
  <2> HIDE DEF state
  <2> QED
    BY <2>4, <2>5, <2>6, BuildMoves
<1> QED
  BY <1>2, <1>3, <1>4, <1>5

LEMMA SaveKeeps ==
  ASSUME ReportsInv, NEW b \in Builders, SaveReport(b)
  PROVE  ReportsInv'
<1>1. PICK i \in ReportIds :
        /\ reports[i].row = "none"
        /\ reports' = [reports EXCEPT ![i] = [row |-> "kept", date |-> build[b].date]]
        /\ build' = [build EXCEPT ![b] = [build[b] EXCEPT !.id = i, !.pc = "clean"]]
  BY DEF SaveReport, ReportsInv, ReportTypes
<1>2. build[b] \in BuildStates /\ build[b].date \in Nat /\ i \in Nat
  BY ReportConstants DEF ReportsInv, ReportTypes, BuildStates
<1> DEFINE state == [build[b] EXCEPT !.id = i, !.pc = "clean"]
<1>3. state \in BuildStates /\ state.id = i
  BY <1>2 DEF BuildStates
<1>4. build' = [build EXCEPT ![b] = state]
  BY <1>1
<1> HIDE DEF state
<1>5. UNCHANGED <<today, links>>
  BY DEF SaveReport
<1>6. reports' \in [ReportIds -> ReportRows] /\ build' \in [Builders -> BuildStates]
  BY <1>1, <1>2, <1>3, <1>4 DEF ReportsInv, ReportTypes, ReportRows
<1>7. /\ reports'[i].row = "kept"
      /\ \A j \in ReportIds : j # i => reports'[j] = reports[j]
  BY <1>1 DEF ReportsInv, ReportTypes
<1>8. \A c \in Builders : build'[c] = IF c = b THEN state ELSE build[c]
  BY <1>4 DEF ReportsInv, ReportTypes
<1>9. RowsMade'
  <2>1. \A c \in Builders : build'[c].pc \in {"clean", "send"} =>
          build'[c].id \in ReportIds /\ reports'[build'[c].id].row # "none"
    BY <1>3, <1>7, <1>8 DEF ReportsInv, RowsMade
  <2>2. \A j \in links' : reports'[j].row # "none"
    BY <1>5, <1>7 DEF ReportsInv, RowsMade, ReportTypes
  <2> QED
    BY <2>1, <2>2 DEF RowsMade
<1>10. ClearedOutdated'
  BY <1>5, <1>7 DEF ReportsInv, ClearedOutdated
<1> QED
  BY <1>5, <1>6, <1>9, <1>10 DEF ReportsInv, ReportTypes

LEMMA CleanKeeps ==
  ASSUME ReportsInv, NEW b \in Builders, CleanReports(b)
  PROVE  ReportsInv'
<1>1. /\ UNCHANGED <<today, links>>
      /\ build' = [build EXCEPT ![b].pc = "send"] /\ build[b].pc = "clean"
      /\ reports' = [i \in ReportIds |->
           IF reports[i].row = "kept" /\ Outdated(reports[i])
             THEN [reports[i] EXCEPT !.row = "cleaned"] ELSE reports[i]]
  BY DEF CleanReports, BuildAt
<1>2. \A i \in ReportIds :
        /\ reports'[i] \in ReportRows /\ reports'[i].date = reports[i].date
        /\ reports'[i].row = "none" <=> reports[i].row = "none"
        /\ reports'[i].row = "cleaned" =>
             reports[i].row = "cleaned" \/ reports[i].date + Retention < today
  BY <1>1 DEF ReportsInv, ReportTypes, ReportRows, Outdated
<1>3. reports' \in [ReportIds -> ReportRows]
  BY <1>1, <1>2
<1>4. \A c \in Builders :
        /\ build'[c] \in BuildStates /\ build'[c].id = build[c].id
        /\ build'[c].pc \in {"clean", "send"} => build[c].pc \in {"clean", "send"}
  BY <1>1 DEF ReportsInv, ReportTypes, BuildStates
<1>5. build' \in [Builders -> BuildStates]
  BY <1>1, <1>4 DEF ReportsInv, ReportTypes
<1>6. RowsMade'
  BY <1>1, <1>2, <1>4 DEF ReportsInv, RowsMade, ReportTypes
<1>7. ClearedOutdated'
  BY <1>1, <1>2 DEF ReportsInv, ClearedOutdated
<1> QED
  BY <1>1, <1>3, <1>5, <1>6, <1>7 DEF ReportsInv, ReportTypes

LEMMA SendKeeps ==
  ASSUME ReportsInv, NEW b \in Builders, SendLink(b)
  PROVE  ReportsInv'
<1>1. /\ build[b].id \in ReportIds /\ reports[build[b].id].row # "none"
      /\ links' \in {links, links \cup {build[b].id}}
      /\ build' = [build EXCEPT ![b] = NoBuild] /\ UNCHANGED <<today, reports>>
  BY DEF SendLink, BuildAt, ReportsInv, RowsMade
<1>2. build' \in [Builders -> BuildStates] /\ links' \subseteq ReportIds
  BY <1>1, NoBuildTyped DEF ReportsInv, ReportTypes
<1>3. RowsMade'
  BY <1>1, NoBuildTyped DEF ReportsInv, ReportTypes, RowsMade
<1> QED
  BY <1>1, <1>2, <1>3 DEF ReportsInv, ReportTypes, ClearedOutdated

LEMMA ReportsInvNext == ReportsInv /\ [ReportNext]_reportVars => ReportsInv'
<1> SUFFICES ASSUME ReportsInv, [ReportNext]_reportVars
             PROVE  ReportsInv'
  OBVIOUS
<1>1. CASE \E b \in Builders : Builder(b)
  BY <1>1, ListKeeps, SaveKeeps, CleanKeeps, SendKeeps DEF Builder
<1>2. CASE \E i \in ReportIds : DeleteReport(i)
  <2>1. PICK i \in ReportIds : DeleteReport(i)
    BY <1>2
  <2>2. /\ UNCHANGED <<today, build, links>>
        /\ reports' = [reports EXCEPT ![i].row = "deleted"]
    BY <2>1 DEF DeleteReport
  <2>3. reports' \in [ReportIds -> ReportRows]
    BY <2>2 DEF ReportsInv, ReportTypes, ReportRows
  <2>4. \A j \in ReportIds :
          /\ reports[j].row # "none" => reports'[j].row # "none"
          /\ reports'[j].row = "cleaned" => reports'[j] = reports[j]
    BY <2>2 DEF ReportsInv, ReportTypes, ReportRows
  <2> QED
    BY <2>2, <2>3, <2>4 DEF ReportsInv, ReportTypes, RowsMade, ClearedOutdated
<1>3. CASE DayPasses
  <2>1. today' = today + 1 /\ UNCHANGED <<build, reports, links>>
    BY <1>3 DEF DayPasses
  <2>2. \A i \in ReportIds : reports[i].date \in Nat
    BY DEF ReportsInv, ReportTypes, ReportRows
  <2> QED
    BY <2>1, <2>2, ReportConstants DEF ReportsInv, ReportTypes, RowsMade, ClearedOutdated
<1>4. CASE UNCHANGED reportVars
  BY <1>4 DEF reportVars, ReportsInv, ReportTypes, RowsMade, ClearedOutdated
<1> QED
  BY <1>1, <1>2, <1>3, <1>4 DEF ReportNext

\* For any builders, symbols and days of retention: a link that was sent opens as long as its
\* report is kept, or the owner deleted it (reports/generator.py, generate_pre_market_report).
THEOREM LinksTheorem == ReportSpec => []LinksLive
<1>1. ReportsInv => LinksLive
  <2> SUFFICES ASSUME ReportsInv, NEW i \in links, today <= reports[i].date + Retention
               PROVE  reports[i].row \in {"kept", "deleted"}
    BY DEF LinksLive
  <2>1. /\ i \in ReportIds /\ reports[i].row # "none"
        /\ reports[i].row \in {"none", "kept", "cleaned", "deleted"} /\ reports[i].date \in Nat
        /\ today \in Nat
    BY DEF ReportsInv, ReportTypes, ReportRows, RowsMade
  <2>2. reports[i].row # "cleaned"
    BY <2>1, ReportConstants DEF ReportsInv, ClearedOutdated
  <2> QED
    BY <2>1, <2>2
<1> QED
  BY <1>1, ReportsInvInit, ReportsInvNext, PTL DEF ReportSpec

\* No report is dated after the last day, and its id is one of the table.
ReportBounds ==
  /\ today <= LastDay
  /\ \A b \in Builders : build[b].date <= LastDay /\ build[b].id <= MaxReports
  /\ \A i \in ReportIds : reports[i].date <= LastDay

LEMMA BuilderBounds ==
  ASSUME ReportsInv, ReportBounds, NEW b \in Builders, Builder(b)
  PROVE  ReportBounds'
<1>0. /\ today \in Nat /\ LastDay \in Nat /\ MaxReports \in Nat
      /\ today <= LastDay /\ today' = today
  BY ReportAssumption
     DEF ReportsInv, ReportTypes, ReportBounds, Builder, BeginReport, ListPositions, ListMovers,
         ListUniverse, DateReport, ReportFails, SaveReport, CleanReports, CleanFails, SendLink
<1>1. build \in [Builders -> BuildStates] /\ reports \in [ReportIds -> ReportRows]
  BY DEF ReportsInv, ReportTypes
<1>2. build[b] \in BuildStates /\ build[b].date <= LastDay /\ build[b].id <= MaxReports
  BY <1>1 DEF ReportBounds
<1>3. ASSUME NEW state, build' = [build EXCEPT ![b] = state],
             state.date <= LastDay, state.id <= MaxReports, reports' = reports
      PROVE  ReportBounds'
  BY <1>0, <1>1, <1>3 DEF ReportBounds
<1>4. NoBuild.date <= LastDay /\ NoBuild.id <= MaxReports
  BY <1>0 DEF NoBuild
<1>5. CASE BeginReport(b)
  <2>1. /\ [build[b] EXCEPT !.pc = "positions"].date = build[b].date
        /\ [build[b] EXCEPT !.pc = "positions"].id = build[b].id
    BY <1>2 DEF BuildStates
  <2> QED
    BY <1>2, <1>3, <1>5, <2>1 DEF BeginReport
<1>6. CASE \E found \in SUBSET ReportSymbols :
             ListPositions(b, found) \/ ListMovers(b, found) \/ ListUniverse(b, found)
  <2>1. PICK list, pc : ListThus(b, pc, list) /\ reports' = reports
    BY <1>6 DEF ListPositions, ListMovers, ListUniverse
  <2> DEFINE state == With(build[b], list, pc)
  <2>2. state.date = build[b].date /\ state.id = build[b].id
    BY <1>2 DEF With, BuildStates
  <2>3. build' = [build EXCEPT ![b] = state]
    BY <1>1, <2>1 DEF ListThus, With
  <2> HIDE DEF state
  <2> QED
    BY <1>2, <1>3, <2>1, <2>2, <2>3
<1>7. CASE DateReport(b)
  <2> DEFINE state == [NoBuild EXCEPT !.date = today, !.pc = "write"]
  <2>1. state.date = today /\ state.id <= MaxReports
    BY <1>0 DEF NoBuild
  <2>2. build' = [build EXCEPT ![b] = state] /\ reports' = reports
    BY <1>7 DEF DateReport
  <2> HIDE DEF state
  <2> QED
    BY <1>0, <1>2, <1>3, <2>1, <2>2
<1>8. CASE ReportFails(b) \/ CleanFails(b) \/ SendLink(b)
  <2>1. build' = [build EXCEPT ![b] = NoBuild] /\ reports' = reports
    BY <1>8 DEF ReportFails, CleanFails, SendLink
  <2> QED
    BY <1>3, <1>4, <2>1
<1>9. CASE SaveReport(b)
  <2>1. PICK i \in ReportIds :
          /\ reports' = [reports EXCEPT ![i] = [row |-> "kept", date |-> build[b].date]]
          /\ build' = [build EXCEPT ![b] = [build[b] EXCEPT !.id = i, !.pc = "clean"]]
    BY <1>1, <1>9 DEF SaveReport
  <2> DEFINE state == [build[b] EXCEPT !.id = i, !.pc = "clean"]
  <2>2. state.date = build[b].date /\ state.id = i
    BY <1>2 DEF BuildStates
  <2>3. build' = [build EXCEPT ![b] = state]
    BY <2>1
  <2> HIDE DEF state
  <2>4. i <= MaxReports
    BY <1>0 DEF ReportIds
  <2>5. \A c \in Builders : build'[c].date <= LastDay /\ build'[c].id <= MaxReports
    BY <1>1, <1>2, <2>2, <2>3, <2>4 DEF ReportBounds
  <2>6. \A j \in ReportIds : reports'[j].date <= LastDay
    BY <1>1, <1>2, <2>1 DEF ReportBounds
  <2> QED
    BY <1>0, <2>5, <2>6 DEF ReportBounds
<1>10. CASE CleanReports(b)
  <2>1. \A i \in ReportIds : reports'[i].date = reports[i].date
    BY <1>1, <1>10 DEF CleanReports, ReportRows
  <2>2. \A c \in Builders : build'[c].date = build[c].date /\ build'[c].id = build[c].id
    BY <1>1, <1>10 DEF CleanReports, BuildStates
  <2> QED
    BY <1>0, <2>1, <2>2 DEF ReportBounds
<1> QED
  BY <1>5, <1>6, <1>7, <1>8, <1>9, <1>10 DEF Builder

LEMMA ReportBoundsStep == ReportsInv /\ ReportBounds /\ [ReportNext]_reportVars => ReportBounds'
<1> SUFFICES ASSUME ReportsInv, ReportBounds, [ReportNext]_reportVars
             PROVE  ReportBounds'
  OBVIOUS
<1>1. CASE \E i \in ReportIds : DeleteReport(i)
  BY <1>1 DEF DeleteReport, ReportsInv, ReportTypes, ReportRows, ReportBounds
<1>2. CASE DayPasses
  BY <1>2, ReportAssumption DEF DayPasses, ReportsInv, ReportTypes, ReportBounds
<1>3. CASE UNCHANGED reportVars
  BY <1>3 DEF reportVars, ReportBounds
<1> QED
  BY <1>1, <1>2, <1>3, BuilderBounds DEF ReportNext

LEMMA ReportTypesOK == ReportsInv /\ ReportBounds => ReportTypeOK
<1> SUFFICES ASSUME ReportsInv, ReportBounds PROVE ReportTypeOK
  OBVIOUS
<1>1. {LastDay, MaxReports} \subseteq Nat
  BY ReportAssumption
<1>2. today \in 0 .. LastDay /\ links \in SUBSET ReportIds
  BY <1>1 DEF ReportsInv, ReportTypes, ReportBounds
<1>3. build \in [Builders ->
       [pc: {"idle", "positions", "movers", "universe", "date", "write", "clean", "send"},
        listed: [ReportSymbols -> {"none"} \cup LayerNames],
        date: 0 .. LastDay, id: 0 .. MaxReports]]
  <2>1. \A b \in Builders :
          /\ build[b] \in BuildStates /\ build[b].date \in 0 .. LastDay /\ build[b].id \in 0 .. MaxReports
    BY <1>1 DEF ReportsInv, ReportTypes, ReportBounds, BuildStates
  <2> QED
    BY <2>1 DEF ReportsInv, ReportTypes, BuildStates, SymbolLists
<1>4. reports \in [ReportIds -> [row: {"none", "kept", "cleaned", "deleted"}, date: 0 .. LastDay]]
  BY <1>1 DEF ReportsInv, ReportTypes, ReportBounds, ReportRows
<1> QED
  BY <1>2, <1>3, <1>4 DEF ReportTypeOK

\* For any builders: no report is dated in the future, and a builder's row is one of the table.
THEOREM ReportsTyped == ReportSpec => []ReportTypeOK
<1>1. ReportInit => ReportBounds
  BY ReportAssumption DEF ReportInit, ReportBounds, NoBuild
<1> QED
  BY <1>1, ReportsInvInit, ReportsInvNext, ReportBoundsStep, ReportTypesOK, PTL DEF ReportSpec

---------------------------------------------------------------------------
(* What is learnt *)

Bests == Grid \cup {<<>>}
ParamRows == [row: BOOLEAN, mult: {100}, pair: Bests \cup {Default}, trades: {0}, previous: {FALSE}]

\* A filter that was given no trades, whatever model it came with.
Untrained == [model: BOOLEAN, asked: {FALSE}]

\* The counter, the snapshots and the previous parameters that learning waits for stay empty.
NothingToLearnFrom ==
  /\ params \in ParamRows
  /\ closed \in [linked: {0}, bare: Int]
  /\ calib.best \in Bests
  /\ filter \in Untrained

LEMMA LearnInitial == LearnInit => NothingToLearnFrom
<1> SUFFICES ASSUME LearnInit
             PROVE  NothingToLearnFrom
  OBVIOUS
<1>1. /\ NoParams \in ParamRows /\ [NoParams EXCEPT !.row = TRUE] \in ParamRows
      /\ Resting.best \in Bests
  BY DEF NoParams, ParamRows, Resting, Bests
<1>2. params \in ParamRows /\ calib.best \in Bests
  BY <1>1, Zenon DEF LearnInit
<1>3. closed = [linked |-> 0, bare |-> 0] /\ filter \in Untrained
  BY DEF LearnInit, Untrained
<1> QED
  BY <1>2, <1>3 DEF NothingToLearnFrom

LEMMA LearnKeeps == NothingToLearnFrom /\ [LearnNext]_learnVars => NothingToLearnFrom'
<1> SUFFICES ASSUME NothingToLearnFrom, [LearnNext]_learnVars
             PROVE  NothingToLearnFrom'
  OBVIOUS
<1>1. /\ params \in ParamRows /\ calib.best \in Bests /\ closed \in [linked: {0}, bare: Int]
      /\ filter \in Untrained
  BY DEF NothingToLearnFrom
<1>2. [params EXCEPT !.row = TRUE] \in ParamRows
  BY <1>1 DEF ParamRows
<1>3. CASE AskParameters
  BY <1>1, <1>2, <1>3 DEF AskParameters, NothingToLearnFrom
<1>4. CASE \E c \in Closers : Close(c)
  <2>1. [closed EXCEPT !.bare = closed.bare + 1] \in [linked: {0}, bare: Int]
    BY <1>1
  <2>2. /\ params' = [params EXCEPT !.row = TRUE]
        /\ closed' = [closed EXCEPT !.bare = closed.bare + 1]
        /\ UNCHANGED <<filter, calib>>
    BY <1>4 DEF Close
  <2> QED
    BY <1>1, <1>2, <2>1, <2>2 DEF NothingToLearnFrom
<1>5. CASE \E c \in Closers : Adjust(c)
  <2>1. ~Enough
    BY <1>1, LearningAssumption DEF Enough, ParamRows
  <2>2. UNCHANGED <<params, closed, filter, calib>>
    BY <1>5, <2>1 DEF Adjust
  <2> QED
    BY <1>1, <2>2 DEF NothingToLearnFrom
<1>6. CASE Calibrate
  BY <1>1, <1>6 DEF Calibrate, Resting, NothingToLearnFrom, Bests
<1>7. CASE \E g \in Grid : TryPair(g)
  <2>1. PICK g \in Grid : TryPair(g)
    BY <1>7
  <2>2. calib'.best \in {g, calib.best} /\ UNCHANGED <<params, closed, filter>>
    BY <2>1 DEF TryPair
  <2> QED
    BY <1>1, <2>2 DEF NothingToLearnFrom, Bests
<1>8. CASE Calibrated
  <2> DEFINE chosen == IF calib.best = <<>> THEN Default ELSE calib.best
  <2>1. /\ params' = IF params.row THEN [params EXCEPT !.pair = chosen] ELSE params
        /\ calib' = Resting /\ UNCHANGED <<closed, filter>>
    BY <1>8 DEF Calibrated, Updated
  <2>2. chosen \in Bests \cup {Default}
    BY <1>1
  <2> HIDE DEF chosen
  <2>3. params' \in ParamRows
    BY <1>1, <2>1, <2>2 DEF ParamRows
  <2> QED
    BY <1>1, <2>1, <2>3 DEF NothingToLearnFrom, Resting, Bests
<1>9. CASE LearningCycle
  <2>1. ~params.previous /\ ~(closed.linked >= 10)
    <3>1. params.previous = FALSE /\ closed.linked = 0
      BY <1>1 DEF ParamRows
    <3>2. ~(0 >= 10)
      OBVIOUS
    <3> QED
      BY <3>1, <3>2, Zenon
  <2>2. params' = params /\ UNCHANGED <<closed, calib>>
    BY <1>9, <2>1, Zenon DEF LearningCycle
  <2>3. filter' = filter
    BY <1>9, <2>1, Zenon DEF LearningCycle, Retrain
  <2> QED
    BY <1>1, <2>2, <2>3 DEF NothingToLearnFrom
<1>10. CASE UNCHANGED <<params, closed, filter>> /\ calib' \in {calib, Resting}
  BY <1>1, <1>10 DEF NothingToLearnFrom, Resting, Bests
<1> QED
  BY <1>3, <1>4, <1>5, <1>6, <1>7, <1>8, <1>9, <1>10
     DEF LearnNext, learnVars, Measure, DaysPass, LearnRestart

LEMMA MeasuredStep ==
  ASSUME [LearnNext]_learnVars, decision \in [age: Nat, week: Nat \cup {None}, month: Nat \cup {None}]
  PROVE  /\ decision'.week # decision.week => decision.week = None /\ decision'.week \in 6 .. 8
         /\ decision'.month # decision.month => decision.month = None /\ decision'.month \in 29 .. 31
<1>1. CASE Measure
  BY <1>1 DEF Measure, Measured, Due
<1>2. CASE DaysPass
  BY <1>2 DEF DaysPass
<1>3. CASE UNCHANGED decision
  BY <1>3
<1> QED
  BY <1>1, <1>2, <1>3
     DEF LearnNext, learnVars, AskParameters, Calibrate, Calibrated, LearningCycle, LearnRestart,
         Close, Adjust, TryPair

LEMMA DecisionTyped ==
  ASSUME [LearnNext]_learnVars, decision \in [age: Nat, week: Nat \cup {None}, month: Nat \cup {None}]
  PROVE  decision' \in [age: Nat, week: Nat \cup {None}, month: Nat \cup {None}]
<1>1. CASE Measure
  BY <1>1 DEF Measure, Measured, Due
<1>2. CASE DaysPass
  BY <1>2, LearningAssumption DEF DaysPass
<1>3. CASE UNCHANGED decision
  BY <1>3
<1> QED
  BY <1>1, <1>2, <1>3
     DEF LearnNext, learnVars, AskParameters, Calibrate, Calibrated, LearningCycle, LearnRestart,
         Close, Adjust, TryPair

\* Whenever the two evaluations run, a mark of a decision is measured once, within a day of it
\* (compat.py, get_candidate_decisions_for_evaluation).
THEOREM MeasuredTheorem == LearnSpec => MeasuredOnce
<1> DEFINE Typed == decision \in [age: Nat, week: Nat \cup {None}, month: Nat \cup {None}]
<1>1. LearnInit => Typed
  BY DEF LearnInit
<1>2. Typed /\ [LearnNext]_learnVars => Typed'
  BY DecisionTyped
<1>3. Typed /\ [LearnNext]_learnVars =>
        [/\ decision'.week # decision.week => decision.week = None /\ decision'.week \in 6 .. 8
         /\ decision'.month # decision.month => decision.month = None /\ decision'.month \in 29 .. 31]_learnVars
  BY MeasuredStep
<1> HIDE DEF Typed
<1> QED
  BY <1>1, <1>2, <1>3, PTL DEF LearnSpec, MeasuredOnce

\* What is learnt has its types: the counters, the calibration and the measured decision.
LearnTypes ==
  /\ params \in ParamRows /\ params.pair \in Grid \cup {Default}
  /\ closed \in [linked: {0}, bare: 0 .. MaxClosed]
  /\ mortem \in [Closers -> {None} \cup (50 .. 150)]
  /\ filter \in Untrained
  /\ calib \in [on: BOOLEAN, tried: Results, best: Bests]
  /\ decision \in [age: Days, week: Days \cup {None}, month: Days \cup {None}]

LEMMA RestingTyped == Resting \in [on: BOOLEAN, tried: Results, best: Bests]
<1>1. [g \in {} |-> None] \in [{} -> Factors \cup {None}]
  OBVIOUS
<1>2. [g \in {} |-> None] \in Results
  BY <1>1 DEF Results
<1> QED
  BY <1>2 DEF Resting, Bests

LEMMA LearnTypesInit == LearnInit => LearnTypes
<1> SUFFICES ASSUME LearnInit PROVE LearnTypes
  OBVIOUS
<1>1. params \in ParamRows /\ params.pair \in Grid \cup {Default}
  <2>1. /\ NoParams.pair = Default /\ [NoParams EXCEPT !.row = TRUE].pair = Default
    BY DEF NoParams
  <2> QED
    BY <2>1, LearnInitial DEF LearnInit, NothingToLearnFrom
<1>2. closed \in [linked: {0}, bare: 0 .. MaxClosed]
  BY LearningAssumption DEF LearnInit
<1>3. decision \in [age: Days, week: Days \cup {None}, month: Days \cup {None}]
  BY LearningAssumption DEF LearnInit
<1>4. filter \in Untrained
  BY LearnInitial DEF NothingToLearnFrom
<1>5. mortem \in [Closers -> {None} \cup (50 .. 150)]
  BY DEF LearnInit
<1> QED
  BY <1>1, <1>2, <1>3, <1>4, <1>5, RestingTyped DEF LearnInit, LearnTypes

LEMMA LearnTypesNext == NothingToLearnFrom /\ LearnTypes /\ [LearnNext]_learnVars => LearnTypes'
<1> SUFFICES ASSUME NothingToLearnFrom, LearnTypes, [LearnNext]_learnVars
             PROVE  LearnTypes'
  OBVIOUS
<1>0. /\ params \in ParamRows /\ params.mult = 100 /\ params.pair \in Grid \cup {Default}
      /\ closed \in [linked: {0}, bare: 0 .. MaxClosed] /\ MaxClosed \in Nat
      /\ calib \in [on: BOOLEAN, tried: Results, best: Bests]
  BY LearningAssumption DEF LearnTypes, ParamRows
<1>1. params' \in ParamRows /\ filter' \in Untrained
  BY LearnKeeps DEF NothingToLearnFrom
<1>2. params'.pair \in Grid \cup {Default}
  <2>1. ASSUME NEW next, next.pair = params.pair, params' \in {next, params}
        PROVE  params'.pair \in Grid \cup {Default}
    BY <1>0, <2>1
  <2>2. /\ [params EXCEPT !.row = TRUE].pair = params.pair
        /\ \A m : [params EXCEPT !.mult = m].pair = params.pair
    BY <1>0 DEF ParamRows
  <2>3. CASE AskParameters \/ \E c \in Closers : Close(c)
    BY <2>1, <2>2, <2>3 DEF AskParameters, Close
  <2>4. CASE \E c \in Closers : Adjust(c)
    <3>1. PICK m : params' \in {[params EXCEPT !.mult = m], params}
      BY <2>4 DEF Adjust, Updated
    <3> QED
      BY <2>1, <2>2, <3>1
  <2>5. CASE Calibrated
    <3> DEFINE chosen == IF calib.best = <<>> THEN Default ELSE calib.best
    <3>1. params' \in {[params EXCEPT !.pair = chosen], params}
      BY <2>5 DEF Calibrated, Updated
    <3>2. chosen \in Grid \cup {Default}
      BY <1>0 DEF Bests
    <3> HIDE DEF chosen
    <3>3. [params EXCEPT !.pair = chosen].pair = chosen
      BY <1>0 DEF ParamRows
    <3> QED
      BY <1>0, <3>1, <3>2, <3>3
  <2>6. CASE LearningCycle
    <3>1. ~params.previous
      BY <1>0 DEF ParamRows
    <3>2. params' = params
      BY <2>6, <3>1, Zenon DEF LearningCycle
    <3> QED
      BY <1>0, <3>2
  <2>7. CASE params' = params
    BY <1>0, <2>7
  <2> QED
    BY <2>3, <2>4, <2>5, <2>6, <2>7
       DEF LearnNext, learnVars, Calibrate, Measure, DaysPass, LearnRestart, TryPair
<1>3. closed' \in [linked: {0}, bare: 0 .. MaxClosed]
  <2>1. CASE \E c \in Closers : Close(c)
    <3>1. closed.bare < MaxClosed /\ closed' = [linked |-> closed.linked, bare |-> closed.bare + 1]
      BY <1>0, <2>1 DEF Close
    <3> QED
      BY <1>0, <3>1
  <2>2. CASE closed' = closed
    BY <1>0, <2>2
  <2> QED
    BY <2>1, <2>2 DEF LearnNext, learnVars, AskParameters, Calibrate, Calibrated, Measure,
           LearningCycle, DaysPass, LearnRestart, Adjust, TryPair
<1>4. mortem' \in [Closers -> {None} \cup (50 .. 150)]
  <2>1. CASE \E c \in Closers : mortem' = [mortem EXCEPT ![c] = 100]
    BY <2>1 DEF LearnTypes
  <2>2. CASE \E c \in Closers : mortem' = [mortem EXCEPT ![c] = None]
    BY <2>2 DEF LearnTypes
  <2>3. CASE mortem' = [c \in Closers |-> None]
    BY <2>3
  <2>4. CASE mortem' = mortem
    BY <2>4 DEF LearnTypes
  <2> QED
    BY <1>0, <2>1, <2>2, <2>3, <2>4
       DEF LearnNext, learnVars, AskParameters, Calibrate, Calibrated, Measure,
           LearningCycle, DaysPass, LearnRestart, Close, Adjust, TryPair
<1>5. calib' \in [on: BOOLEAN, tried: Results, best: Bests]
  <2>1. CASE \E g \in Grid : TryPair(g)
    <3>1. PICK g \in Grid, factor \in Factors \cup {None} :
            calib' = [on |-> TRUE,
                 tried |-> [p \in DOMAIN calib.tried \cup {g} |-> IF p = g THEN factor ELSE calib.tried[p]],
                 best |-> IF Better(factor) THEN g ELSE calib.best]
      BY <2>1 DEF TryPair
    <3>2. PICK tried \in SUBSET Grid : calib.tried \in [tried -> Factors \cup {None}]
      BY <1>0 DEF Results
    <3> DEFINE more == [p \in DOMAIN calib.tried \cup {g} |-> IF p = g THEN factor ELSE calib.tried[p]]
    <3>3. more \in [tried \cup {g} -> Factors \cup {None}] /\ tried \cup {g} \in SUBSET Grid
      BY <3>2
    <3>4. more \in Results
      BY <3>3 DEF Results
    <3>5. (IF Better(factor) THEN g ELSE calib.best) \in Bests
      BY <1>0 DEF Bests
    <3> HIDE DEF more
    <3>6. PICK best \in Bests : calib' = [on |-> TRUE, tried |-> more, best |-> best]
      BY <3>1, <3>5 DEF more
    <3> QED
      BY <3>4, <3>6
  <2>2. CASE calib' = Resting
    BY <2>2, RestingTyped
  <2>3. CASE Calibrate
    <3>1. Resting.tried \in Results /\ Resting.best \in Bests
      BY RestingTyped
    <3>2. calib' = [on |-> TRUE, tried |-> Resting.tried, best |-> Resting.best]
      BY <2>3 DEF Calibrate, Resting
    <3> QED
      BY <3>1, <3>2
  <2>4. CASE calib' = calib
    BY <1>0, <2>4
  <2> QED
    BY <2>1, <2>2, <2>3, <2>4
       DEF LearnNext, learnVars, AskParameters, Calibrated, Measure,
           LearningCycle, DaysPass, LearnRestart, Close, Adjust
<1>6. decision' \in [age: Days, week: Days \cup {None}, month: Days \cup {None}]
  <2>1. CASE Measure
    <3>1. PICK week \in {decision.week, decision.age}, month \in {decision.month, decision.age} :
            decision' = [decision EXCEPT !.week = week, !.month = month]
      BY <2>1 DEF Measure, Measured
    <3>2. decision' = [age |-> decision.age, week |-> week, month |-> month]
      BY <3>1 DEF LearnTypes
    <3> QED
      BY <3>2 DEF LearnTypes
  <2>2. CASE DaysPass
    BY <2>2 DEF DaysPass, LearnTypes
  <2>3. CASE decision' = decision
    BY <2>3 DEF LearnTypes
  <2> QED
    BY <2>1, <2>2, <2>3
       DEF LearnNext, learnVars, AskParameters, Calibrate, Calibrated,
           LearningCycle, LearnRestart, Close, Adjust, TryPair
<1> QED
  BY <1>1, <1>2, <1>3, <1>4, <1>5, <1>6 DEF LearnTypes

LEMMA LearnTypesOK == LearnTypes => LearnTypeOK
<1> SUFFICES ASSUME LearnTypes PROVE LearnTypeOK
  OBVIOUS
<1>1. params \in [row: BOOLEAN, mult: 50 .. 150, pair: Grid \cup {Default}, trades: 0 .. MinTrades,
                  previous: BOOLEAN]
  <2> DEFINE mults == 50 .. 150
             counts == 0 .. MinTrades
  <2>1. {100} \subseteq mults /\ {0} \subseteq counts
    BY LearningAssumption
  <2> HIDE DEF mults, counts
  <2>2. params \in [row: BOOLEAN, mult: mults, pair: Grid \cup {Default}, trades: counts,
                    previous: BOOLEAN]
    BY <2>1 DEF LearnTypes, ParamRows
  <2> QED
    BY <2>2 DEF mults, counts
<1>2. closed \in [linked: 0 .. MaxClosed, bare: 0 .. MaxClosed]
  BY LearningAssumption DEF LearnTypes
<1> QED
  BY <1>1, <1>2 DEF LearnTypes, LearnTypeOK, Bests, Untrained

\* For any trades and any grid: what the calibration tries and chooses is of the grid.
THEOREM LearnTyped == LearnSpec => []LearnTypeOK
BY LearnInitial, LearnKeeps, LearnTypesInit, LearnTypesNext, LearnTypesOK, PTL DEF LearnSpec
=============================================================================
