------------------------------ MODULE Notices ------------------------------
(***************************************************************************)
(* Price alerts and the notices they send.  Every notice of the running    *)
(* bot goes through notifications/telegram.notify with the message type    *)
(* "generic", past the policy and then to Telegram.  A job of the          *)
(* scheduler checks the alerts while the owner creates and deletes them.   *)
(***************************************************************************)
EXTENDS Naturals, FiniteSets

CONSTANTS
  MaxAlerts,  \* bound: alerts ever created
  MaxTold,    \* bound: notices about one alert
  MaxFaults   \* bound: prices not to be had, and marks not written

ASSUME NoticeAssumption == MaxAlerts \in Nat /\ MaxTold \in Nat \ {0} /\ MaxFaults \in Nat

VARIABLES
  level,   \* NotificationPolicy.level of the process
  alerts,  \* the table: the state of each row
  moved,   \* whether the symbol of the alert has moved past its threshold
  notices,    \* how many notices about the alert reached the owner
  pass,    \* check_all: the alerts it still goes through, and where it is
  faults   \* the failures so far

noticeVars == <<level, alerts, moved, notices, pass, faults>>

Alerts == 1 .. MaxAlerts
Levels == {"critical_only", "normal", "verbose"}

CriticalTypes == {"circuit_breaker", "position_closed", "fatal_error",
                  "approval_request", "order_failed", "ib_disconnected_long"}
NormalTypes == CriticalTypes \cup
  {"position_opened", "ib_disconnected", "ib_reconnected", "daily_digest",
   "regime_change", "drawdown_alert"}

ShouldNotify(type) ==
  \/ level = "verbose"
  \/ level = "critical_only" /\ type \in CriticalTypes
  \/ level = "normal" /\ type \in NormalTypes

NoPass == [pc |-> "idle", todo |-> {}]

NoticeInit ==
  /\ level = "normal"
  /\ alerts = [a \in Alerts |-> "none"]
  /\ moved = [a \in Alerts |-> FALSE]
  /\ notices = [a \in Alerts |-> 0]
  /\ pass = NoPass
  /\ faults = 0

NoticeTypeOK ==
  /\ level \in Levels
  /\ alerts \in [Alerts -> {"none", "active", "triggered", "deleted"}]
  /\ moved \in [Alerts -> BOOLEAN]
  /\ notices \in [Alerts -> 0 .. MaxTold]
  /\ pass \in [pc: {"idle", "check", "mark"}, todo: SUBSET Alerts]
  /\ pass.pc = "mark" => pass.todo # {}
  /\ faults \in 0 .. MaxFaults

---------------------------------------------------------------------------
(* The owner, and the market *)

\* /notificaciones sets the level of the policy every notice asks.
SetLevel(l) ==
  /\ level' = l
  /\ UNCHANGED <<alerts, moved, notices, pass, faults>>

\* Ids are handed out in order and never again.
CreateAlert(a) ==
  /\ alerts[a] = "none" /\ \A b \in 1 .. a - 1 : alerts[b] # "none"
  /\ alerts' = [alerts EXCEPT ![a] = "active"]
  /\ UNCHANGED <<level, moved, notices, pass, faults>>

DeleteAlert(a) ==
  /\ alerts[a] \in {"active", "triggered"}
  /\ alerts' = [alerts EXCEPT ![a] = "deleted"]
  /\ UNCHANGED <<level, moved, notices, pass, faults>>

PriceMoves(a) ==
  /\ moved' = [moved EXCEPT ![a] = ~@]
  /\ UNCHANGED <<level, alerts, notices, pass, faults>>

---------------------------------------------------------------------------
(* check_all, one alert after the other, the oldest first *)

ActiveAlerts == {a \in Alerts : alerts[a] = "active"}

\* Mutant of StartPass: get_all_alerts in the place of get_active_alerts.
StartPassOverAll ==
  /\ pass.pc = "idle"
  /\ pass' = [pc |-> "check", todo |-> {a \in Alerts : alerts[a] \in {"active", "triggered"}}]
  /\ UNCHANGED <<level, alerts, moved, notices, faults>>

StartPass ==
  /\ pass.pc = "idle"
  /\ ActiveAlerts # {}
  /\ pass' = [pc |-> "check", todo |-> ActiveAlerts]
  /\ UNCHANGED <<level, alerts, moved, notices, faults>>

\* The alert at hand, in the order the rows were created.
AtHand(a) == a \in pass.todo /\ \A b \in pass.todo : a <= b

GoOn(a) == pass' = [pc |-> IF pass.todo = {a} THEN "idle" ELSE "check", todo |-> pass.todo \ {a}]

\* A failure is one of a bounded number.
Fault == faults < MaxFaults /\ faults' = faults + 1

\* Mutant of Continue: an alert without a price, or without a move, ends the pass.
ReturnInstead(a) == pass' = NoPass

Continue(a) == GoOn(a)

\* A move below the threshold, or no price, or no close of yesterday.
SkipAlert(a) ==
  /\ pass.pc = "check" /\ AtHand(a)
  /\ (~moved[a] /\ UNCHANGED faults) \/ Fault
  /\ Continue(a)
  /\ UNCHANGED <<level, alerts, moved, notices>>

\* notify: the policy drops the notice, or Telegram fails, and nobody looks at the result.
NotifyAlert(a, delivered) ==
  /\ pass.pc = "check" /\ AtHand(a)
  /\ moved[a]
  /\ delivered => ShouldNotify("generic") /\ notices[a] < MaxTold
  /\ notices' = IF delivered THEN [notices EXCEPT ![a] = @ + 1] ELSE notices
  /\ pass' = [pass EXCEPT !.pc = "mark"]
  /\ UNCHANGED <<level, alerts, moved, faults>>

\* The UPDATE reaches no row when the alert was deleted meanwhile.
MarkTriggered(a) ==
  /\ pass.pc = "mark" /\ AtHand(a)
  /\ alerts' = IF alerts[a] = "deleted" THEN alerts ELSE [alerts EXCEPT ![a] = "triggered"]
  /\ GoOn(a)
  /\ UNCHANGED <<level, moved, notices, faults>>

\* The database raises: the rest of the pass is lost.
MarkFailed ==
  /\ pass.pc = "mark"
  /\ Fault
  /\ pass' = NoPass
  /\ UNCHANGED <<level, alerts, moved, notices>>

CheckAlert(a) ==
  \/ SkipAlert(a)
  \/ \E delivered \in BOOLEAN : NotifyAlert(a, delivered)
  \/ MarkTriggered(a)

NoticeNext ==
  \/ \E l \in Levels : SetLevel(l)
  \/ \E a \in Alerts : CreateAlert(a) \/ DeleteAlert(a) \/ PriceMoves(a)
  \/ StartPass
  \/ \E a \in Alerts : CheckAlert(a)
  \/ MarkFailed

NoticeSpec == NoticeInit /\ [][NoticeNext]_noticeVars

\* The alert_checker job runs again and again, and a pass goes on.
NoticeFairness ==
  /\ WF_noticeVars(StartPass)
  /\ WF_noticeVars(\E a \in Alerts : CheckAlert(a))

---------------------------------------------------------------------------
(* Properties that hold *)

\* An alert that is marked as triggered is never told again: the one pass that runs reads
\* the active rows, and marks a row before it looks at another.
NoNoticeAfterMark ==
  [][\A a \in Alerts : notices'[a] > notices[a] => alerts[a] # "triggered"]_noticeVars

\* An active alert whose price stays beyond its threshold is marked in the end, though the
\* failure of another alert's mark cuts the passes short.
MovedAlertsFire == \A a \in Alerts : []<>~(alerts[a] = "active" /\ moved[a])
=============================================================================
