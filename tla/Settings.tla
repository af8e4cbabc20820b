------------------------------ MODULE Settings ------------------------------
(***************************************************************************)
(* The control_settings table behind the endpoints of /control: a setting  *)
(* is validated, encrypted if it is a secret, written, and its change      *)
(* published to the audit log; the mode is two settings, the hour of a     *)
(* pre-open scan is a setting and a trigger of the scheduler.  Each        *)
(* request is a thread, and each write a transaction of its own.           *)
(***************************************************************************)
EXTENDS Naturals, FiniteSets

CONSTANTS
  Writers,     \* request threads
  HasKey,      \* whether SECRET_ENCRYPTION_KEY is set
  MaxSettings, \* bound: requests
  MaxReboots   \* bound: restarts of the process

ASSUME SettingsAssumption == HasKey \in BOOLEAN /\ MaxSettings \in Nat /\ MaxReboots \in Nat

VARIABLES
  store,     \* control_settings: the value and the is_secret flag of each row
  audit,     \* audit_log: what was changed, and the old and new value it shows
  writer,    \* the local state of each request
  schedule,  \* the hour of the pre-open scan in the scheduler
  admitted,  \* requests so far
  reboots    \* restarts so far

settingVars == <<store, audit, writer, schedule, admitted, reboots>>

\* One key of each kind of SETTING_REGISTRY.
Registry ==
  [max_risk_pct       |-> [type |-> "float", secret |-> FALSE],
   ib_port            |-> [type |-> "int", secret |-> FALSE],
   trading_mode       |-> [type |-> "enum", secret |-> FALSE],
   telegram_bot_token |-> [type |-> "str", secret |-> TRUE]]
Registered == DOMAIN Registry
Keys == Registered \cup {"preopen_schedule"}

Ports == [paper |-> "paper_port", live |-> "live_port"]
Hours == {"default", "early", "late"}
Numbers == {"below", "within", "above", "nan", "paper_port", "live_port"}
Shows == Numbers \cup Hours \cup {"words", "paper", "live", "other", "clear", "sealed",
                                  "redacted", "none"}

\* What is sent for a key: numbers stand for where they lie in the registry's bounds.
Raw(key) ==
  CASE Registry[key].type \in {"float", "int"} -> {"below", "within", "above", "nan", "words"}
    [] Registry[key].type = "enum" -> {"paper", "live", "other"}
    [] OTHER -> {"clear"}

\* _coerce raises for words, and for nan where an int is wanted; nan is neither below the
\* minimum nor above the maximum.
Validate(key, raw) ==
  /\ raw \notin {"words", "below", "above", "other"}
  /\ raw = "nan" => Registry[key].type = "float"

NotWriting == [pc |-> "idle", key |-> "none", old |-> "none", new |-> "none"]
Absent == [value |-> "none", secret |-> FALSE]

SettingsInit ==
  /\ store = [k \in Keys |-> IF k = "trading_mode" THEN [value |-> "paper", secret |-> FALSE]
                             ELSE Absent]
  /\ audit = {}
  /\ writer = [w \in Writers |-> NotWriting]
  /\ schedule = "default"
  /\ admitted = 0 /\ reboots = 0

SettingsTypeOK ==
  /\ store \in [Keys -> [value: Shows, secret: BOOLEAN]]
  /\ audit \subseteq [key: Keys, old: Shows, new: Shows]
  /\ writer \in [Writers -> [pc: {"idle", "write", "publish", "port", "mode_publish", "persist"},
                             key: Keys \cup {"none"}, old: Shows, new: Shows]]
  /\ schedule \in Hours
  /\ admitted \in 0 .. MaxSettings /\ reboots \in 0 .. MaxReboots

Admit(w) ==
  /\ writer[w].pc = "idle"
  /\ admitted < MaxSettings
  /\ admitted' = admitted + 1

WriterAt(w, pc) == writer[w].pc = pc
StopWriting(w) == writer' = [writer EXCEPT ![w] = NotWriting]

---------------------------------------------------------------------------
(* PUT /control/settings/{key} *)

\* A value that passes, and an encryption key for a secret; else nothing is done.  The old
\* value is read now.
UpdateSetting(w, key, raw) ==
  /\ Admit(w)
  /\ Validate(key, raw)
  /\ Registry[key].secret => HasKey
  /\ writer' = [writer EXCEPT ![w] =
                  [pc |-> "write", key |-> key, old |-> store[key].value, new |-> raw]]
  /\ UNCHANGED <<store, audit, schedule, reboots>>

\* Mutant of WriteSetting: the value is written as it came.
WriteAsSent(w) ==
  /\ WriterAt(w, "write")
  /\ LET key == writer[w].key
     IN  store' = [store EXCEPT ![key] = [value |-> writer[w].new, secret |-> Registry[key].secret]]
  /\ writer' = [writer EXCEPT ![w].pc = "publish"]
  /\ UNCHANGED <<audit, schedule, admitted, reboots>>

WriteSetting(w) ==
  /\ WriterAt(w, "write")
  /\ LET key == writer[w].key
     IN  store' = [store EXCEPT ![key] =
                     [value |-> IF Registry[key].secret THEN "sealed" ELSE writer[w].new,
                      secret |-> Registry[key].secret]]
  /\ writer' = [writer EXCEPT ![w].pc = "publish"]
  /\ UNCHANGED <<audit, schedule, admitted, reboots>>

\* The bus calls the audit handler before the request ends.
PublishSetting(w) ==
  /\ WriterAt(w, "publish")
  /\ LET key == writer[w].key
         secret == Registry[key].secret
     IN  audit' = audit \cup {[key |-> key,
                               old |-> IF secret THEN "redacted" ELSE writer[w].old,
                               new |-> IF secret THEN "redacted" ELSE writer[w].new]}
  /\ StopWriting(w)
  /\ UNCHANGED <<store, schedule, admitted, reboots>>

---------------------------------------------------------------------------
(* POST /control/mode/{mode} *)

\* No row is SUBMITTED or OPEN; the mode is written, then the port that goes with it.
ChangeMode(w, mode) ==
  /\ Admit(w)
  /\ store' = [store EXCEPT !["trading_mode"].value = mode]
  /\ writer' = [writer EXCEPT ![w] =
                  [pc |-> "port", key |-> "trading_mode",
                   old |-> store["trading_mode"].value, new |-> mode]]
  /\ UNCHANGED <<audit, schedule, reboots>>

WritePort(w) ==
  /\ WriterAt(w, "port")
  /\ store' = [store EXCEPT !["ib_port"].value = Ports[writer[w].new]]
  /\ writer' = [writer EXCEPT ![w].pc = "mode_publish"]
  /\ UNCHANGED <<audit, schedule, admitted, reboots>>

PublishMode(w) ==
  /\ WriterAt(w, "mode_publish")
  /\ audit' = audit \cup {[key |-> "trading_mode", old |-> writer[w].old, new |-> writer[w].new]}
  /\ StopWriting(w)
  /\ UNCHANGED <<store, schedule, admitted, reboots>>

---------------------------------------------------------------------------
(* PUT /control/markets/{job_id}/schedule *)

\* The job is rescheduled at once, and the hour written after that.
Reschedule(w, hour) ==
  /\ Admit(w)
  /\ schedule' = hour
  /\ writer' = [writer EXCEPT ![w] =
                  [pc |-> "persist", key |-> "preopen_schedule", old |-> "none", new |-> hour]]
  /\ UNCHANGED <<store, audit, reboots>>

PersistSchedule(w) ==
  /\ WriterAt(w, "persist")
  /\ store' = [store EXCEPT !["preopen_schedule"].value = writer[w].new]
  /\ StopWriting(w)
  /\ UNCHANGED <<audit, schedule, admitted, reboots>>

\* A write raised, a 500 of the request: what was done before stays.  An audit row that
\* cannot be written is logged and forgotten.
WriteRaised(w) ==
  /\ writer[w].pc # "idle"
  /\ StopWriting(w)
  /\ UNCHANGED <<store, audit, schedule, admitted, reboots>>

\* start_system reads the hours from the table, and has defaults for those it does not find.
Reboot ==
  /\ reboots < MaxReboots
  /\ reboots' = reboots + 1
  /\ schedule' = IF store["preopen_schedule"].value = "none" THEN "default"
                 ELSE store["preopen_schedule"].value
  /\ writer' = [w \in Writers |-> NotWriting]
  /\ UNCHANGED <<store, audit, admitted>>

SettingsNext ==
  \/ \E w \in Writers :
       \/ \E key \in Registered : \E raw \in Raw(key) : UpdateSetting(w, key, raw)
       \/ \E mode \in DOMAIN Ports : ChangeMode(w, mode)
       \/ \E hour \in Hours : Reschedule(w, hour)
       \/ WriteSetting(w) \/ PublishSetting(w)
       \/ WritePort(w) \/ PublishMode(w)
       \/ PersistSchedule(w) \/ WriteRaised(w)
  \/ Reboot

SettingsSpec == SettingsInit /\ [][SettingsNext]_settingVars

---------------------------------------------------------------------------
(* What is read *)

\* GetAllSettingsQuery and GetSettingQuery go by the flag of the row.
Shown(key) == IF store[key].secret THEN "redacted" ELSE store[key].value

---------------------------------------------------------------------------
(* Properties *)

\* A secret is nowhere in clear: not in its row, whoever wrote the row last, not in what the
\* queries show, and not in the audit log.
SecretsStaySealed ==
  \A key \in Registered : Registry[key].secret =>
    /\ store[key].value \in {"none", "sealed"}
    /\ Shown(key) \in {"none", "redacted"}
    /\ \A a \in audit : a.key = key => {a.old, a.new} \subseteq {"redacted"}
=============================================================================
