---------------------------- MODULE ServiceProofs ----------------------------
(***************************************************************************)
(* Symbols, settings, permissions, scans and the gateway: in each of them  *)
(* several threads work from what they read before the others wrote, and   *)
(* one fact about what a thread holds between two of its steps makes the   *)
(* property inductive.                                                     *)
(***************************************************************************)
EXTENDS Universe, Settings, Permissions, Scanner, Gateway, Bot, SequenceTheorems, TLAPS

(* The universe of symbols *)

\* What a discovery has chosen to take out is not protected, and what it puts in is listed:
\* Weak never names a protected symbol.
LeaversUnprotected ==
  \A d \in Discoverers :
    /\ disc[d].at # "idle" => disc[d].enters \in Symbols
    /\ disc[d].at = "chosen" => disc[d].leaves \in Symbols \ Protected

UniverseInv == UniverseTypeOK /\ LeaversUnprotected /\ ProtectedStayApproved

LEMMA UniverseInvInit == UniverseInit => UniverseInv
BY UniverseAssumption
   DEF UniverseInit, UniverseInv, UniverseTypeOK, LeaversUnprotected, ProtectedStayApproved,
       NoDiscovery

LEMMA DiscoveryKeeps ==
  ASSUME UniverseInv, NEW d \in Discoverers,
         Discover(d) \/ Choose(d) \/ TakeOut(d) \/ PutIn(d) \/ DiscoveryDies(d)
  PROVE  UniverseInv'
<1> USE DEF UniverseInv, UniverseTypeOK, LeaversUnprotected, ProtectedStayApproved, NoDiscovery
<1>1. CASE Discover(d)
  BY <1>1 DEF Discover
<1>2. CASE Choose(d)
  BY <1>2, UniverseAssumption DEF Choose, Weak, Unprotected
<1>3. CASE TakeOut(d)
  BY <1>3 DEF TakeOut
<1>4. CASE PutIn(d)
  <2>1. disc[d].enters \in Symbols
    BY <1>4 DEF PutIn
  <2> QED
    BY <1>4, <2>1 DEF PutIn
<1>5. CASE DiscoveryDies(d)
  BY <1>5 DEF DiscoveryDies
<1> QED
  BY <1>1, <1>2, <1>3, <1>4, <1>5

LEMMA OthersKeepUniverse ==
  ASSUME UniverseInv,
         \/ \E s \in Symbols :
              Approve(s) \/ Reweigh(s) \/ Enter(s) \/ ExitOrder(s) \/ SoldByHand(s)
         \/ CleanUp \/ Reconcile
  PROVE  UniverseInv'
<1> USE DEF UniverseInv, UniverseTypeOK, LeaversUnprotected, ProtectedStayApproved
<1>1. CASE \E s \in Symbols : Approve(s)
  BY <1>1 DEF Approve
<1>2. CASE \E s \in Symbols : Reweigh(s)
  BY <1>2 DEF Reweigh
<1>3. CASE \E s \in Symbols : Enter(s) \/ ExitOrder(s) \/ SoldByHand(s)
  BY <1>3 DEF Enter, ExitOrder, SoldByHand
<1>4. CASE CleanUp
  BY <1>4 DEF CleanUp
<1>5. CASE Reconcile
  BY <1>5 DEF Reconcile, Reapproved
<1> QED
  BY <1>1, <1>2, <1>3, <1>4, <1>5

LEMMA UniverseInvNext == UniverseInv /\ [UniverseNext]_universeVars => UniverseInv'
<1> SUFFICES ASSUME UniverseInv, [UniverseNext]_universeVars
             PROVE  UniverseInv'
  OBVIOUS
<1>1. CASE UniverseNext
  BY <1>1, DiscoveryKeeps, OthersKeepUniverse DEF UniverseNext
<1>2. CASE UNCHANGED universeVars
  BY <1>2 DEF universeVars, UniverseInv, UniverseTypeOK, LeaversUnprotected,
              ProtectedStayApproved
<1> QED
  BY <1>1, <1>2

\* For any number of discoveries, and any symbols: no interleaving of rotations, clean-ups,
\* crashes and approvals takes a protected symbol out (analysis/admission.py,
\* _rotate_universe).
THEOREM ProtectedTheorem == UniverseSpec => []ProtectedStayApproved
<1>1. UniverseInv => ProtectedStayApproved
  BY DEF UniverseInv
<1> QED
  BY <1>1, UniverseInvInit, UniverseInvNext, PTL DEF UniverseSpec

\* For any symbols, listings and number of discoveries: a discovery between two of its steps holds
\* symbols of the table, and there are no more rotations than the bound admits.
THEOREM UniverseTyped == UniverseSpec => []UniverseTypeOK
<1>1. UniverseInv => UniverseTypeOK
  BY DEF UniverseInv
<1> QED
  BY <1>1, UniverseInvInit, UniverseInvNext, PTL DEF UniverseSpec

---------------------------------------------------------------------------
(* The permissions *)

PermissionInv == PermissionTypeOK /\ IdIsFreed

LEMMA PermissionInvInit == PermissionInit => PermissionInv
BY PermissionAssumption
   DEF PermissionInit, PermissionInv, PermissionTypeOK, IdIsFreed, NoProbe

LEMMA ProberKeeps ==
  ASSUME PermissionInv, NEW p \in Probers,
         \/ Discovery(p) \/ Report(p) \/ ConnectFails(p) \/ Connect98(p) \/ Connected98(p)
         \/ HandshakeTimesOut(p) \/ Probe(p) \/ Disconnect98(p) \/ Upsert98(p) \/ UpsertFails(p)
  PROVE  PermissionInv'
<1> USE PermissionAssumption DEF PermissionInv, PermissionTypeOK, IdIsFreed, NoProbe
<1>1. CASE Discovery(p)
  <2>1. PermissionTypeOK'
    BY <1>1 DEF Discovery, ProberGoes
  <2>2. IdIsFreed'
    BY <1>1 DEF Discovery, ProberGoes
  <2> QED
    BY <2>1, <2>2
<1>2. CASE Report(p)
  <2>1. PermissionTypeOK'
    BY <1>2 DEF Report
  <2>2. IdIsFreed'
    BY <1>2 DEF Report
  <2> QED
    BY <2>1, <2>2
<1>3. CASE ConnectFails(p)
  <2>1. PermissionTypeOK'
    BY <1>3 DEF ConnectFails
  <2>2. IdIsFreed'
    BY <1>3 DEF ConnectFails
  <2> QED
    BY <2>1, <2>2
<1>4. CASE Connect98(p)
  <2>1. PermissionTypeOK'
    BY <1>4 DEF Connect98, ProberGoes
  <2>2. IdIsFreed'
    BY <1>4 DEF Connect98, ProberGoes
  <2> QED
    BY <2>1, <2>2
<1>5. CASE Connected98(p)
  <2>1. PermissionTypeOK'
    BY <1>5 DEF Connected98
  <2>2. IdIsFreed'
    BY <1>5 DEF Connected98
  <2> QED
    BY <2>1, <2>2
<1>6. CASE HandshakeTimesOut(p)
  <2>1. PermissionTypeOK'
    BY <1>6 DEF HandshakeTimesOut, HandshakeFailed
  <2>2. IdIsFreed'
    BY <1>6 DEF HandshakeTimesOut, HandshakeFailed
  <2> QED
    BY <2>1, <2>2
<1>7. CASE Probe(p)
  <2>1. PermissionTypeOK'
    BY <1>7 DEF Probe
  <2>2. IdIsFreed'
    BY <1>7 DEF Probe
  <2> QED
    BY <2>1, <2>2
<1>8. CASE Disconnect98(p)
  <2>1. PermissionTypeOK'
    BY <1>8 DEF Disconnect98, ProberGoes
  <2>2. IdIsFreed'
    BY <1>8 DEF Disconnect98, ProberGoes
  <2> QED
    BY <2>1, <2>2
<1>9. CASE Upsert98(p)
  <2>1. PermissionTypeOK'
    BY <1>9 DEF Upsert98
  <2>2. IdIsFreed'
    BY <1>9 DEF Upsert98
  <2> QED
    BY <2>1, <2>2
<1>10. CASE UpsertFails(p)
  <2>1. PermissionTypeOK'
    BY <1>10 DEF UpsertFails
  <2>2. IdIsFreed'
    BY <1>10 DEF UpsertFails
  <2> QED
    BY <2>1, <2>2
<1> QED
  BY <1>1, <1>2, <1>3, <1>4, <1>5, <1>6, <1>7, <1>8, <1>9, <1>10

LEMMA PermissionInvNext == PermissionInv /\ [PermissionNext]_permissionVars => PermissionInv'
<1> SUFFICES ASSUME PermissionInv, [PermissionNext]_permissionVars
             PROVE  PermissionInv'
  OBVIOUS
<1>1. CASE PermissionsAge
  BY <1>1 DEF PermissionsAge, PermissionInv, PermissionTypeOK, IdIsFreed
<1>2. CASE UNCHANGED permissionVars
  BY <1>2 DEF permissionVars, PermissionInv, PermissionTypeOK, IdIsFreed
<1> QED
  BY <1>1, <1>2, ProberKeeps DEF PermissionNext

\* For any number of threads that discover and any markets: whoever holds client 98 is still
\* asking, and whoever asks holds it (market_permissions.py,
\* the finally of run_permission_discovery).
THEOREM IdTheorem == PermissionSpec => []IdIsFreed
<1>1. PermissionInv => IdIsFreed
  BY DEF PermissionInv
<1> QED
  BY <1>1, PermissionInvInit, PermissionInvNext, PTL DEF PermissionSpec

\* For any threads that discover and any markets: what a probe has still to ask, what it found and
\* what is written down are markets that market_permissions.py lists.
THEOREM PermissionTyped == PermissionSpec => []PermissionTypeOK
<1>1. PermissionInv => PermissionTypeOK
  BY DEF PermissionInv
<1> QED
  BY <1>1, PermissionInvInit, PermissionInvNext, PTL DEF PermissionSpec

---------------------------------------------------------------------------
(* The settings *)

\* What a request has still to write or to publish is for a key, a mode or an hour there is.
WritersValidated ==
  \A w \in Writers :
    /\ writer[w].pc \in {"write", "publish"} => writer[w].key \in Registered
    /\ writer[w].pc \in {"port", "mode_publish"} =>
         writer[w].key = "trading_mode" /\ writer[w].new \in {"paper", "live"}
    /\ writer[w].pc = "persist" => writer[w].new \in Hours

\* The hour a restart reads is one that was set, or none.
HourStored == store["preopen_schedule"].value \in Hours \cup {"none"}

SettingsInv ==
  SettingsTypeOK /\ WritersValidated /\ HourStored /\ SecretsStaySealed

LEMMA RegistryKeys ==
  /\ Registered = {"max_risk_pct", "ib_port", "trading_mode", "telegram_bot_token"}
  /\ Keys = Registered \cup {"preopen_schedule"} /\ "preopen_schedule" \notin Registered
  /\ \A key \in Registered : Registry[key].secret = (key = "telegram_bot_token")
<1>1. Registered = {"max_risk_pct", "ib_port", "trading_mode", "telegram_bot_token"}
  BY DEF Registered, Registry
<1>2. Keys = Registered \cup {"preopen_schedule"}
  BY DEF Keys
<1>3. /\ Registry["max_risk_pct"].secret = FALSE
      /\ Registry["ib_port"].secret = FALSE
      /\ Registry["trading_mode"].secret = FALSE
      /\ Registry["telegram_bot_token"].secret = TRUE
  BY DEF Registry
<1> QED
  BY <1>1, <1>2, <1>3

LEMMA RawShows == \A key \in Registered : Raw(key) \subseteq Shows
BY DEF Registered, Registry, Raw, Shows, Numbers

LEMMA PortsShown ==
  /\ DOMAIN Ports = {"paper", "live"}
  /\ Ports["paper"] = "paper_port" /\ Ports["live"] = "live_port"
BY DEF Ports

LEMMA SettingsInvInit == SettingsInit => SettingsInv
<1> SUFFICES ASSUME SettingsInit PROVE SettingsInv
  OBVIOUS
<1>1. SettingsTypeOK
  <2>1. store \in [Keys -> [value: Shows, secret: BOOLEAN]]
    BY DEF SettingsInit, Absent, Shows
  <2>2. writer \in [Writers -> [pc: {"idle", "write", "publish", "port", "mode_publish", "persist"},
                                key: Keys \cup {"none"}, old: Shows, new: Shows]]
    BY DEF SettingsInit, NotWriting, Shows
  <2> QED
    BY <2>1, <2>2, SettingsAssumption DEF SettingsInit, SettingsTypeOK, Hours
<1>2. WritersValidated
  BY DEF SettingsInit, WritersValidated, NotWriting
<1>3. SecretsStaySealed /\ HourStored
  BY RegistryKeys
     DEF SettingsInit, SecretsStaySealed, Shown, Absent, HourStored
<1> QED
  BY <1>1, <1>2, <1>3 DEF SettingsInv

\* The local state of a request between its steps.
WriterStates ==
  [pc: {"idle", "write", "publish", "port", "mode_publish", "persist"},
   key: Keys \cup {"none"}, old: Shows, new: Shows]

\* A request that goes idle, or whose next step is validated, leaves the others validated.
LEMMA WriterMoves ==
  ASSUME SettingsInv, NEW w \in Writers, NEW state \in WriterStates,
         writer' = [writer EXCEPT ![w] = state],
         state.pc \in {"write", "publish"} => state.key \in Registered,
         state.pc \in {"port", "mode_publish"} =>
           state.key = "trading_mode" /\ state.new \in {"paper", "live"},
         state.pc = "persist" => state.new \in Hours
  PROVE  writer' \in [Writers -> WriterStates] /\ WritersValidated'
<1>1. writer \in [Writers -> WriterStates]
  BY DEF SettingsInv, SettingsTypeOK, WriterStates
<1>2. writer' \in [Writers -> WriterStates]
  BY <1>1
<1>3. WritersValidated'
  BY <1>1 DEF SettingsInv, WritersValidated, Hours
<1> QED
  BY <1>2, <1>3

LEMMA IdleState == NotWriting \in WriterStates /\ NotWriting.pc = "idle"
BY DEF NotWriting, WriterStates, Shows

LEMMA UpdateKeeps ==
  ASSUME SettingsInv, NEW w \in Writers, NEW key \in Registered, NEW raw \in Raw(key),
         UpdateSetting(w, key, raw)
  PROVE  SettingsInv'
<1> DEFINE state == [pc |-> "write", key |-> key, old |-> store[key].value, new |-> raw]
<1>1. state \in WriterStates
  BY RegistryKeys, RawShows DEF SettingsInv, SettingsTypeOK, WriterStates
<1>2. writer' \in [Writers -> WriterStates] /\ WritersValidated'
  <2>1. writer' = [writer EXCEPT ![w] = state]
    BY DEF UpdateSetting
  <2> HIDE DEF state
  <2>2. state.pc = "write" /\ state.key \in Registered
    BY DEF state
  <2> QED
    BY <1>1, <2>1, <2>2, WriterMoves
<1>3. SettingsTypeOK'
  <2>1. admitted' \in 0 .. MaxSettings
    BY SettingsAssumption DEF UpdateSetting, Admit, SettingsInv, SettingsTypeOK
  <2> QED
    BY <1>2, <2>1 DEF UpdateSetting, SettingsInv, SettingsTypeOK, WriterStates
<1>4. SecretsStaySealed' /\ HourStored'
  BY DEF UpdateSetting, SettingsInv, SecretsStaySealed, Shown, HourStored
<1> QED
  BY <1>2, <1>3, <1>4 DEF SettingsInv

LEMMA WriteKeeps ==
  ASSUME SettingsInv, NEW w \in Writers, WriteSetting(w)
  PROVE  SettingsInv'
<1> DEFINE key == writer[w].key
           value == IF Registry[key].secret THEN "sealed" ELSE writer[w].new
           state == [pc |-> "publish", key |-> key, old |-> writer[w].old, new |-> writer[w].new]
<1>1. key \in Registered /\ writer[w] \in WriterStates
  BY DEF WriteSetting, WriterAt, SettingsInv, WritersValidated, SettingsTypeOK, WriterStates
<1>2. store' = [store EXCEPT ![key] = [value |-> value, secret |-> Registry[key].secret]]
  BY DEF WriteSetting
<1>3. writer' = [writer EXCEPT ![w] = state]
  <2>1. [writer[w] EXCEPT !.pc = "publish"] = state
    BY <1>1 DEF WriterStates
  <2>2. writer' = [writer EXCEPT ![w] = [writer[w] EXCEPT !.pc = "publish"]]
    BY DEF WriteSetting
  <2> QED
    BY <2>1, <2>2
<1>4. state \in WriterStates
  BY <1>1 DEF WriterStates
<1>5. state.pc = "publish" /\ state.key = key /\ state.new = writer[w].new
  OBVIOUS
<1>6. value \in Shows
  BY <1>1 DEF WriterStates, Shows
<1> HIDE DEF key, value, state
<1>7. writer' \in [Writers -> WriterStates] /\ WritersValidated'
  BY <1>1, <1>3, <1>4, <1>5, WriterMoves
<1>8. SettingsTypeOK'
  <2>1. Registry[key].secret \in BOOLEAN /\ key \in Keys
    BY <1>1, RegistryKeys
  <2>2. store' \in [Keys -> [value: Shows, secret: BOOLEAN]]
    BY <1>2, <1>6, <2>1 DEF SettingsInv, SettingsTypeOK
  <2> QED
    BY <1>7, <2>2 DEF WriteSetting, SettingsInv, SettingsTypeOK, WriterStates
<1>9. Registry[key].secret => value = "sealed"
  BY DEF value
<1>10. SecretsStaySealed'
  BY <1>1, <1>2, <1>9, RegistryKeys
     DEF WriteSetting, SettingsInv, SettingsTypeOK, SecretsStaySealed, Shown
<1>11. HourStored'
  BY <1>1, <1>2, RegistryKeys DEF SettingsInv, SettingsTypeOK, HourStored
<1> QED
  BY <1>7, <1>8, <1>10, <1>11 DEF SettingsInv

\* Going idle needs nothing of a request.
LEMMA StopKeeps ==
  ASSUME SettingsInv, NEW w \in Writers, StopWriting(w)
  PROVE  writer' \in [Writers -> WriterStates] /\ WritersValidated'
BY IdleState, WriterMoves DEF StopWriting

LEMMA PublishKeeps ==
  ASSUME SettingsInv, NEW w \in Writers, PublishSetting(w) \/ PublishMode(w)
  PROVE  SettingsInv'
<1>1. writer' \in [Writers -> WriterStates] /\ WritersValidated'
  BY StopKeeps DEF PublishSetting, PublishMode
<1>2. writer[w] \in WriterStates
  BY DEF SettingsInv, SettingsTypeOK, WriterStates
<1>3. PICK a \in [key: Registered, old: Shows, new: Shows] :
        /\ audit' = audit \cup {a}
        /\ Registry[a.key].secret => a.old = "redacted" /\ a.new = "redacted"
  <2>1. CASE PublishSetting(w)
    <3> DEFINE key == writer[w].key
               secret == Registry[key].secret
               a == [key |-> key,
                     old |-> IF secret THEN "redacted" ELSE writer[w].old,
                     new |-> IF secret THEN "redacted" ELSE writer[w].new]
    <3>1. key \in Registered
      BY <2>1 DEF PublishSetting, WriterAt, SettingsInv, WritersValidated
    <3>2. audit' = audit \cup {a}
      BY <2>1 DEF PublishSetting
    <3>3. a \in [key: Registered, old: Shows, new: Shows]
      BY <1>2, <3>1 DEF WriterStates, Shows
    <3> QED
      BY <3>1, <3>2, <3>3
  <2>2. CASE PublishMode(w)
    <3> DEFINE a == [key |-> "trading_mode", old |-> writer[w].old, new |-> writer[w].new]
    <3>1. writer[w].new \in {"paper", "live"}
      BY <2>2 DEF PublishMode, WriterAt, SettingsInv, WritersValidated
    <3>2. audit' = audit \cup {a}
      BY <2>2 DEF PublishMode
    <3>3. a \in [key: Registered, old: Shows, new: Shows] /\ ~Registry[a.key].secret
      BY <1>2, <3>1, RegistryKeys DEF WriterStates, Shows
    <3> QED
      BY <3>1, <3>2, <3>3
  <2> QED
    BY <2>1, <2>2
<1>4. SettingsTypeOK'
  BY <1>1, <1>3, RegistryKeys
     DEF PublishSetting, PublishMode, SettingsInv, SettingsTypeOK, WriterStates
<1>5. SecretsStaySealed'
  BY <1>3 DEF PublishSetting, PublishMode, SettingsInv, SecretsStaySealed, Shown
<1>6. HourStored'
  BY DEF PublishSetting, PublishMode, SettingsInv, HourStored
<1> QED
  BY <1>1, <1>4, <1>5, <1>6 DEF SettingsInv

LEMMA ChangeModeKeeps ==
  ASSUME SettingsInv, NEW w \in Writers, NEW mode \in DOMAIN Ports, ChangeMode(w, mode)
  PROVE  SettingsInv'
<1> DEFINE state == [pc |-> "port", key |-> "trading_mode",
                     old |-> store["trading_mode"].value, new |-> mode]
<1>1. "trading_mode" \in Registered /\ "trading_mode" \in Keys /\ mode \in {"paper", "live"}
  BY RegistryKeys, PortsShown
<1>2. state \in WriterStates
  BY <1>1 DEF WriterStates, SettingsInv, SettingsTypeOK, Shows
<1>3. writer' = [writer EXCEPT ![w] = state]
  BY DEF ChangeMode
<1>4. state.pc = "port" /\ state.key = "trading_mode" /\ state.new = mode
  OBVIOUS
<1> HIDE DEF state
<1>5. writer' \in [Writers -> WriterStates] /\ WritersValidated'
  BY <1>1, <1>2, <1>3, <1>4, WriterMoves
<1>6. store' \in [Keys -> [value: Shows, secret: BOOLEAN]]
  BY <1>1 DEF ChangeMode, SettingsInv, SettingsTypeOK, Shows
<1>7. admitted' \in 0 .. MaxSettings
  BY SettingsAssumption DEF ChangeMode, Admit, SettingsInv, SettingsTypeOK
<1>8. SettingsTypeOK'
  BY <1>5, <1>6, <1>7 DEF ChangeMode, SettingsInv, SettingsTypeOK, WriterStates
<1>9. SecretsStaySealed'
  <2>1. \A k \in Registered : Registry[k].secret => k # "trading_mode"
    BY RegistryKeys
  <2>2. \A k \in Registered : k # "trading_mode" => store'[k] = store[k]
    BY <1>1, RegistryKeys DEF ChangeMode, SettingsInv, SettingsTypeOK
  <2> QED
    BY <2>1, <2>2 DEF ChangeMode, SettingsInv, SecretsStaySealed, Shown
<1>10. HourStored'
  BY RegistryKeys DEF ChangeMode, SettingsInv, SettingsTypeOK, HourStored
<1> QED
  BY <1>5, <1>8, <1>9, <1>10 DEF SettingsInv

LEMMA WritePortKeeps ==
  ASSUME SettingsInv, NEW w \in Writers, WritePort(w)
  PROVE  SettingsInv'
<1> DEFINE state == [pc |-> "mode_publish", key |-> writer[w].key,
                     old |-> writer[w].old, new |-> writer[w].new]
<1>1. /\ writer[w] \in WriterStates
      /\ writer[w].key = "trading_mode" /\ writer[w].new \in {"paper", "live"}
  BY DEF WritePort, WriterAt, SettingsInv, WritersValidated, SettingsTypeOK, WriterStates
<1>2. state \in WriterStates
  BY <1>1 DEF WriterStates
<1>3. writer' = [writer EXCEPT ![w] = state]
  <2>1. [writer[w] EXCEPT !.pc = "mode_publish"] = state
    BY <1>1 DEF WriterStates
  <2>2. writer' = [writer EXCEPT ![w] = [writer[w] EXCEPT !.pc = "mode_publish"]]
    BY DEF WritePort
  <2> QED
    BY <2>1, <2>2
<1>4. state.pc = "mode_publish" /\ state.key = "trading_mode" /\ state.new \in {"paper", "live"}
  BY <1>1
<1> HIDE DEF state
<1>5. writer' \in [Writers -> WriterStates] /\ WritersValidated'
  BY <1>2, <1>3, <1>4, WriterMoves
<1>6. PICK port \in {"paper_port", "live_port"} : store' = [store EXCEPT !["ib_port"].value = port]
  BY <1>1, PortsShown DEF WritePort
<1>7. "ib_port" \in Registered /\ "ib_port" \in Keys
  BY RegistryKeys
<1>8. store' \in [Keys -> [value: Shows, secret: BOOLEAN]]
  BY <1>6, <1>7 DEF SettingsInv, SettingsTypeOK, Shows, Numbers
<1>9. SettingsTypeOK'
  BY <1>5, <1>8 DEF WritePort, SettingsInv, SettingsTypeOK, WriterStates
<1>10. SecretsStaySealed'
  <2>1. \A k \in Registered : Registry[k].secret => k # "ib_port"
    BY RegistryKeys
  <2>2. \A k \in Registered : k # "ib_port" => store'[k] = store[k]
    BY <1>6, <1>7, RegistryKeys DEF WritePort, SettingsInv, SettingsTypeOK
  <2> QED
    BY <2>1, <2>2 DEF WritePort, SettingsInv, SecretsStaySealed, Shown
<1>11. HourStored'
  BY <1>6, <1>7, RegistryKeys DEF SettingsInv, SettingsTypeOK, HourStored
<1> QED
  BY <1>5, <1>9, <1>10, <1>11 DEF SettingsInv

LEMMA RescheduleKeeps ==
  ASSUME SettingsInv, NEW w \in Writers, NEW hour \in Hours, Reschedule(w, hour)
  PROVE  SettingsInv'
<1> DEFINE state == [pc |-> "persist", key |-> "preopen_schedule", old |-> "none", new |-> hour]
<1>1. state \in WriterStates
  BY RegistryKeys DEF WriterStates, Shows
<1>2. writer' = [writer EXCEPT ![w] = state] /\ state.pc = "persist" /\ state.new \in Hours
  BY DEF Reschedule
<1> HIDE DEF state
<1>3. writer' \in [Writers -> WriterStates] /\ WritersValidated'
  BY <1>1, <1>2, WriterMoves
<1>4. admitted' \in 0 .. MaxSettings
  BY SettingsAssumption DEF Reschedule, Admit, SettingsInv, SettingsTypeOK
<1>5. SettingsTypeOK'
  BY <1>3, <1>4 DEF Reschedule, SettingsInv, SettingsTypeOK, WriterStates
<1>6. SecretsStaySealed' /\ HourStored'
  BY DEF Reschedule, SettingsInv, SecretsStaySealed, Shown, HourStored
<1> QED
  BY <1>3, <1>5, <1>6 DEF SettingsInv

LEMMA PersistKeeps ==
  ASSUME SettingsInv, NEW w \in Writers, PersistSchedule(w)
  PROVE  SettingsInv'
<1>1. writer' \in [Writers -> WriterStates] /\ WritersValidated'
  BY StopKeeps DEF PersistSchedule
<1>2. PICK hour \in Hours : store' = [store EXCEPT !["preopen_schedule"].value = hour]
  BY DEF PersistSchedule, WriterAt, SettingsInv, WritersValidated
<1>3. "preopen_schedule" \in Keys /\ \A key \in Registered : store'[key] = store[key]
  BY <1>2, RegistryKeys DEF SettingsInv, SettingsTypeOK
<1>4. store' \in [Keys -> [value: Shows, secret: BOOLEAN]] /\ HourStored'
  BY <1>2, <1>3 DEF SettingsInv, SettingsTypeOK, HourStored, Shows
<1>5. SettingsTypeOK'
  BY <1>1, <1>4 DEF PersistSchedule, SettingsInv, SettingsTypeOK, WriterStates
<1>6. SecretsStaySealed'
  BY <1>3 DEF PersistSchedule, SettingsInv, SecretsStaySealed, Shown
<1> QED
  BY <1>1, <1>4, <1>5, <1>6 DEF SettingsInv

LEMMA RaisedKeeps ==
  ASSUME SettingsInv, NEW w \in Writers, WriteRaised(w)
  PROVE  SettingsInv'
<1>1. writer' \in [Writers -> WriterStates] /\ WritersValidated'
  BY StopKeeps DEF WriteRaised
<1>2. SettingsTypeOK'
  BY <1>1 DEF WriteRaised, SettingsInv, SettingsTypeOK, WriterStates
<1> QED
  BY <1>1, <1>2
     DEF WriteRaised, SettingsInv, HourStored, SecretsStaySealed, Shown

LEMMA RebootKeeps ==
  ASSUME SettingsInv, Reboot
  PROVE  SettingsInv'
<1>1. writer' \in [Writers -> WriterStates] /\ WritersValidated'
  BY IdleState DEF Reboot, WritersValidated
<1>2. schedule' \in Hours
  BY DEF Reboot, SettingsInv, HourStored, Hours
<1>3. reboots' \in 0 .. MaxReboots
  BY SettingsAssumption DEF Reboot, SettingsInv, SettingsTypeOK
<1>4. SettingsTypeOK'
  BY <1>1, <1>2, <1>3 DEF Reboot, SettingsInv, SettingsTypeOK, WriterStates
<1> QED
  BY <1>1, <1>4
     DEF Reboot, SettingsInv, HourStored, SecretsStaySealed, Shown

LEMMA SettingsInvNext == SettingsInv /\ [SettingsNext]_settingVars => SettingsInv'
<1> SUFFICES ASSUME SettingsInv, [SettingsNext]_settingVars
             PROVE  SettingsInv'
  OBVIOUS
<1>1. CASE SettingsNext
  BY <1>1, UpdateKeeps, WriteKeeps, PublishKeeps, ChangeModeKeeps, WritePortKeeps,
     RescheduleKeeps, PersistKeeps, RaisedKeeps, RebootKeeps
     DEF SettingsNext
<1>2. CASE UNCHANGED settingVars
  BY <1>2 DEF settingVars, SettingsInv, SettingsTypeOK, WritersValidated, HourStored,
              SecretsStaySealed, Shown
<1> QED
  BY <1>1, <1>2

\* For any number of requests and restarts, with a key or without: no secret is in clear in its
\* row, in what the queries show or in the audit log (update_control_setting.py,
\* control_queries.py).
THEOREM SecretsTheorem == SettingsSpec => []SecretsStaySealed
<1>1. SettingsInv => SecretsStaySealed
  BY DEF SettingsInv
<1> QED
  BY <1>1, SettingsInvInit, SettingsInvNext, PTL DEF SettingsSpec

\* For any number of requests and restarts: a setting is stored in clear or sealed, and a request
\* between two of its steps carries what it read (update_control_setting.py).
THEOREM SettingsTyped == SettingsSpec => []SettingsTypeOK
<1>1. SettingsInv => SettingsTypeOK
  BY DEF SettingsInv
<1> QED
  BY <1>1, SettingsInvInit, SettingsInvNext, PTL DEF SettingsSpec

---------------------------------------------------------------------------
(* The scans *)

LEMMA HeldStep ==
  ASSUME HeldStayActive, [ScannerNext]_scannerVars
  PROVE  HeldStayActive'
<1>1. CASE Select
  BY <1>1 DEF Select, Write, HeldStayActive
<1>2. CASE UNCHANGED <<active, found>>
  BY <1>2 DEF HeldStayActive
<1> QED
  BY <1>1, <1>2 DEF ScannerNext, scannerVars, UniverseMoves, StartScan, ScanSymbol

\* Whatever selections of the day come after it, missed ones among them: a symbol that was
\* found to be held stays in the scans (market_open_selector.py, select_top_symbols).
THEOREM HeldTheorem == ScannerSpec => []HeldStayActive
<1>1. ScannerInit => HeldStayActive
  BY DEF ScannerInit, HeldStayActive
<1> QED
  BY <1>1, HeldStep, PTL DEF ScannerSpec

\* A STRONG signal needs all three indicators of the day, MEDIUM of another timeframe whose bars
\* were there, and no bearish week: the default for missing bars is too weak to be the other one.
LEMMA StrongClassified ==
  ASSUME NEW n \in 0 .. 3, NEW hour \in Readings, NEW minute \in Readings, NEW week \in Weeks,
         Tempered(Combined(ClassifySignal(n), Counted(hour), Counted(minute)), week) = "STRONG"
  PROVE  /\ ClassifySignal(n) = "STRONG" /\ week # "bearish"
         /\ {hour, minute} \cap Saying # {}
<1>1. Combined(ClassifySignal(n), Counted(hour), Counted(minute)) = "STRONG" /\ week # "bearish"
  BY DEF Tempered
<1>2. /\ Rank["NONE"] = -1 /\ Rank["WEAK"] = 0 /\ Rank["MEDIUM"] = 1 /\ Rank["STRONG"] = 2
  BY DEF Rank
<1>3. ClassifySignal(n) \in Strengths
  BY DEF ClassifySignal, Strengths
<1>4. \A daily, hourly, fives \in Strengths :
        Combined(daily, hourly, fives) = "STRONG" =>
          Rank[daily] >= 2 /\ (Rank[hourly] >= 1 \/ Rank[fives] >= 1)
  BY <1>2 DEF Combined, Strengths
<1>5. \A strength \in Strengths : Rank[strength] >= 2 => strength = "STRONG"
  BY <1>2 DEF Strengths
<1>6. \A reading \in Readings :
        /\ Counted(reading) \in Strengths
        /\ Rank[Counted(reading)] >= 1 => reading \in Saying
  BY <1>2 DEF Readings, Strengths, Counted, Saying
<1> QED
  BY <1>1, <1>3, <1>4, <1>5, <1>6

LEMMA StrongStep ==
  ASSUME StrongIsAgreed, [ScannerNext]_scannerVars
  PROVE  StrongIsAgreed'
<1>1. CASE \E s \in Listed : ScanSymbol(s)
  <2>1. PICK s \in Listed : ScanSymbol(s)
    BY <1>1
  <2>2. CASE UNCHANGED signal
    BY <2>2 DEF StrongIsAgreed
  <2>3. CASE ~ UNCHANGED signal
    <3>1. PICK n \in 0 .. 3, hour \in Readings, minute \in Readings, week \in Weeks :
            signal' = [strength |-> Tempered(Combined(ClassifySignal(n), Counted(hour), Counted(minute)), week),
                       daily |-> ClassifySignal(n), others |-> {hour, minute} \cap Saying, week |-> week]
      BY <2>1, <2>3 DEF ScanSymbol
    <3> QED
      BY <3>1, StrongClassified DEF StrongIsAgreed
  <2> QED
    BY <2>2, <2>3
<1>2. CASE UNCHANGED signal
  BY <1>2 DEF StrongIsAgreed
<1>3. CASE signal' = NoSignal
  BY <1>3 DEF StrongIsAgreed, NoSignal
<1> QED
  BY <1>1, <1>2, <1>3 DEF ScannerNext, scannerVars, UniverseMoves, StartScan, Select

\* For any symbols and scans, whichever bars are missing: a STRONG signal is one that the day and
\* another timeframe that was read agree on, with no bearish week read (scanner/preprocessor.py,
\* scan_symbol).
THEOREM StrongTheorem == ScannerSpec => []StrongIsAgreed
<1>1. ScannerInit => StrongIsAgreed
  BY DEF ScannerInit, StrongIsAgreed, NoSignal
<1> QED
  BY <1>1, StrongStep, PTL DEF ScannerSpec

\* The symbols a scan works with are listed, whatever is approved or selected meanwhile.
LEMMA ScannerTypesNext == ScannerTypeOK /\ [ScannerNext]_scannerVars => ScannerTypeOK'
<1> SUFFICES ASSUME ScannerTypeOK, [ScannerNext]_scannerVars
             PROVE  ScannerTypeOK'
  OBVIOUS
<1> USE DEF ScannerTypeOK
<1>1. CASE UniverseMoves
  BY <1>1 DEF UniverseMoves
<1>2. CASE Select
  BY <1>2 DEF Select, Write
<1>3. CASE StartScan
  BY <1>3 DEF StartScan, NoSignal, Strengths, Readings, Weeks
<1>4. CASE \E s \in Listed : ScanSymbol(s)
  <2>1. PICK s \in Listed : ScanSymbol(s)
    BY <1>4
  <2>2. ASSUME NEW n \in 0 .. 3, NEW hourly, NEW fives, NEW week \in Weeks
        PROVE  /\ Tempered(Combined(ClassifySignal(n), hourly, fives), week) \in Strengths
               /\ ClassifySignal(n) \in Strengths
    BY DEF Tempered, Combined, ClassifySignal, Strengths
  <2>3. ASSUME signal' # signal
        PROVE  signal' \in [strength: Strengths, daily: Strengths, others: SUBSET Saying, week: Weeks]
    <3>1. PICK n \in 0 .. 3, hour \in Readings, minute \in Readings, week \in Weeks :
            signal' = [strength |-> Tempered(Combined(ClassifySignal(n), Counted(hour), Counted(minute)), week),
                       daily |-> ClassifySignal(n), others |-> {hour, minute} \cap Saying, week |-> week]
      BY <2>1, <2>3 DEF ScanSymbol
    <3> QED
      BY <2>2, <3>1
  <2> QED
    BY <2>1, <2>3 DEF ScanSymbol
<1>5. CASE UNCHANGED scannerVars
  BY <1>5 DEF scannerVars
<1> QED
  BY <1>1, <1>2, <1>3, <1>4, <1>5 DEF ScannerNext

\* For any exchange: what is selected, scanned and held is listed (scanner/*.py).
THEOREM ScannerTyped == ScannerSpec => []ScannerTypeOK
<1>1. ScannerInit => ScannerTypeOK
  BY DEF ScannerInit, ScannerTypeOK, NoSignal, Strengths, Readings, Weeks
<1> QED
  BY <1>1, ScannerTypesNext, PTL DEF ScannerSpec

---------------------------------------------------------------------------
(* The gateway *)

\* What the watchdog still has to run again is in the queue, entry by entry.
RetriesQueued == \A s \in Scans : watchdog.todo[s] <= missed[s]

MissedInv ==
  /\ missed \in [Scans -> Nat] /\ failed \subseteq Scans
  /\ watchdog \in [pc: {"idle", "made", "retry"}, todo: [Scans -> Nat]]
  /\ RetriesQueued /\ MissedIsQueued

LEMMA NoEntriesTyped ==
  /\ NoEntries \in [Scans -> Nat] /\ \A s \in Scans : NoEntries[s] = 0
  /\ Watching \in [pc: {"idle", "made", "retry"}, todo: [Scans -> Nat]]
  /\ Watching.todo = NoEntries
BY DEF NoEntries, Watching

LEMMA MissedInvInit == GatewayInit => MissedInv
BY NoEntriesTyped DEF GatewayInit, MissedInv, RetriesQueued, MissedIsQueued

LEMMA MissKeeps ==
  ASSUME MissedInv, NEW s \in Scans, Miss(s), UNCHANGED watchdog
  PROVE  MissedInv'
<1>1. missed' = [missed EXCEPT ![s] = missed[s] + 1] /\ failed' = failed \cup {s}
  BY DEF Miss
<1>2. /\ missed' \in [Scans -> Nat]
      /\ \A r \in Scans : missed'[r] = IF r = s THEN missed[r] + 1 ELSE missed[r]
  BY <1>1 DEF MissedInv
<1> QED
  BY <1>1, <1>2 DEF MissedInv, RetriesQueued, MissedIsQueued

LEMMA StartRetryKeeps ==
  ASSUME MissedInv, StartRetry, UNCHANGED <<missed, failed>>
  PROVE  MissedInv'
BY NoEntriesTyped DEF StartRetry, MissedInv, RetriesQueued, MissedIsQueued

LEMMA RetryKeeps ==
  ASSUME MissedInv, NEW s \in Scans, RetryDone(s) \/ RetryFailed(s)
  PROVE  MissedInv'
<1> DEFINE rest == Without(watchdog.todo, s)
<1>1. watchdog.todo \in [Scans -> Nat] /\ missed \in [Scans -> Nat]
  BY DEF MissedInv
<1>2. watchdog.todo[s] > 0 /\ missed[s] > 0
  BY <1>1 DEF RetryDone, RetryFailed, NextRetry, MissedInv, RetriesQueued
<1>3. /\ rest \in [Scans -> Nat]
      /\ \A r \in Scans : rest[r] = IF r = s THEN watchdog.todo[r] - 1 ELSE watchdog.todo[r]
  BY <1>1, <1>2 DEF Without
<1>4. /\ Without(missed, s) \in [Scans -> Nat]
      /\ \A r \in Scans : Without(missed, s)[r] = IF r = s THEN missed[r] - 1 ELSE missed[r]
  BY <1>1, <1>2 DEF Without
<1>5. watchdog' = IF rest = NoEntries THEN Watching ELSE [pc |-> "retry", todo |-> rest]
  BY DEF RetryDone, RetryFailed, NextRetry
<1> HIDE DEF rest
<1>6. /\ watchdog' \in [pc: {"idle", "made", "retry"}, todo: [Scans -> Nat]]
      /\ watchdog'.todo = rest
  BY <1>3, <1>5, NoEntriesTyped
<1>7. CASE RetryDone(s)
  <2>1. missed' = Without(missed, s) /\ failed' = failed \ {s}
    BY <1>7 DEF RetryDone
  <2>2. RetriesQueued'
    BY <1>1, <1>3, <1>4, <1>6, <2>1 DEF MissedInv, RetriesQueued
  <2>3. MissedIsQueued'
    BY <1>4, <2>1 DEF MissedInv, MissedIsQueued
  <2> QED
    BY <1>4, <1>6, <2>1, <2>2, <2>3 DEF MissedInv
<1>8. CASE RetryFailed(s)
  <2>1. UNCHANGED <<missed, failed>>
    BY <1>8 DEF RetryFailed
  <2>2. RetriesQueued'
    BY <1>1, <1>3, <1>6, <2>1 DEF MissedInv, RetriesQueued
  <2> QED
    BY <1>6, <2>1, <2>2 DEF MissedInv, MissedIsQueued
<1> QED
  BY <1>7, <1>8

LEMMA MissedInvNext == MissedInv /\ [GatewayNext]_gatewayVars => MissedInv'
<1> SUFFICES ASSUME MissedInv, [GatewayNext]_gatewayVars
             PROVE  MissedInv'
  OBVIOUS
<1>1. CASE \E s \in Scans : Miss(s) /\ UNCHANGED watchdog
  BY <1>1, MissKeeps
<1>2. CASE UNCHANGED <<missed, failed, watchdog>>
  BY <1>2 DEF MissedInv, RetriesQueued, MissedIsQueued
<1>3. CASE \E s \in Scans : PreOpenDone(s)
  BY <1>3 DEF PreOpenDone, MissedInv, RetriesQueued, MissedIsQueued
<1>4. CASE WatchdogMakesClient
  <2>1. watchdog' = [pc |-> "made", todo |-> NoEntries] /\ UNCHANGED <<missed, failed>>
    BY <1>4 DEF WatchdogMakesClient
  <2> QED
    BY <2>1, NoEntriesTyped DEF MissedInv, RetriesQueued, MissedIsQueued
<1>5. CASE watchdog' = Watching /\ UNCHANGED <<missed, failed>>
  BY <1>5, NoEntriesTyped DEF MissedInv, RetriesQueued, MissedIsQueued
<1>6. CASE StartRetry /\ UNCHANGED <<missed, failed>>
  BY <1>6, StartRetryKeeps
<1>7. CASE \E s \in Scans : RetryDone(s) \/ RetryFailed(s)
  BY <1>7, RetryKeeps
<1>8. CASE Watchdog
  BY <1>4, <1>5, <1>6, <1>7, <1>8 DEF Watchdog, WatchdogReconciles, WatchdogReconnects
<1>9. CASE \E s \in Scans : PreOpenOmitted(s) \/ PreOpenStart(s) \/ PreOpenDone(s) \/ PreOpenFailed(s)
  BY <1>1, <1>2, <1>3, <1>9 DEF PreOpenOmitted, PreOpenStart, PreOpenFailed
<1> QED
  BY <1>2, <1>8, <1>9
     DEF GatewayNext, gatewayVars, GatewayUp, GatewayDown, CallConnects, WaitForGateway, MakeClient,
         MakeClientFailed

\* For any scans, outages and retries: a scan that was missed and not run since is in the
\* queue (runner.py, _retry_missed_scans).
THEOREM MissedTheorem == GatewaySpec => []MissedIsQueued
<1>1. MissedInv => MissedIsQueued
  BY DEF MissedInv
<1> QED
  BY <1>1, MissedInvInit, MissedInvNext, PTL DEF GatewaySpec

\* Who is connected, and that a connection needs the gateway and a client.
ConnectionOK ==
  /\ online \in BOOLEAN /\ connected \in BOOLEAN
  /\ client \in {"none", "made"}
  /\ boot \in {"waiting", "connecting", "running"}
  /\ preopen \in [Scans -> {"idle", "running"}]
  /\ connected => online /\ client = "made"

QueueBounded == \A s \in Scans : missed[s] <= MaxMissed

LEMMA ConnectionStep == ConnectionOK /\ [GatewayNext]_gatewayVars => ConnectionOK'
<1> SUFFICES ASSUME ConnectionOK, [GatewayNext]_gatewayVars
             PROVE  ConnectionOK'
  OBVIOUS
<1> USE DEF ConnectionOK
<1>1. CASE GatewayUp
  BY <1>1 DEF GatewayUp
<1>11. CASE GatewayDown
  BY <1>11 DEF GatewayDown
<1>12. CASE CallConnects
  BY <1>12 DEF CallConnects
<1>2. CASE WaitForGateway \/ MakeClientFailed
  BY <1>2 DEF WaitForGateway, MakeClientFailed
<1>3. CASE MakeClient
  <2>1. /\ boot' = "running" /\ client' = "made" /\ UNCHANGED <<online, preopen>>
        /\ connected' = FALSE \/ connected' = online
    BY <1>3 DEF MakeClient
  <2>2. CASE connected' = FALSE
    BY <2>1, <2>2
  <2>3. CASE connected' = online
    BY <2>1, <2>3
  <2> QED
    BY <2>1, <2>2, <2>3
<1>4. CASE \E s \in Scans : PreOpenStart(s) \/ PreOpenDone(s) \/ PreOpenFailed(s)
  <2>1. preopen' \in [Scans -> {"idle", "running"}]
    BY <1>4 DEF PreOpenStart, PreOpenDone, PreOpenFailed
  <2>2. UNCHANGED <<online, connected, client, boot>>
    BY <1>4 DEF PreOpenStart, PreOpenDone, PreOpenFailed
  <2> QED
    BY <2>1, <2>2
<1>5. CASE WatchdogMakesClient
  BY <1>5 DEF WatchdogMakesClient
<1>6. CASE WatchdogReconnects
  BY <1>6 DEF WatchdogReconnects
<1>7. CASE UNCHANGED <<online, connected, client, boot, preopen>>
  BY <1>7
<1> QED
  BY <1>1, <1>11, <1>12, <1>2, <1>3, <1>4, <1>5, <1>6, <1>7
     DEF GatewayNext, Watchdog, PreOpenOmitted, WatchdogReconciles, RetryDone, RetryFailed,
         NextRetry,
         gatewayVars

\* The queue grows by Miss alone, and shrinks where it has an entry.
LEMMA QueueStep ==
  ASSUME MissedInv, QueueBounded, [GatewayNext]_gatewayVars
  PROVE  QueueBounded'
<1>0. missed \in [Scans -> Nat] /\ MaxMissed \in Nat
  BY GatewayAssumption DEF MissedInv
<1>1. CASE \E s \in Scans : Miss(s)
  BY <1>0, <1>1 DEF Miss, QueueBounded
<1>2. CASE \E s \in Scans : missed' = Without(missed, s)
  BY <1>0, <1>2 DEF Without, QueueBounded
<1>3. CASE UNCHANGED missed
  BY <1>3 DEF QueueBounded
<1> QED
  BY <1>1, <1>2, <1>3
     DEF GatewayNext, Watchdog, gatewayVars, GatewayUp, GatewayDown, CallConnects, WaitForGateway,
         MakeClient, MakeClientFailed, PreOpenOmitted, PreOpenStart, PreOpenDone, PreOpenFailed,
         WatchdogMakesClient, WatchdogReconciles, WatchdogReconnects, RetryDone, RetryFailed

GatewayTypes == MissedInv /\ ConnectionOK /\ QueueBounded

\* What is bounded in the queue is bounded in what the watchdog copied from it.
LEMMA GatewayTypesOK == GatewayTypes => GatewayTypeOK
<1> SUFFICES ASSUME GatewayTypes PROVE GatewayTypeOK
  OBVIOUS
<1>1. missed \in [Scans -> 0 .. MaxMissed]
  BY GatewayAssumption DEF GatewayTypes, MissedInv, QueueBounded
<1>2. watchdog.todo \in [Scans -> 0 .. MaxMissed]
  BY <1>1, GatewayAssumption DEF GatewayTypes, MissedInv, RetriesQueued
<1>3. watchdog \in [pc: {"idle", "made", "retry"}, todo: [Scans -> 0 .. MaxMissed]]
  BY <1>2 DEF GatewayTypes, MissedInv
<1> QED
  BY <1>1, <1>3 DEF GatewayTypes, MissedInv, ConnectionOK, GatewayTypeOK

\* For any scans: the queue and the watchdog's copy of it stay within their bounds, and nobody
\* is connected without the gateway and a client (runner.py, _check_gateway_and_reconnect).
THEOREM GatewayTyped == GatewaySpec => []GatewayTypeOK
<1>1. GatewayInit => GatewayTypes
  <2>1. GatewayInit => ConnectionOK
    BY DEF GatewayInit, ConnectionOK
  <2>2. GatewayInit => QueueBounded
    BY GatewayAssumption DEF GatewayInit, QueueBounded, NoEntries
  <2> QED
    BY <2>1, <2>2, MissedInvInit DEF GatewayTypes
<1>2. GatewayTypes /\ [GatewayNext]_gatewayVars => GatewayTypes'
  BY MissedInvNext, ConnectionStep, QueueStep DEF GatewayTypes
<1> QED
  BY <1>1, <1>2, GatewayTypesOK, PTL DEF GatewaySpec

---------------------------------------------------------------------------
(* The bot *)

\* What is left of a command is an end of what its handler calls.
LeftOf(all, calls) == \E n \in 0 .. Len(all) : calls = SubSeq(all, n + 1, Len(all))
Serving ==
  /\ DOMAIN command = {"name", "calls"}
  /\ command.name \in DOMAIN Handlers
  /\ LeftOf(Handlers[command.name], command.calls)

\* Messages and timers are made of what the owner may still send.
BotTypes ==
  /\ bot \in {"down", "polling", "dead"} /\ behind \in BOOLEAN
  /\ inbox \in [waiting: Nat, unsent: Nat] /\ silence \in [on: BOOLEAN, timers: Nat]
  /\ inbox.waiting + inbox.unsent + silence.timers <= MaxCommands
  /\ writes \in 0 .. MaxWrites
CommandTyped == command = NoCommand \/ Serving

IsList(l) == \E S : l \in Seq(S)
OnlyLists(g) == \A name \in DOMAIN g : IsList(g[name])

LEMMA ShortLists ==
  ASSUME NEW a, NEW b, NEW c, NEW d
  PROVE  IsList(<<>>) /\ IsList(<<a>>) /\ IsList(<<a, b>>) /\ IsList(<<a, b, c>>) /\ IsList(<<a, b, c, d>>)
<1>1. <<>> \in Seq({a}) /\ <<a>> \in Seq({a})
  OBVIOUS
<1>2. <<a, b>> \in Seq({a, b}) /\ <<a, b, c>> \in Seq({a, b, c})
  OBVIOUS
<1>3. <<a, b, c, d>> \in Seq({a, b, c, d})
  OBVIOUS
<1> QED
  BY <1>1, <1>2, <1>3 DEF IsList

LEMMA HandlersAreLists == OnlyLists(Handlers)
<1>1. OnlyLists(Positions)
  <2>1. IsList(Positions["estado"]) /\ IsList(Positions["posiciones"])
    BY ShortLists DEF Positions
  <2> QED
    BY <2>1 DEF OnlyLists, Positions
<1>2. OnlyLists(History)
  <2>1. IsList(History["historial"])
    BY ShortLists DEF History
  <2> QED
    BY <2>1 DEF OnlyLists, History
<1>3. OnlyLists(Lookups)
  <2>1. IsList(Lookups["senales"]) /\ IsList(Lookups["simbolos"]) /\ IsList(Lookups["costos"])
    BY ShortLists DEF Lookups
  <2> QED
    BY <2>1 DEF OnlyLists, Lookups
<1>4. OnlyLists(Orders)
  <2>1. /\ IsList(Orders["pausar"]) /\ IsList(Orders["reanudar"]) /\ IsList(Orders["stop"])
       /\ IsList(Orders["cerrar"]) /\ IsList(Orders["modo"]) /\ IsList(Orders["aprobar"])
    BY ShortLists DEF Orders
  <2> QED
    BY <2>1 DEF OnlyLists, Orders
<1>5. OnlyLists(Diagnosis)
  <2>1. IsList(Diagnosis["diagnostico"])
    BY ShortLists DEF Diagnosis
  <2> QED
    BY <2>1 DEF OnlyLists, Diagnosis
<1>6. OnlyLists(Help)
  <2>1. IsList(Help["ayuda"])
    BY ShortLists DEF Help
  <2> QED
    BY <2>1 DEF OnlyLists, Help
<1>7. OnlyLists(Analyses)
  <2>1. IsList(Analyses["analizar"]) /\ IsList(Analyses["proponer"]) /\ IsList(Analyses["texto"])
    BY ShortLists DEF Analyses
  <2> QED
    BY <2>1 DEF OnlyLists, Analyses
<1>8. OnlyLists(AlertCommands)
  <2>1. IsList(AlertCommands["alerta"]) /\ IsList(AlertCommands["alertas"]) /\ IsList(AlertCommands["eliminar_alerta"])
    BY ShortLists DEF AlertCommands
  <2> QED
    BY <2>1 DEF OnlyLists, AlertCommands
<1>9. OnlyLists(Backtest)
  <2>1. IsList(Backtest["backtest"])
    BY ShortLists DEF Backtest
  <2> QED
    BY <2>1 DEF OnlyLists, Backtest
<1>10. OnlyLists(Quiets)
  <2>1. IsList(Quiets["notificaciones"]) /\ IsList(Quiets["silencio"])
    BY ShortLists DEF Quiets
  <2> QED
    BY <2>1 DEF OnlyLists, Quiets
<1>11. OnlyLists(Markets)
  <2>1. IsList(Markets["mercados"])
    BY ShortLists DEF Markets
  <2> QED
    BY <2>1 DEF OnlyLists, Markets
<1>12. OnlyLists(ReportCommand)
  <2>1. IsList(ReportCommand["reporte"])
    BY ShortLists DEF ReportCommand
  <2> QED
    BY <2>1 DEF OnlyLists, ReportCommand
<1>13. \A g \in Groups : OnlyLists(g)
  BY <1>1, <1>2, <1>3, <1>4, <1>5, <1>6, <1>7, <1>8, <1>9, <1>10, <1>11, <1>12 DEF Groups
<1> QED
  <2> SUFFICES ASSUME NEW name \in UNION {DOMAIN g : g \in Groups}
               PROVE  IsList(Handlers[name]) /\ name \in DOMAIN Handlers
    BY DEF OnlyLists, Handlers
  <2> DEFINE g == CHOOSE g \in Groups : name \in DOMAIN g
  <2>1. g \in Groups /\ name \in DOMAIN g
    OBVIOUS
  <2>2. Handlers[name] = g[name] /\ name \in DOMAIN Handlers
    BY DEF Handlers
  <2> HIDE DEF g
  <2> QED
    BY <1>13, <2>1, <2>2 DEF OnlyLists

LEMMA EndsOfLists ==
  ASSUME NEW all, IsList(all)
  PROVE  /\ LeftOf(all, all) /\ LeftOf(all, <<>>)
         /\ \A calls : LeftOf(all, calls) /\ calls # <<>> => LeftOf(all, Tail(calls))
<1>1. PICK S : all \in Seq(S)
  BY DEF IsList
<1>2. all = SubSeq(all, 1, Len(all)) /\ Len(all) \in Nat
  BY <1>1
<1>3. <<>> = SubSeq(all, Len(all) + 1, Len(all))
  BY <1>1, <1>2
<1>4. ASSUME NEW calls, LeftOf(all, calls), calls # <<>> PROVE LeftOf(all, Tail(calls))
  <2>1. PICK n \in 0 .. Len(all) : calls = SubSeq(all, n + 1, Len(all))
    BY <1>4 DEF LeftOf
  <2>2. n < Len(all)
    BY <1>2, <1>4, <2>1, SubSeqEmpty
  <2>3. Tail(calls) = SubSeq(all, n + 2, Len(all))
    BY <1>1, <1>2, <2>1, <2>2, HeadTailOfSubSeq
  <2>4. n + 1 \in 0 .. Len(all) /\ Tail(calls) = SubSeq(all, (n + 1) + 1, Len(all))
    BY <1>2, <2>2, <2>3
  <2> QED
    BY <2>4 DEF LeftOf
<1>5. LeftOf(all, all)
  <2>1. 0 \in 0 .. Len(all) /\ all = SubSeq(all, 0 + 1, Len(all))
    BY <1>2
  <2> QED
    BY <2>1 DEF LeftOf
<1>6. LeftOf(all, <<>>)
  <2>1. Len(all) \in 0 .. Len(all) /\ <<>> = SubSeq(all, Len(all) + 1, Len(all))
    BY <1>2, <1>3
  <2> QED
    BY <2>1 DEF LeftOf
<1> QED
  BY <1>4, <1>5, <1>6

LEMMA BotTypesInit == BotInit => BotTypes /\ CommandTyped
<1> SUFFICES ASSUME BotInit PROVE BotTypes /\ CommandTyped
  OBVIOUS
<1>1. bot \in {"down", "polling", "dead"} /\ behind \in BOOLEAN
  BY DEF BotInit
<1>2. /\ inbox = [waiting |-> 0, unsent |-> MaxCommands] /\ silence = [on |-> FALSE, timers |-> 0]
      /\ writes = 0 /\ MaxCommands \in Nat /\ MaxWrites \in Nat /\ command = NoCommand
  BY BotAssumption DEF BotInit
<1>3. inbox \in [waiting: Nat, unsent: Nat] /\ silence \in [on: BOOLEAN, timers: Nat]
  BY <1>2
<1>4. inbox.waiting + inbox.unsent + silence.timers <= MaxCommands /\ writes \in 0 .. MaxWrites
  BY <1>2
<1> QED
  BY <1>1, <1>2, <1>3, <1>4 DEF BotTypes, CommandTyped

LEMMA BotTypesNext == BotTypes /\ [BotNext]_botVars => BotTypes'
<1> SUFFICES ASSUME BotTypes, [BotNext]_botVars
             PROVE  BotTypes'
  OBVIOUS
<1>1. bot' \in {"down", "polling", "dead"}
  BY DEF BotTypes, BotNext, BotStep, BotStarts, BotFails, ProcessEnds, OwnerWrites, SilenceEnds,
     Ignore,
         Serve, Silence, Stop, GiveUpCall, WaitNoMore, CallReturns, Reply, ApiAnswers,
         BacktestAnswers,
         ChangedLate, CommandRaises, botVars
<1>2. behind' \in BOOLEAN
  BY DEF BotTypes, BotNext, BotStep, BotStarts, BotFails, ProcessEnds, OwnerWrites, SilenceEnds,
     Ignore,
         Serve, Silence, Stop, GiveUpCall, WaitNoMore, CallReturns, Reply, ApiAnswers,
         BacktestAnswers,
         ChangedLate, CommandRaises, botVars
<1>3. writes' \in 0 .. MaxWrites
  <2>1. writes' = writes \/ (writes < MaxWrites /\ writes' = writes + 1)
    BY DEF BotNext, BotStep, BotStarts, BotFails, ProcessEnds, OwnerWrites, SilenceEnds, Ignore,
           Serve, Silence, Stop, GiveUpCall, WaitNoMore, CallReturns, Reply, ApiAnswers,
           BacktestAnswers,
           ChangedLate, CommandRaises, botVars
  <2> QED
    BY <2>1, BotAssumption DEF BotTypes
<1>4. \/ UNCHANGED <<inbox, silence>>
      \/ UNCHANGED silence /\ inbox' = [inbox EXCEPT !.waiting = 0]
      \/ UNCHANGED silence /\ inbox' = [waiting |-> inbox.waiting + 1, unsent |-> inbox.unsent - 1]
           /\ inbox.unsent > 0
      \/ UNCHANGED silence /\ Took /\ inbox.waiting > 0
      \/ Took /\ inbox.waiting > 0 /\ silence' = [on |-> TRUE, timers |-> silence.timers + 1]
      \/ UNCHANGED inbox /\ silence' = [on |-> FALSE, timers |-> silence.timers - 1] /\ silence.timers > 0
      \/ Took /\ inbox.waiting > 0 /\ silence' = [on |-> FALSE, timers |-> 0]
      \/ UNCHANGED inbox /\ silence' = [on |-> FALSE, timers |-> 0]
  BY DEF BotNext, BotStep, BotStarts, BotFails, ProcessEnds, OwnerWrites, SilenceEnds, Ignore,
         Serve, Silence, Stop, GiveUpCall, WaitNoMore, CallReturns, Reply, ApiAnswers,
         BacktestAnswers,
         ChangedLate, CommandRaises, Listening, botVars
<1> DEFINE Kept == /\ inbox' \in [waiting: Nat, unsent: Nat] /\ silence' \in [on: BOOLEAN, timers: Nat]
                   /\ inbox'.waiting + inbox'.unsent + silence'.timers <= MaxCommands
<1>5. Kept
  <2>0. /\ inbox \in [waiting: Nat, unsent: Nat] /\ silence \in [on: BOOLEAN, timers: Nat]
        /\ inbox.waiting + inbox.unsent + silence.timers <= MaxCommands /\ MaxCommands \in Nat
    BY BotAssumption DEF BotTypes
  <2>01. Took /\ inbox.waiting > 0 =>
           inbox' \in [waiting: Nat, unsent: Nat] /\ inbox'.unsent = inbox.unsent
             /\ inbox'.waiting = inbox.waiting - 1
    BY <2>0 DEF Took
  <2>1. CASE UNCHANGED <<inbox, silence>>
    BY <2>0, <2>1
  <2>2. CASE UNCHANGED silence /\ inbox' = [inbox EXCEPT !.waiting = 0]
    BY <2>0, <2>2
  <2>3. CASE UNCHANGED silence /\ inbox' = [waiting |-> inbox.waiting + 1, unsent |-> inbox.unsent - 1]
             /\ inbox.unsent > 0
    BY <2>0, <2>3
  <2>4. CASE UNCHANGED silence /\ Took /\ inbox.waiting > 0
    BY <2>0, <2>01, <2>4
  <2>5. CASE Took /\ inbox.waiting > 0 /\ silence' = [on |-> TRUE, timers |-> silence.timers + 1]
    BY <2>0, <2>01, <2>5
  <2>6. CASE UNCHANGED inbox /\ silence' = [on |-> FALSE, timers |-> silence.timers - 1] /\ silence.timers > 0
    BY <2>0, <2>6
  <2>7. CASE Took /\ inbox.waiting > 0 /\ silence' = [on |-> FALSE, timers |-> 0]
    BY <2>0, <2>01, <2>7
  <2>8. CASE UNCHANGED inbox /\ silence' = [on |-> FALSE, timers |-> 0]
    BY <2>0, <2>8
  <2> QED
    BY <1>4, <2>1, <2>2, <2>3, <2>4, <2>5, <2>6, <2>7, <2>8
<1> QED
  BY <1>1, <1>2, <1>3, <1>5, Zenon DEF BotTypes

LEMMA CommandTypedNext == CommandTyped /\ [BotNext]_botVars => CommandTyped'
<1> SUFFICES ASSUME CommandTyped, [BotNext]_botVars
             PROVE  CommandTyped'
  OBVIOUS
<1>1. CASE command' = NoCommand \/ UNCHANGED command
  BY <1>1 DEF CommandTyped, Serving
<1>2. CASE Serve
  <2>1. PICK name \in DOMAIN Handlers : command' = [name |-> name, calls |-> Handlers[name]]
    BY <1>2 DEF Serve
  <2>2. LeftOf(Handlers[name], Handlers[name])
    BY HandlersAreLists, EndsOfLists DEF OnlyLists
  <2>3. command'.name = name /\ command'.calls = Handlers[name] /\ name \in DOMAIN Handlers
        /\ DOMAIN command' = {"name", "calls"}
    BY <2>1
  <2> QED
    BY <2>2, <2>3 DEF CommandTyped, Serving
<1>3. CASE Calling /\ \E shown \in BOOLEAN : NextCall(shown)
  <2>1. command.calls # <<>> /\ command # NoCommand /\ Serving
    BY <1>3 DEF Calling, CommandTyped, NoCommand
  <2>2. command' = [command EXCEPT !.calls = <<>>] \/ command' = [command EXCEPT !.calls = Tail(@)]
    BY <1>3 DEF NextCall
  <2>3. LeftOf(Handlers[command.name], <<>>) /\ LeftOf(Handlers[command.name], Tail(command.calls))
    BY <2>1, HandlersAreLists, EndsOfLists DEF Serving, OnlyLists
  <2>4. /\ command'.name = command.name /\ DOMAIN command' = DOMAIN command
        /\ command'.calls = <<>> \/ command'.calls = Tail(command.calls)
    BY <2>1, <2>2 DEF Serving
  <2> QED
    BY <2>1, <2>3, <2>4 DEF CommandTyped, Serving
<1> QED
  BY <1>1, <1>2, <1>3
     DEF BotNext, BotStep, BotStarts, BotFails, ProcessEnds, OwnerWrites, SilenceEnds, Ignore,
         Silence, Stop, GiveUpCall, WaitNoMore, CallReturns, Reply, ApiAnswers, BacktestAnswers,
         ChangedLate, CommandRaises, botVars

\* For any number of messages: what the bot still has to call for a command is always an end of
\* the list that its handler calls, and no message or timer of silence comes from nowhere
\* (api/telegram_bot.py, the handlers and _api).
THEOREM BotTyped == BotSpec => []BotTypeOK
<1>1. BotTypes /\ CommandTyped => BotTypeOK
  <2> SUFFICES ASSUME BotTypes, CommandTyped PROVE BotTypeOK
    OBVIOUS
  <2>1. inbox \in [waiting: 0..MaxCommands, unsent: 0..MaxCommands] /\ writes \in 0 .. MaxWrites
    BY BotAssumption DEF BotTypes
  <2>2. silence.timers \in 0 .. MaxCommands
    BY BotAssumption DEF BotTypes
  <2>3. silence \in [on: BOOLEAN, timers: 0..MaxCommands]
    BY <2>2 DEF BotTypes
  <2>4. bot \in {"down", "polling", "dead"} /\ behind \in BOOLEAN
    BY DEF BotTypes
  <2>5. \/ command = NoCommand
        \/ /\ command.name \in DOMAIN Handlers
           /\ LET all == Handlers[command.name]
              IN \E n \in 0..Len(all) : command.calls = SubSeq(all, n + 1, Len(all))
    BY DEF CommandTyped, Serving, LeftOf
  <2> QED
    BY <2>1, <2>3, <2>4, <2>5, Zenon DEF BotTypeOK
<1> QED
  BY <1>1, BotTypesInit, BotTypesNext, CommandTypedNext, PTL DEF BotSpec
=============================================================================
