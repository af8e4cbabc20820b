------------------------------- MODULE Gateway -------------------------------
(***************************************************************************)
(* The connection to IB Gateway and the pre-open scans that need it.  Every*)
(* call of the client connects first when it has to; the watchdog job      *)
(* looks at the connection every five minutes, and runs again the scans    *)
(* that were missed when it is the one that connected.                     *)
(***************************************************************************)
EXTENDS Naturals

CONSTANTS
  Scans,     \* pre-open scans, each of a market and a day
  MaxMissed  \* bound: entries of one scan in the queue of missed scans

ASSUME GatewayAssumption == MaxMissed \in Nat \ {0}

VARIABLES
  online,     \* whether the gateway accepts connections
  connected,  \* ib.isConnected() of the client
  client,     \* _ib_client_ref["client"], and with it the data layer
  boot,       \* where start_system is
  missed,     \* _MISSING_SCAN_JOBS: how many entries each scan has
  failed,     \* scans whose job found no connection, or failed, and not run since
  preopen,    \* the job of each scan
  watchdog    \* the watchdog: where it is, and the entries it has still to retry

gatewayVars == <<online, connected, client, boot, missed, failed, preopen, watchdog>>

NoEntries == [s \in Scans |-> 0]
Watching == [pc |-> "idle", todo |-> NoEntries]

GatewayInit ==
  /\ online \in BOOLEAN
  /\ connected = FALSE
  /\ client = "none" /\ boot = "waiting"
  /\ missed = NoEntries /\ failed = {}
  /\ preopen = [s \in Scans |-> "idle"]
  /\ watchdog = Watching

GatewayTypeOK ==
  /\ online \in BOOLEAN /\ connected \in BOOLEAN
  /\ client \in {"none", "made"}
  /\ boot \in {"waiting", "connecting", "running"}
  /\ missed \in [Scans -> 0 .. MaxMissed]
  /\ failed \subseteq Scans
  /\ preopen \in [Scans -> {"idle", "running"}]
  /\ watchdog \in [pc: {"idle", "made", "retry"}, todo: [Scans -> 0 .. MaxMissed]]
  /\ connected => online /\ client = "made"

---------------------------------------------------------------------------
(* The gateway, and whoever calls the client *)

GatewayUp ==
  /\ ~online
  /\ online' = TRUE
  /\ UNCHANGED <<connected, client, boot, missed, failed, preopen, watchdog>>

\* The socket of the client is closed with it.
GatewayDown ==
  /\ online
  /\ online' = FALSE /\ connected' = FALSE
  /\ UNCHANGED <<client, boot, missed, failed, preopen, watchdog>>

\* Each coroutine of the client awaits _connect_async first.
CallConnects ==
  /\ client = "made" /\ online /\ ~connected
  /\ connected' = TRUE
  /\ UNCHANGED <<online, client, boot, missed, failed, preopen, watchdog>>

---------------------------------------------------------------------------
(* start_system *)

\* The gateway answers, or ten minutes are over.
WaitForGateway ==
  /\ boot = "waiting"
  /\ boot' = "connecting"
  /\ UNCHANGED <<online, connected, client, missed, failed, preopen, watchdog>>

\* Three attempts, after which the client is there without a connection.
MakeClient ==
  /\ boot = "connecting"
  /\ boot' = "running" /\ client' = "made"
  /\ connected' \in {FALSE, online}
  /\ UNCHANGED <<online, missed, failed, preopen, watchdog>>

\* The constructor itself raised: the system starts without a client.
MakeClientFailed ==
  /\ boot = "connecting"
  /\ boot' = "running"
  /\ UNCHANGED <<online, connected, client, missed, failed, preopen, watchdog>>

---------------------------------------------------------------------------
(* The job of a pre-open scan *)

Miss(s) ==
  /\ missed[s] < MaxMissed
  /\ missed' = [missed EXCEPT ![s] = @ + 1]
  /\ failed' = failed \cup {s}

\* No client, or one that is not connected.
PreOpenOmitted(s) ==
  /\ boot = "running" /\ preopen[s] = "idle"
  /\ ~connected
  /\ Miss(s)
  /\ UNCHANGED <<online, connected, client, boot, preopen, watchdog>>

PreOpenStart(s) ==
  /\ boot = "running" /\ preopen[s] = "idle"
  /\ connected
  /\ preopen' = [preopen EXCEPT ![s] = "running"]
  /\ UNCHANGED <<online, connected, client, boot, missed, failed, watchdog>>

PreOpenDone(s) ==
  /\ preopen[s] = "running"
  /\ preopen' = [preopen EXCEPT ![s] = "idle"]
  /\ failed' = failed \ {s}
  /\ UNCHANGED <<online, connected, client, boot, missed, watchdog>>

PreOpenFailed(s) ==
  /\ preopen[s] = "running"
  /\ preopen' = [preopen EXCEPT ![s] = "idle"]
  /\ Miss(s)
  /\ UNCHANGED <<online, connected, client, boot, watchdog>>

---------------------------------------------------------------------------
(* _check_gateway_and_reconnect *)

WatchdogAt(pc) == boot = "running" /\ watchdog.pc = pc

\* _retry_missed_scans goes through a copy of the queue, in an order that is left open.
StartRetry ==
  watchdog' = IF missed = NoEntries THEN Watching ELSE [pc |-> "retry", todo |-> missed]

\* The client is made now if start_system could not; a client is made even if it cannot connect.
WatchdogMakesClient ==
  /\ WatchdogAt("idle")
  /\ client = "none" /\ online
  /\ client' = "made"
  /\ connected' \in BOOLEAN
  /\ watchdog' = [pc |-> "made", todo |-> NoEntries]
  /\ UNCHANGED <<online, boot, missed, failed, preopen>>

\* Positions are reconciled before the scans are run again, or that raises and they are not.
WatchdogReconciles ==
  /\ WatchdogAt("made")
  /\ StartRetry \/ watchdog' = Watching
  /\ UNCHANGED <<online, connected, client, boot, missed, failed, preopen>>

\* Mutant of WatchdogReconnects: only a client that start_system made is reconnected, as
\* long as no scan waits.
ReconnectsWhenNothingMissed ==
  /\ WatchdogAt("idle")
  /\ client = "made" /\ ~connected /\ online /\ missed = NoEntries
  /\ connected' = TRUE
  /\ StartRetry
  /\ UNCHANGED <<online, client, boot, missed, failed, preopen>>

\* A connection that is up is only noted, and one that cannot be made is tried again in
\* five minutes.
WatchdogReconnects ==
  /\ WatchdogAt("idle")
  /\ client = "made" /\ ~connected /\ online
  /\ connected' = TRUE
  /\ StartRetry
  /\ UNCHANGED <<online, client, boot, missed, failed, preopen>>

Without(entries, s) == [entries EXCEPT ![s] = @ - 1]

\* On to the next entry of the copy, or the end of the job.
NextRetry(s) ==
  /\ WatchdogAt("retry") /\ watchdog.todo[s] > 0
  /\ LET rest == Without(watchdog.todo, s)
     IN  watchdog' = IF rest = NoEntries THEN Watching ELSE [pc |-> "retry", todo |-> rest]
  /\ UNCHANGED <<online, connected, client, boot, preopen>>

RetryDone(s) ==
  /\ NextRetry(s)
  /\ failed' = failed \ {s}
  /\ missed' = Without(missed, s)

\* Mutant of RetryFailed: the scan is taken out of the queue before it is run.
RetryFailedAndDropped(s) ==
  /\ NextRetry(s)
  /\ missed' = Without(missed, s)
  /\ UNCHANGED failed

RetryFailed(s) ==
  /\ NextRetry(s)
  /\ UNCHANGED <<missed, failed>>

Watchdog ==
  \/ WatchdogMakesClient \/ WatchdogReconciles \/ WatchdogReconnects
  \/ \E s \in Scans : RetryDone(s) \/ RetryFailed(s)

GatewayNext ==
  \/ GatewayUp \/ GatewayDown \/ CallConnects
  \/ WaitForGateway \/ MakeClient \/ MakeClientFailed
  \/ \E s \in Scans : PreOpenOmitted(s) \/ PreOpenStart(s) \/ PreOpenDone(s) \/ PreOpenFailed(s)
  \/ Watchdog

GatewaySpec == GatewayInit /\ [][GatewayNext]_gatewayVars

\* The process starts, the watchdog job runs again and again, and its scans end.
GatewayFairness ==
  /\ WF_gatewayVars(WaitForGateway)
  /\ WF_gatewayVars(MakeClient \/ MakeClientFailed)
  /\ WF_gatewayVars(Watchdog)

---------------------------------------------------------------------------
(* Properties that hold *)

\* A scan that was missed and not run since is in the queue: the watchdog takes an entry out
\* only after it has run the scan, whatever the scheduler appends meanwhile.
MissedIsQueued == \A s \in failed : missed[s] > 0

\* While the gateway is up the bot comes to be connected, however it was started.
ConnectionComesBack == []<>(connected \/ ~online)
=============================================================================
