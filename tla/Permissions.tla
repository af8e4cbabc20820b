----------------------------- MODULE Permissions -----------------------------
(***************************************************************************)
(* Which markets the account may trade: a discovery connects to the        *)
(* gateway as client 98 and asks about a contract of each market; what it  *)
(* finds are the rows of market_permissions, which the reports show until  *)
(* they are old.  The gateway refuses a second connection of a client.     *)
(***************************************************************************)
EXTENDS Naturals

CONSTANTS
  Probers,   \* the threads that may discover: the daily job, the bot, the requests
  Probed,    \* the markets of _PROBE_CONTRACTS
  Nobody98   \* no prober

ASSUME PermissionAssumption == Nobody98 \notin Probers

VARIABLES
  known,     \* market_permissions: whether there are rows, which are available, and their age
  clientId,  \* who is connected as client 98
  prober,    \* where each discovery is, the markets it has still to ask about, those it found
  reported   \* the markets the last report shows as available, or "nothing" when it has no row

permissionVars == <<known, clientId, prober, reported>>

NoProbe == [pc |-> "idle", todo |-> {}, found |-> {}]

PermissionInit ==
  /\ known = [there |-> FALSE, available |-> {}, old |-> FALSE]
  /\ clientId = Nobody98
  /\ prober = [p \in Probers |-> NoProbe]
  /\ reported = [there |-> FALSE, available |-> {}]

PermissionTypeOK ==
  /\ known \in [there: BOOLEAN, available: SUBSET Probed, old: BOOLEAN]
  /\ clientId \in Probers \cup {Nobody98}
  /\ prober \in [Probers -> [pc: {"idle", "connect", "handshake", "probe", "save"},
                             todo: SUBSET Probed, found: SUBSET Probed]]
  /\ reported \in [there: BOOLEAN, available: SUBSET Probed]

---------------------------------------------------------------------------

ProberGoes(p, pc) == prober' = [prober EXCEPT ![p].pc = pc]

\* The daily job, which asks when there is a client, and a report with force_refresh, without
\* rows, or with rows of more than 23 hours.
Discovery(p) ==
  /\ prober[p].pc = "idle"
  /\ ProberGoes(p, "connect")
  /\ UNCHANGED <<known, clientId, reported>>

Report(p) ==
  /\ prober[p].pc = "idle" /\ known.there /\ ~known.old
  /\ reported' = [there |-> TRUE, available |-> known.available]
  /\ UNCHANGED <<known, clientId, prober>>

\* The gateway does not answer, or has a client 98 already: an error is logged, and the report
\* is that there is no market, whatever the rows say.
ConnectFails(p) ==
  /\ prober[p].pc = "connect"
  /\ prober' = [prober EXCEPT ![p] = NoProbe]
  /\ reported' = [there |-> FALSE, available |-> {}]
  /\ UNCHANGED <<known, clientId>>

Connect98(p) ==
  /\ prober[p].pc = "connect" /\ clientId = Nobody98
  /\ clientId' = p /\ ProberGoes(p, "handshake")
  /\ UNCHANGED <<known, reported>>

Connected98(p) ==
  /\ prober[p].pc = "handshake"
  /\ prober' = [prober EXCEPT ![p] = [pc |-> "probe", todo |-> Probed, found |-> {}]]
  /\ UNCHANGED <<known, clientId, reported>>

HandshakeFailed(p) ==
  /\ prober[p].pc = "handshake"
  /\ prober' = [prober EXCEPT ![p] = NoProbe]
  /\ reported' = [there |-> FALSE, available |-> {}]
  /\ UNCHANGED known

\* Mutant of HandshakeTimesOut: only a discovery that was made disconnects.
HandshakeKeepsId(p) == HandshakeFailed(p) /\ UNCHANGED clientId

\* Fifteen seconds are over: the finally disconnects.
HandshakeTimesOut(p) == HandshakeFailed(p) /\ clientId' = Nobody98

\* What raises, as it does when the connection is lost, is a market that is not available.
Probe(p) ==
  /\ prober[p].pc = "probe"
  /\ \E m \in prober[p].todo, available \in BOOLEAN :
       prober' = [prober EXCEPT ![p] =
                    [pc |-> "probe", todo |-> @.todo \ {m},
                     found |-> IF available THEN @.found \cup {m} ELSE @.found]]
  /\ UNCHANGED <<known, clientId, reported>>

Disconnect98(p) ==
  /\ prober[p].pc = "probe" /\ prober[p].todo = {}
  /\ clientId' = Nobody98 /\ ProberGoes(p, "save")
  /\ UNCHANGED <<known, reported>>

\* All the rows, in one transaction; by then another discovery may be under way, or be over.
Upsert98(p) ==
  /\ prober[p].pc = "save"
  /\ known' = [there |-> TRUE, available |-> prober[p].found, old |-> FALSE]
  /\ reported' = [there |-> TRUE, available |-> prober[p].found]
  /\ prober' = [prober EXCEPT ![p] = NoProbe]
  /\ UNCHANGED clientId

UpsertFails(p) ==
  /\ prober[p].pc = "save"
  /\ prober' = [prober EXCEPT ![p] = NoProbe]
  /\ UNCHANGED <<known, clientId, reported>>

PermissionsAge ==
  /\ known.there /\ ~known.old
  /\ known' = [known EXCEPT !.old = TRUE]
  /\ UNCHANGED <<clientId, prober, reported>>

PermissionNext ==
  \/ PermissionsAge
  \/ \E p \in Probers :
       \/ Discovery(p) \/ Report(p) \/ ConnectFails(p) \/ Connect98(p) \/ Connected98(p)
       \/ HandshakeTimesOut(p) \/ Probe(p) \/ Disconnect98(p) \/ Upsert98(p) \/ UpsertFails(p)

PermissionSpec == PermissionInit /\ [][PermissionNext]_permissionVars

\* The client's number is taken for as long as a discovery uses it and no longer, however the
\* discovery ends: the next one is not locked out (market_permissions.py, the finally).
IdIsFreed ==
  \A p \in Probers : (clientId = p) <=> (prober[p].pc \in {"handshake", "probe"})
=============================================================================
