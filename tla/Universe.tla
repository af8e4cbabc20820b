------------------------------ MODULE Universe ------------------------------
(***************************************************************************)
(* The symbols the bot works with, and the daily discovery that scores     *)
(* what the market's scanners name and rotates the best of it in.  It runs *)
(* at 08:00, and as a background job of whoever asks for one: several may  *)
(* be between any two of their steps.  An order, be it an exit, is refused *)
(* for a symbol that is not approved.                                      *)
(***************************************************************************)
EXTENDS Integers

CONSTANTS
  Symbols,     \* what the exchange lists
  Protected,   \* PROTECTED_SYMBOLS
  Discoverers, \* the threads a discovery may run in
  MaxRotations \* bound: discoveries that get as far as choosing

ASSUME UniverseAssumption == Protected \subseteq Symbols /\ MaxRotations \in Nat

VARIABLES
  approved,   \* the rows of symbol_config with approved = 1
  weight,     \* watchlist_scores, in percent; 50 is a symbol with no row
  positions,  \* the symbols the account holds
  disc,       \* the discoveries under way
  rotations   \* the discoveries that have chosen

universeVars == <<approved, weight, positions, disc, rotations>>

Nobody == "none"
NoDiscovery == [at |-> "idle", enters |-> Nobody, leaves |-> Nobody]

UniverseInit ==
  /\ approved \in {a \in SUBSET Symbols : Protected \subseteq a}
  /\ weight \in [Symbols -> {20, 50}]
  /\ positions = {}
  /\ disc = [d \in Discoverers |-> NoDiscovery]
  /\ rotations = 0

UniverseTypeOK ==
  /\ approved \subseteq Symbols /\ positions \subseteq Symbols
  /\ weight \in [Symbols -> {20, 50}]
  /\ disc \in [Discoverers -> [at: {"idle", "scored", "chosen", "out"}, enters: Symbols \cup {Nobody},
                               leaves: Symbols \cup {Nobody}]]
  /\ rotations \in 0 .. MaxRotations

---------------------------------------------------------------------------
(* run_daily_discovery and _rotate_universe *)

\* The candidates are what three scanners name and is not approved already; whatever the
\* analysis recommends, the one with the best score is the one that may enter.
Discover(d) ==
  /\ disc[d].at = "idle"
  /\ \E s \in Symbols \ approved :
       disc' = [disc EXCEPT ![d] = [at |-> "scored", enters |-> s, leaves |-> Nobody]]
  /\ UNCHANGED <<approved, weight, positions, rotations>>

\* Mutant of Unprotected: the protected symbols are weighed like the others.
UnprotectedAll == approved

Unprotected == approved \ Protected

\* The weakest member of the universe, when it has less than 40 percent.
Weak == {s \in Unprotected : weight[s] < 40 /\ \A o \in Unprotected : weight[s] <= weight[o]}

\* A candidate of 75 at least takes the place of a weak member.
Choose(d) ==
  /\ disc[d].at = "scored"
  /\ rotations < MaxRotations
  /\ rotations' = rotations + 1
  /\ \E score \in {60, 80} :
       \/ /\ score >= 75
          /\ \E s \in Weak : disc' = [disc EXCEPT ![d].at = "chosen", ![d].leaves = s]
       \/ /\ score < 75 \/ Weak = {}
          /\ disc' = [disc EXCEPT ![d] = NoDiscovery]
  /\ UNCHANGED <<approved, weight, positions>>

\* The first transaction of the rotation...
TakeOut(d) ==
  /\ disc[d].at = "chosen"
  /\ approved' = approved \ {disc[d].leaves}
  /\ disc' = [disc EXCEPT ![d].at = "out"]
  /\ UNCHANGED <<weight, positions, rotations>>

\* ...and the second.
PutIn(d) ==
  /\ disc[d].at = "out"
  /\ approved' = approved \cup {disc[d].enters}
  /\ disc' = [disc EXCEPT ![d] = NoDiscovery]
  /\ UNCHANGED <<weight, positions, rotations>>

\* The database fails a discovery, or its process dies, between the two as well.
DiscoveryDies(d) ==
  /\ disc[d].at # "idle"
  /\ disc' = [disc EXCEPT ![d] = NoDiscovery]
  /\ UNCHANGED <<approved, weight, positions, rotations>>

---------------------------------------------------------------------------
(* The endpoints, the learning cycle and the positions *)

\* A proposal is INSERT OR IGNORE: it leaves an approved symbol approved.
Approve(s) ==
  /\ approved' = approved \cup {s}
  /\ UNCHANGED <<weight, positions, disc, rotations>>

\* cleanup_inactive_symbols: idle are the symbols with no activity.  A symbol with a trade
\* opened long ago is one of them.
CleanUp ==
  /\ \E idle \in SUBSET approved : approved' = approved \ (idle \ Protected)
  /\ UNCHANGED <<weight, positions, disc, rotations>>

Reweigh(s) ==
  /\ weight' = [weight EXCEPT ![s] = 70 - @]
  /\ UNCHANGED <<approved, positions, disc, rotations>>

\* An entry, which needs the symbol approved, or a position bought by hand.
Enter(s) ==
  /\ positions' = positions \cup {s}
  /\ UNCHANGED <<approved, weight, disc, rotations>>

\* The preflight of an exit wants the symbol approved, as that of an entry.
ExitOrder(s) ==
  /\ s \in positions /\ s \in approved
  /\ positions' = positions \ {s}
  /\ UNCHANGED <<approved, weight, disc, rotations>>

SoldByHand(s) ==
  /\ s \in positions
  /\ positions' = positions \ {s}
  /\ UNCHANGED <<approved, weight, disc, rotations>>

\* Mutant of Reapproved: only what is adopted is approved, not what has a trade already.
ReapprovedNot == approved

\* reconcile_positions approves every symbol of the account's portfolio.
Reapproved == approved \cup positions

Reconcile ==
  /\ ~(positions \subseteq approved)
  /\ approved' = Reapproved
  /\ UNCHANGED <<weight, positions, disc, rotations>>

UniverseNext ==
  \/ \E d \in Discoverers : Discover(d) \/ Choose(d) \/ TakeOut(d) \/ PutIn(d) \/ DiscoveryDies(d)
  \/ \E s \in Symbols : Approve(s) \/ Reweigh(s) \/ Enter(s) \/ ExitOrder(s) \/ SoldByHand(s)
  \/ CleanUp \/ Reconcile

UniverseSpec == UniverseInit /\ [][UniverseNext]_universeVars

\* The reconciler is a job of every ten minutes.
UniverseFairness == WF_universeVars(Reconcile)

---------------------------------------------------------------------------
(* Properties *)

\* However many discoveries rotate at once, die half-way or work from what they read before
\* another changed it, and whatever is cleaned up, SPY and QQQ stay approved.
ProtectedStayApproved == Protected \subseteq approved

\* A position whose symbol is rotated out or cleaned up can not be closed; it does not stay
\* that way.
HeldBecomesTradable == \A s \in Symbols : []<>(s \in approved \/ s \notin positions)
=============================================================================
