------------------------------ MODULE Scanner ------------------------------
(***************************************************************************)
(* The pre-open selection picks the symbols of the day, and the periodic   *)
(* scan classifies each of them on three timeframes and writes its signal. *)
(* A selection that was missed runs again when the gateway is back, beside *)
(* the scans and the next selections.                                      *)
(***************************************************************************)
EXTENDS Integers, FiniteSets, FiniteSetsExt

CONSTANTS
  Listed, \* what the exchange lists
  TopN    \* how many symbols a selection takes by their score

ASSUME ScannerAssumption == TopN \in Nat

VARIABLES
  universe, \* the approved symbols
  active,   \* active_symbols of today
  found,    \* what a selection of today found the account to hold
  scanning, \* run_scan: the symbols it has before it
  signal    \* the last signal of the scan: its strength, the day's, what the hour and the five
            \* minutes really had to say, and what was read of the week

scannerVars == <<universe, active, found, scanning, signal>>

Strengths == {"NONE", "WEAK", "MEDIUM", "STRONG"}
Readings == Strengths \cup {"missing"}
Weeks == {"fair", "bearish", "missing"}
Saying == {"MEDIUM", "STRONG"}
NoSignal == [strength |-> "NONE", daily |-> "NONE", others |-> {}, week |-> "missing"]

ScannerInit ==
  /\ universe \in SUBSET Listed
  /\ active = {} /\ found = {} /\ scanning = {} /\ signal = NoSignal

ScannerTypeOK ==
  /\ universe \subseteq Listed /\ active \subseteq Listed /\ scanning \subseteq Listed
  /\ found \subseteq Listed
  /\ signal \in [strength: Strengths, daily: Strengths, others: SUBSET Saying, week: Weeks]

---------------------------------------------------------------------------
(* select_top_symbols *)

\* Mutant of Write: a selection replaces the one before.
WriteInstead(chosen) == active' = chosen

\* upsert_active_symbols: the rows an earlier selection of the day wrote stay.
Write(chosen) == active' = active \cup chosen

\* The broker's scanner, or when it names nothing the approved symbols.  The N best of them
\* and the symbols the account holds, of which there are none when it cannot be read.
Select ==
  /\ \E named \in SUBSET Listed, held \in SUBSET Listed :
       LET candidates == IF named = {} THEN universe ELSE named
       IN  \E top \in SUBSET candidates :
             /\ Cardinality(top) = Min({TopN, Cardinality(candidates)})
             /\ Write(top \cup held)
             /\ found' = found \cup held
  /\ UNCHANGED <<universe, scanning, signal>>

---------------------------------------------------------------------------
(* run_scan, scan_symbol and the classifiers *)

Rank == [NONE |-> -1, WEAK |-> 0, MEDIUM |-> 1, STRONG |-> 2]

\* classify_signal: how many of the three indicators speak.
ClassifySignal(count) ==
  CASE count >= 3 -> "STRONG" [] count = 2 -> "MEDIUM" [] count = 1 -> "WEAK" [] OTHER -> "NONE"

\* An hour or five minutes without bars, or with fewer than fifteen, count as WEAK.
Counted(reading) == IF reading = "missing" THEN "WEAK" ELSE reading

\* classify_multitimeframe
Combined(daily, hourly, minute) ==
  LET d == Rank[daily]
      h == Rank[hourly]
      m == Rank[minute]
  IN  CASE d >= 2 /\ (h >= 1 \/ m >= 1) -> "STRONG"
        [] ~(d >= 2 /\ (h >= 1 \/ m >= 1)) /\ ((d >= 1 /\ (h >= 0 \/ m >= 0)) \/ (h >= 1 /\ m >= 1)) -> "MEDIUM"
        [] d < 0 /\ h < 0 /\ m < 0 -> "NONE"
        [] OTHER -> "WEAK"

\* Mutant of Tempered: the weekly trend is not looked at.
Untempered(strength, week) == strength

\* A bearish week takes one rank.  A week that could not be fetched, or is one of fewer than
\* twenty, is NEUTRAL and takes none.
Tempered(strength, week) ==
  CASE week = "bearish" /\ strength = "STRONG" -> "MEDIUM"
    [] week = "bearish" /\ strength = "MEDIUM" -> "WEAK"
    [] OTHER -> strength

\* The day's selection, or the whole universe when there is none.  The signals of the scan
\* before are with the signal processor.
StartScan ==
  /\ scanning = {}
  /\ scanning' = IF active = {} THEN universe ELSE active
  /\ signal' = NoSignal
  /\ UNCHANGED <<universe, active, found>>

\* Outside its liquid hours, if they are known, without daily bars or with a failure a symbol
\* has no signal.
ScanSymbol(s) ==
  /\ s \in scanning
  /\ scanning' = scanning \ {s}
  /\ \/ UNCHANGED signal
     \/ \E n \in 0 .. 3, hour \in Readings, minute \in Readings, week \in Weeks :
          LET daily == ClassifySignal(n)
              strength == Tempered(Combined(daily, Counted(hour), Counted(minute)), week)
          IN  /\ strength # "NONE"
              /\ signal' = [strength |-> strength, daily |-> daily,
                            others |-> {hour, minute} \cap Saying, week |-> week]
  /\ UNCHANGED <<universe, active, found>>

\* Approvals, rotations and the clean-up.
UniverseMoves ==
  /\ universe' \in SUBSET Listed
  /\ UNCHANGED <<active, found, scanning, signal>>

ScannerNext == UniverseMoves \/ Select \/ StartScan \/ \E s \in Listed : ScanSymbol(s)

ScannerSpec == ScannerInit /\ [][ScannerNext]_scannerVars

---------------------------------------------------------------------------
(* Properties *)

\* What the account was found to hold is scanned for the rest of the day, whichever other
\* selections, missed ones run late among them, came after.
HeldStayActive == found \subseteq active

\* A STRONG signal has the day behind it and an hour or five minutes that were really read, never
\* only the defaults of bars that are missing; and no bearish week was read.  A week that could
\* not be had is nothing against it, as AC-05.4 of the requirements wants.
StrongIsAgreed ==
  signal.strength = "STRONG" =>
    signal.daily = "STRONG" /\ signal.others # {} /\ signal.week # "bearish"
=============================================================================
