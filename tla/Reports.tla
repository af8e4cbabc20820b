------------------------------ MODULE Reports ------------------------------
(***************************************************************************)
(* The pre-market reports: a job of the scheduler per market, a scan that  *)
(* is retried and the bot's /reporte each list the symbols, write the      *)
(* report, clear the old ones and send the owner a link to it.             *)
(***************************************************************************)
EXTENDS Naturals, FiniteSets

CONSTANTS
  Builders,    \* the threads that build reports
  ReportSymbols,
  Full,        \* a list as long as this is not filled up any further
  Retention,   \* the days a report is kept
  MaxReports,  \* bound: reports ever saved
  LastDay      \* bound: days that pass

ASSUME ReportAssumption ==
  /\ {Full, MaxReports, LastDay} \subseteq Nat
  /\ Retention \in Nat \ {0}

VARIABLES
  today,    \* the date, UTC
  build,    \* where each builder is, what it has listed, its date and its row
  reports,  \* analysis_reports: whether the row of each id is there, and its report_date
  links     \* the ids whose link has been sent

reportVars == <<today, build, reports, links>>

ReportIds == 1 .. MaxReports
LayerNames == {"open_position", "market_mover", "universe"}
NoBuild == [pc |-> "idle", listed |-> [s \in ReportSymbols |-> "none"],
            date |-> 0, id |-> 0]

ReportInit ==
  /\ today = 0
  /\ build = [b \in Builders |-> NoBuild]
  /\ reports = [i \in ReportIds |-> [row |-> "none", date |-> 0]]
  /\ links = {}

ReportTypeOK ==
  /\ today \in 0 .. LastDay
  /\ build \in [Builders ->
       [pc: {"idle", "positions", "movers", "universe", "date", "write", "clean", "send"},
        listed: [ReportSymbols -> {"none"} \cup LayerNames],
        date: 0 .. LastDay, id: 0 .. MaxReports]]
  /\ reports \in [ReportIds -> [row: {"none", "kept", "cleaned", "deleted"}, date: 0 .. LastDay]]
  /\ links \in SUBSET ReportIds

---------------------------------------------------------------------------
(* _build_report_symbols_data, and its copy in cmd_reporte.  Each layer is *)
(* in a try of its own: one that cannot be read is left out.               *)

BuildAt(b, pc) == build[b].pc = pc
OnList(list) == {s \in DOMAIN list : list[s] # "none"}

\* Those of the symbols not listed yet.
Listing(list, symbols, layer) ==
  [s \in DOMAIN list |-> IF list[s] = "none" /\ s \in symbols THEN layer ELSE list[s]]

\* The list goes on with as many of the candidates as it takes until it is full.
Filling(list, candidates, layer) ==
  LET new == candidates \ OnList(list)
      places == IF Cardinality(OnList(list)) < Full THEN Full - Cardinality(OnList(list)) ELSE 0
  IN  {Listing(list, more, layer) : more \in {m \in SUBSET new :
         Cardinality(m) = IF Cardinality(new) < places THEN Cardinality(new) ELSE places}}

ListThus(b, pc, list) == build' = [build EXCEPT ![b].listed = list, ![b].pc = pc]

BeginReport(b) ==
  /\ BuildAt(b, "idle")
  /\ build' = [build EXCEPT ![b].pc = "positions"]
  /\ UNCHANGED <<today, reports, links>>

\* The positions are listed however many they are: those of the open trades, and those that
\* only the broker knows.
ListPositions(b, held) ==
  /\ BuildAt(b, "positions")
  /\ ListThus(b, "movers", Listing(build[b].listed, held, "open_position"))
  /\ UNCHANGED <<today, reports, links>>

\* The rows of the three scan types, unless the list is full.
ListMovers(b, movers) ==
  /\ BuildAt(b, "movers")
  /\ \E list \in Filling(build[b].listed, movers, "market_mover") : ListThus(b, "universe", list)
  /\ UNCHANGED <<today, reports, links>>

\* The rest comes from the approved symbols of the market.
ListUniverse(b, approved) ==
  /\ BuildAt(b, "universe")
  /\ \E list \in Filling(build[b].listed, approved, "universe") : ListThus(b, "date", list)
  /\ UNCHANGED <<today, reports, links>>

---------------------------------------------------------------------------
(* generate_pre_market_report *)

\* The date of the report is that of the start.  What is listed is from here on the content of
\* the report, and is not followed any further.
DateReport(b) ==
  /\ BuildAt(b, "date")
  /\ build' = [build EXCEPT ![b] = [NoBuild EXCEPT !.date = today, !.pc = "write"]]
  /\ UNCHANGED <<today, reports, links>>

\* Whatever raises before the row is in, there is no report: the job says nothing of it, the
\* bot replies that it failed.
ReportFails(b) ==
  /\ build[b].pc \in {"date", "write"}
  /\ build' = [build EXCEPT ![b] = NoBuild]
  /\ UNCHANGED <<today, reports, links>>

SaveReport(b) ==
  /\ BuildAt(b, "write")
  /\ \E i \in ReportIds :
       /\ reports[i].row = "none" /\ \A j \in 1 .. i - 1 : reports[j].row # "none"
       /\ reports' = [reports EXCEPT ![i] = [row |-> "kept", date |-> build[b].date]]
       /\ build' = [build EXCEPT ![b].id = i, ![b].pc = "clean"]
  /\ UNCHANGED <<today, links>>

\* Mutant of Outdated: the last of the days to keep is taken too.
OutdatedByOne(report) == report.date + Retention <= today

\* report_date < today - days
Outdated(report) == report.date + Retention < today

CleanReports(b) ==
  /\ BuildAt(b, "clean")
  /\ reports' = [i \in ReportIds |->
       IF reports[i].row = "kept" /\ Outdated(reports[i])
         THEN [reports[i] EXCEPT !.row = "cleaned"] ELSE reports[i]]
  /\ build' = [build EXCEPT ![b].pc = "send"]
  /\ UNCHANGED <<today, links>>

\* The clearing raises: the row is there, but the report counts as failed.
CleanFails(b) ==
  /\ BuildAt(b, "clean")
  /\ build' = [build EXCEPT ![b] = NoBuild]
  /\ UNCHANGED <<today, reports, links>>

\* The notice of the job, or the reply of the bot: it arrives or it does not.
SendLink(b) ==
  /\ BuildAt(b, "send")
  /\ links' \in {links, links \cup {build[b].id}}
  /\ build' = [build EXCEPT ![b] = NoBuild]
  /\ UNCHANGED <<today, reports>>

---------------------------------------------------------------------------
\* DELETE /reports/{id}; one that is not there is a 404.
DeleteReport(i) ==
  /\ reports[i].row = "kept"
  /\ reports' = [reports EXCEPT ![i].row = "deleted"]
  /\ UNCHANGED <<today, build, links>>

\* A report takes minutes: it sees one midnight at most.
DayPasses ==
  /\ today < LastDay
  /\ \A b \in Builders : build[b].pc \in {"write", "clean", "send"} => build[b].date = today
  /\ today' = today + 1
  /\ UNCHANGED <<build, reports, links>>

\* What is found in a layer is nothing when it cannot be read.
Builder(b) ==
  \/ BeginReport(b)
  \/ \E found \in SUBSET ReportSymbols :
       ListPositions(b, found) \/ ListMovers(b, found) \/ ListUniverse(b, found)
  \/ DateReport(b) \/ ReportFails(b) \/ SaveReport(b)
  \/ CleanReports(b) \/ CleanFails(b) \/ SendLink(b)

ReportNext ==
  \/ \E b \in Builders : Builder(b)
  \/ \E i \in ReportIds : DeleteReport(i)
  \/ DayPasses

ReportSpec == ReportInit /\ [][ReportNext]_reportVars

---------------------------------------------------------------------------
\* A link that was sent opens for the days the reports are kept, whichever builders save and
\* clear meanwhile and though midnight comes between the date and the row, unless the owner
\* has deleted the report.
LinksLive ==
  \A i \in links :
    today <= reports[i].date + Retention => reports[i].row \in {"kept", "deleted"}
=============================================================================
