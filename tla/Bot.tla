--------------------------------- MODULE Bot ---------------------------------
(***************************************************************************)
(* The Telegram bot: the owner's commands, which it serves one at a time,  *)
(* and what each of them calls.  A request to the API goes on in the API   *)
(* when the bot waits for it no more.                                      *)
(***************************************************************************)
EXTENDS Naturals, Sequences

CONSTANTS
  MaxCommands,   \* bound: messages of the owner
  MaxWrites   \* bound: requests that change something

ASSUME BotAssumption == MaxCommands \in Nat /\ MaxWrites \in Nat

VARIABLES
  bot,       \* "down" with the process, "polling", or "dead": its thread is over
  inbox,     \* messages at Telegram, and how many the owner may still send
  command,   \* what the bot is serving: the calls left, the last answer, and what it has said
  behind,    \* a change that the API has still to make and nobody waits for
  writes, \* the changes made
  silence    \* whether the digest suppresses, and the timers that will end it

botVars == <<bot, inbox, command, behind, writes, silence>>

---------------------------------------------------------------------------
(* What a command calls *)

\* _api: httpx with a timeout of thirty seconds; every error is an answer of its own.
Api(path) == [to |-> "api", path |-> path]

\* The database, in the thread of the bot.
Db == [to |-> "db", path |-> "read"]

\* run_in_executor: the loop is free, but the bot takes no other message meanwhile.
Pool(work) == [to |-> "pool", path |-> work]

Positions == [estado |-> <<Api("status"), Api("portfolio"), Api("account")>>,
              posiciones |-> <<Api("portfolio"), Api("trades")>>]

\* The second is called when the broker has no execution to show.
History == [historial |-> <<Api("executions"), Api("trades/closed")>>]

\* /allowed-symbols approves the symbols of the open trades.
Lookups == [senales |-> <<Api("signals")>>, simbolos |-> <<Api("allowed-symbols")>>,
            costos |-> <<Api("commission-report")>>]

Orders == [pausar |-> <<Api("pause")>>, reanudar |-> <<Api("resume")>>, stop |-> <<>>,
           cerrar |-> <<Api("close")>>, modo |-> <<Api("mode")>>, aprobar |-> <<Api("approve")>>]

Diagnosis == [diagnostico |-> <<Api("account"), Api("portfolio"), Db, Api("health")>>]

\* The help names the markets that the database knows to be operable.
Help == [ayuda |-> <<Db>>]

Analyses == [analizar |-> <<Pool("pipeline")>>, proponer |-> <<Api("propose")>>,
             texto |-> <<Pool("llm")>>]

Backtest == [backtest |-> <<[to |-> "long", path |-> "backtest"]>>]

AlertCommands == [alerta |-> <<Db>>, alertas |-> <<Db>>, eliminar_alerta |-> <<Db>>]

Quiets == [notificaciones |-> <<>>, silencio |-> <<>>]

Markets == [mercados |-> <<Pool("permissions")>>]

ReportCommand == [reporte |-> <<Db, Pool("report")>>]

\* The handlers that are registered.
Groups == {Positions, History, Lookups, Orders, Diagnosis, Help, Analyses, AlertCommands,
           Backtest, Quiets, Markets, ReportCommand}
Handlers == [name \in UNION {DOMAIN g : g \in Groups} |-> (CHOOSE g \in Groups : name \in DOMAIN g)[name]]

\* require_control_key answers 401: _api sends no key.
NeedsKey == {"pause", "resume", "close", "mode", "approve"}

\* What changes something when it is asked for.
Changes == {"propose", "allowed-symbols", "pause", "resume", "close", "mode", "approve"} \ NeedsKey

NoCommand == [name |-> "none", calls |-> <<>>]

---------------------------------------------------------------------------

BotInit ==
  /\ bot = "down"
  /\ inbox = [waiting |-> 0, unsent |-> MaxCommands]
  /\ command = NoCommand
  /\ behind = FALSE /\ writes = 0
  /\ silence = [on |-> FALSE, timers |-> 0]

BotTypeOK ==
  /\ bot \in {"down", "polling", "dead"}
  /\ inbox \in [waiting: 0..MaxCommands, unsent: 0..MaxCommands]
  /\ \/ command = NoCommand
     \/ /\ command.name \in DOMAIN Handlers
        /\ LET all == Handlers[command.name]
           IN \E n \in 0..Len(all) : command.calls = SubSeq(all, n + 1, Len(all))
  /\ behind \in BOOLEAN /\ writes \in 0..MaxWrites
  /\ silence \in [on: BOOLEAN, timers: 0..MaxCommands]

\* start_polling drops what was sent while nobody listened.
BotStarts ==
  /\ bot = "down"
  /\ bot' = "polling" /\ inbox' = [inbox EXCEPT !.waiting = 0]
  /\ UNCHANGED <<command, behind, writes, silence>>

\* The bot introduces itself to Telegram first, once; a failure ends its thread.
BotFails ==
  /\ bot = "down"
  /\ bot' = "dead"
  /\ UNCHANGED <<inbox, command, behind, writes, silence>>

OwnerWrites ==
  /\ inbox.unsent > 0
  /\ inbox' = [waiting |-> inbox.waiting + 1, unsent |-> inbox.unsent - 1]
  /\ UNCHANGED <<bot, command, behind, writes, silence>>

Listening == bot = "polling" /\ command = NoCommand /\ inbox.waiting > 0

Took == inbox' = [inbox EXCEPT !.waiting = @ - 1]

\* Only the owner is answered, and a command without its arguments is told its usage.
Ignore ==
  /\ Listening /\ Took
  /\ UNCHANGED <<bot, command, behind, writes, silence>>

Serve ==
  /\ Listening /\ Took
  /\ \E name \in DOMAIN Handlers \ {"stop", "silencio"} :
       command' = [name |-> name, calls |-> Handlers[name]]
  /\ UNCHANGED <<bot, behind, writes, silence>>

\* Every /silencio starts a timer of its own; the first to fire ends the silence of all.
Silence ==
  /\ Listening /\ Took
  /\ silence' = [on |-> TRUE, timers |-> silence.timers + 1]
  /\ UNCHANGED <<bot, command, behind, writes>>

SilenceEnds ==
  /\ silence.timers > 0
  /\ silence' = [on |-> FALSE, timers |-> silence.timers - 1]
  /\ UNCHANGED <<bot, inbox, command, behind, writes>>

\* SIGTERM to the process, which takes the other threads with it.
Stop ==
  /\ Listening /\ Took
  /\ bot' = "down" /\ behind' = FALSE
  /\ silence' = [on |-> FALSE, timers |-> 0]
  /\ UNCHANGED <<command, writes>>

\* The process ends otherwise, in the midst of a command or with no bot.
ProcessEnds ==
  /\ bot # "down"
  /\ bot' = "down" /\ command' = NoCommand /\ behind' = FALSE
  /\ silence' = [on |-> FALSE, timers |-> 0]
  /\ UNCHANGED <<inbox, writes>>

---------------------------------------------------------------------------
(* A command under way *)

Calling == bot = "polling" /\ command.calls # <<>>

NextCall(found) ==
  command' = IF found /\ command.name = "historial"
             THEN [command EXCEPT !.calls = <<>>]
             ELSE [command EXCEPT !.calls = Tail(@)]

\* The API answers within the time.
ApiAnswers ==
  /\ Calling /\ Head(command.calls).to = "api"
  /\ IF Head(command.calls).path \in Changes
     THEN writes < MaxWrites /\ writes' = writes + 1
     ELSE UNCHANGED writes
  /\ \E found \in BOOLEAN : NextCall(found)
  /\ UNCHANGED <<bot, inbox, behind, silence>>

\* The queue of jobs answers with the number of a job; the bot looks for results in it, and
\* says that there was an error.
BacktestAnswers ==
  /\ Calling /\ Head(command.calls).to = "long"
  /\ NextCall(FALSE)
  /\ UNCHANGED <<bot, inbox, behind, writes, silence>>

WaitNoMore(whom) ==
  /\ Calling /\ Head(command.calls).to \in whom
  /\ NextCall(FALSE)
  /\ behind' \in {behind, behind \/ Head(command.calls).path \in Changes}
  /\ UNCHANGED <<bot, inbox, writes, silence>>

\* Mutant of GiveUpCall: _api waits for as long as it takes.
WaitForApi == WaitNoMore({"long"})

\* The time is over, or the connection failed: the answer is {"error": ...}.  The API may be
\* at work on the request all the same.
GiveUpCall == WaitNoMore({"api", "long"})

ChangedLate ==
  /\ behind /\ writes < MaxWrites
  /\ behind' = FALSE /\ writes' = writes + 1
  /\ UNCHANGED <<bot, inbox, command, silence>>

\* The database, a thread of the executor.
CallReturns ==
  /\ Calling /\ Head(command.calls).to \in {"db", "pool"}
  /\ NextCall(FALSE)
  /\ UNCHANGED <<bot, inbox, behind, writes, silence>>

\* The library logs what a handler raises, and goes on to the next message.
CommandRaises ==
  /\ Calling
  /\ command' = NoCommand
  /\ UNCHANGED <<bot, inbox, behind, writes, silence>>

Reply ==
  /\ bot = "polling" /\ command # NoCommand /\ command.calls = <<>>
  /\ command' = NoCommand
  /\ UNCHANGED <<bot, inbox, behind, writes, silence>>

---------------------------------------------------------------------------

BotStep == Ignore \/ Serve \/ Silence \/ Stop \/ GiveUpCall \/ CallReturns \/ Reply

BotNext ==
  \/ BotStarts \/ BotFails \/ ProcessEnds \/ OwnerWrites \/ SilenceEnds
  \/ BotStep \/ ApiAnswers \/ BacktestAnswers \/ ChangedLate \/ CommandRaises

BotSpec == BotInit /\ [][BotNext]_botVars

\* The bot's thread is scheduled, and what it starts in the executor has timeouts of its own.
\* Nothing is assumed of the API.
BotFairness == WF_botVars(BotStep)

\* The bot stays at no command for ever: every message that finds it listening is read,
\* whatever the API does with the requests of those before it (telegram_bot.py, _api).
EveryCommandEnds == []<>(bot # "polling" \/ inbox.waiting = 0)
=============================================================================
