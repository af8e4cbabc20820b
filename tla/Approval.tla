------------------------------ MODULE Approval ------------------------------
(***************************************************************************)
(* Human approval of the orders of POST /orders/place.  A request sends a  *)
(* message with two buttons and polls Telegram for the button pressed.     *)
(* Telegram keeps what was pressed until a poll that gives an offset: the  *)
(* polls of request_approval give none, those of the bot's updater do, and *)
(* the updater has no handler for buttons.                                 *)
(***************************************************************************)
EXTENDS Naturals, Sequences, FiniteSets

CONSTANTS
  Askers,        \* request threads
  Tickers,       \* symbols ordered
  MaxQuestions,  \* bound: messages with buttons
  MaxPresses     \* bound: buttons pressed

ASSUME ApprovalAssumption == MaxQuestions \in Nat /\ MaxPresses \in Nat

VARIABLES
  required,   \* settings.REQUIRE_HUMAN_APPROVAL
  question,   \* the messages sent: the symbol each is about
  pressed,    \* the buttons pressed, in order
  confirmed,  \* how many of them Telegram gives to no poll any more
  asker,      \* the local state of each request
  sent        \* the orders sent: their symbol, and the question asked for each

approvalVars == <<required, question, pressed, confirmed, asker, sent>>

Unasked == 0
Verbs == {"approve", "cancel"}
NotAsking == [pc |-> "idle", symbol |-> "none", msg |-> Unasked]

ApprovalInit ==
  /\ required \in BOOLEAN
  /\ question = <<>> /\ pressed = <<>> /\ confirmed = 0
  /\ asker = [t \in Askers |-> NotAsking]
  /\ sent = {}

ApprovalTypeOK ==
  /\ required \in BOOLEAN
  /\ question \in Seq(Tickers) /\ Len(question) <= MaxQuestions
  /\ pressed \in Seq([msg: DOMAIN question, verb: Verbs]) /\ Len(pressed) <= MaxPresses
  /\ confirmed \in 0 .. Len(pressed)
  /\ asker \in [Askers -> [pc: {"idle", "wait", "send"}, symbol: Tickers \cup {"none"},
                           msg: {Unasked} \cup DOMAIN question]]
  /\ sent \subseteq [symbol: Tickers, msg: {Unasked} \cup DOMAIN question]

---------------------------------------------------------------------------
(* The owner and the bot *)

\* POST /system/mode, by way of set_mode; the handler reads the flag when it is called.
SetRequired ==
  /\ required' = ~required
  /\ UNCHANGED <<question, pressed, confirmed, asker, sent>>

\* The buttons of a message stay: it can be pressed late, and more than once.
Press(m, verb) ==
  /\ Len(pressed) < MaxPresses
  /\ pressed' = Append(pressed, [msg |-> m, verb |-> verb])
  /\ UNCHANGED <<required, question, confirmed, asker, sent>>

\* The updater of the bot takes the updates up to the nth for its own.
UpdaterConfirms(n) ==
  /\ confirmed' = n
  /\ UNCHANGED <<required, question, pressed, asker, sent>>

\* The process starts anew, and drops the updates that wait.
BotRestarts ==
  /\ confirmed' = Len(pressed)
  /\ asker' = [t \in Askers |-> NotAsking]
  /\ UNCHANGED <<required, question, pressed, sent>>

---------------------------------------------------------------------------
(* A request *)

\* The order needs no approval, or the message with the buttons is on its way.
AskOrder(t, sym) ==
  /\ asker[t].pc = "idle"
  /\ IF required
     THEN /\ Len(question) < MaxQuestions
          /\ question' = Append(question, sym)
          /\ asker' = [asker EXCEPT ![t] =
                         [pc |-> "wait", symbol |-> sym, msg |-> Len(question) + 1]]
     ELSE /\ asker' = [asker EXCEPT ![t] = [pc |-> "send", symbol |-> sym, msg |-> Unasked]]
          /\ UNCHANGED question
  /\ UNCHANGED <<required, pressed, confirmed, sent>>

\* send_message raised: the order is refused, though the message may be there.
AskFailed(t, sym) ==
  /\ asker[t].pc = "idle" /\ required
  /\ Len(question) < MaxQuestions
  /\ question' = Append(question, sym)
  /\ UNCHANGED <<required, pressed, confirmed, asker, sent>>

\* The updates about a symbol that a poll gets: the text of a button names the symbol,
\* not the message.
Answers(sym) == {i \in confirmed + 1 .. Len(pressed) : question[pressed[i].msg] = sym}

StopAsking(t) == asker' = [asker EXCEPT ![t] = NotAsking]

Answered(t, i) ==
  /\ IF pressed[i].verb = "approve" THEN asker' = [asker EXCEPT ![t].pc = "send"] ELSE StopAsking(t)
  /\ UNCHANGED <<required, question, pressed, confirmed, sent>>

\* Mutant of Poll: the symbol on the button is not looked at.
PollAnySymbol(t) ==
  /\ asker[t].pc = "wait"
  /\ \E i \in confirmed + 1 .. Len(pressed) : Answered(t, i)

\* get_updates leaves the updates where they are; the first that matches decides.
Poll(t) ==
  /\ asker[t].pc = "wait"
  /\ \E i \in Answers(asker[t].symbol) :
       (\A j \in Answers(asker[t].symbol) : i <= j) /\ Answered(t, i)

\* Mutant of Deadline: the last poll is waited for, however long.
DeadlineWhenRead(t) ==
  /\ asker[t].pc = "wait" /\ Answers(asker[t].symbol) # {}
  /\ StopAsking(t)
  /\ UNCHANGED <<required, question, pressed, confirmed, sent>>

\* Polls that fail, or get nothing, go on until then.
Deadline(t) ==
  /\ asker[t].pc = "wait"
  /\ StopAsking(t)
  /\ UNCHANGED <<required, question, pressed, confirmed, sent>>

SendOrder(t) ==
  /\ asker[t].pc = "send"
  /\ sent' = sent \cup {[symbol |-> asker[t].symbol, msg |-> asker[t].msg]}
  /\ StopAsking(t)
  /\ UNCHANGED <<required, question, pressed, confirmed>>

\* Preflight, the duplicate window, or the broker.
SendRefused(t) ==
  /\ asker[t].pc = "send"
  /\ StopAsking(t)
  /\ UNCHANGED <<required, question, pressed, confirmed, sent>>

AskerStep(t) == Poll(t) \/ Deadline(t) \/ SendOrder(t) \/ SendRefused(t)

ApprovalNext ==
  \/ SetRequired \/ BotRestarts
  \/ \E m \in DOMAIN question, verb \in Verbs : Press(m, verb)
  \/ \E n \in confirmed + 1 .. Len(pressed) : UpdaterConfirms(n)
  \/ \E t \in Askers :
       \/ \E sym \in Tickers : AskOrder(t, sym) \/ AskFailed(t, sym)
       \/ AskerStep(t)

ApprovalSpec == ApprovalInit /\ [][ApprovalNext]_approvalVars

\* The clock of a request and the broker's answer come, whatever Telegram does.
ApprovalFairness ==
  \A t \in Askers : WF_approvalVars(Deadline(t) \/ SendOrder(t) \/ SendRefused(t))

---------------------------------------------------------------------------
(* Properties that hold *)

\* An order that was asked for goes out only if the owner has approved some order for
\* its symbol before: polls lose, repeat and mix up answers, and none makes one up.
AskedOrdersHaveAnApproval ==
  \A o \in sent : o.msg # Unasked =>
    \E i \in DOMAIN pressed :
      pressed[i].verb = "approve" /\ question[pressed[i].msg] = o.symbol

\* A request does not wait for ever: an answer taken by the updater, or overtaken by a
\* restart, costs it no more than its timeout.
EveryQuestionEnds == \A t \in Askers : []<>(asker[t].pc = "idle")

---------------------------------------------------------------------------
(* A claim of the repository that the code does not keep *)

\* request_approval "returns True if approved, False if cancelled or timed out": an order
\* that was asked for goes out only if its own message was approved.
OrdersAreApproved ==
  \A o \in sent : o.msg # Unasked =>
    \E i \in DOMAIN pressed : pressed[i] = [msg |-> o.msg, verb |-> "approve"]
=============================================================================
