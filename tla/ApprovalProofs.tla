---------------------------- MODULE ApprovalProofs ---------------------------
(***************************************************************************)
(* What comes before an order: the two ways of asking the owner, and the   *)
(* analysis of its signal.  Each time a step of another thread, a press, a *)
(* poll or the timer, falls between, and what is proved says what the      *)
(* order may count on all the same.                                        *)
(***************************************************************************)
EXTENDS Approval, ManagedOrders, FiniteSetTheorems, Analysis, TLAPS

LEMMA Longer ==
  ASSUME NEW S, NEW q \in Seq(S), NEW e \in S
  PROVE  /\ Append(q, e) \in Seq(S)
         /\ DOMAIN q \subseteq DOMAIN Append(q, e) /\ DOMAIN q \subseteq Nat
         /\ DOMAIN Append(q, e) = DOMAIN q \cup {Len(q) + 1} /\ Len(q) + 1 \in Nat
         /\ \A i \in DOMAIN q : Append(q, e)[i] = q[i]
         /\ Append(q, e)[Len(q) + 1] = e
OBVIOUS

---------------------------------------------------------------------------
(* The polls of Telegram *)

ApprovedBefore(symbol) ==
  \E i \in DOMAIN pressed : pressed[i].verb = "approve" /\ question[pressed[i].msg] = symbol

\* A request that goes on to send has seen its symbol approved.
SendersApproved ==
  \A t \in Askers :
    asker[t].pc = "send" /\ asker[t].msg # Unasked => ApprovedBefore(asker[t].symbol)

\* What the proof needs of the types.
AskTypes ==
  /\ question \in Seq(Tickers)
  /\ \A i \in DOMAIN pressed : pressed[i].msg \in DOMAIN question
  /\ asker \in [Askers -> [pc: {"idle", "wait", "send"}, symbol: Tickers \cup {"none"}, msg: Nat]]
  /\ pressed \in Seq([msg: Nat, verb: Verbs])
  /\ confirmed \in Nat

ApprovalInv == AskTypes /\ SendersApproved /\ AskedOrdersHaveAnApproval

LEMMA ApprovalInvInit == ApprovalInit => ApprovalInv
BY DEF ApprovalInit, ApprovalInv, AskTypes, SendersApproved, AskedOrdersHaveAnApproval,
       NotAsking, Unasked

\* What was approved stays approved: the questions and the buttons pressed only grow.
LEMMA ApprovalsStay ==
  ASSUME AskTypes, NEW symbol, ApprovedBefore(symbol),
         question' = question \/ \E sym \in Tickers : question' = Append(question, sym),
         \/ pressed' = pressed
         \/ \E m \in DOMAIN question, verb \in Verbs :
              pressed' = Append(pressed, [msg |-> m, verb |-> verb])
  PROVE  ApprovedBefore(symbol)'
<1>1. PICK i \in DOMAIN pressed :
        pressed[i].verb = "approve" /\ question[pressed[i].msg] = symbol
  BY DEF ApprovedBefore
<1>2. i \in DOMAIN pressed' /\ pressed'[i] = pressed[i]
  <2>1. CASE pressed' = pressed
    BY <1>1, <2>1
  <2>2. CASE \E m \in DOMAIN question, verb \in Verbs :
               pressed' = Append(pressed, [msg |-> m, verb |-> verb])
    <3>1. PICK m \in DOMAIN question, verb \in Verbs :
            pressed' = Append(pressed, [msg |-> m, verb |-> verb])
      BY <2>2
    <3>2. [msg |-> m, verb |-> verb] \in [msg: Nat, verb: Verbs]
      BY DEF AskTypes
    <3> QED
      BY <1>1, <3>1, <3>2, Longer DEF AskTypes
  <2> QED
    BY <2>1, <2>2
<1>3. pressed[i].msg \in DOMAIN question
  BY DEF AskTypes
<1>4. question'[pressed[i].msg] = question[pressed[i].msg]
  <2>1. CASE question' = question
    BY <2>1
  <2>2. CASE \E sym \in Tickers : question' = Append(question, sym)
    <3>1. PICK sym \in Tickers : question' = Append(question, sym)
      BY <2>2
    <3>2. question \in Seq(Tickers)
      BY DEF AskTypes
    <3> QED
      BY <1>3, <3>1, <3>2, Longer
  <2> QED
    BY <2>1, <2>2
<1> QED
  BY <1>1, <1>2, <1>4 DEF ApprovedBefore

LEMMA TypesStay ==
  ASSUME AskTypes, [ApprovalNext]_approvalVars
  PROVE  AskTypes'
<1>1. CASE \E m \in DOMAIN question, verb \in Verbs : Press(m, verb)
  <2>1. PICK m \in DOMAIN question, verb \in Verbs : Press(m, verb)
    BY <1>1
  <2>2. m \in Nat
    BY DEF AskTypes
  <2>3. pressed' \in Seq([msg: Nat, verb: Verbs])
    BY <2>1, <2>2 DEF Press, AskTypes
  <2>4. \A i \in DOMAIN pressed' : pressed'[i].msg \in DOMAIN question
    BY <2>1, <2>2, Longer DEF Press, AskTypes
  <2> QED
    BY <2>1, <2>3, <2>4 DEF Press, AskTypes
<1>2. CASE \E t \in Askers, sym \in Tickers : AskOrder(t, sym) \/ AskFailed(t, sym)
  <2>1. PICK t \in Askers, sym \in Tickers : AskOrder(t, sym) \/ AskFailed(t, sym)
    BY <1>2
  <2>2. /\ question' = question \/ question' = Append(question, sym)
        /\ UNCHANGED <<pressed, confirmed>>
    BY <2>1 DEF AskOrder, AskFailed
  <2>3. question' \in Seq(Tickers) /\ DOMAIN question \subseteq DOMAIN question'
    <3>1. question \in Seq(Tickers)
      BY DEF AskTypes
    <3>2. CASE question' = question
      BY <3>1, <3>2
    <3>3. CASE question' = Append(question, sym)
      BY <3>1, <3>3, Longer
    <3> QED
      BY <2>2, <3>2, <3>3
  <2>4. PICK state \in [pc: {"idle", "wait", "send"}, symbol: Tickers \cup {"none"}, msg: Nat] :
          asker' = [asker EXCEPT ![t] = state] \/ asker' = asker
    <3>1. Len(question) + 1 \in Nat
      BY DEF AskTypes
    <3>2. /\ [pc |-> "wait", symbol |-> sym, msg |-> Len(question) + 1]
               \in [pc: {"idle", "wait", "send"}, symbol: Tickers \cup {"none"}, msg: Nat]
          /\ [pc |-> "send", symbol |-> sym, msg |-> Unasked]
               \in [pc: {"idle", "wait", "send"}, symbol: Tickers \cup {"none"}, msg: Nat]
      BY <3>1 DEF Unasked
    <3> QED
      BY <2>1, <3>2 DEF AskOrder, AskFailed
  <2>5. asker' \in [Askers -> [pc: {"idle", "wait", "send"}, symbol: Tickers \cup {"none"}, msg: Nat]]
    BY <2>4 DEF AskTypes
  <2> QED
    BY <2>2, <2>3, <2>5 DEF AskTypes
<1>3. CASE \E t \in Askers : AskerStep(t)
  <2>1. PICK t \in Askers : AskerStep(t)
    BY <1>3
  <2>2. UNCHANGED <<question, pressed, confirmed>>
    BY <2>1 DEF AskerStep, Poll, Answered, Deadline, SendOrder, SendRefused
  <2>3. StopAsking(t) \/ asker' = [asker EXCEPT ![t].pc = "send"]
    BY <2>1 DEF AskerStep, Poll, Answered, Deadline, SendOrder, SendRefused
  <2>4. asker' \in [Askers -> [pc: {"idle", "wait", "send"}, symbol: Tickers \cup {"none"}, msg: Nat]]
    <3>1. CASE StopAsking(t)
      BY <3>1 DEF StopAsking, NotAsking, Unasked, AskTypes
    <3>2. CASE asker' = [asker EXCEPT ![t].pc = "send"]
      BY <3>2 DEF AskTypes
    <3> QED
      BY <2>3, <3>1, <3>2
  <2> QED
    BY <2>2, <2>4 DEF AskTypes
<1>4. CASE SetRequired
  BY <1>4 DEF SetRequired, AskTypes
<1>5. CASE BotRestarts
  BY <1>5 DEF BotRestarts, NotAsking, Unasked, AskTypes
<1>6. CASE \E n \in confirmed + 1 .. Len(pressed) : UpdaterConfirms(n)
  BY <1>6 DEF UpdaterConfirms, AskTypes
<1>7. CASE UNCHANGED approvalVars
  BY <1>7 DEF approvalVars, AskTypes
<1> QED
  BY <1>1, <1>2, <1>3, <1>4, <1>5, <1>6, <1>7 DEF ApprovalNext

LEMMA AnswerApproves ==
  ASSUME ApprovalInv, NEW t \in Askers, Poll(t)
  PROVE  SendersApproved'
<1>1. PICK i \in Answers(asker[t].symbol) : Answered(t, i)
  BY DEF Poll
<1>2. i \in DOMAIN pressed /\ question[pressed[i].msg] = asker[t].symbol
  BY DEF Answers, ApprovalInv, AskTypes
<1>3. UNCHANGED <<question, pressed>>
  BY <1>1 DEF Answered
<1>4. CASE pressed[i].verb = "approve"
  BY <1>1, <1>2, <1>3, <1>4
     DEF Answered, ApprovalInv, AskTypes, SendersApproved, ApprovedBefore
<1>5. CASE pressed[i].verb # "approve"
  <2>1. asker' = [asker EXCEPT ![t] = [pc |-> "idle", symbol |-> "none", msg |-> Unasked]]
    BY <1>1, <1>5 DEF Answered, StopAsking, NotAsking
  <2> QED
    BY <1>3, <2>1 DEF ApprovalInv, AskTypes, SendersApproved, ApprovedBefore
<1> QED
  BY <1>4, <1>5

\* Who did not poll sends what was approved before it, or nothing.
LEMMA SendersStay ==
  ASSUME ApprovalInv, [ApprovalNext]_approvalVars, ~(\E t \in Askers : Poll(t))
  PROVE  SendersApproved'
<1>1. \A symbol : ApprovedBefore(symbol) => ApprovedBefore(symbol)'
  <2>1. question' = question \/ \E sym \in Tickers : question' = Append(question, sym)
    BY DEF ApprovalNext, approvalVars, SetRequired, BotRestarts, Press, UpdaterConfirms, AskOrder,
           AskFailed, AskerStep, Deadline, SendOrder, SendRefused
  <2>2. \/ pressed' = pressed
        \/ \E m \in DOMAIN question, verb \in Verbs :
             pressed' = Append(pressed, [msg |-> m, verb |-> verb])
    BY DEF ApprovalNext, approvalVars, SetRequired, BotRestarts, Press, UpdaterConfirms, AskOrder,
           AskFailed, AskerStep, Deadline, SendOrder, SendRefused
  <2> QED
    BY <2>1, <2>2, ApprovalsStay DEF ApprovalInv
<1>2. \A t \in Askers :
        asker'[t].pc = "send" /\ asker'[t].msg # Unasked =>
          asker[t].pc = "send" /\ asker[t].msg = asker'[t].msg /\ asker[t].symbol = asker'[t].symbol
  <2>1. CASE asker' = asker
    BY <2>1
  <2>2. CASE \E t \in Askers, sym \in Tickers : AskOrder(t, sym)
    <3>1. PICK t \in Askers, sym \in Tickers : AskOrder(t, sym)
      BY <2>2
    <3>2. CASE required
      BY <3>1, <3>2 DEF AskOrder, ApprovalInv, AskTypes
    <3>3. CASE ~required
      BY <3>1, <3>3 DEF AskOrder, ApprovalInv, AskTypes
    <3> QED
      BY <3>2, <3>3
  <2>3. CASE \E t \in Askers : StopAsking(t)
    <3>1. PICK t \in Askers : asker' = [asker EXCEPT ![t] = NotAsking]
      BY <2>3 DEF StopAsking
    <3> QED
      BY <3>1 DEF NotAsking, ApprovalInv, AskTypes
  <2>4. CASE BotRestarts
    BY <2>4 DEF BotRestarts, NotAsking
  <2> QED
    BY <2>1, <2>2, <2>3, <2>4
       DEF ApprovalNext, approvalVars, SetRequired, Press, UpdaterConfirms, AskFailed, AskerStep,
           Deadline, SendOrder, SendRefused
<1> QED
  BY <1>1, <1>2 DEF ApprovalInv, SendersApproved

LEMMA SentApproved ==
  ASSUME ApprovalInv, [ApprovalNext]_approvalVars
  PROVE  AskedOrdersHaveAnApproval'
<1>1. CASE \E t \in Askers : SendOrder(t)
  <2>1. PICK t \in Askers : SendOrder(t)
    BY <1>1
  <2>2. asker[t].msg # Unasked => ApprovedBefore(asker[t].symbol)
    BY <2>1 DEF SendOrder, ApprovalInv, SendersApproved
  <2> QED
    BY <2>1, <2>2 DEF SendOrder, ApprovalInv, AskedOrdersHaveAnApproval, ApprovedBefore
<1>2. CASE ~(\E t \in Askers : SendOrder(t))
  <2>1. sent' = sent
    BY <1>2 DEF ApprovalNext, approvalVars, SetRequired, BotRestarts, Press, UpdaterConfirms,
                AskOrder, AskFailed, AskerStep, Poll, Answered, Deadline, SendRefused
  <2>2. question' = question \/ \E sym \in Tickers : question' = Append(question, sym)
    BY DEF ApprovalNext, approvalVars, SetRequired, BotRestarts, Press, UpdaterConfirms, AskOrder,
           AskFailed, AskerStep, Poll, Answered, Deadline, SendOrder, SendRefused
  <2>3. \/ pressed' = pressed
        \/ \E m \in DOMAIN question, verb \in Verbs :
             pressed' = Append(pressed, [msg |-> m, verb |-> verb])
    BY DEF ApprovalNext, approvalVars, SetRequired, BotRestarts, Press, UpdaterConfirms, AskOrder,
           AskFailed, AskerStep, Poll, Answered, Deadline, SendOrder, SendRefused
  <2>4. \A symbol : ApprovedBefore(symbol) => ApprovedBefore(symbol)'
    BY <2>2, <2>3, ApprovalsStay DEF ApprovalInv
  <2> QED
    BY <2>1, <2>4 DEF ApprovalInv, AskedOrdersHaveAnApproval, ApprovedBefore
<1> QED
  BY <1>1, <1>2

\* For any number of requests, questions and presses: an order that was asked for follows an
\* approval of its symbol, whatever polls lose or repeat (notifications/telegram.py,
\* request_approval).
THEOREM ApprovalTheorem == ApprovalSpec => []AskedOrdersHaveAnApproval
<1>1. ApprovalInv /\ [ApprovalNext]_approvalVars => ApprovalInv'
  BY TypesStay, AnswerApproves, SendersStay, SentApproved DEF ApprovalInv
<1>2. ApprovalInv => AskedOrdersHaveAnApproval
  BY DEF ApprovalInv
<1> QED
  BY <1>1, <1>2, ApprovalInvInit, PTL DEF ApprovalSpec

LEMMA WiderSeq ==
  ASSUME NEW S, NEW T, S \subseteq T, NEW q \in Seq(S)
  PROVE  q \in Seq(T)
OBVIOUS

\* The local states of a request, and the orders, when there are so many questions.
AskStates(n) ==
  [pc: {"idle", "wait", "send"}, symbol: Tickers \cup {"none"}, msg: {Unasked} \cup 1 .. n]
SentOrders(n) == [symbol: Tickers, msg: {Unasked} \cup 1 .. n]

\* A question more leaves what names the earlier ones typed.
LEMMA QuestionsGrow ==
  ASSUME NEW n \in Nat
  PROVE  /\ AskStates(n) \subseteq AskStates(n + 1) /\ SentOrders(n) \subseteq SentOrders(n + 1)
         /\ [msg: 1 .. n, verb: Verbs] \subseteq [msg: 1 .. n + 1, verb: Verbs]
BY DEF AskStates, SentOrders

\* A request that waits or sends has a symbol.
AskersNamed == \A t \in Askers : asker[t].pc # "idle" => asker[t].symbol \in Tickers

ApprovalTypes == ApprovalTypeOK /\ AskersNamed

LEMMA ApprovalTypesInit == ApprovalInit => ApprovalTypes
BY ApprovalAssumption
   DEF ApprovalInit, ApprovalTypes, ApprovalTypeOK, AskersNamed, NotAsking, Unasked

LEMMA ApprovalTypesNext == ApprovalTypes /\ [ApprovalNext]_approvalVars => ApprovalTypes'
<1> SUFFICES ASSUME ApprovalTypes, [ApprovalNext]_approvalVars
             PROVE  ApprovalTypes'
  OBVIOUS
<1> DEFINE n == Len(question)
<1>0. n \in Nat /\ DOMAIN question = 1 .. n
  BY DEF ApprovalTypes, ApprovalTypeOK
<1>1. /\ n <= MaxQuestions /\ MaxQuestions \in Nat
      /\ Len(pressed) \in Nat /\ Len(pressed) <= MaxPresses /\ MaxPresses \in Nat
      /\ pressed \in Seq([msg: 1 .. n, verb: Verbs]) /\ confirmed \in 0 .. Len(pressed)
      /\ asker \in [Askers -> AskStates(n)] /\ sent \subseteq SentOrders(n)
      /\ question \in Seq(Tickers)
  <2>1. pressed \in Seq([msg: 1 .. n, verb: Verbs])
    BY <1>0 DEF ApprovalTypes, ApprovalTypeOK
  <2>2. asker \in [Askers -> AskStates(n)] /\ sent \subseteq SentOrders(n)
    BY <1>0 DEF ApprovalTypes, ApprovalTypeOK, AskStates, SentOrders
  <2> QED
    BY <2>1, <2>2, ApprovalAssumption DEF ApprovalTypes, ApprovalTypeOK
<1>2. NotAsking \in AskStates(n) /\ NotAsking.pc = "idle"
  BY DEF NotAsking, AskStates
<1>3. ASSUME question' = question, pressed' = pressed, required' \in BOOLEAN,
             confirmed' \in 0 .. Len(pressed),
             asker' \in [Askers -> AskStates(n)], sent' \subseteq SentOrders(n), AskersNamed'
      PROVE  ApprovalTypes'
  BY <1>1, <1>3 DEF ApprovalTypes, ApprovalTypeOK, AskStates, SentOrders
<1>4. CASE SetRequired
  BY <1>0, <1>1, <1>3, <1>4 DEF SetRequired, ApprovalTypes, ApprovalTypeOK, AskersNamed
<1>5. CASE BotRestarts
  BY <1>1, <1>2, <1>3, <1>5 DEF BotRestarts, ApprovalTypes, ApprovalTypeOK, AskersNamed
<1>6. CASE \E m \in DOMAIN question, verb \in Verbs : Press(m, verb)
  <2>1. PICK m \in DOMAIN question, verb \in Verbs : Press(m, verb)
    BY <1>6
  <2>2. [msg |-> m, verb |-> verb] \in [msg: 1 .. n, verb: Verbs]
    BY <1>0
  <2>3. /\ pressed' = Append(pressed, [msg |-> m, verb |-> verb]) /\ Len(pressed) < MaxPresses
        /\ UNCHANGED <<required, question, confirmed, asker, sent>>
    BY <2>1 DEF Press
  <2>4. /\ pressed' \in Seq([msg: 1 .. n, verb: Verbs]) /\ Len(pressed') = Len(pressed) + 1
    BY <1>1, <2>2, <2>3
  <2> QED
    BY <1>0, <1>1, <2>3, <2>4 DEF ApprovalTypes, ApprovalTypeOK, AskStates, SentOrders, AskersNamed
<1>7. CASE \E i \in confirmed + 1 .. Len(pressed) : UpdaterConfirms(i)
  BY <1>0, <1>1, <1>3, <1>7 DEF UpdaterConfirms, ApprovalTypes, ApprovalTypeOK, AskersNamed
<1>8. CASE \E t \in Askers, sym \in Tickers : AskOrder(t, sym) \/ AskFailed(t, sym)
  <2>1. PICK t \in Askers, sym \in Tickers : AskOrder(t, sym) \/ AskFailed(t, sym)
    BY <1>8
  <2>2. UNCHANGED <<required, pressed, confirmed, sent>>
    BY <2>1 DEF AskOrder, AskFailed
  <2>3. CASE AskOrder(t, sym) /\ ~required
    <3>1. /\ question' = question
          /\ asker' = [asker EXCEPT ![t] = [pc |-> "send", symbol |-> sym, msg |-> Unasked]]
      BY <2>3 DEF AskOrder
    <3>2. [pc |-> "send", symbol |-> sym, msg |-> Unasked] \in AskStates(n)
      BY DEF AskStates
    <3>3. asker' \in [Askers -> AskStates(n)] /\ AskersNamed'
      BY <1>1, <3>1, <3>2 DEF AskersNamed, ApprovalTypes
    <3> QED
      BY <1>0, <1>1, <1>3, <2>2, <3>1, <3>3 DEF ApprovalTypes, ApprovalTypeOK
  <2>4. CASE (AskOrder(t, sym) /\ required) \/ AskFailed(t, sym)
    <3>0. question' = Append(question, sym) /\ n < MaxQuestions
      BY <2>4 DEF AskOrder, AskFailed
    <3>1. /\ question' \in Seq(Tickers) /\ Len(question') = n + 1
          /\ DOMAIN question' = 1 .. n + 1
      BY <1>0, <1>1, <3>0
    <3>2. asker' \in [Askers -> AskStates(n + 1)] /\ AskersNamed'
      <4>1. asker \in [Askers -> AskStates(n + 1)]
        BY <1>0, <1>1, QuestionsGrow
      <4>2. [pc |-> "wait", symbol |-> sym, msg |-> n + 1] \in AskStates(n + 1)
        BY <1>1 DEF AskStates
      <4>3. \/ asker' = asker
            \/ asker' = [asker EXCEPT ![t] = [pc |-> "wait", symbol |-> sym, msg |-> n + 1]]
        BY <2>4 DEF AskOrder, AskFailed
      <4> QED
        BY <4>1, <4>2, <4>3 DEF AskersNamed, ApprovalTypes
    <3>3. sent' \subseteq SentOrders(n + 1) /\ pressed' \in Seq([msg: 1 .. n + 1, verb: Verbs])
      <4>1. sent' \subseteq SentOrders(n + 1)
        BY <1>0, <1>1, <2>2, QuestionsGrow
      <4>2. [msg: 1 .. n, verb: Verbs] \subseteq [msg: 1 .. n + 1, verb: Verbs]
        BY <1>0, QuestionsGrow
      <4>3. pressed \in Seq([msg: 1 .. n + 1, verb: Verbs])
        BY <1>1, <4>2, WiderSeq
      <4> QED
        BY <2>2, <4>1, <4>3
    <3> QED
      BY <1>1, <2>2, <3>0, <3>1, <3>2, <3>3
         DEF ApprovalTypes, ApprovalTypeOK, AskStates, SentOrders
  <2> QED
    BY <2>1, <2>3, <2>4
<1>9. CASE \E t \in Askers : AskerStep(t)
  <2>1. PICK t \in Askers : AskerStep(t)
    BY <1>9
  <2>2. UNCHANGED <<required, question, pressed, confirmed>>
    BY <2>1 DEF AskerStep, Poll, Answered, Deadline, SendOrder, SendRefused
  <2>3. asker[t] \in AskStates(n) /\ asker[t].pc # "idle" /\ asker[t].symbol \in Tickers
    <3>1. asker[t].pc \in {"wait", "send"}
      BY <2>1 DEF AskerStep, Poll, Deadline, SendOrder, SendRefused
    <3> QED
      BY <1>1, <3>1 DEF ApprovalTypes, AskersNamed
  <2>4. asker' \in [Askers -> AskStates(n)] /\ AskersNamed'
    <3>1. [asker[t] EXCEPT !.pc = "send"] \in AskStates(n)
      BY <2>3 DEF AskStates
    <3>2. [asker[t] EXCEPT !.pc = "send"].symbol \in Tickers
      BY <2>3 DEF AskStates
    <3>3. \/ asker' = [asker EXCEPT ![t] = [asker[t] EXCEPT !.pc = "send"]]
          \/ asker' = [asker EXCEPT ![t] = NotAsking]
      BY <2>1 DEF AskerStep, Poll, Answered, Deadline, SendOrder, SendRefused, StopAsking
    <3> QED
      BY <1>1, <1>2, <3>1, <3>2, <3>3 DEF AskersNamed, ApprovalTypes
  <2>5. sent' \subseteq SentOrders(n)
    <3>1. [symbol |-> asker[t].symbol, msg |-> asker[t].msg] \in SentOrders(n)
      BY <2>3 DEF AskStates, SentOrders
    <3> QED
      BY <1>1, <2>1, <3>1 DEF AskerStep, Poll, Answered, Deadline, SendOrder, SendRefused
  <2> QED
    BY <1>0, <1>1, <1>3, <2>2, <2>4, <2>5 DEF ApprovalTypes, ApprovalTypeOK
<1>10. CASE UNCHANGED approvalVars
  BY <1>0, <1>1, <1>3, <1>10 DEF approvalVars, ApprovalTypes, ApprovalTypeOK, AskersNamed
<1> QED
  BY <1>4, <1>5, <1>6, <1>7, <1>8, <1>9, <1>10 DEF ApprovalNext

\* What names a question names one that was sent.
THEOREM ApprovalTyped == ApprovalSpec => []ApprovalTypeOK
<1>1. ApprovalTypes => ApprovalTypeOK
  BY DEF ApprovalTypes
<1> QED
  BY <1>1, ApprovalTypesInit, ApprovalTypesNext, PTL DEF ApprovalSpec

---------------------------------------------------------------------------
(* The approval manager *)

CallerStates ==
  [pc: {"idle", "nolock", "getlock", "lock", "check", "ask", "sending", "waiting",
        "granted", "refused", "place", "insert", "close", "closerow"},
   lock: Callers \cup {Nothing}, approved: {"open", "yes", "no"}]

ManagedTypes ==
  /\ wired \in [required: BOOLEAN, bot: BOOLEAN]
  /\ symbolLock \in Callers \cup {Nothing}
  /\ caller \in [Callers -> CallerStates]
  /\ pending \in Callers \cup {Nothing}
  /\ approvals \in Nat /\ approvedOrders \in Nat

\* A press reaches a request that has asked and is not answered to the end.
PendingWaits ==
  pending # Nothing => caller[pending].pc \in {"sending", "waiting", "granted", "refused"}

\* Nobody is approved before it asks.
Unanswered ==
  \A c \in Callers : caller[c].pc \in {"lock", "check", "ask"} => caller[c].approved = "open"

\* The requests that may still send an order, or have it from a press that they may.
Licences(state) ==
  \/ state.pc \in {"granted", "place"}
  \/ state.pc \in {"sending", "waiting"} /\ state.approved = "yes"

Licensed == {c \in Callers : Licences(caller[c])}

\* Each of them, and each order sent, has a press of its own.
OnePressEach == wired.required => approvedOrders + Cardinality(Licensed) <= approvals

ManagedInv == ManagedTypes /\ PendingWaits /\ Unanswered /\ OnePressEach

LEMMA LicensedFinite == IsFiniteSet(Licensed) /\ Cardinality(Licensed) \in Nat
<1>1. Licensed \in SUBSET Callers
  BY DEF Licensed
<1> QED
  BY <1>1, ManagedAssumption, FS_Subset, FS_CardinalityType

LEMMA ManagedInvInit == ManagedInit => ManagedInv
<1> SUFFICES ASSUME ManagedInit PROVE ManagedInv
  OBVIOUS
<1>1. ManagedTypes /\ PendingWaits /\ Unanswered
  BY DEF ManagedInit, ManagedTypes, PendingWaits, Unanswered, NoCaller, CallerStates
<1>2. Licensed = {}
  BY DEF ManagedInit, Licensed, Licences, NoCaller
<1>3. OnePressEach
  BY <1>2, FS_EmptySet DEF ManagedInit, OnePressEach
<1> QED
  BY <1>1, <1>3 DEF ManagedInv

\* What one request's step does to the number of those that may send.
LEMMA LicensesCount ==
  ASSUME ManagedTypes, NEW c \in Callers, NEW state \in CallerStates,
         caller' = [caller EXCEPT ![c] = state]
  PROVE  /\ Cardinality(Licensed)' \in Nat
         /\ Cardinality(Licensed)' <= Cardinality(Licensed) + 1
         /\ Licences(state) /\ Licences(caller[c]) =>
              Cardinality(Licensed)' = Cardinality(Licensed)
         /\ ~Licences(state) => Cardinality(Licensed)' <= Cardinality(Licensed)
         /\ ~Licences(state) /\ Licences(caller[c]) =>
              Cardinality(Licensed)' = Cardinality(Licensed) - 1
<1> DEFINE L == Licensed
<1>1. c \in L <=> Licences(caller[c])
  BY DEF Licensed
<1>2. caller'[c] = state /\ \A d \in Callers : d # c => caller'[d] = caller[d]
  BY DEF ManagedTypes
<1>3. Licences(state) => Licensed' = L \cup {c}
  BY <1>2 DEF Licensed, Licences
<1>4. ~Licences(state) => Licensed' = L \ {c}
  BY <1>2 DEF Licensed, Licences
<1>5. IsFiniteSet(L) /\ Cardinality(L) \in Nat
  BY LicensedFinite
<1>6. Cardinality(L \cup {c}) = IF c \in L THEN Cardinality(L) ELSE Cardinality(L) + 1
  BY <1>5, FS_AddElement
<1>7. Cardinality(L \ {c}) = IF c \in L THEN Cardinality(L) - 1 ELSE Cardinality(L)
  BY <1>5, FS_RemoveElement
<1>8. IsFiniteSet(L \cup {c}) /\ IsFiniteSet(L \ {c})
  BY <1>5, FS_AddElement, FS_RemoveElement
<1>9. Cardinality(L \cup {c}) \in Nat /\ Cardinality(L \ {c}) \in Nat
  BY <1>8, FS_CardinalityType
<1> HIDE DEF L
<1>10. CASE Licences(state)
  BY <1>1, <1>3, <1>5, <1>6, <1>9, <1>10 DEF L
<1>11. CASE ~Licences(state)
  <2>1. Cardinality(Licensed)' = Cardinality(L \ {c})
    BY <1>4, <1>11
  <2>2. CASE c \in L
    BY <1>1, <1>5, <1>7, <1>9, <1>11, <2>1, <2>2 DEF L
  <2>3. CASE c \notin L
    BY <1>1, <1>5, <1>7, <1>9, <1>11, <2>1, <2>3 DEF L
  <2> QED
    BY <2>2, <2>3
<1> QED
  BY <1>10, <1>11

\* A step of one request keeps the invariant when the licence it comes by is paid for: it had
\* one before, or sends its order and has none after, or a press gives it.
LEMMA RequestMoves ==
  ASSUME ManagedInv, NEW c \in Callers, NEW state \in CallerStates,
         caller' = [caller EXCEPT ![c] = state],
         wired' = wired, symbolLock' \in Callers \cup {Nothing},
         pending' \in {pending, c, Nothing},
         pending' = c => state.pc \in {"sending", "waiting", "granted", "refused"},
         state.pc \in {"lock", "check", "ask"} => state.approved = "open",
         \/ /\ approvedOrders' = approvedOrders /\ approvals' = approvals
            /\ wired.required /\ Licences(state) => Licences(caller[c])
         \/ /\ approvedOrders' \in {approvedOrders, approvedOrders + 1} /\ approvals' = approvals
            /\ ~Licences(state)
            /\ wired.required => Licences(caller[c])
         \/ /\ approvedOrders' = approvedOrders /\ approvals' = approvals + 1
  PROVE  ManagedInv'
<1> USE DEF ManagedInv
<1>1. ManagedTypes'
  BY DEF ManagedTypes
<1>2. caller'[c] = state /\ \A d \in Callers : d # c => caller'[d] = caller[d]
  BY DEF ManagedTypes
<1>3. PendingWaits'
  BY <1>2, ManagedAssumption DEF PendingWaits, ManagedTypes
<1>4. Unanswered'
  BY <1>2 DEF Unanswered
<1>5. OnePressEach'
  <2> DEFINE n == Cardinality(Licensed)
             m == Cardinality(Licensed)'
  <2>1. /\ n \in Nat /\ m \in Nat /\ m <= n + 1
        /\ Licences(state) /\ Licences(caller[c]) => m = n
        /\ ~Licences(state) => m <= n
        /\ ~Licences(state) /\ Licences(caller[c]) => m = n - 1
    BY LicensesCount, LicensedFinite
  <2>2. wired.required => approvedOrders + n <= approvals
    BY DEF OnePressEach
  <2>3. approvedOrders \in Nat /\ approvals \in Nat
    BY DEF ManagedTypes
  <2> HIDE DEF n, m
  <2>4. wired.required => approvedOrders' + m <= approvals'
    <3> SUFFICES ASSUME wired.required PROVE approvedOrders' + m <= approvals'
      OBVIOUS
    <3>1. CASE Licences(state)
      BY <2>1, <2>2, <2>3, <3>1
    <3>2. CASE ~Licences(state)
      BY <2>1, <2>2, <2>3, <3>2
    <3> QED
      BY <3>1, <3>2
  <2> QED
    BY <2>4 DEF OnePressEach, m
<1> QED
  BY <1>1, <1>3, <1>4, <1>5

\* The states a request takes on.
LEMMA NextStates ==
  ASSUME ManagedTypes, NEW c \in Callers
  PROVE  /\ NoCaller \in CallerStates /\ NoCaller.pc = "idle" /\ ~Licences(NoCaller)
         /\ caller[c] \in CallerStates
         /\ \A pc \in {"idle", "nolock", "getlock", "lock", "check", "ask", "sending", "waiting",
                       "granted", "refused", "place", "insert", "close", "closerow"} :
              /\ [caller[c] EXCEPT !.pc = pc] \in CallerStates
              /\ [caller[c] EXCEPT !.pc = pc].pc = pc
              /\ [caller[c] EXCEPT !.pc = pc].approved = caller[c].approved
         /\ \A lock \in Callers \cup {Nothing} :
              /\ [NoCaller EXCEPT !.pc = "lock", !.lock = lock] \in CallerStates
              /\ [NoCaller EXCEPT !.pc = "lock", !.lock = lock].pc = "lock"
              /\ [NoCaller EXCEPT !.pc = "lock", !.lock = lock].approved = "open"
BY DEF NoCaller, CallerStates, ManagedTypes, Licences

LEMMA GoesOn ==
  ASSUME ManagedInv, NEW c \in Callers,
         NEW pc \in {"idle", "nolock", "getlock", "lock", "check", "ask", "sending", "waiting",
                   "granted", "refused", "place", "insert", "close", "closerow"},
         CallerTo(c, pc), UNCHANGED <<wired, approvals, approvedOrders>>,
         symbolLock' \in Callers \cup {Nothing},
         pending' \in {pending, c, Nothing},
         pending' = c => pc \in {"sending", "waiting", "granted", "refused"},
         pc \in {"lock", "check", "ask"} => caller[c].pc \in {"lock", "check", "ask"},
         wired.required /\ (pc \in {"granted", "place"} \/ (pc \in {"sending", "waiting"} /\ caller[c].approved = "yes"))
           => Licences(caller[c])
  PROVE  ManagedInv'
<1> DEFINE state == [caller[c] EXCEPT !.pc = pc]
<1>1. state \in CallerStates /\ state.pc = pc /\ state.approved = caller[c].approved
  <2>1. caller[c] \in CallerStates
    BY DEF ManagedInv, ManagedTypes
  <2> QED
    BY <2>1 DEF CallerStates
<1>2. caller' = [caller EXCEPT ![c] = state]
  BY DEF CallerTo
<1>3. Licences(state) <=> pc \in {"granted", "place"} \/ (pc \in {"sending", "waiting"} /\ caller[c].approved = "yes")
  BY <1>1 DEF Licences
<1>4. state.pc \in {"lock", "check", "ask"} => state.approved = "open"
  BY <1>1 DEF ManagedInv, Unanswered
<1> HIDE DEF state
<1> QED
  BY <1>1, <1>2, <1>3, <1>4, RequestMoves

LEMMA ReleaseKeeps ==
  ASSUME ManagedInv, NEW c \in Callers, Release(c),
         UNCHANGED <<wired, symbolLock, approvals>>,
         pending' \in {pending, Nothing}, pending' # c,
         \/ approvedOrders' = approvedOrders
         \/ /\ approvedOrders' = approvedOrders + 1
            /\ wired.required => Licences(caller[c])
  PROVE  ManagedInv'
<1>1. NoCaller \in CallerStates /\ NoCaller.pc = "idle" /\ ~Licences(NoCaller)
  BY NextStates DEF ManagedInv
<1>2. caller' = [caller EXCEPT ![c] = NoCaller]
  BY DEF Release
<1>3. symbolLock' \in Callers \cup {Nothing}
  BY DEF ManagedInv, ManagedTypes
<1> QED
  BY <1>1, <1>2, <1>3, RequestMoves

LEMMA NotPending ==
  ASSUME ManagedInv, NEW c \in Callers,
         caller[c].pc \notin {"sending", "waiting", "granted", "refused"}
  PROVE  pending # c
BY ManagedAssumption DEF ManagedInv, PendingWaits

\* The lock.
LEMMA LockKeeps ==
  ASSUME ManagedInv, NEW c \in Callers,
         FindLock(c) \/ MakeLock(c) \/ GetLock(c) \/ Acquire(c)
  PROVE  ManagedInv'
<1>1. pending # c
  BY NotPending DEF FindLock, MakeLock, GetLock, Acquire, CallerAt
<1>2. symbolLock \in Callers \cup {Nothing}
  BY DEF ManagedInv, ManagedTypes
<1>3. CASE FindLock(c)
  BY <1>1, <1>2, <1>3, GoesOn DEF FindLock
<1>4. CASE MakeLock(c)
  BY <1>1, <1>2, <1>4, GoesOn DEF MakeLock
<1>5. CASE GetLock(c)
  <2> DEFINE state == [NoCaller EXCEPT !.pc = "lock", !.lock = symbolLock]
  <2>1. state \in CallerStates /\ state.pc = "lock" /\ state.approved = "open"
    BY <1>2, NextStates DEF ManagedInv
  <2>2. ~Licences(state)
    BY <2>1 DEF Licences
  <2>3. caller' = [caller EXCEPT ![c] = state]
    BY <1>5 DEF GetLock
  <2> HIDE DEF state
  <2> QED
    BY <1>1, <1>2, <1>5, <2>1, <2>2, <2>3, RequestMoves DEF GetLock
<1>6. CASE Acquire(c)
  BY <1>1, <1>2, <1>6, GoesOn DEF Acquire, CallerAt
<1> QED
  BY <1>3, <1>4, <1>5, <1>6

\* The order, and the closing of a position.
LEMMA OrderKeeps ==
  ASSUME ManagedInv, NEW c \in Callers,
         \/ NotPlaced(c) \/ Checked(c) \/ Place(c) \/ InsertRow(c)
         \/ CloseStart(c) \/ CloseFails(c) \/ CloseOrder(c) \/ CloseRow(c)
  PROVE  ManagedInv'
<1>1. pending # c
  BY NotPending
     DEF NotPlaced, Checked, Place, InsertRow, CloseStart, CloseFails, CloseOrder, CloseRow,
         CallerAt
<1>2. symbolLock \in Callers \cup {Nothing}
  BY DEF ManagedInv, ManagedTypes
<1>3. CASE NotPlaced(c)
  BY <1>1, <1>3, ReleaseKeeps DEF NotPlaced
<1>4. CASE Checked(c)
  <2>1. CASE wired.required
    BY <1>1, <1>2, <1>4, <2>1, GoesOn DEF Checked, CallerAt
  <2>2. CASE ~wired.required
    BY <1>1, <1>2, <1>4, <2>2, GoesOn DEF Checked
  <2> QED
    BY <2>1, <2>2
<1>5. CASE Place(c)
  <2>1. Licences(caller[c]) /\ caller[c] \in CallerStates
    BY <1>5, NextStates DEF Place, CallerAt, Licences, ManagedInv
  <2>2. approvedOrders' \in {approvedOrders, approvedOrders + 1}
    BY <1>5 DEF Place
  <2>3. CASE Release(c)
    BY <1>1, <1>5, <2>1, <2>2, <2>3, ReleaseKeeps DEF Place
  <2>4. CASE CallerTo(c, "insert")
    <3> DEFINE state == [caller[c] EXCEPT !.pc = "insert"]
    <3>1. state \in CallerStates /\ state.pc = "insert"
      BY NextStates DEF ManagedInv
    <3>2. ~Licences(state)
      BY <3>1 DEF Licences
    <3>3. caller' = [caller EXCEPT ![c] = state]
      BY <2>4 DEF CallerTo
    <3> HIDE DEF state
    <3> QED
      BY <1>1, <1>2, <1>5, <2>1, <2>2, <3>1, <3>2, <3>3, RequestMoves DEF Place
  <2> QED
    BY <1>5, <2>3, <2>4 DEF Place
<1>6. CASE InsertRow(c)
  BY <1>1, <1>6, ReleaseKeeps DEF InsertRow
<1>7. CASE CloseStart(c) \/ CloseFails(c) \/ CloseOrder(c) \/ CloseRow(c)
  BY <1>1, <1>2, <1>7, GoesOn DEF CloseStart, CloseFails, CloseOrder, CloseRow
<1> QED
  BY <1>3, <1>4, <1>5, <1>6, <1>7

\* What a request does with its approval.
LEMMA AskKeeps ==
  ASSUME ManagedInv, NEW c \in Callers,
         \/ Unconfigured(c) \/ RequestApproval(c) \/ ApprovalSent(c) \/ ApprovalUnsent(c)
         \/ SeeAnswer(c) \/ ApprovalTimesOut(c) \/ Granted(c) \/ GrantedRaises(c) \/ RefusedOrder(c)
  PROVE  ManagedInv'
<1>1. symbolLock \in Callers \cup {Nothing} /\ Nothing # c
  BY ManagedAssumption DEF ManagedInv, ManagedTypes
<1>2. CASE Unconfigured(c)
  BY <1>2, NotPending, ReleaseKeeps DEF Unconfigured, CallerAt
<1>3. CASE RequestApproval(c)
  <2>1. caller[c].approved # "yes"
    BY <1>3 DEF RequestApproval, CallerAt, ManagedInv, Unanswered
  <2> QED
    BY <1>1, <1>3, <2>1, GoesOn DEF RequestApproval
<1>4. CASE ApprovalSent(c)
  BY <1>1, <1>4, GoesOn DEF ApprovalSent, CallerAt, Licences
<1>5. CASE ApprovalUnsent(c) \/ GrantedRaises(c) \/ RefusedOrder(c)
  BY <1>1, <1>5, ReleaseKeeps DEF ApprovalUnsent, GrantedRaises, RefusedOrder
<1>6. CASE SeeAnswer(c)
  <2>1. CASE caller[c].approved = "yes"
    BY <1>1, <1>6, <2>1, GoesOn DEF SeeAnswer, CallerAt, Licences
  <2>2. CASE caller[c].approved # "yes"
    BY <1>1, <1>6, <2>2, GoesOn DEF SeeAnswer
  <2> QED
    BY <2>1, <2>2
<1>7. CASE ApprovalTimesOut(c)
  BY <1>1, <1>7, GoesOn DEF ApprovalTimesOut
<1>8. CASE Granted(c)
  BY <1>1, <1>8, GoesOn DEF Granted, CallerAt, Licences
<1> QED
  BY <1>2, <1>3, <1>4, <1>5, <1>6, <1>7, <1>8

LEMMA PressKeeps ==
  ASSUME ManagedInv, NEW verb \in {"yes", "no"}, PressButton(verb)
  PROVE  ManagedInv'
<1>1. pending \in Callers /\ symbolLock \in Callers \cup {Nothing}
  BY DEF PressButton, ManagedInv, ManagedTypes
<1> DEFINE state == [caller[pending] EXCEPT !.approved = verb]
<1>2. /\ state \in CallerStates /\ state.approved = verb
      /\ state.pc = caller[pending].pc
  BY <1>1 DEF ManagedInv, ManagedTypes, CallerStates
<1>3. caller' = [caller EXCEPT ![pending] = state]
  BY DEF PressButton
<1>4. state.pc \in {"sending", "waiting", "granted", "refused"}
  BY <1>1, <1>2, ManagedAssumption DEF ManagedInv, PendingWaits
<1>5. verb # "yes" /\ Licences(state) => Licences(caller[pending])
  BY <1>2 DEF Licences
<1> HIDE DEF state
<1>6. CASE verb = "yes"
  BY <1>1, <1>2, <1>3, <1>4, <1>6, RequestMoves DEF PressButton
<1>7. CASE verb # "yes"
  BY <1>1, <1>2, <1>3, <1>4, <1>5, <1>7, RequestMoves DEF PressButton
<1> QED
  BY <1>6, <1>7

LEMMA ManagedInvNext == ManagedInv /\ [ManagedNext]_managedVars => ManagedInv'
<1> SUFFICES ASSUME ManagedInv, [ManagedNext]_managedVars
             PROVE  ManagedInv'
  OBVIOUS
<1>1. CASE WindowEnds \/ UNCHANGED managedVars
  <2>1. UNCHANGED <<wired, symbolLock, caller, pending, approvals, approvedOrders>>
    BY <1>1 DEF WindowEnds, managedVars
  <2> QED
    BY <2>1 DEF ManagedInv, ManagedTypes, PendingWaits, Unanswered, OnePressEach, Licensed, Licences
<1>2. CASE ManagedNext
  BY <1>1, <1>2, LockKeeps, OrderKeeps, AskKeeps, PressKeeps DEF ManagedNext
<1> QED
  BY <1>1, <1>2

\* For any number of requests, locks and presses: an approval lets one order through, although
\* two requests may hold different locks and one may take the other's entry (approval.py,
\* place_order.py).
THEOREM PressTheorem == ManagedSpec => []OnePressOneOrder
<1>1. ManagedInv => OnePressOneOrder
  BY LicensedFinite DEF ManagedInv, ManagedTypes, OnePressEach, OnePressOneOrder
<1> QED
  BY <1>1, ManagedInvInit, ManagedInvNext, PTL DEF ManagedSpec

\* The locks, the window and the counters within their bounds; an order that needs no approval
\* is not counted.
ManagedBounds ==
  /\ holder \in [Callers -> Callers \cup {Nothing}]
  /\ approvals <= MaxApprovals
  /\ wired.required \/ approvedOrders = 0
  /\ window \subseteq {"entry", "close"} /\ openRow \in BOOLEAN

LEMMA ManagedBoundsStep == ManagedInv /\ ManagedBounds /\ [ManagedNext]_managedVars => ManagedBounds'
<1> SUFFICES ASSUME ManagedInv, ManagedBounds, [ManagedNext]_managedVars
             PROVE  ManagedBounds'
  OBVIOUS
<1>1. holder' \in [Callers -> Callers \cup {Nothing}]
  <2>1. CASE \E c \in Callers : Acquire(c)
    BY <2>1 DEF Acquire, ManagedBounds
  <2>2. CASE \E c \in Callers : Release(c)
    BY <2>2 DEF Release, ManagedBounds
  <2>3. CASE holder' = holder
    BY <2>3 DEF ManagedBounds
  <2> QED
    BY <2>1, <2>2, <2>3
       DEF ManagedNext, managedVars, WindowEnds, PressButton, FindLock, MakeLock, GetLock,
           NotPlaced, Checked, Place, InsertRow, Unconfigured, RequestApproval, ApprovalSent,
           ApprovalUnsent, SeeAnswer, ApprovalTimesOut, Granted, GrantedRaises, RefusedOrder,
           CloseStart, CloseFails, CloseOrder, CloseRow
<1>2. approvals' <= MaxApprovals
  <2>1. approvals \in Nat /\ approvals <= MaxApprovals /\ MaxApprovals \in Nat
    BY ManagedAssumption DEF ManagedInv, ManagedTypes, ManagedBounds
  <2>2. CASE \E verb \in {"yes", "no"} : PressButton(verb)
    BY <2>1, <2>2 DEF PressButton
  <2>3. CASE approvals' = approvals
    BY <2>1, <2>3
  <2> QED
    BY <2>2, <2>3
       DEF ManagedNext, managedVars, WindowEnds, FindLock, MakeLock, GetLock, Acquire,
           NotPlaced, Checked, Place, InsertRow, Unconfigured, RequestApproval, ApprovalSent,
           ApprovalUnsent, SeeAnswer, ApprovalTimesOut, Granted, GrantedRaises, RefusedOrder,
           CloseStart, CloseFails, CloseOrder, CloseRow
<1>3. wired' = wired /\ (wired.required \/ approvedOrders' = approvedOrders)
  <2>1. CASE \E c \in Callers : Place(c)
    BY <2>1 DEF Place
  <2>2. CASE UNCHANGED <<wired, approvedOrders>>
    BY <2>2
  <2> QED
    BY <2>1, <2>2
       DEF ManagedNext, managedVars, WindowEnds, PressButton, FindLock, MakeLock, GetLock, Acquire,
           NotPlaced, Checked, InsertRow, Unconfigured, RequestApproval, ApprovalSent,
           ApprovalUnsent, SeeAnswer, ApprovalTimesOut, Granted, GrantedRaises, RefusedOrder,
           CloseStart, CloseFails, CloseOrder, CloseRow
<1>4. window' \subseteq {"entry", "close"}
  <2>1. window' \subseteq window \cup {"entry", "close"}
    BY DEF ManagedNext, managedVars, WindowEnds, PressButton, FindLock, MakeLock, GetLock, Acquire,
           NotPlaced, Checked, Place, InsertRow, Unconfigured, RequestApproval, ApprovalSent,
           ApprovalUnsent, SeeAnswer, ApprovalTimesOut, Granted, GrantedRaises, RefusedOrder,
           CloseStart, CloseFails, CloseOrder, CloseRow
  <2> QED
    BY <2>1 DEF ManagedBounds
<1>5. openRow' \in BOOLEAN
  <2>1. openRow' \in {TRUE, FALSE, openRow}
    BY DEF ManagedNext, managedVars, WindowEnds, PressButton, FindLock, MakeLock, GetLock, Acquire,
           NotPlaced, Checked, Place, InsertRow, Unconfigured, RequestApproval, ApprovalSent,
           ApprovalUnsent, SeeAnswer, ApprovalTimesOut, Granted, GrantedRaises, RefusedOrder,
           CloseStart, CloseFails, CloseOrder, CloseRow
  <2> QED
    BY <2>1 DEF ManagedBounds
<1> QED
  BY <1>1, <1>2, <1>3, <1>4, <1>5 DEF ManagedBounds

LEMMA ManagedTypesOK == ManagedInv /\ ManagedBounds => ManagedTypeOK
<1> SUFFICES ASSUME ManagedInv, ManagedBounds PROVE ManagedTypeOK
  OBVIOUS
<1>1. approvals \in Nat /\ approvedOrders \in Nat /\ MaxApprovals \in Nat
  BY ManagedAssumption DEF ManagedInv, ManagedTypes
<1>2. approvedOrders <= approvals
  <2>1. CASE wired.required
    BY <1>1, <2>1, LicensedFinite DEF ManagedInv, OnePressEach
  <2>2. CASE ~wired.required
    BY <1>1, <2>2 DEF ManagedBounds
  <2> QED
    BY <2>1, <2>2
<1>3. approvals \in 0 .. MaxApprovals /\ approvedOrders \in 0 .. MaxApprovals
  BY <1>1, <1>2 DEF ManagedBounds
<1>4. wired \in [required: BOOLEAN, bot: BOOLEAN] /\ caller \in [Callers -> CallerStates]
      /\ symbolLock \in Callers \cup {Nothing} /\ pending \in Callers \cup {Nothing}
  BY DEF ManagedInv, ManagedTypes
<1>5. /\ window \subseteq {"entry", "close"} /\ openRow \in BOOLEAN
      /\ holder \in [Callers -> Callers \cup {Nothing}]
  BY DEF ManagedBounds
<1> QED
  BY <1>3, <1>4, <1>5, Zenon DEF ManagedTypeOK, CallerStates

\* For any number of callers: no more approved orders than buttons pressed, however the presses,
\* the time-outs and the locks fall (application/approval_manager.py).
THEOREM ManagedTyped == ManagedSpec => []ManagedTypeOK
<1>1. ManagedInit => ManagedBounds
  <2> SUFFICES ASSUME ManagedInit PROVE ManagedBounds
    OBVIOUS
  <2>1. approvals <= MaxApprovals
    BY ManagedAssumption DEF ManagedInit
  <2>2. holder \in [Callers -> Callers \cup {Nothing}] /\ approvedOrders = 0
    BY DEF ManagedInit
  <2>3. window \subseteq {"entry", "close"} /\ openRow \in BOOLEAN
    BY Zenon DEF ManagedInit
  <2> QED
    BY <2>1, <2>2, <2>3, Zenon DEF ManagedBounds
<1> QED
  BY <1>1, ManagedInvInit, ManagedInvNext, ManagedBoundsStep, ManagedTypesOK, PTL DEF ManagedSpec

---------------------------------------------------------------------------
(* The analysis *)

Dimension == {"momentum", "trend", "volume", "volatility", "portfolio_fit", "sentiment", "price_change"}

LEMMA TotalTyped ==
  ASSUME NEW r \in [Dimension -> Int]
  PROVE  Total(r) \in Int /\ ((\A k \in Dimension : r[k] > 0) => Total(r) > 0)
<1>1. /\ r["momentum"] \in Int /\ r["trend"] \in Int /\ r["volume"] \in Int /\ r["volatility"] \in Int
      /\ r["portfolio_fit"] \in Int /\ r["sentiment"] \in Int /\ r["price_change"] \in Int
  BY DEF Dimension
<1>2. (\A k \in Dimension : r[k] > 0) =>
        /\ r["momentum"] > 0 /\ r["trend"] > 0 /\ r["volume"] > 0 /\ r["volatility"] > 0
        /\ r["portfolio_fit"] > 0 /\ r["sentiment"] > 0 /\ r["price_change"] > 0
  BY DEF Dimension
<1> QED
  BY <1>1, <1>2 DEF Total

LEMMA WeightsTyped ==
  /\ DOMAIN Weights = Dimension
  /\ \A k \in Dimension : Weights[k] \in {10, 15, 20}
BY DEF Weights, Dimension

LEMMA DimensionsTyped ==
  ASSUME NEW f, NEW positions
  PROVE  Dimensions(f, positions) \in [Dimension -> Int]
<1>1. /\ Momentum(f) \in Int /\ Trend(f) \in Int
  BY DEF Momentum, Trend
<1>2. Volume(f) \in Int /\ Volatility(f) \in Int
  BY DEF Volume, Volatility
<1>3. PortfolioFit(positions) \in Int /\ Sentiment(f) \in Int /\ PriceChange(f) \in Int
  BY DEF PortfolioFit, Sentiment, PriceChange
<1> QED
  BY <1>1, <1>2, <1>3 DEF Dimensions, Dimension

LEMMA ScoreTyped ==
  ASSUME NEW f, NEW positions, NEW mult \in Multipliers
  PROVE  Score(f, positions, mult) \in Int
<1> DEFINE weight == [k \in DOMAIN Weights |-> Weights[k] * (IF k \in DOMAIN mult THEN mult[k] ELSE 100)]
           dims == Dimensions(f, positions)
           parts == [k \in DOMAIN Weights |-> weight[k] * dims[k]]
<1>1. \A k \in Dimension : (IF k \in DOMAIN mult THEN mult[k] ELSE 100) \in 50 .. 150
  BY AnalysisAssumption
<1>2. \A k \in Dimension : weight[k] \in Int /\ weight[k] > 0
  BY <1>1, WeightsTyped
<1>3. weight \in [Dimension -> Int]
  BY <1>2, WeightsTyped
<1> HIDE DEF weight, dims
<1>4. dims \in [Dimension -> Int]
  BY DimensionsTyped DEF dims
<1>5. parts \in [Dimension -> Int]
  BY <1>3, <1>4, WeightsTyped
<1> HIDE DEF parts
<1>6. Total(parts) \in Int /\ Total(weight) \in Int /\ Total(weight) > 0
  BY <1>2, <1>3, <1>5, TotalTyped
<1>7. Score(f, positions, mult) = (100 * Total(parts)) \div Total(weight)
  BY DEF Score, parts, weight, dims
<1>8. \A a, b \in Int : b > 0 => (100 * a) \div b \in Int
  OBVIOUS
<1> QED
  BY <1>6, <1>7, <1>8

Early == {"fetch_data", "compute_indicators", "score", "hard_rules", "gate", "llm_interpret"}
Tradable == {"BUY", "SELL", "PRIORITY"}
Pipes ==
  [step: Steps, mode: Modes, features: FeatureSets \cup {NoFeatures}, score: Int, passed: BOOLEAN,
   ignored: BOOLEAN, answer: ModelAnswers \cup {"none"}, verdict: Verdicts]

\* Before the model's part there is nothing to trade, and the model is asked about nothing that
\* the rules or the filter refused.
NothingEarly ==
  /\ pipe.step \in Early => pipe.verdict \notin Tradable /\ pipe.answer = "none" /\ ~pipe.ignored
  /\ pipe.step = "llm_interpret" => pipe.passed

\* What an analysis that ended with a tradable verdict went through.
VerdictEarned ==
  pipe.verdict \in Tradable =>
    /\ pipe.passed /\ ~pipe.ignored /\ aborted \in {"never", "persist"}
    /\ pipe.answer = pipe.verdict \/ (pipe.verdict = "PRIORITY" /\ pipe.answer = "none" /\ pipe.score > 7500)

TradeLogged ==
  traded \in {"BUY", "SELL"} =>
    /\ pipe.step = "done" /\ pipe.verdict \in Tradable
    /\ traded = Action(pipe.verdict) /\ logged = traded

AnalysisInv == pipe \in Pipes /\ NothingEarly /\ VerdictEarned /\ TradeLogged

LEMMA AnalysisInvInit == AnalysisInit => AnalysisInv
BY DEF AnalysisInit, AnalysisInv, Pipes, NothingEarly, VerdictEarned, TradeLogged, Early, Tradable,
       Steps, Modes, Verdicts, ModelAnswers, QuantVerdicts, Missing

\* A step that leads to an earned verdict, with the trade still to come.
LEMMA StepKeeps ==
  ASSUME AnalysisInv, NEW next \in Pipes, pipe' = next, RowsKept, pipe.step # "done",
         next.step \in Early => next.verdict \notin Tradable /\ next.answer = "none" /\ ~next.ignored,
         next.step = "llm_interpret" => next.passed,
         next.verdict \in Tradable =>
           /\ next.passed /\ ~next.ignored /\ aborted \in {"never", "persist"}
           /\ \/ next.answer = next.verdict
              \/ next.verdict = "PRIORITY" /\ next.answer = "none" /\ next.score > 7500
  PROVE  AnalysisInv'
<1>1. NothingEarly'
  BY DEF NothingEarly
<1>2. VerdictEarned'
  BY DEF VerdictEarned, RowsKept
<1>3. TradeLogged'
  BY DEF AnalysisInv, TradeLogged, RowsKept
<1> QED
  BY <1>1, <1>2, <1>3 DEF AnalysisInv

To(step) == [pipe EXCEPT !.step = step]
Ending(step, verdict) == [pipe EXCEPT !.step = step, !.verdict = verdict]

LEMMA EndingFields ==
  ASSUME pipe \in Pipes, NEW step \in Steps, NEW verdict \in Verdicts
  PROVE  /\ Ending(step, verdict) \in Pipes
         /\ Ending(step, verdict).step = step /\ Ending(step, verdict).verdict = verdict
         /\ Ending(step, verdict).passed = pipe.passed /\ Ending(step, verdict).ignored = pipe.ignored
         /\ Ending(step, verdict).answer = pipe.answer /\ Ending(step, verdict).score = pipe.score
<1> DEFINE q == To(step)
<1>1. q \in Pipes /\ q.step = step
  BY DEF Pipes, To
<1>2. q.passed = pipe.passed /\ q.ignored = pipe.ignored /\ q.answer = pipe.answer /\ q.score = pipe.score
  BY DEF Pipes, To
<1>3. Ending(step, verdict) = [q EXCEPT !.verdict = verdict]
  BY DEF Ending, To
<1> HIDE DEF q
<1> QED
  BY <1>1, <1>2, <1>3 DEF Pipes

LEMMA Words ==
  /\ Early \subseteq Steps /\ {"persist", "result", "done"} \subseteq Steps \ Early
  /\ Verdicts = {"REJECTED", "WATCHLIST", "PROPOSE", "PRIORITY", "BUY", "SELL", "IGNORE", "other",
                 "UNKNOWN", "ERROR"}
  /\ Tradable \subseteq Verdicts /\ ModelAnswers \subseteq Verdicts
BY DEF Early, Steps, Verdicts, Tradable, ModelAnswers, QuantVerdicts

\* What went wrong is an ERROR, which nobody trades.
LEMMA FailsKeeps ==
  ASSUME AnalysisInv, pipe' = Fails, RowsKept, pipe.step # "done"
  PROVE  AnalysisInv'
<1>1. Fails = Ending("result", "ERROR")
  BY DEF Fails, Ending
<1>2. Ending("result", "ERROR") \in Pipes
      /\ Ending("result", "ERROR").step = "result" /\ Ending("result", "ERROR").verdict = "ERROR"
  BY EndingFields, Words DEF AnalysisInv
<1>3. "result" \notin Early /\ "result" # "llm_interpret" /\ "ERROR" \notin Tradable
  BY DEF Early, Tradable
<1> QED
  BY <1>1, <1>2, <1>3, StepKeeps

\* A step that is not the last of the early ones ends in the next, or fails.
LEMMA EarlyKeeps ==
  ASSUME AnalysisInv, NEW next \in Pipes, StepEnds(next), pipe.step \in Early,
         next.step \in Early \ {"llm_interpret"},
         next.verdict = pipe.verdict, next.answer = pipe.answer, next.ignored = pipe.ignored
  PROVE  AnalysisInv'
<1>1. pipe.step # "done" /\ RowsKept
  BY DEF StepEnds, Early
<1>2. CASE pipe' = Fails
  BY <1>1, <1>2, FailsKeeps
<1>3. CASE pipe' = next
  BY <1>1, <1>3, StepKeeps DEF AnalysisInv, NothingEarly
<1> QED
  BY <1>2, <1>3 DEF StepEnds

LEMMA BarsKeep == ASSUME AnalysisInv, FetchData PROVE AnalysisInv'
<1>1. pipe \in Pipes /\ pipe.step = "fetch_data" /\ pipe.step \in Early
  BY DEF FetchData, AtStep, AnalysisInv, Early
<1>2. CASE StepEnds(To("compute_indicators"))
  <2>1. /\ To("compute_indicators") \in Pipes /\ To("compute_indicators").step = "compute_indicators"
        /\ To("compute_indicators").verdict = pipe.verdict /\ To("compute_indicators").answer = pipe.answer
        /\ To("compute_indicators").ignored = pipe.ignored
    BY <1>1, Words DEF To, Pipes, Early
  <2> QED
    BY <1>1, <1>2, <2>1, EarlyKeeps DEF Early
<1>3. CASE StepEnds(Ending("persist", "ERROR"))
  <2>1. Ending("persist", "ERROR") \in Pipes
        /\ Ending("persist", "ERROR").step = "persist" /\ Ending("persist", "ERROR").verdict = "ERROR"
    BY <1>1, EndingFields, Words
  <2>2. "persist" \notin Early /\ "persist" # "llm_interpret" /\ "ERROR" \notin Tradable
    BY DEF Early, Tradable
  <2>3. pipe' = Fails \/ pipe' = Ending("persist", "ERROR")
    BY <1>3 DEF StepEnds
  <2>4. RowsKept /\ pipe.step # "done"
    BY <1>1, <1>3 DEF StepEnds
  <2> QED
    BY <2>1, <2>2, <2>3, <2>4, FailsKeeps, StepKeeps
<1> QED
  BY <1>2, <1>3 DEF FetchData, To, Ending

LEMMA IndicatorsKeep == ASSUME AnalysisInv, ComputeIndicators PROVE AnalysisInv'
<1>1. pipe \in Pipes /\ pipe.step \in Early
  BY DEF ComputeIndicators, AtStep, AnalysisInv, Early
<1>2. PICK f \in FeatureSets : StepEnds([pipe EXCEPT !.step = "score", !.features = f])
  BY DEF ComputeIndicators
<1> DEFINE q == To("score")
           next == [pipe EXCEPT !.step = "score", !.features = f]
<1>3. /\ q \in Pipes /\ q.step = "score" /\ q.verdict = pipe.verdict /\ q.answer = pipe.answer
      /\ q.ignored = pipe.ignored
  BY <1>1, Words DEF To, Pipes, Early
<1>4. next = [q EXCEPT !.features = f]
  BY DEF To
<1> HIDE DEF q, next
<1>5. /\ next \in Pipes /\ next.step = q.step /\ next.verdict = q.verdict /\ next.answer = q.answer
      /\ next.ignored = q.ignored
  BY <1>3, <1>4 DEF Pipes
<1>6. StepEnds(next)
  BY <1>2 DEF next
<1> QED
  BY <1>1, <1>3, <1>5, <1>6, EarlyKeeps DEF Early

LEMMA ScoreKeeps == ASSUME AnalysisInv, ComputeScore PROVE AnalysisInv'
<1>1. pipe \in Pipes /\ pipe.step \in Early
  BY DEF ComputeScore, AtStep, AnalysisInv, Early
<1>2. PICK positions \in Portfolios \cup {0}, mult \in Multipliers :
        StepEnds([pipe EXCEPT !.step = "hard_rules", !.score = Score(pipe.features, positions, mult)])
  BY DEF ComputeScore
<1> DEFINE score == Score(pipe.features, positions, mult)
           q == To("hard_rules")
           next == [pipe EXCEPT !.step = "hard_rules", !.score = score]
<1>3. score \in Int
  BY ScoreTyped
<1>4. /\ q \in Pipes /\ q.step = "hard_rules" /\ q.verdict = pipe.verdict /\ q.answer = pipe.answer
      /\ q.ignored = pipe.ignored
  BY <1>1, Words DEF To, Pipes, Early
<1>5. StepEnds(next)
  BY <1>2
<1> HIDE DEF score
<1>6. next = [q EXCEPT !.score = score]
  BY DEF To
<1> HIDE DEF q, next
<1>7. /\ next \in Pipes /\ next.step = q.step /\ next.verdict = q.verdict /\ next.answer = q.answer
      /\ next.ignored = q.ignored
  BY <1>3, <1>4, <1>6 DEF Pipes
<1> QED
  BY <1>1, <1>4, <1>5, <1>7, EarlyKeeps DEF Early

LEMMA RulesKeep == ASSUME AnalysisInv, CheckHardRules PROVE AnalysisInv'
<1>1. pipe \in Pipes /\ pipe.step \in Early
  BY DEF CheckHardRules, AtStep, AnalysisInv, Early
<1>2. PICK earnings \in {"unknown", "near", "far"} :
        StepEnds([pipe EXCEPT !.step = "gate", !.passed = HardRulesPass(pipe.features, earnings)])
  BY DEF CheckHardRules
<1> DEFINE pass == HardRulesPass(pipe.features, earnings)
           q == To("gate")
           next == [pipe EXCEPT !.step = "gate", !.passed = pass]
<1>3. pass \in BOOLEAN
  BY DEF HardRulesPass
<1>4. /\ q \in Pipes /\ q.step = "gate" /\ q.verdict = pipe.verdict /\ q.answer = pipe.answer
      /\ q.ignored = pipe.ignored
  BY <1>1, Words DEF To, Pipes, Early
<1>5. StepEnds(next)
  BY <1>2
<1> HIDE DEF pass
<1>6. next = [q EXCEPT !.passed = pass]
  BY DEF To
<1> HIDE DEF q, next
<1>7. /\ next \in Pipes /\ next.step = q.step /\ next.verdict = q.verdict /\ next.answer = q.answer
      /\ next.ignored = q.ignored
  BY <1>3, <1>4, <1>6 DEF Pipes
<1> QED
  BY <1>1, <1>4, <1>5, <1>7, EarlyKeeps DEF Early

LEMMA GateKeeps == ASSUME AnalysisInv, Gate PROVE AnalysisInv'
<1>1. /\ pipe \in Pipes /\ pipe.step \in Early /\ pipe.step # "done" /\ RowsKept
      /\ pipe.verdict \notin Tradable /\ pipe.answer = "none" /\ ~pipe.ignored
  BY DEF Gate, AtStep, AnalysisInv, NothingEarly, Early
<1>2. "persist" \notin Early /\ "persist" # "llm_interpret" /\ "REJECTED" \notin Tradable
  BY DEF Early, Tradable
<1>3. CASE pipe' = Ending("persist", "REJECTED")
  <2>1. Ending("persist", "REJECTED") \in Pipes
        /\ Ending("persist", "REJECTED").step = "persist" /\ Ending("persist", "REJECTED").verdict = "REJECTED"
    BY <1>1, EndingFields, Words
  <2> QED
    BY <1>1, <1>2, <1>3, <2>1, StepKeeps
<1>4. CASE pipe' = To("persist")
  <2>1. To("persist") \in Pipes /\ To("persist").step = "persist" /\ To("persist").verdict = pipe.verdict
    BY <1>1, Words DEF To, Pipes
  <2> QED
    BY <1>1, <1>2, <1>4, <2>1, StepKeeps
<1>5. CASE pipe' = [pipe EXCEPT !.step = "persist", !.verdict = "REJECTED", !.ignored = TRUE]
  <2> DEFINE q == Ending("persist", "REJECTED")
  <2>1. q \in Pipes /\ q.step = "persist" /\ q.verdict = "REJECTED"
    BY <1>1, EndingFields, Words
  <2>2. pipe' = [q EXCEPT !.ignored = TRUE]
    BY <1>5 DEF Ending
  <2> HIDE DEF q
  <2>3. pipe' \in Pipes /\ pipe'.step = "persist" /\ pipe'.verdict = "REJECTED"
    BY <2>1, <2>2 DEF Pipes
  <2> QED
    BY <1>1, <1>2, <2>3, StepKeeps
<1>6. CASE pipe.passed /\ pipe' = To("llm_interpret")
  <2>1. /\ To("llm_interpret") \in Pipes /\ To("llm_interpret").step = "llm_interpret"
        /\ To("llm_interpret").verdict = pipe.verdict /\ To("llm_interpret").answer = pipe.answer
        /\ To("llm_interpret").ignored = pipe.ignored /\ To("llm_interpret").passed = pipe.passed
    BY <1>1, Words DEF To, Pipes, Early
  <2> QED
    BY <1>1, <1>6, <2>1, StepKeeps
<1> QED
  BY <1>3, <1>4, <1>5, <1>6 DEF Gate, To, Ending

LEMMA PriorityScore ==
  ASSUME NEW score \in Int
  PROVE  /\ Recommendation(score) \in QuantVerdicts
         /\ Recommendation(score) = "PRIORITY" => score > 7500
BY DEF Recommendation, QuantVerdicts

LEMMA ModelKeeps == ASSUME AnalysisInv, LlmInterpret PROVE AnalysisInv'
<1>1. /\ pipe \in Pipes /\ pipe.step # "done" /\ RowsKept
      /\ pipe.passed /\ pipe.answer = "none" /\ ~pipe.ignored
  BY DEF LlmInterpret, StepEnds, AtStep, AnalysisInv, NothingEarly, Early
<1>2. "persist" \notin Early /\ "persist" # "llm_interpret"
  BY DEF Early
<1>3. CASE pipe' = Fails
  BY <1>1, <1>3, FailsKeeps
<1>4. CASE aborted = "never" /\ pipe' = Ending("persist", Recommendation(pipe.score))
  <2> DEFINE verdict == Recommendation(pipe.score)
             next == Ending("persist", verdict)
  <2>1. pipe.score \in Int
    BY <1>1 DEF Pipes
  <2>2. /\ verdict \in QuantVerdicts
        /\ verdict = "PRIORITY" => pipe.score > 7500
    BY <2>1, PriorityScore
  <2> HIDE DEF verdict
  <2>3. verdict \in Verdicts /\ (verdict \in Tradable => verdict = "PRIORITY")
    BY <2>2 DEF Verdicts, QuantVerdicts, Tradable
  <2>4. /\ next \in Pipes /\ next.step = "persist" /\ next.verdict = verdict
        /\ next.passed = pipe.passed /\ next.ignored = pipe.ignored
        /\ next.answer = pipe.answer /\ next.score = pipe.score
    <3>1. pipe \in Pipes /\ "persist" \in Steps
      BY <1>1, Words
    <3> QED
      BY <2>3, <3>1, EndingFields, Zenon
  <2>5. pipe' = next
    BY <1>4 DEF verdict
  <2> HIDE DEF next
  <2> QED
    <3>1. next.passed /\ ~next.ignored /\ next.answer = "none" /\ next.score = pipe.score
      BY <1>1, <2>4, Zenon
    <3>2. next \in Pipes /\ pipe' = next /\ next.step = "persist" /\ next.verdict = verdict
      BY <2>4, <2>5, Zenon
    <3>3. RowsKept /\ pipe.step # "done" /\ aborted = "never"
      BY <1>1, <1>4
    <3> QED
      BY <1>2, <2>2, <2>3, <3>1, <3>2, <3>3, StepKeeps
<1>5. CASE aborted = "never" /\ \E a \in ModelAnswers :
             pipe' = [pipe EXCEPT !.step = "persist", !.verdict = a, !.answer = a]
  <2>1. PICK a \in ModelAnswers : pipe' = [pipe EXCEPT !.step = "persist", !.verdict = a, !.answer = a]
    BY <1>5
  <2> DEFINE q == Ending("persist", a)
  <2>2. /\ q \in Pipes /\ q.step = "persist" /\ q.verdict = a
        /\ q.passed = pipe.passed /\ q.ignored = pipe.ignored
    <3>1. pipe \in Pipes /\ "persist" \in Steps /\ a \in Verdicts
      BY <1>1, <2>1, Words
    <3> QED
      BY <3>1, EndingFields, Zenon
  <2>3. pipe' = [q EXCEPT !.answer = a]
    BY <2>1 DEF Ending
  <2> HIDE DEF q
  <2>4. /\ pipe' \in Pipes /\ pipe'.step = "persist" /\ pipe'.verdict = a /\ pipe'.answer = a
        /\ pipe'.passed = pipe.passed /\ pipe'.ignored = pipe.ignored
    BY <2>2, <2>3 DEF Pipes
  <2> QED
    <3>1. pipe'.passed /\ ~pipe'.ignored
      BY <1>1, <2>4, Zenon
    <3>2. RowsKept /\ pipe.step # "done" /\ aborted = "never"
      BY <1>1, <1>5
    <3> QED
      BY <1>2, <2>4, <3>1, <3>2, StepKeeps
<1> QED
  BY <1>3, <1>4, <1>5 DEF LlmInterpret, StepEnds, Ending

LEMMA RecordKeeps == ASSUME AnalysisInv, Persist PROVE AnalysisInv'
<1>1. /\ pipe \in Pipes /\ pipe.step = "persist" /\ pipe' = To("result")
      /\ UNCHANGED <<aborted, logged, traded>>
  BY DEF Persist, AtStep, AnalysisInv, To
<1>2. /\ To("result") \in Pipes /\ To("result").step = "result" /\ To("result").verdict = pipe.verdict
      /\ To("result").answer = pipe.answer /\ To("result").ignored = pipe.ignored
      /\ To("result").passed = pipe.passed /\ To("result").score = pipe.score
  BY <1>1, Words DEF To, Pipes
<1>3. "result" \notin Early /\ "result" # "llm_interpret"
  BY DEF Early
<1>4. traded \notin {"BUY", "SELL"}
  BY <1>1 DEF AnalysisInv, TradeLogged
<1>5. NothingEarly'
  BY <1>1, <1>2, <1>3 DEF NothingEarly
<1>6. VerdictEarned'
  BY <1>1, <1>2 DEF AnalysisInv, VerdictEarned
<1> QED
  BY <1>1, <1>2, <1>4, <1>5, <1>6 DEF AnalysisInv, TradeLogged

\* The timer may fire while a tradable verdict is being persisted, and changes nothing then.
LEMMA TimerKeeps == ASSUME AnalysisInv, TimerFires PROVE AnalysisInv'
<1>1. UNCHANGED <<pipe, logged, traded>> /\ aborted' = pipe.step
  BY DEF TimerFires
<1>2. pipe.step \in Early \/ pipe.step = "persist"
  BY DEF TimerFires, AnalysisInv, Pipes, Steps, Early
<1> QED
  BY <1>1, <1>2 DEF AnalysisInv, NothingEarly, VerdictEarned, TradeLogged

LEMMA DecideKeeps == ASSUME AnalysisInv, Decide PROVE AnalysisInv'
<1>1. /\ pipe \in Pipes /\ pipe.step = "result" /\ pipe' = To("done") /\ UNCHANGED aborted
  BY DEF Decide, AtStep, AnalysisInv, To
<1>2. /\ To("done") \in Pipes /\ To("done").step = "done" /\ To("done").verdict = pipe.verdict
      /\ To("done").answer = pipe.answer /\ To("done").ignored = pipe.ignored
      /\ To("done").passed = pipe.passed /\ To("done").score = pipe.score
  BY <1>1, Words DEF To, Pipes
<1>3. NothingEarly' /\ VerdictEarned'
  BY <1>1, <1>2 DEF AnalysisInv, NothingEarly, VerdictEarned, Early
<1>4. traded \notin {"BUY", "SELL"}
  BY <1>1 DEF AnalysisInv, TradeLogged
<1>5. \/ traded' = Action(pipe.verdict) /\ logged' = traded'
      \/ traded' \notin {"BUY", "SELL"}
  BY <1>4 DEF Decide
<1>6. Action(pipe.verdict) \in {"BUY", "SELL"} => pipe.verdict \in Tradable
  BY DEF Action, Tradable
<1>7. TradeLogged'
  BY <1>1, <1>2, <1>5, <1>6 DEF TradeLogged
<1> QED
  BY <1>1, <1>2, <1>3, <1>7 DEF AnalysisInv

LEMMA AnalysisInvNext == AnalysisInv /\ [AnalysisNext]_analysisVars => AnalysisInv'
<1> SUFFICES ASSUME AnalysisInv, [AnalysisNext]_analysisVars
             PROVE  AnalysisInv'
  OBVIOUS
<1>1. CASE StepRaised
  BY <1>1, FailsKeeps DEF StepRaised
<1>2. CASE UNCHANGED analysisVars
  BY <1>2 DEF analysisVars, AnalysisInv, NothingEarly, VerdictEarned, TradeLogged
<1> QED
  BY <1>1, <1>2, BarsKeep, IndicatorsKeep, ScoreKeeps, RulesKeep, GateKeeps, ModelKeeps,
     RecordKeeps,
     TimerKeeps, DecideKeeps
     DEF AnalysisNext

\* For any features, multipliers and portfolios, whatever the model answers and wherever the timer
\* or a failure falls: what is traded went through the whole analysis in time, is the action of
\* the model's word or, without one, of a score above 75, and is in the decisions table
\* (analysis/pipeline.py, run and _check_abort; llm/loop.py, process_pending_signals).
THEOREM AnalysedTheorem == AnalysisSpec => []TradesAreAnalysed
<1>1. AnalysisInv => TradesAreAnalysed
  <2> SUFFICES ASSUME AnalysisInv, traded \in {"BUY", "SELL"}
               PROVE  TradesAreAnalysed
    BY DEF TradesAreAnalysed
  <2>1. /\ pipe.verdict \in Tradable /\ traded = Action(pipe.verdict) /\ logged = traded
        /\ pipe.passed /\ ~pipe.ignored /\ aborted \in {"never", "persist"}
    BY DEF AnalysisInv, TradeLogged, VerdictEarned
  <2>2. CASE pipe.answer = pipe.verdict
    <3>1. pipe.answer # "none" /\ traded = Action(pipe.answer)
      BY <2>1, <2>2 DEF Tradable
    <3> QED
      BY <2>1, <3>1 DEF TradesAreAnalysed
  <2>3. CASE pipe.verdict = "PRIORITY" /\ pipe.answer = "none" /\ pipe.score > 7500
    <3>1. traded = "BUY"
      BY <2>1, <2>3 DEF Action
    <3> QED
      BY <2>1, <2>3, <3>1 DEF TradesAreAnalysed
  <2> QED
    BY <2>1, <2>2, <2>3 DEF AnalysisInv, VerdictEarned
<1> QED
  BY <1>1, AnalysisInvInit, AnalysisInvNext, PTL DEF AnalysisSpec

\* A step leaves the score of the pipeline in percent of a percent, or missing.
LEMMA DimensionsInPercent ==
  ASSUME NEW f, NEW positions
  PROVE  \A k \in Dimension : Dimensions(f, positions)[k] \in 0 .. 100
<1>1. Momentum(f) \in 0 .. 100 /\ Trend(f) \in 0 .. 100
  BY DEF Momentum, Trend
<1>2. Volume(f) \in 0 .. 100 /\ Volatility(f) \in 0 .. 100
  BY DEF Volume, Volatility
<1>3. PortfolioFit(positions) \in 0 .. 100 /\ Sentiment(f) \in 0 .. 100 /\ PriceChange(f) \in 0 .. 100
  BY DEF PortfolioFit, Sentiment, PriceChange
<1> QED
  BY <1>1, <1>2, <1>3 DEF Dimensions, Dimension

\* A weighted sum of percentages is at most a hundred times the weights.
LEMMA WeightedMean ==
  ASSUME NEW w \in [Dimension -> Int], NEW r \in [Dimension -> Int],
         \A k \in Dimension : w[k] >= 0 /\ 0 <= r[k] /\ r[k] <= 100 * w[k]
  PROVE  0 <= Total(r) /\ Total(r) <= 100 * Total(w)
<1>1. \A k \in {"momentum", "trend", "volume", "volatility", "portfolio_fit", "sentiment", "price_change"} :
         w[k] \in Int /\ r[k] \in Int /\ 0 <= r[k] /\ r[k] <= 100 * w[k]
  BY DEF Dimension
<1>2. /\ Total(r) = r["momentum"] + r["trend"] + r["volume"] + r["volatility"] + r["portfolio_fit"]
           + r["sentiment"] + r["price_change"]
      /\ Total(w) = w["momentum"] + w["trend"] + w["volume"] + w["volatility"] + w["portfolio_fit"]
           + w["sentiment"] + w["price_change"]
  BY DEF Total
<1> QED
  BY <1>1, <1>2

\* Whatever the features, the portfolio and the multipliers, the score is between 0 and 100
\* percent: the weights are divided by their total (analysis/scorer.py, compute_score).
THEOREM ScoreInRange ==
  ASSUME NEW f, NEW positions, NEW mult \in Multipliers
  PROVE  Score(f, positions, mult) \in 0 .. 10000
<1> DEFINE weight == [k \in DOMAIN Weights |-> Weights[k] * (IF k \in DOMAIN mult THEN mult[k] ELSE 100)]
           dims == Dimensions(f, positions)
           parts == [k \in DOMAIN Weights |-> weight[k] * dims[k]]
<1>1. \A k \in Dimension : (IF k \in DOMAIN mult THEN mult[k] ELSE 100) \in 50 .. 150
  BY AnalysisAssumption
<1>2. \A k \in Dimension : weight[k] \in Int /\ weight[k] > 0
  BY <1>1, WeightsTyped
<1>3. weight \in [Dimension -> Int]
  BY <1>2, WeightsTyped
<1> HIDE DEF weight, dims
<1>4. \A k \in Dimension : dims[k] \in 0 .. 100
  BY DimensionsInPercent DEF dims
<1>5. \A a, d \in Int : a > 0 /\ d \in 0 .. 100 => a * d \in Int /\ 0 <= a * d /\ a * d <= 100 * a
  OBVIOUS
<1>6. \A k \in Dimension : parts[k] \in Int /\ 0 <= parts[k] /\ parts[k] <= 100 * weight[k]
  BY <1>2, <1>4, <1>5, WeightsTyped
<1>7. parts \in [Dimension -> Int]
  BY <1>6, WeightsTyped
<1> HIDE DEF parts
<1> DEFINE part == Total(parts)
           whole == Total(weight)
<1>8. part \in Int /\ whole \in Int /\ whole > 0 /\ 0 <= part /\ part <= 100 * whole
  BY <1>2, <1>3, <1>6, <1>7, TotalTyped, WeightedMean
<1>9. Score(f, positions, mult) = (100 * part) \div whole
  BY DEF Score, parts, weight, dims
<1> HIDE DEF part, whole
<1>10. 100 * part \in Int /\ 0 <= 100 * part /\ 100 * part <= 10000 * whole
  BY <1>8
<1>11. \A a, b \in Int : b > 0 /\ 0 <= a /\ a <= 10000 * b => a \div b \in 0 .. 10000
  OBVIOUS
<1>12. (100 * part) \div whole \in 0 .. 10000
  BY <1>8, <1>10, <1>11
<1> QED
  BY <1>9, <1>12

\* The score within its percentages, and the rows among the words that are written.
AnalysisBounds ==
  /\ pipe.score \in 0 .. 10000 \cup {Missing}
  /\ aborted \in Steps \cup {"never"} /\ model \in BOOLEAN
  /\ recorded \in Verdicts \cup {"none"}
  /\ logged \in {"none", "BUY", "SELL", "IGNORE"} /\ traded \in {"none", "BUY", "SELL", "IGNORE"}

LEMMA OnlyScoreScores ==
  ASSUME AnalysisInv, [AnalysisNext]_analysisVars
  PROVE  \/ pipe'.score = pipe.score
         \/ \E positions \in Portfolios \cup {0}, mult \in Multipliers :
              pipe'.score = Score(pipe.features, positions, mult)
<1>1. pipe \in Pipes
  BY DEF AnalysisInv
<1>2. Fails.score = pipe.score
  BY <1>1 DEF Fails, Pipes
<1>3. CASE FetchData
  BY <1>1, <1>2, <1>3 DEF FetchData, StepEnds, Pipes
<1>4. CASE ComputeIndicators
  BY <1>1, <1>2, <1>4 DEF ComputeIndicators, StepEnds, Pipes
<1>5. CASE ComputeScore
  <2>1. PICK positions \in Portfolios \cup {0}, mult \in Multipliers :
          StepEnds([pipe EXCEPT !.step = "hard_rules", !.score = Score(pipe.features, positions, mult)])
    BY <1>5 DEF ComputeScore
  <2> DEFINE score == Score(pipe.features, positions, mult)
  <2>2. pipe' = Fails \/ pipe' = [pipe EXCEPT !.step = "hard_rules", !.score = score]
    BY <2>1 DEF StepEnds
  <2>3. score = Score(pipe.features, positions, mult)
    OBVIOUS
  <2> HIDE DEF score
  <2>4. pipe'.score = pipe.score \/ pipe'.score = score
    BY <1>1, <1>2, <2>2 DEF Pipes
  <2> QED
    BY <2>3, <2>4
<1>6. CASE CheckHardRules
  BY <1>1, <1>2, <1>6 DEF CheckHardRules, StepEnds, Pipes
<1>7. CASE Gate
  <2>1. \/ pipe' = Ending("persist", "REJECTED") \/ pipe' = To("persist") \/ pipe' = To("llm_interpret")
        \/ pipe' = [pipe EXCEPT !.step = "persist", !.verdict = "REJECTED", !.ignored = TRUE]
    BY <1>7 DEF Gate, Ending, To
  <2> QED
    BY <1>1, <2>1 DEF Pipes, Ending, To
<1>8. CASE LlmInterpret
  BY <1>1, <1>2, <1>8 DEF LlmInterpret, StepEnds, Pipes
<1>9. CASE Persist
  BY <1>1, <1>9 DEF Persist, Pipes
<1>10. CASE Decide
  BY <1>1, <1>10 DEF Decide, Pipes
<1>11. CASE StepRaised
  BY <1>2, <1>11 DEF StepRaised
<1>12. CASE TimerFires \/ UNCHANGED analysisVars
  BY <1>12 DEF TimerFires, analysisVars
<1> QED
  BY <1>3, <1>4, <1>5, <1>6, <1>7, <1>8, <1>9, <1>10, <1>11, <1>12 DEF AnalysisNext

LEMMA AnalysisBoundsStep ==
  AnalysisInv /\ AnalysisBounds /\ [AnalysisNext]_analysisVars => AnalysisBounds'
<1> SUFFICES ASSUME AnalysisInv, AnalysisBounds, [AnalysisNext]_analysisVars
             PROVE  AnalysisBounds'
  OBVIOUS
<1>1. pipe'.score \in 0 .. 10000 \cup {Missing}
  BY OnlyScoreScores, ScoreInRange DEF AnalysisBounds
<1>2. pipe.step \in Steps /\ pipe.verdict \in Verdicts
  BY DEF AnalysisInv, Pipes
<1>3. aborted' \in {aborted, pipe.step} /\ model' = model /\ recorded' \in {recorded, pipe.verdict}
  BY DEF AnalysisNext, FetchData, ComputeIndicators, ComputeScore, CheckHardRules, Gate,
     LlmInterpret,
         Persist, StepRaised, TimerFires, Decide, StepEnds, RowsKept, analysisVars
<1>4. Action(pipe.verdict) \in {"BUY", "SELL", "IGNORE"}
  BY DEF Action
<1>5. {logged', traded'} \subseteq {logged, traded, Action(pipe.verdict), "IGNORE"}
  BY DEF AnalysisNext, FetchData, ComputeIndicators, ComputeScore, CheckHardRules, Gate,
     LlmInterpret,
         Persist, StepRaised, TimerFires, Decide, StepEnds, RowsKept, analysisVars
<1>6. aborted' \in Steps \cup {"never"} /\ recorded' \in Verdicts \cup {"none"} /\ model' \in BOOLEAN
  BY <1>2, <1>3 DEF AnalysisBounds
<1>7. /\ logged' \in {"none", "BUY", "SELL", "IGNORE"}
      /\ traded' \in {"none", "BUY", "SELL", "IGNORE"}
  BY <1>4, <1>5 DEF AnalysisBounds
<1> QED
  BY <1>1, <1>6, <1>7 DEF AnalysisBounds

\* For any features, multipliers and portfolios: the pipeline never leaves its steps, its score
\* is missing or between 0 and 100 percent, and the rows hold one of the known words
\* (analysis/pipeline.py, run; analysis/scorer.py, compute_score).
THEOREM AnalysisTyped == AnalysisSpec => []AnalysisTypeOK
<1>1. AnalysisInit => AnalysisBounds
  <2> SUFFICES ASSUME AnalysisInit PROVE AnalysisBounds
    OBVIOUS
  <2>1. pipe.score = Missing
    BY DEF AnalysisInit
  <2>2. model \in BOOLEAN
    BY DEF AnalysisInit
  <2>3. aborted = "never" /\ recorded = "none" /\ logged = "none" /\ traded = "none"
    BY DEF AnalysisInit
  <2>4. pipe.score \in 0 .. 10000 \cup {Missing} /\ aborted \in Steps \cup {"never"}
    BY <2>1, <2>3
  <2>5. recorded \in Verdicts \cup {"none"}
    BY <2>3
  <2>6. logged \in {"none", "BUY", "SELL", "IGNORE"} /\ traded \in {"none", "BUY", "SELL", "IGNORE"}
    BY <2>3
  <2> QED
    BY <2>2, <2>4, <2>5, <2>6 DEF AnalysisBounds
<1>2. AnalysisInv /\ AnalysisBounds => AnalysisTypeOK
  <2> SUFFICES ASSUME AnalysisInv, AnalysisBounds PROVE AnalysisTypeOK
    OBVIOUS
  <2>1. pipe \in Pipes /\ pipe.score \in 0 .. 10000 \cup {Missing}
    BY DEF AnalysisInv, AnalysisBounds
  <2>2. pipe \in [step: Steps, mode: Modes, features: FeatureSets \cup {NoFeatures},
                  score: 0 .. 10000 \cup {Missing}, passed: BOOLEAN, ignored: BOOLEAN,
                  answer: ModelAnswers \cup {"none"}, verdict: Verdicts]
    BY <2>1 DEF Pipes
  <2>3. {logged, traded} \subseteq {"none", "BUY", "SELL", "IGNORE"} /\ recorded \in Verdicts \cup {"none"}
    BY DEF AnalysisBounds
  <2>4. aborted \in Steps \cup {"never"} /\ model \in BOOLEAN
    BY DEF AnalysisBounds
  <2> QED
    BY <2>2, <2>3, <2>4 DEF AnalysisTypeOK
<1> QED
  BY <1>1, <1>2, AnalysisInvInit, AnalysisInvNext, AnalysisBoundsStep, PTL DEF AnalysisSpec
=============================================================================
