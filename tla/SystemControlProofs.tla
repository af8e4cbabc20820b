------------------------- MODULE SystemControlProofs -------------------------
(***************************************************************************)
(* No thread ever has a job to pause that protects positions, so that no   *)
(* interleaving of pauses, resumes and restarts stops one.                 *)
(***************************************************************************)
EXTENDS SystemControl, TLAPS

\* What a thread has still to pause or resume is never one of the safety jobs.
NoSafetyJobToDo ==
  \A t \in Threads : \A i \in DOMAIN thread[t].todo : thread[t].todo[i] \notin SafetyJobs

ControlInv == TypeOK /\ SafetyJobsRun /\ NoSafetyJobToDo

\* The jobs a pause goes through, seen from outside the lists.
Harmless(s) == s \in Seq(JobIds) /\ \A i \in DOMAIN s : s[i] \notin SafetyJobs

---------------------------------------------------------------------------
(* The lists of jobs *)

LEMMA ListsHarmless ==
  /\ Harmless(ControllerJobs) /\ Harmless(PausableJobs) /\ Harmless(<<>>)
  /\ SafetyJobs \subseteq JobIds
<1>1. /\ DOMAIN PausableJobs = 1 .. 4
      /\ PausableJobs[1] = "signal_processor" /\ PausableJobs[2] = "scanner"
      /\ PausableJobs[3] = "scanner_fetch" /\ PausableJobs[4] = "news_fetch"
  BY DEF PausableJobs, ControllerJobs
<1>2. {"signal_processor", "scanner", "scanner_fetch", "news_fetch"} \subseteq JobIds
  BY <1>1 DEF JobIds
<1>3. Harmless(ControllerJobs)
  BY <1>2 DEF Harmless, ControllerJobs, SafetyJobs
<1>4. Harmless(PausableJobs)
  BY <1>2 DEF Harmless, PausableJobs, ControllerJobs, SafetyJobs
<1>5. Harmless(<<>>)
  BY DEF Harmless
<1> QED BY <1>3, <1>4, <1>5 DEF JobIds

LEMMA TailHarmless ==
  ASSUME NEW s, Harmless(s), s # <<>>
  PROVE  Harmless(Tail(s)) /\ Head(s) \in JobIds \ SafetyJobs
<1>1. /\ Tail(s) \in Seq(JobIds) /\ Head(s) = s[1] /\ 1 \in DOMAIN s
      /\ \A i \in DOMAIN Tail(s) : i + 1 \in DOMAIN s /\ Tail(s)[i] = s[i + 1]
  BY DEF Harmless
<1> QED BY <1>1 DEF Harmless

---------------------------------------------------------------------------
(* What keeps the invariant *)

LEMMA InitControl == Init => ControlInv
<1> SUFFICES ASSUME Init PROVE ControlInv
  OBVIOUS
<1>1. TypeOK
  <2>1. thread \in [Threads ->
          [pc: {"idle", "jobs", "uc_jobs", "flag", "paper", "approval", "mode",
                "db_mode", "db_paused", "uc_db"},
           todo: Seq(JobIds), paused: BOOLEAN, mode: Modes]]
    BY ListsHarmless DEF Init, AllIdle, Idle, Modes, Harmless
  <2>2. settings \in [paused: BOOLEAN, mode: Modes] /\ ctrl = settings
    BY ControlAssumption DEF Init, Modes
  <2>3. flags \in [paper: BOOLEAN, approval: BOOLEAN]
    BY DEF Init, EnvFlags
  <2>4. jobs \in [JobIds -> {"active", "paused"}]
    BY DEF Init, AllActive
  <2>5. loss \in BOOLEAN
    BY DEF Init
  <2>6. requests \in 0 .. MaxRequests /\ restarts \in 0 .. MaxRestarts
    BY ControlAssumption DEF Init
  <2> QED BY <2>1, <2>2, <2>3, <2>4, <2>5, <2>6 DEF TypeOK
<1>2. SafetyJobsRun /\ NoSafetyJobToDo
  BY ListsHarmless DEF Init, SafetyJobsRun, NoSafetyJobToDo, AllActive, AllIdle, Idle
<1> QED BY <1>1, <1>2 DEF ControlInv

\* A thread is given a list of harmless jobs, or keeps its own, and nothing is paused.
LEMMA GivenHarmless ==
  ASSUME ControlInv, NEW t \in Threads,
         thread' \in [Threads ->
           [pc: {"idle", "jobs", "uc_jobs", "flag", "paper", "approval", "mode",
                 "db_mode", "db_paused", "uc_db"},
            todo: Seq(JobIds), paused: BOOLEAN, mode: Modes]],
         \A x \in Threads : x # t => thread'[x] = thread[x],
         thread'[t].todo = thread[t].todo \/ Harmless(thread'[t].todo)
  PROVE  NoSafetyJobToDo'
<1>1. SUFFICES ASSUME NEW x \in Threads, NEW i \in DOMAIN thread'[x].todo
               PROVE  thread'[x].todo[i] \notin SafetyJobs
  BY DEF NoSafetyJobToDo
<1>2. CASE thread'[x].todo = thread[x].todo
  BY <1>2 DEF ControlInv, NoSafetyJobToDo
<1>3. CASE x = t /\ Harmless(thread'[t].todo)
  BY <1>3 DEF Harmless
<1> QED BY <1>2, <1>3

LEMMA RequestKeeps ==
  ASSUME ControlInv, NEW h \in Handlers, AnyRequest(h)
  PROVE  ControlInv'
<1> USE DEF ControlInv
<1>1. h \in Threads /\ requests' \in 0 .. MaxRequests /\ UNCHANGED <<loss, restarts>>
  <2>1. Request(h)
    BY DEF AnyRequest, ControllerPause, UseCasePause, UpdateIsPaused, SetMode,
           ChangeTradingMode, TriggerJob
  <2> QED BY <2>1, ControlAssumption DEF Request, Threads, TypeOK
<1>2. ASSUME NEW paused \in BOOLEAN, ControllerPause(h, paused) PROVE ControlInv'
  <2>1. TypeOK'
    BY <1>1, <1>2, ListsHarmless DEF ControllerPause, TypeOK, Idle, Modes, Harmless
  <2>2. NoSafetyJobToDo'
    BY <1>1, <1>2, <2>1, ListsHarmless, GivenHarmless DEF ControllerPause, TypeOK, Idle
  <2> QED BY <1>2, <2>1, <2>2 DEF ControllerPause, SafetyJobsRun
<1>3. ASSUME NEW paused \in BOOLEAN, UseCasePause(h, paused) PROVE ControlInv'
  <2>1. TypeOK'
    BY <1>1, <1>3, ListsHarmless DEF UseCasePause, TypeOK, Idle, Modes, Harmless
  <2>2. NoSafetyJobToDo'
    BY <1>1, <1>3, <2>1, ListsHarmless, GivenHarmless DEF UseCasePause, TypeOK, Idle
  <2> QED BY <1>3, <2>1, <2>2 DEF UseCasePause, SafetyJobsRun
<1>4. ASSUME NEW paused \in BOOLEAN, UpdateIsPaused(h, paused) PROVE ControlInv'
  BY <1>1, <1>4 DEF UpdateIsPaused, TypeOK, SafetyJobsRun, NoSafetyJobToDo
<1>5. ASSUME NEW mode \in Modes, SetMode(h, mode) PROVE ControlInv'
  <2>1. TypeOK'
    BY <1>1, <1>5, ListsHarmless DEF SetMode, TypeOK, Idle, Harmless
  <2>2. NoSafetyJobToDo'
    BY <1>1, <1>5, <2>1, ListsHarmless, GivenHarmless DEF SetMode, TypeOK, Idle
  <2> QED BY <1>5, <2>1, <2>2 DEF SetMode, SafetyJobsRun
<1>6. ASSUME NEW mode \in Modes, ChangeTradingMode(h, mode) PROVE ControlInv'
  BY <1>1, <1>6 DEF ChangeTradingMode, TypeOK, SafetyJobsRun, NoSafetyJobToDo
<1>7. ASSUME NEW job \in JobIds, TriggerJob(h, job) PROVE ControlInv'
  BY <1>1, <1>7 DEF TriggerJob, TypeOK, SafetyJobsRun, NoSafetyJobToDo
<1> QED BY <1>2, <1>3, <1>4, <1>5, <1>6, <1>7 DEF AnyRequest

LEMMA BreakerKeeps ==
  ASSUME ControlInv, CheckCircuitBreaker
  PROVE  ControlInv'
<1> USE DEF ControlInv
<1>1. Breaker \in Threads
  BY DEF Threads
<1>2. TypeOK'
  BY <1>1, ListsHarmless DEF CheckCircuitBreaker, TypeOK, Idle, Modes, Harmless
<1>3. NoSafetyJobToDo'
  BY <1>1, <1>2, ListsHarmless, GivenHarmless DEF CheckCircuitBreaker, TypeOK, Idle
<1> QED BY <1>2, <1>3 DEF CheckCircuitBreaker, SafetyJobsRun

\* Only NextJob touches the scheduler, and a job it touches is no safety job.
LEMMA NextJobKeeps ==
  ASSUME ControlInv, NEW t \in Threads, NextJob(t), UNCHANGED <<loss, requests, restarts>>
  PROVE  ControlInv'
<1> USE DEF ControlInv
<1> DEFINE todo == thread[t].todo
<1>1. Harmless(todo) /\ todo # <<>>
  BY DEF TypeOK, NoSafetyJobToDo, Harmless, NextJob
<1>2. Harmless(Tail(todo)) /\ Head(todo) \in JobIds \ SafetyJobs
  BY <1>1, TailHarmless
<1>3. TypeOK'
  BY <1>2 DEF NextJob, TypeOK, Harmless
<1>4. SafetyJobsRun'
  BY <1>2, ListsHarmless DEF NextJob, TypeOK, SafetyJobsRun
<1>5. NoSafetyJobToDo'
  BY <1>2, <1>3, GivenHarmless DEF NextJob, TypeOK
<1> QED BY <1>3, <1>4, <1>5

\* The other steps move a thread on, or let it go, and write what it holds.
LEMMA MovesOnKeeps ==
  ASSUME ControlInv, NEW t \in Threads, UNCHANGED <<loss, requests, restarts>>,
         \/ JobsDone(t) \/ SetFlag(t) \/ SetPaper(t) \/ SetApproval(t) \/ SetCtrlMode(t)
         \/ PersistMode(t) \/ PersistPaused(t) \/ UseCasePersist(t) \/ PersistFailed(t)
  PROVE  ControlInv'
<1> USE DEF ControlInv
<1>1. UNCHANGED jobs
  BY DEF JobsDone, SetFlag, SetPaper, SetApproval, SetCtrlMode, PersistMode, PersistPaused,
         UseCasePersist, PersistFailed
<1>2. /\ ctrl' \in [paused: BOOLEAN, mode: Modes]
      /\ settings' \in [paused: BOOLEAN, mode: Modes]
      /\ flags' \in [paper: BOOLEAN, approval: BOOLEAN]
  BY DEF TypeOK, JobsDone, SetFlag, SetPaper, SetApproval, SetCtrlMode, PersistMode,
         PersistPaused, UseCasePersist, PersistFailed
<1>3. \/ Finish(t)
      \/ \E pc \in {"flag", "approval", "mode", "db_mode", "db_paused", "uc_db"} : Goto(t, pc)
  BY DEF JobsDone, SetFlag, SetPaper, SetApproval, SetCtrlMode, PersistMode, PersistPaused,
         UseCasePersist, PersistFailed
<1>4. TypeOK'
  <2>1. CASE Finish(t)
    BY <1>1, <1>2, <2>1, ListsHarmless DEF TypeOK, Finish, Idle, Modes, Harmless
  <2>2. ASSUME NEW pc \in {"flag", "approval", "mode", "db_mode", "db_paused", "uc_db"}, Goto(t, pc)
        PROVE  TypeOK'
    BY <1>1, <1>2, <2>2 DEF TypeOK, Goto
  <2> QED BY <1>3, <2>1, <2>2
<1>5. NoSafetyJobToDo'
  <2>1. CASE Finish(t)
    <3>1. /\ thread'[t].todo = <<>>
          /\ \A x \in Threads : x # t => thread'[x] = thread[x]
      BY <2>1 DEF TypeOK, Finish, Idle
    <3>2. Harmless(thread'[t].todo)
      BY <3>1, ListsHarmless DEF Harmless
    <3> QED BY <3>1, <3>2, <1>4, GivenHarmless DEF TypeOK
  <2>2. ASSUME NEW pc \in {"flag", "approval", "mode", "db_mode", "db_paused", "uc_db"}, Goto(t, pc)
        PROVE  NoSafetyJobToDo'
    <3>1. /\ thread'[t].todo = thread[t].todo
          /\ \A x \in Threads : x # t => thread'[x] = thread[x]
      BY <2>2 DEF TypeOK, Goto
    <3> QED BY <3>1, <1>4, GivenHarmless DEF TypeOK
  <2> QED BY <1>3, <2>1, <2>2
<1> QED BY <1>1, <1>4, <1>5 DEF SafetyJobsRun

LEMMA RestartKeeps ==
  ASSUME ControlInv, Restart
  PROVE  ControlInv'
<1> USE DEF ControlInv
<1>1. restarts' \in 0 .. MaxRestarts
  BY ControlAssumption DEF Restart, TypeOK
<1>2. TypeOK'
  BY <1>1, ListsHarmless DEF Restart, TypeOK, AllActive, EnvFlags, AllIdle, Idle, Modes, Harmless
<1>3. SafetyJobsRun' /\ NoSafetyJobToDo'
  BY ListsHarmless DEF Restart, SafetyJobsRun, NoSafetyJobToDo, AllActive, AllIdle, Idle
<1> QED BY <1>2, <1>3

LEMMA NextKeepsControl == ControlInv /\ [Next]_vars => ControlInv'
<1> SUFFICES ASSUME ControlInv, [Next]_vars PROVE ControlInv'
  OBVIOUS
<1>1. CASE UNCHANGED vars
  BY <1>1 DEF vars, ControlInv, TypeOK, SafetyJobsRun, NoSafetyJobToDo
<1>2. ASSUME NEW h \in Handlers, AnyRequest(h) PROVE ControlInv'
  BY <1>2, RequestKeeps
<1>3. CASE CheckCircuitBreaker
  BY <1>3, BreakerKeeps
<1>4. ASSUME NEW t \in Threads, Step(t) PROVE ControlInv'
  BY <1>4, NextJobKeeps, MovesOnKeeps DEF Step
<1>5. CASE LossChanges
  BY <1>5 DEF LossChanges, ControlInv, TypeOK, SafetyJobsRun, NoSafetyJobToDo
<1>6. CASE Restart
  BY <1>6, RestartKeeps
<1> QED BY <1>1, <1>2, <1>3, <1>4, <1>5, <1>6 DEF Next

LEMMA ControlInvHolds == Spec => []ControlInv
<1>1. ControlInv /\ [Next]_vars => ControlInv'
  BY NextKeepsControl
<1> QED BY <1>1, InitControl, PTL DEF Spec

---------------------------------------------------------------------------
\* Every variable of the control model keeps its type.
THEOREM ControlTyped == Spec => []TypeOK
<1>1. ControlInv => TypeOK
  BY DEF ControlInv
<1> QED BY <1>1, ControlInvHolds, PTL

\* However pauses, resumes, triggers and restarts interleave, the position manager and the
\* circuit breaker stay active.
THEOREM SafetyJobsNeverStop == Spec => []SafetyJobsRun
<1>1. ControlInv => SafetyJobsRun
  BY DEF ControlInv
<1> QED BY <1>1, ControlInvHolds, PTL
=============================================================================
