---------------------------- MODULE SystemControl ----------------------------
(***************************************************************************)
(* Pausing and switching the bot.  Two paths do it, each in threads of     *)
(* their own: the SystemController behind Telegram, /system/* and the      *)
(* circuit breaker, which keeps a flag and a mode in memory, and the use   *)
(* cases behind /control/*, which do not know of them.  Both drive the     *)
(* scheduler's jobs and the control_settings table, with no lock.          *)
(***************************************************************************)
EXTENDS Naturals, Sequences

CONSTANTS
  Handlers,     \* request threads
  Breaker,      \* the thread of the circuit_breaker job
  EnvMode,      \* PAPER_TRADING_ONLY, as the environment has it
  MaxRequests,  \* bound: requests
  MaxRestarts   \* bound: restarts of the process

ASSUME ControlAssumption ==
  /\ Breaker \notin Handlers
  /\ EnvMode \in {"paper", "live"}
  /\ MaxRequests \in Nat
  /\ MaxRestarts \in Nat

VARIABLES
  jobs,      \* the scheduler: which of its jobs are paused
  ctrl,      \* SystemController.is_paused and .mode
  flags,     \* settings.PAPER_TRADING_ONLY and .REQUIRE_HUMAN_APPROVAL
  settings,  \* control_settings: is_paused and trading_mode
  thread,    \* where each thread stands
  loss,      \* whether the day's loss is over CIRCUIT_BREAKER_PCT
  requests,
  restarts

vars == <<jobs, ctrl, flags, settings, thread, loss, requests, restarts>>

Modes == {"paper", "live"}
Threads == Handlers \cup {Breaker}

ControllerJobs == <<"signal_processor", "scanner", "scanner_fetch">>
PausableJobs == Append(ControllerJobs, "news_fetch")
SafetyJobs == {"position_manager", "circuit_breaker"}
JobIds == SafetyJobs \cup {PausableJobs[i] : i \in DOMAIN PausableJobs}

Idle == [pc |-> "idle", todo |-> <<>>, paused |-> FALSE, mode |-> "paper"]

AllActive == [j \in JobIds |-> "active"]
EnvFlags == [paper |-> EnvMode = "paper", approval |-> EnvMode = "live"]
AllIdle == [t \in Threads |-> Idle]

\* The table is seeded from the environment the first time.
Init ==
  /\ settings = [paused |-> FALSE, mode |-> EnvMode]
  /\ ctrl = settings
  /\ jobs = AllActive /\ flags = EnvFlags /\ thread = AllIdle
  /\ loss = FALSE
  /\ requests = 0
  /\ restarts = 0

TypeOK ==
  /\ jobs \in [JobIds -> {"active", "paused"}]
  /\ ctrl \in [paused: BOOLEAN, mode: Modes]
  /\ settings \in [paused: BOOLEAN, mode: Modes]
  /\ flags \in [paper: BOOLEAN, approval: BOOLEAN]
  /\ thread \in [Threads ->
       [pc: {"idle", "jobs", "uc_jobs", "flag", "paper", "approval", "mode",
             "db_mode", "db_paused", "uc_db"},
        todo: Seq(JobIds), paused: BOOLEAN, mode: Modes]]
  /\ loss \in BOOLEAN
  /\ requests \in 0 .. MaxRequests
  /\ restarts \in 0 .. MaxRestarts

At(t, pc) == thread[t].pc = pc
Goto(t, pc) == thread' = [thread EXCEPT ![t].pc = pc]
Finish(t) == thread' = [thread EXCEPT ![t] = Idle]

---------------------------------------------------------------------------
(* Requests *)

Request(h) ==
  /\ At(h, "idle")
  /\ requests < MaxRequests
  /\ requests' = requests + 1
  /\ UNCHANGED <<loss, restarts>>

\* SystemController.pause and resume.
ControllerPause(h, paused) ==
  /\ Request(h)
  /\ thread' = [thread EXCEPT ![h] =
       [Idle EXCEPT !.pc = "jobs", !.todo = ControllerJobs, !.paused = paused]]
  /\ UNCHANGED <<jobs, ctrl, flags, settings>>

\* Mutant of UseCasePause: every job of the scheduler is paused.
PauseEveryJob(h, paused) ==
  /\ Request(h)
  /\ thread' = [thread EXCEPT ![h] =
       [Idle EXCEPT !.pc = "uc_jobs", !.paused = paused,
                    !.todo = PausableJobs \o <<"position_manager", "circuit_breaker">>]]
  /\ UNCHANGED <<jobs, ctrl, flags, settings>>

\* PauseSystemUseCase and ResumeSystemUseCase.
UseCasePause(h, paused) ==
  /\ Request(h)
  /\ thread' = [thread EXCEPT ![h] =
       [Idle EXCEPT !.pc = "uc_jobs", !.todo = PausableJobs, !.paused = paused]]
  /\ UNCHANGED <<jobs, ctrl, flags, settings>>

\* SystemController.set_mode.
SetMode(h, mode) ==
  /\ Request(h)
  /\ thread' = [thread EXCEPT ![h] = [Idle EXCEPT !.pc = "paper", !.mode = mode]]
  /\ UNCHANGED <<jobs, ctrl, flags, settings>>

\* ChangeTradingModeUseCase writes the table alone.  It refuses while a row is SUBMITTED
\* or OPEN, which those the bot opened itself, FILLED or PARTIAL, are not.
ChangeTradingMode(h, mode) ==
  /\ Request(h)
  /\ settings' = [settings EXCEPT !.mode = mode]
  /\ UNCHANGED <<jobs, ctrl, flags, thread>>

\* UpdateControlSettingUseCase on is_paused; nothing reloads it.
UpdateIsPaused(h, paused) ==
  /\ Request(h)
  /\ settings' = [settings EXCEPT !.paused = paused]
  /\ UNCHANGED <<jobs, ctrl, flags, thread>>

\* TriggerJobUseCase: a job with a next run time is not paused any more.
TriggerJob(h, job) ==
  /\ Request(h)
  /\ jobs' = [jobs EXCEPT ![job] = "active"]
  /\ UNCHANGED <<ctrl, flags, settings, thread>>

---------------------------------------------------------------------------
(* The circuit breaker *)

\* Mutant of CheckCircuitBreaker: not when the system is paused already.
CheckUnlessPaused ==
  /\ At(Breaker, "idle")
  /\ jobs["circuit_breaker"] = "active"
  /\ loss /\ ~ctrl.paused
  /\ thread' = [thread EXCEPT ![Breaker] =
       [Idle EXCEPT !.pc = "jobs", !.todo = ControllerJobs, !.paused = TRUE]]
  /\ UNCHANGED <<jobs, ctrl, flags, settings, loss, requests, restarts>>

CheckCircuitBreaker ==
  /\ At(Breaker, "idle")
  /\ jobs["circuit_breaker"] = "active"
  /\ loss
  /\ thread' = [thread EXCEPT ![Breaker] =
       [Idle EXCEPT !.pc = "jobs", !.todo = ControllerJobs, !.paused = TRUE]]
  /\ UNCHANGED <<jobs, ctrl, flags, settings, loss, requests, restarts>>

\* Trades close, and days end.
LossChanges ==
  /\ loss' = ~loss
  /\ UNCHANGED <<jobs, ctrl, flags, settings, thread, requests, restarts>>

---------------------------------------------------------------------------
(* Steps of a thread *)

\* scheduler.pause_job or resume_job, one job at a time.
NextJob(t) ==
  /\ thread[t].todo # <<>>
  /\ At(t, "jobs") \/ At(t, "uc_jobs")
  /\ jobs' = [jobs EXCEPT ![Head(thread[t].todo)] =
                IF thread[t].paused THEN "paused" ELSE "active"]
  /\ thread' = [thread EXCEPT ![t].todo = Tail(@)]
  /\ UNCHANGED <<ctrl, flags, settings>>

JobsDone(t) ==
  /\ thread[t].todo = <<>>
  /\ \/ At(t, "jobs") /\ Goto(t, "flag")
     \/ At(t, "uc_jobs") /\ Goto(t, "uc_db")
  /\ UNCHANGED <<jobs, ctrl, flags, settings>>

SetFlag(t) ==
  /\ At(t, "flag")
  /\ ctrl' = [ctrl EXCEPT !.paused = thread[t].paused]
  /\ Goto(t, "db_mode")
  /\ UNCHANGED <<jobs, flags, settings>>

SetPaper(t) ==
  /\ At(t, "paper")
  /\ flags' = [flags EXCEPT !.paper = (thread[t].mode = "paper")]
  /\ Goto(t, "approval")
  /\ UNCHANGED <<jobs, ctrl, settings>>

SetApproval(t) ==
  /\ At(t, "approval")
  /\ flags' = [flags EXCEPT !.approval = (thread[t].mode = "live")]
  /\ Goto(t, "mode")
  /\ UNCHANGED <<jobs, ctrl, settings>>

SetCtrlMode(t) ==
  /\ At(t, "mode")
  /\ ctrl' = [ctrl EXCEPT !.mode = thread[t].mode]
  /\ Goto(t, "db_mode")
  /\ UNCHANGED <<jobs, flags, settings>>

\* Mutant of PersistMode: the state of the system is written for its mode.
PersistStateAsMode(t) ==
  /\ At(t, "db_mode")
  /\ settings' = [settings EXCEPT !.mode = IF ctrl.paused THEN "paused" ELSE ctrl.mode]
  /\ Goto(t, "db_paused")
  /\ UNCHANGED <<jobs, ctrl, flags>>

\* _persist_state writes what the controller holds at that moment, the mode included:
\* a pause writes it over the one of /control/mode.
PersistMode(t) ==
  /\ At(t, "db_mode")
  /\ settings' = [settings EXCEPT !.mode = ctrl.mode]
  /\ Goto(t, "db_paused")
  /\ UNCHANGED <<jobs, ctrl, flags>>

PersistPaused(t) ==
  /\ At(t, "db_paused")
  /\ settings' = [settings EXCEPT !.paused = ctrl.paused]
  /\ Finish(t)
  /\ UNCHANGED <<jobs, ctrl, flags>>

UseCasePersist(t) ==
  /\ At(t, "uc_db")
  /\ settings' = [settings EXCEPT !.paused = thread[t].paused]
  /\ Finish(t)
  /\ UNCHANGED <<jobs, ctrl, flags>>

\* A write raised: logged by the controller, a 500 of the use case; what was done to
\* the jobs stays done.
PersistFailed(t) ==
  /\ thread[t].pc \in {"db_mode", "db_paused", "uc_db"}
  /\ Finish(t)
  /\ UNCHANGED <<jobs, ctrl, flags, settings>>

Step(t) ==
  /\ \/ NextJob(t) \/ JobsDone(t) \/ SetFlag(t)
     \/ SetPaper(t) \/ SetApproval(t) \/ SetCtrlMode(t)
     \/ PersistMode(t) \/ PersistPaused(t) \/ UseCasePersist(t) \/ PersistFailed(t)
  /\ UNCHANGED <<loss, requests, restarts>>

\* The process starts anew: the controller is loaded from the table, the flags from the
\* environment, and every job of the scheduler is added as active.
Restart ==
  /\ restarts < MaxRestarts
  /\ restarts' = restarts + 1
  /\ UNCHANGED <<settings, loss, requests>>
  /\ ctrl' = settings
  /\ jobs' = AllActive /\ flags' = EnvFlags /\ thread' = AllIdle

AnyRequest(h) ==
  \/ \E paused \in BOOLEAN :
       ControllerPause(h, paused) \/ UseCasePause(h, paused) \/ UpdateIsPaused(h, paused)
  \/ \E mode \in Modes : SetMode(h, mode) \/ ChangeTradingMode(h, mode)
  \/ \E job \in JobIds : TriggerJob(h, job)

Next ==
  \/ \E h \in Handlers : AnyRequest(h)
  \/ CheckCircuitBreaker
  \/ \E t \in Threads : Step(t)
  \/ LossChanges
  \/ Restart

Spec == Init /\ [][Next]_vars

\* The scheduler runs the circuit_breaker job again and again, and its run ends.
FairSpec ==
  /\ Spec
  /\ WF_vars(CheckCircuitBreaker)
  /\ WF_vars(Step(Breaker))

---------------------------------------------------------------------------
(* Properties that hold *)

\* While the day's loss is over the limit the signal processor is stopped again and
\* again, whatever is resumed, triggered or restarted meanwhile.
LossStopsTrading == []<>(~loss \/ jobs["signal_processor"] = "paused")

\* No pause reaches the jobs that protect open positions.
SafetyJobsRun == \A j \in SafetyJobs : jobs[j] = "active"

---------------------------------------------------------------------------
(* A claim of the repository that the code does not keep *)

\* "Restart with the system paused: it starts paused."
PausedAfterRestart ==
  [][(restarts' # restarts /\ ctrl.paused /\ settings.paused)
       => jobs'["signal_processor"] = "paused"]_vars
=============================================================================
