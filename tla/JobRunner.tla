------------------------------ MODULE JobRunner ------------------------------
(***************************************************************************)
(* BackgroundJobRunner (application/services/job_runner.py): the slow      *)
(* requests - LLM analysis, backtest, opportunity scan - run as jobs in a  *)
(* thread pool and are polled through the background_jobs table.  A job    *)
(* takes two tasks of the same pool: _run, which keeps the job's row and   *)
(* waits, and the function it waits for.                                   *)
(***************************************************************************)
EXTENDS Naturals, Sequences, FiniteSets

CONSTANTS
  Jobs,         \* the jobs that may be submitted
  Workers,      \* the threads of the pool (max_workers)
  MaxDbErrors,  \* bound: writes of a status that raise
  MaxCrashes    \* bound: crashes of the process

ASSUME JobAssumption ==
  /\ Workers # {}
  /\ "none" \notin Jobs
  /\ MaxDbErrors \in Nat
  /\ MaxCrashes \in Nat

VARIABLES
  row,      \* background_jobs: the status of each job and why it failed
  future,   \* what the pool has done with the function of each job
  queue,    \* the tasks no worker has taken yet
  worker,   \* what each thread of the pool is doing
  dbErrors,
  crashes

vars == <<row, future, queue, worker, dbErrors, crashes>>

NoRow == [status |-> "none", error |-> "none"]
Idle == [pc |-> "idle", job |-> "none"]

Run(j) == [kind |-> "run", job |-> j]
Function(j) == [kind |-> "fn", job |-> j]
Tasks == {Run(j) : j \in Jobs} \cup {Function(j) : j \in Jobs}

Terminal == {"success", "failed"}
Returned == {"returned", "raised"}   \* concurrent.futures: a future that is done

TypeOK ==
  /\ row \in [Jobs -> [status: {"none", "pending", "running"} \cup Terminal,
                       error: {"none", "timeout", "raised"}]]
  /\ future \in [Jobs -> {"none", "queued", "running", "cancelled"} \cup Returned]
  /\ queue \in Seq(Tasks)
  /\ worker \in [Workers -> [pc: {"idle", "start", "wait", "timeout", "result", "error", "fn"},
                             job: Jobs \cup {"none"}]]
  /\ dbErrors \in 0 .. MaxDbErrors
  /\ crashes \in 0 .. MaxCrashes

Init ==
  /\ row = [j \in Jobs |-> NoRow]
  /\ future = [j \in Jobs |-> "none"]
  /\ queue = <<>>
  /\ worker = [w \in Workers |-> Idle]
  /\ dbErrors = 0
  /\ crashes = 0

\* Every thread is in one of the two states that last.
Occupied == \A w \in Workers : worker[w].pc \in {"wait", "fn"}

At(w, pc) == worker[w].pc = pc
Goto(w, pc) == worker' = [worker EXCEPT ![w].pc = pc]
Free(w) == worker' = [worker EXCEPT ![w] = Idle]
UpdateStatus(j, status, error) ==
  row' = [row EXCEPT ![j] = [status |-> status, error |-> error]]

---------------------------------------------------------------------------
\* The row is inserted, then _run is queued.
Submit(j) ==
  /\ row[j].status = "none"
  /\ UpdateStatus(j, "pending", "none")
  /\ queue' = Append(queue, Run(j))
  /\ UNCHANGED <<future, worker, dbErrors, crashes>>

(* The pool: a free thread takes the oldest task. *)
Take(w, task) ==
  /\ At(w, "idle")
  /\ queue # <<>> /\ Head(queue) = task
  /\ queue' = Tail(queue)

TakeRun(w, j) ==
  /\ Take(w, Run(j))
  /\ worker' = [worker EXCEPT ![w] = [pc |-> "start", job |-> j]]
  /\ UNCHANGED <<row, future, dbErrors, crashes>>

TakeFunction(w, j) ==
  /\ Take(w, Function(j))
  /\ future[j] = "queued"
  /\ future' = [future EXCEPT ![j] = "running"]
  /\ worker' = [worker EXCEPT ![w] = [pc |-> "fn", job |-> j]]
  /\ UNCHANGED <<row, dbErrors, crashes>>

\* A cancelled task is taken and thrown away.
TakeCancelled(w, j) ==
  /\ Take(w, Function(j))
  /\ future[j] = "cancelled"
  /\ UNCHANGED <<row, future, worker, dbErrors, crashes>>

FunctionEnds(w, outcome) ==
  /\ At(w, "fn")
  /\ future' = [future EXCEPT ![worker[w].job] = outcome]
  /\ Free(w)
  /\ UNCHANGED <<row, queue, dbErrors, crashes>>

---------------------------------------------------------------------------
(* _run *)

\* Mutant of Start: the thread has let go of its job when it queues the function.
StartLosesJob(w) ==
  /\ At(w, "start")
  /\ UpdateStatus(worker[w].job, "running", "none")
  /\ queue' = Append(queue, Function(Idle.job))
  /\ future' = [future EXCEPT ![worker[w].job] = "queued"]
  /\ Goto(w, "wait")
  /\ UNCHANGED <<dbErrors, crashes>>

\* RUNNING is written and the function queued behind whatever waits already.
Start(w) ==
  /\ At(w, "start")
  /\ UpdateStatus(worker[w].job, "running", "none")
  /\ queue' = Append(queue, Function(worker[w].job))
  /\ future' = [future EXCEPT ![worker[w].job] = "queued"]
  /\ Goto(w, "wait")
  /\ UNCHANGED <<dbErrors, crashes>>

Done(w) ==
  /\ At(w, "wait")
  /\ future[worker[w].job] \in Returned
  /\ Goto(w, "result")
  /\ UNCHANGED <<row, future, queue, dbErrors, crashes>>

\* Mutant of TimedOut: wait([future]) without its timeout.
NeverTimedOut(w) == FALSE

\* wait(timeout) is over.  The other steps take no such time, so a function
\* is still queued only if every thread is waiting or running a function.
TimedOut(w) ==
  /\ At(w, "wait")
  /\ \/ future[worker[w].job] = "running"
     \/ future[worker[w].job] = "queued" /\ Occupied
  /\ Goto(w, "timeout")
  /\ UNCHANGED <<row, future, queue, dbErrors, crashes>>

\* Mutant of Cancelled: future.cancel() is not called.
NotCancelled(f) == f

\* future.cancel() reaches a function that has not started, and no other.
Cancelled(f) == IF f = "queued" THEN "cancelled" ELSE f

\* Mutant of GiveUp: without the return, _run goes on to future.result().
GiveUpAndGoOn(w) ==
  /\ At(w, "timeout")
  /\ future' = [future EXCEPT ![worker[w].job] = Cancelled(@)]
  /\ UpdateStatus(worker[w].job, "failed", "timeout")
  /\ IF Cancelled(future[worker[w].job]) = "cancelled" THEN Free(w) ELSE Goto(w, "wait")
  /\ UNCHANGED <<queue, dbErrors, crashes>>

GiveUp(w) ==
  /\ At(w, "timeout")
  /\ future' = [future EXCEPT ![worker[w].job] = Cancelled(@)]
  /\ UpdateStatus(worker[w].job, "failed", "timeout")
  /\ Free(w)
  /\ UNCHANGED <<queue, dbErrors, crashes>>

\* Mutant of WriteResult: the exception of the function is not looked at.
WriteSuccessAlways(w) ==
  /\ At(w, "result")
  /\ UpdateStatus(worker[w].job, "success", "none")
  /\ Free(w)
  /\ UNCHANGED <<future, queue, dbErrors, crashes>>

WriteResult(w) ==
  /\ At(w, "result")
  /\ IF future[worker[w].job] = "returned"
       THEN UpdateStatus(worker[w].job, "success", "none")
       ELSE UpdateStatus(worker[w].job, "failed", "raised")
  /\ Free(w)
  /\ UNCHANGED <<future, queue, dbErrors, crashes>>

\* Writing SUCCESS raised: the handler meant for the function's exceptions writes FAILED.
WriteError(w) ==
  /\ At(w, "error")
  /\ UpdateStatus(worker[w].job, "failed", "raised")
  /\ Free(w)
  /\ UNCHANGED <<future, queue, dbErrors, crashes>>

\* A write raises.  Only that of SUCCESS is caught; the others end _run, and the row
\* keeps the status it had.
DbError(w) ==
  /\ dbErrors < MaxDbErrors
  /\ dbErrors' = dbErrors + 1
  /\ \/ /\ At(w, "result") /\ future[worker[w].job] = "returned"
        /\ Goto(w, "error")
        /\ UNCHANGED future
     \/ /\ At(w, "result") /\ future[worker[w].job] = "raised"
        /\ Free(w)
        /\ UNCHANGED future
     \/ /\ At(w, "timeout")
        /\ future' = [future EXCEPT ![worker[w].job] = Cancelled(@)]
        /\ Free(w)
     \/ /\ At(w, "start") \/ At(w, "error")
        /\ Free(w)
        /\ UNCHANGED future
  /\ UNCHANGED <<row, queue, crashes>>

\* The pool and its queue go; the rows stay, and nothing at start-up looks at them.
Crash ==
  /\ crashes < MaxCrashes
  /\ crashes' = crashes + 1
  /\ queue' = <<>>
  /\ worker' = [w \in Workers |-> Idle]
  /\ future' = [j \in Jobs |-> IF future[j] \in Returned THEN future[j] ELSE "none"]
  /\ UNCHANGED <<row, dbErrors>>

Thread(w) ==
  \/ \E j \in Jobs : TakeRun(w, j) \/ TakeFunction(w, j) \/ TakeCancelled(w, j)
  \/ \E outcome \in Returned : FunctionEnds(w, outcome)
  \/ Start(w) \/ Done(w) \/ TimedOut(w) \/ GiveUp(w)
  \/ WriteResult(w) \/ WriteError(w) \/ DbError(w)

Next ==
  \/ \E j \in Jobs : Submit(j)
  \/ \E w \in Workers : Thread(w)
  \/ Crash

Spec == Init /\ [][Next]_vars

\* The threads run, the timeouts pass, and the functions end, late or not: their own
\* calls to the model and to the broker have timeouts.
Fairness == \A w \in Workers : WF_vars(Thread(w))

FairSpec == Spec /\ Fairness

---------------------------------------------------------------------------
(* Properties that hold *)

\* A job that has succeeded or failed never changes again: a function that ends after
\* its job timed out does not rewrite the row that has been polled already.
TerminalIsFinal ==
  [][\A j \in Jobs : row[j].status \in Terminal => row'[j] = row[j]]_vars

\* A job is reported as successful only if its function has returned, whichever thread
\* ran it, and whatever errors, timeouts and crashes there were in between.
SuccessMeansReturned ==
  \A j \in Jobs : row[j].status = "success" => future[j] = "returned"

\* Every job submitted is over in the end, though all the threads may be waiting for
\* functions that none of them is free to run: the timeouts let them go.
EveryJobEnds ==
  \A j \in Jobs :
    []<>(row[j].status \notin {"pending", "running"} \/ dbErrors > 0 \/ crashes > 0)

---------------------------------------------------------------------------
(* The jobs keep the board *)

\* The thread that took the _run of a job, until it lets go.
Keeps(w) == worker[w].pc \in {"start", "wait", "timeout", "result", "error"}

\* Some task of the pool will still write the row of the job.
Attended(j) ==
  \/ \E w \in Workers : Keeps(w) /\ worker[w].job = j
  \/ \E i \in DOMAIN queue : queue[i] = Run(j)

PhaseOf(j) ==
  IF row[j].status \in {"pending", "running"} /\ ~Attended(j) THEN "abandoned" ELSE row[j].status

CallOf(j) == IF future[j] \in {"queued", "cancelled"} THEN "none" ELSE future[j]

JobPhases == [j \in Jobs |-> PhaseOf(j)]
JobCalls == [j \in Jobs |-> CallOf(j)]

Board == INSTANCE JobBoard WITH phase <- JobPhases, call <- JobCalls

\* The pool, with the two tasks of a job, its queue, late functions, cancellations, failed
\* writes and crashes, implements the board: no function is called for a job that has been
\* reported as failed or that nobody waits for, and none is called twice.
JobsKeepBoard == Board!BoardSpec
=============================================================================
