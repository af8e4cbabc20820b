--------------------------- MODULE JobRunnerProofs ---------------------------
(***************************************************************************)
(* A job has one keeper: its row belongs to a queued _run or to the thread *)
(* that took it, and to nobody once that thread has let go.                *)
(***************************************************************************)
EXTENDS JobRunner, TLAPS

Executes(w) == At(w, "fn")

KeptRows ==
  \A w \in Workers : Keeps(w) =>
    /\ worker[w].job \in Jobs
    /\ row[worker[w].job].status = IF At(w, "start") THEN "pending" ELSE "running"

OneKeeper ==
  \A w, x \in Workers :
    Keeps(w) /\ Keeps(x) /\ worker[w].job = worker[x].job => w = x

QueuedRuns ==
  \A i \in DOMAIN queue, j \in Jobs : queue[i] = Run(j) =>
    /\ row[j].status = "pending"
    /\ \A w \in Workers : Keeps(w) => worker[w].job # j
    /\ \A k \in DOMAIN queue : queue[k] = Run(j) => k = i

RunningFunctions ==
  \A w \in Workers : Executes(w) =>
    /\ worker[w].job \in Jobs
    /\ future[worker[w].job] = "running"

OneExecutor ==
  \A w, x \in Workers :
    Executes(w) /\ Executes(x) /\ worker[w].job = worker[x].job => w = x

NotStarted ==
  \A j \in Jobs : row[j].status \in {"none", "pending"} => future[j] = "none"

JobInv ==
  /\ TypeOK
  /\ KeptRows /\ OneKeeper /\ QueuedRuns
  /\ RunningFunctions /\ OneExecutor /\ NotStarted
  /\ SuccessMeansReturned

---------------------------------------------------------------------------
(* The queue *)

LEMMA Appended ==
  ASSUME NEW q \in Seq(Tasks), NEW task \in Tasks
  PROVE  /\ Append(q, task) \in Seq(Tasks)
         /\ DOMAIN Append(q, task) = DOMAIN q \cup {Len(q) + 1}
         /\ Len(q) + 1 \notin DOMAIN q
         /\ Append(q, task)[Len(q) + 1] = task
         /\ \A i \in DOMAIN q : Append(q, task)[i] = q[i]
OBVIOUS

LEMMA Removed ==
  ASSUME NEW q \in Seq(Tasks), q # <<>>
  PROVE  /\ Head(q) = q[1] /\ 1 \in DOMAIN q
         /\ Tail(q) \in Seq(Tasks)
         /\ \A i \in DOMAIN Tail(q) :
              i \in Nat /\ i > 0 /\ i + 1 \in DOMAIN q /\ Tail(q)[i] = q[i + 1]
OBVIOUS

LEMMA HeadTaken ==
  ASSUME NEW q \in Seq(Tasks), q # <<>>, NEW t
  PROVE  /\ 1 \in DOMAIN q /\ q[1] = Head(q)
         /\ (\E i \in DOMAIN q : q[i] = t)
              <=> (\E i \in DOMAIN Tail(q) : Tail(q)[i] = t) \/ t = Head(q)
<1>1. ASSUME NEW i \in DOMAIN q, q[i] = t, t # Head(q)
      PROVE  \E k \in DOMAIN Tail(q) : Tail(q)[k] = t
  <2>1. i - 1 \in DOMAIN Tail(q) /\ Tail(q)[i - 1] = q[i]
    BY <1>1
  <2> QED BY <1>1, <2>1
<1>2. ASSUME NEW k \in DOMAIN Tail(q), Tail(q)[k] = t
      PROVE  \E i \in DOMAIN q : q[i] = t
  <2>1. k + 1 \in DOMAIN q /\ q[k + 1] = t
    BY <1>2, Removed
  <2> QED BY <2>1
<1>3. 1 \in DOMAIN q /\ q[1] = Head(q)
  BY Removed
<1> QED BY <1>1, <1>2, <1>3

LEMMA TasksDiffer ==
  ASSUME NEW j \in Jobs, NEW k \in Jobs
  PROVE  /\ Run(j) \in Tasks /\ Function(j) \in Tasks
         /\ Run(j) # Function(k)
         /\ Run(j) = Run(k) => j = k
BY DEF Run, Function, Tasks
---------------------------------------------------------------------------
(* The invariant *)

LEMMA InitJobs == Init => JobInv
<1> SUFFICES ASSUME Init PROVE JobInv
  OBVIOUS
<1>1. TypeOK
  BY JobAssumption DEF Init, TypeOK, NoRow, Idle
<1>2. QueuedRuns /\ KeptRows /\ OneKeeper
  BY DEF Init, QueuedRuns, KeptRows, OneKeeper, Keeps, At, Idle
<1>3. RunningFunctions /\ OneExecutor /\ NotStarted /\ SuccessMeansReturned
  BY DEF Init, RunningFunctions, OneExecutor, NotStarted, SuccessMeansReturned,
         Executes, At, Idle, NoRow
<1> QED BY <1>1, <1>2, <1>3 DEF JobInv

LEMMA SubmitKeeps ==
  ASSUME JobInv, NEW j \in Jobs, Submit(j)
  PROVE  JobInv'
<1> USE DEF JobInv
<1> DEFINE n == Len(queue) + 1
<1>1. /\ queue' = Append(queue, Run(j)) /\ UNCHANGED <<future, worker, dbErrors, crashes>>
      /\ row[j].status = "none"
      /\ row' = [row EXCEPT ![j] = [status |-> "pending", error |-> "none"]]
  BY DEF Submit, UpdateStatus
<1>2. /\ queue' \in Seq(Tasks)
      /\ DOMAIN queue' = DOMAIN queue \cup {n} /\ n \notin DOMAIN queue
      /\ queue'[n] = Run(j) /\ \A i \in DOMAIN queue : queue'[i] = queue[i]
  BY <1>1, Appended, TasksDiffer DEF TypeOK
<1>3. TypeOK'
  BY <1>1, <1>2 DEF TypeOK, Terminal
<1>4. KeptRows' /\ OneKeeper'
  BY <1>1 DEF KeptRows, OneKeeper, Keeps, At, TypeOK
<1>5. QueuedRuns'
  <2> SUFFICES ASSUME NEW i \in DOMAIN queue', NEW k \in Jobs, queue'[i] = Run(k)
               PROVE  /\ row'[k].status = "pending"
                      /\ \A w \in Workers : Keeps(w)' => worker'[w].job # k
                      /\ \A m \in DOMAIN queue' : queue'[m] = Run(k) => m = i
    BY DEF QueuedRuns
  <2>1. \A m \in DOMAIN queue : queue[m] # Run(j)
    BY <1>1 DEF QueuedRuns
  <2>2. \A w \in Workers : Keeps(w) => worker[w].job # j
    BY <1>1 DEF KeptRows
  <2>3. CASE i = n
    BY <2>1, <2>2, <2>3, <1>1, <1>2, TasksDiffer DEF Keeps, TypeOK
  <2>4. CASE i # n
    BY <2>1, <2>4, <1>1, <1>2, TasksDiffer DEF Keeps, TypeOK, QueuedRuns
  <2> QED BY <2>3, <2>4
<1>6. RunningFunctions' /\ OneExecutor' /\ NotStarted' /\ SuccessMeansReturned'
  BY <1>1 DEF RunningFunctions, OneExecutor, NotStarted, SuccessMeansReturned, Executes,
              At, TypeOK
<1> QED BY <1>3, <1>4, <1>5, <1>6

\* What a thread takes is the head, and the others move up by one.
LEMMA TakenTask ==
  ASSUME TypeOK, NEW w \in Workers, NEW task \in Tasks, Take(w, task)
  PROVE  /\ 1 \in DOMAIN queue /\ queue[1] = task
         /\ queue' \in Seq(Tasks)
         /\ \A i \in DOMAIN queue' :
              i \in Nat /\ i > 0 /\ i + 1 \in DOMAIN queue /\ queue'[i] = queue[i + 1]
BY Removed DEF Take, TypeOK

LEMMA TakeRunKeeps ==
  ASSUME JobInv, NEW w \in Workers, NEW j \in Jobs, TakeRun(w, j)
  PROVE  JobInv'
<1> USE DEF JobInv
<1>1. /\ UNCHANGED <<row, future, dbErrors, crashes>> /\ At(w, "idle")
      /\ worker' = [worker EXCEPT ![w] = [pc |-> "start", job |-> j]]
  BY DEF TakeRun, Take
<1>2. /\ 1 \in DOMAIN queue /\ queue[1] = Run(j)
      /\ queue' \in Seq(Tasks)
      /\ \A i \in DOMAIN queue' :
           i \in Nat /\ i > 0 /\ i + 1 \in DOMAIN queue /\ queue'[i] = queue[i + 1]
  BY TakenTask, TasksDiffer DEF TakeRun
<1>3. /\ row[j].status = "pending"
      /\ \A x \in Workers : Keeps(x) => worker[x].job # j
      /\ \A k \in DOMAIN queue : queue[k] = Run(j) => k = 1
  BY <1>2 DEF QueuedRuns
<1>4. TypeOK'
  BY <1>1, <1>2 DEF TypeOK
<1>5. KeptRows' /\ OneKeeper'
  BY <1>1, <1>3 DEF KeptRows, OneKeeper, Keeps, At, TypeOK
<1>6. QueuedRuns'
  <2> SUFFICES ASSUME NEW i \in DOMAIN queue', NEW k \in Jobs, queue'[i] = Run(k)
               PROVE  /\ row'[k].status = "pending"
                      /\ \A x \in Workers : Keeps(x)' => worker'[x].job # k
                      /\ \A m \in DOMAIN queue' : queue'[m] = Run(k) => m = i
    BY DEF QueuedRuns
  <2>1. /\ i + 1 \in DOMAIN queue /\ queue[i + 1] = Run(k) /\ i \in Nat /\ i > 0
    BY <1>2
  <2>2. k # j
    BY <1>3, <2>1
  <2>3. /\ row[k].status = "pending"
        /\ \A x \in Workers : Keeps(x) => worker[x].job # k
        /\ \A m \in DOMAIN queue : queue[m] = Run(k) => m = i + 1
    BY <2>1 DEF QueuedRuns
  <2>4. \A x \in Workers : Keeps(x)' => worker'[x].job # k
    BY <1>1, <2>2, <2>3 DEF Keeps, TypeOK
  <2>5. ASSUME NEW m \in DOMAIN queue', queue'[m] = Run(k) PROVE m = i
    BY <1>2, <2>1, <2>3, <2>5
  <2> QED BY <1>1, <2>3, <2>4, <2>5
<1>7. RunningFunctions' /\ OneExecutor' /\ NotStarted' /\ SuccessMeansReturned'
  BY <1>1 DEF RunningFunctions, OneExecutor, NotStarted, SuccessMeansReturned, Executes,
              At, TypeOK
<1> QED BY <1>4, <1>5, <1>6, <1>7

\* A task that is not a _run leaves the queue.
LEMMA FunctionTaken ==
  ASSUME JobInv, NEW w \in Workers, NEW j \in Jobs, Take(w, Function(j)),
         row' = row, \A x \in Workers : Keeps(x)' => Keeps(x) /\ worker'[x] = worker[x]
  PROVE  queue' \in Seq(Tasks) /\ QueuedRuns'
<1> USE DEF JobInv
<1>1. /\ queue' \in Seq(Tasks)
      /\ \A i \in DOMAIN queue' :
           i \in Nat /\ i > 0 /\ i + 1 \in DOMAIN queue /\ queue'[i] = queue[i + 1]
  BY TakenTask, TasksDiffer
<1> SUFFICES ASSUME NEW i \in DOMAIN queue', NEW k \in Jobs, queue'[i] = Run(k)
             PROVE  /\ row'[k].status = "pending"
                    /\ \A x \in Workers : Keeps(x)' => worker'[x].job # k
                    /\ \A m \in DOMAIN queue' : queue'[m] = Run(k) => m = i
  BY <1>1 DEF QueuedRuns
<1>2. /\ row[k].status = "pending"
      /\ \A x \in Workers : Keeps(x) => worker[x].job # k
      /\ \A m \in DOMAIN queue : queue[m] = Run(k) => m = i + 1
  BY <1>1 DEF QueuedRuns
<1>3. ASSUME NEW m \in DOMAIN queue', queue'[m] = Run(k) PROVE m = i
  BY <1>1, <1>2, <1>3
<1> QED BY <1>2, <1>3

LEMMA TakeFunctionKeeps ==
  ASSUME JobInv, NEW w \in Workers, NEW j \in Jobs,
         TakeFunction(w, j) \/ TakeCancelled(w, j)
  PROVE  JobInv'
<1> USE DEF JobInv
<1>1. UNCHANGED <<row, dbErrors, crashes>> /\ Take(w, Function(j)) /\ At(w, "idle")
  BY DEF TakeFunction, TakeCancelled, Take
<1>2. CASE TakeCancelled(w, j)
  <2>1. UNCHANGED <<future, worker>>
    BY <1>2 DEF TakeCancelled
  <2>2. queue' \in Seq(Tasks) /\ QueuedRuns'
    BY <1>1, <2>1, FunctionTaken DEF Keeps
  <2> QED BY <1>1, <2>1, <2>2 DEF TypeOK, KeptRows, OneKeeper, RunningFunctions, OneExecutor,
             NotStarted, SuccessMeansReturned, Keeps, Executes, At
<1>3. CASE TakeFunction(w, j)
  <2>1. /\ future[j] = "queued" /\ future' = [future EXCEPT ![j] = "running"]
        /\ worker' = [worker EXCEPT ![w] = [pc |-> "fn", job |-> j]]
    BY <1>3 DEF TakeFunction
  <2>2. \A x \in Workers : Keeps(x)' => Keeps(x) /\ worker'[x] = worker[x]
    BY <2>1 DEF Keeps, TypeOK
  <2>3. queue' \in Seq(Tasks) /\ QueuedRuns'
    BY <1>1, <2>2, FunctionTaken
  <2>4. TypeOK'
    BY <1>1, <2>1, <2>3 DEF TypeOK
  <2>5. KeptRows' /\ OneKeeper'
    BY <1>1, <2>1, <2>2 DEF KeptRows, OneKeeper, Keeps, At, TypeOK
  <2>6. RunningFunctions' /\ OneExecutor'
    BY <1>1, <2>1 DEF RunningFunctions, OneExecutor, Executes, At, TypeOK
  <2>7. NotStarted' /\ SuccessMeansReturned'
    BY <1>1, <2>1 DEF NotStarted, SuccessMeansReturned, TypeOK
  <2> QED BY <2>3, <2>4, <2>5, <2>6, <2>7
<1> QED BY <1>2, <1>3

LEMMA FunctionEndsKeeps ==
  ASSUME JobInv, NEW w \in Workers, NEW outcome \in Returned, FunctionEnds(w, outcome)
  PROVE  JobInv'
<1> USE DEF JobInv
<1>1. /\ Executes(w) /\ UNCHANGED <<row, queue, dbErrors, crashes>>
      /\ future' = [future EXCEPT ![worker[w].job] = outcome]
      /\ worker' = [worker EXCEPT ![w] = Idle]
  BY DEF FunctionEnds, Executes, Free
<1>2. worker[w].job \in Jobs /\ future[worker[w].job] = "running"
  BY <1>1 DEF RunningFunctions
<1>3. TypeOK'
  BY <1>1, <1>2 DEF TypeOK, Idle, Returned
<1>4. KeptRows' /\ OneKeeper' /\ QueuedRuns'
  BY <1>1 DEF KeptRows, OneKeeper, QueuedRuns, Keeps, At, TypeOK, Idle
<1>5. RunningFunctions' /\ OneExecutor'
  BY <1>1, <1>2 DEF RunningFunctions, OneExecutor, Executes, At, TypeOK, Idle
<1>6. NotStarted' /\ SuccessMeansReturned'
  BY <1>1, <1>2 DEF NotStarted, SuccessMeansReturned, TypeOK
<1> QED BY <1>3, <1>4, <1>5, <1>6

LEMMA StartKeeps ==
  ASSUME JobInv, NEW w \in Workers, Start(w)
  PROVE  JobInv'
<1> USE DEF JobInv
<1> DEFINE j == worker[w].job
           n == Len(queue) + 1
<1>1. /\ Keeps(w) /\ At(w, "start") /\ j \in Jobs /\ row[j].status = "pending"
      /\ future[j] = "none"
  BY DEF Start, Keeps, At, KeptRows, NotStarted
<1>2. /\ row' = [row EXCEPT ![j] = [status |-> "running", error |-> "none"]]
      /\ queue' = Append(queue, Function(j))
      /\ future' = [future EXCEPT ![j] = "queued"]
      /\ worker' = [worker EXCEPT ![w].pc = "wait"]
      /\ UNCHANGED <<dbErrors, crashes>>
  BY DEF Start, UpdateStatus, Goto
<1>3. /\ queue' \in Seq(Tasks)
      /\ DOMAIN queue' = DOMAIN queue \cup {n}
      /\ queue'[n] = Function(j) /\ \A i \in DOMAIN queue : queue'[i] = queue[i]
  BY <1>1, <1>2, Appended, TasksDiffer DEF TypeOK
<1>4. TypeOK'
  BY <1>1, <1>2, <1>3 DEF TypeOK
<1>5. /\ \A x \in Workers : Keeps(x)' <=> Keeps(x)
      /\ \A x \in Workers : worker'[x].job = worker[x].job
      /\ \A x \in Workers : x # w => worker'[x] = worker[x]
      /\ worker'[w].pc = "wait"
  BY <1>1, <1>2 DEF Keeps, At, TypeOK
<1>6. OneKeeper'
  BY <1>5 DEF OneKeeper
<1>7. KeptRows'
  <2> SUFFICES ASSUME NEW x \in Workers, Keeps(x)'
               PROVE  /\ worker'[x].job \in Jobs
                      /\ row'[worker'[x].job].status =
                           IF At(x, "start")' THEN "pending" ELSE "running"
    BY DEF KeptRows
  <2>1. CASE x = w
    BY <2>1, <1>1, <1>2, <1>5 DEF At, TypeOK
  <2>2. CASE x # w
    <3>1. worker[x].job # j
      BY <2>2, <1>1, <1>5 DEF OneKeeper
    <3> QED BY <3>1, <2>2, <1>2, <1>5 DEF KeptRows, At, TypeOK
  <2> QED BY <2>1, <2>2
<1>8. QueuedRuns'
  <2> SUFFICES ASSUME NEW i \in DOMAIN queue', NEW k \in Jobs, queue'[i] = Run(k)
               PROVE  /\ row'[k].status = "pending"
                      /\ \A x \in Workers : Keeps(x)' => worker'[x].job # k
                      /\ \A m \in DOMAIN queue' : queue'[m] = Run(k) => m = i
    BY DEF QueuedRuns
  <2>1. \A m \in DOMAIN queue' : queue'[m] = Run(k) => m \in DOMAIN queue /\ queue[m] = Run(k)
    BY <1>1, <1>3, TasksDiffer
  <2>2. /\ row[k].status = "pending"
        /\ \A x \in Workers : Keeps(x) => worker[x].job # k
        /\ \A m \in DOMAIN queue : queue[m] = Run(k) => m = i
    BY <2>1 DEF QueuedRuns
  <2> QED BY <2>1, <2>2, <1>1, <1>2, <1>5 DEF TypeOK
<1>9. RunningFunctions' /\ OneExecutor'
  BY <1>1, <1>2 DEF RunningFunctions, OneExecutor, Executes, At, TypeOK
<1>10. NotStarted' /\ SuccessMeansReturned'
  BY <1>1, <1>2 DEF NotStarted, SuccessMeansReturned, TypeOK
<1> QED BY <1>4, <1>6, <1>7, <1>8, <1>9, <1>10

\* The keeper of a job goes on, without writing anything.
LEMMA WaitEndsKeeps ==
  ASSUME JobInv, NEW w \in Workers, NEW pc \in {"timeout", "result", "error"},
         Keeps(w), ~At(w, "start"), Goto(w, pc),
         UNCHANGED <<row, future, queue, crashes>>, dbErrors' \in 0 .. MaxDbErrors
  PROVE  JobInv'
<1> USE DEF JobInv
<1>1. TypeOK'
  BY DEF TypeOK, Goto
<1>2. KeptRows' /\ OneKeeper' /\ QueuedRuns'
  BY DEF KeptRows, OneKeeper, QueuedRuns, Keeps, At, TypeOK, Goto
<1>3. RunningFunctions' /\ OneExecutor' /\ NotStarted' /\ SuccessMeansReturned'
  BY DEF RunningFunctions, OneExecutor, NotStarted, SuccessMeansReturned, Executes, Keeps,
         At, TypeOK, Goto
<1> QED BY <1>1, <1>2, <1>3

\* The keeper of a job lets go of it.
LEMMA LettingGoKeeps ==
  ASSUME JobInv, NEW w \in Workers, Keeps(w), Free(w),
         UNCHANGED <<queue, crashes>>, dbErrors' \in 0 .. MaxDbErrors,
         \/ row' = row
         \/ \E status \in Terminal, error \in {"none", "timeout", "raised"} :
              UpdateStatus(worker[w].job, status, error),
         row'[worker[w].job].status = "success" => future[worker[w].job] = "returned",
         \/ future' = future
         \/ future' = [future EXCEPT ![worker[w].job] = Cancelled(@)] /\ ~At(w, "start")
  PROVE  JobInv'
<1> USE DEF JobInv
<1> DEFINE j == worker[w].job
<1>1. /\ j \in Jobs
      /\ row[j].status = IF At(w, "start") THEN "pending" ELSE "running"
      /\ \A x \in Workers : Keeps(x) /\ x # w => worker[x].job # j
      /\ \A i \in DOMAIN queue, k \in Jobs : queue[i] = Run(k) => k # j
  BY DEF KeptRows, OneKeeper, QueuedRuns
<1>2. /\ worker' = [worker EXCEPT ![w] = Idle]
      /\ \A x \in Workers : Keeps(x)' => Keeps(x) /\ x # w /\ worker'[x] = worker[x]
      /\ \A x \in Workers : Executes(x)' => Executes(x) /\ worker'[x] = worker[x]
  BY DEF Free, Keeps, Executes, At, Idle, TypeOK
<1>3. \A k \in Jobs : k # j => row'[k] = row[k] /\ future'[k] = future[k]
  BY <1>1 DEF UpdateStatus, TypeOK
<1>4. TypeOK'
  <2>1. row' \in [Jobs -> [status: {"none", "pending", "running"} \cup Terminal,
                           error: {"none", "timeout", "raised"}]]
    <3>1. CASE row' = row
      BY <3>1 DEF TypeOK
    <3>2. CASE \E status \in Terminal, error \in {"none", "timeout", "raised"} :
                 UpdateStatus(j, status, error)
      <4>1. PICK status \in Terminal, error \in {"none", "timeout", "raised"} :
              row' = [row EXCEPT ![j] = [status |-> status, error |-> error]]
        BY <3>2 DEF UpdateStatus
      <4> QED BY <1>1, <4>1 DEF TypeOK
    <3> QED BY <3>1, <3>2
  <2>2. future' \in [Jobs -> {"none", "queued", "running", "cancelled"} \cup Returned]
    BY DEF TypeOK, Cancelled
  <2>3. worker' \in [Workers -> [pc: {"idle", "start", "wait", "timeout", "result", "error", "fn"},
                                 job: Jobs \cup {"none"}]]
    BY <1>2 DEF TypeOK, Idle
  <2> QED BY <2>1, <2>2, <2>3 DEF TypeOK
<1>5. KeptRows' /\ OneKeeper'
  BY <1>1, <1>2, <1>3 DEF KeptRows, OneKeeper, At
<1>6. QueuedRuns'
  BY <1>1, <1>2, <1>3 DEF QueuedRuns
<1>7. RunningFunctions' /\ OneExecutor'
  <2>1. \A k \in Jobs : future[k] = "running" => future'[k] = "running"
    BY <1>1 DEF Cancelled, TypeOK
  <2> QED BY <2>1, <1>2 DEF RunningFunctions, OneExecutor
<1>8. NotStarted'
  BY <1>1, <1>3 DEF NotStarted, UpdateStatus, Terminal, TypeOK
<1>9. SuccessMeansReturned'
  BY <1>1, <1>3 DEF SuccessMeansReturned, Cancelled, TypeOK
<1> QED BY <1>4, <1>5, <1>6, <1>7, <1>8, <1>9

LEMMA CrashKeeps ==
  ASSUME JobInv, Crash
  PROVE  JobInv'
<1> USE DEF JobInv
<1>1. TypeOK'
  <2>1. queue' \in Seq(Tasks)
    BY DEF Crash
  <2>2. crashes' \in 0 .. MaxCrashes
    BY JobAssumption DEF TypeOK, Crash
  <2>3. worker' \in [Workers -> [pc: {"idle", "start", "wait", "timeout", "result", "error", "fn"},
                                 job: Jobs \cup {"none"}]]
    BY DEF Crash, Idle
  <2>4. future' \in [Jobs -> {"none", "queued", "running", "cancelled"} \cup Returned]
    BY DEF TypeOK, Crash, Returned
  <2> QED BY <2>1, <2>2, <2>3, <2>4 DEF TypeOK, Crash
<1>2. KeptRows' /\ OneKeeper' /\ QueuedRuns' /\ RunningFunctions' /\ OneExecutor'
  BY DEF KeptRows, OneKeeper, QueuedRuns, RunningFunctions, OneExecutor, Keeps, Executes,
         At, Crash, Idle
<1>3. NotStarted' /\ SuccessMeansReturned'
  BY DEF NotStarted, SuccessMeansReturned, Crash, TypeOK, Returned
<1> QED BY <1>1, <1>2, <1>3

LEMMA DbErrorKeeps ==
  ASSUME JobInv, NEW w \in Workers, DbError(w)
  PROVE  JobInv'
<1> USE DEF JobInv
<1>1. /\ UNCHANGED <<row, queue, crashes>> /\ dbErrors' \in 0 .. MaxDbErrors
      /\ Keeps(w)
  BY JobAssumption DEF DbError, TypeOK, Keeps, At
<1>2. worker[w].job \in Jobs /\ row[worker[w].job].status # "success"
  BY <1>1 DEF KeptRows
<1>3. CASE Goto(w, "error") /\ At(w, "result") /\ UNCHANGED future
  <2>1. ~At(w, "start")
    BY <1>3 DEF At
  <2> QED BY <1>1, <1>3, <2>1, WaitEndsKeeps
<1>4. CASE Free(w) /\ \/ UNCHANGED future
                      \/ /\ At(w, "timeout")
                         /\ future' = [future EXCEPT ![worker[w].job] = Cancelled(@)]
  <2>1. At(w, "timeout") => ~At(w, "start")
    BY DEF At
  <2> QED BY <1>1, <1>2, <1>4, <2>1, LettingGoKeeps
<1> QED BY <1>3, <1>4 DEF DbError

\* GiveUp, WriteResult and WriteError: the last write of a job's keeper.
Finishes(w) == GiveUp(w) \/ WriteResult(w) \/ WriteError(w)

LEMMA FinishingKeeps ==
  ASSUME JobInv, NEW w \in Workers, Finishes(w)
  PROVE  JobInv'
<1> USE DEF JobInv
<1>1. /\ Keeps(w) /\ ~At(w, "start") /\ Free(w) /\ UNCHANGED <<queue, dbErrors, crashes>>
      /\ dbErrors' \in 0 .. MaxDbErrors
  BY DEF Finishes, GiveUp, WriteResult, WriteError, Keeps, At, TypeOK
<1>2. worker[w].job \in Jobs
  BY <1>1 DEF KeptRows
<1>3. CASE GiveUp(w)
  <2>1. /\ UpdateStatus(worker[w].job, "failed", "timeout")
        /\ future' = [future EXCEPT ![worker[w].job] = Cancelled(@)]
        /\ row'[worker[w].job].status # "success"
    BY <1>2, <1>3 DEF GiveUp, UpdateStatus, TypeOK
  <2> QED BY <1>1, <2>1, LettingGoKeeps DEF Terminal
<1>4. CASE WriteResult(w) /\ future[worker[w].job] = "returned"
  BY <1>1, <1>4, LettingGoKeeps DEF WriteResult, Terminal
<1>5. CASE \/ WriteResult(w) /\ future[worker[w].job] # "returned"
           \/ WriteError(w)
  <2>1. /\ UpdateStatus(worker[w].job, "failed", "raised") /\ future' = future
        /\ row'[worker[w].job].status # "success"
    BY <1>2, <1>5 DEF WriteResult, WriteError, UpdateStatus, TypeOK
  <2> QED BY <1>1, <2>1, LettingGoKeeps DEF Terminal
<1> QED BY <1>3, <1>4, <1>5 DEF Finishes

LEMMA NextKeepsJobs ==
  ASSUME JobInv, [Next]_vars
  PROVE  JobInv'
<1>1. CASE UNCHANGED vars
  BY <1>1 DEF vars, JobInv, TypeOK, KeptRows, OneKeeper, QueuedRuns, RunningFunctions,
              OneExecutor, NotStarted, SuccessMeansReturned, Keeps, Executes, At
<1>2. ASSUME NEW j \in Jobs, Submit(j) PROVE JobInv'
  BY <1>2, SubmitKeeps
<1>3. ASSUME NEW w \in Workers, Thread(w) PROVE JobInv'
  <2>1. ASSUME NEW j \in Jobs, TakeRun(w, j) \/ TakeFunction(w, j) \/ TakeCancelled(w, j)
        PROVE  JobInv'
    BY <2>1, TakeRunKeeps, TakeFunctionKeeps
  <2>2. ASSUME NEW outcome \in Returned, FunctionEnds(w, outcome) PROVE JobInv'
    BY <2>2, FunctionEndsKeeps
  <2>3. CASE Start(w)
    BY <2>3, StartKeeps
  <2>4. CASE Done(w) \/ TimedOut(w)
    <3>1. /\ Keeps(w) /\ ~At(w, "start") /\ UNCHANGED <<row, future, queue, crashes>>
          /\ dbErrors' \in 0 .. MaxDbErrors
          /\ Goto(w, "result") \/ Goto(w, "timeout")
      BY <2>4 DEF Done, TimedOut, Keeps, At, JobInv, TypeOK
    <3> QED BY <3>1, WaitEndsKeeps
  <2>5. CASE Finishes(w)
    BY <2>5, FinishingKeeps
  <2>6. CASE DbError(w)
    BY <2>6, DbErrorKeeps
  <2> QED BY <1>3, <2>1, <2>2, <2>3, <2>4, <2>5, <2>6 DEF Thread, Finishes
<1>4. CASE Crash
  BY <1>4, CrashKeeps
<1> QED BY <1>1, <1>2, <1>3, <1>4 DEF Next

\* The invariant of the pool: one keeper of each row, one thread for each function.
THEOREM JobsHaveOneKeeper == Spec => []JobInv
<1>1. Init => JobInv
  BY InitJobs
<1>2. JobInv /\ [Next]_vars => JobInv'
  BY NextKeepsJobs
<1> QED BY <1>1, <1>2, PTL DEF Spec

---------------------------------------------------------------------------
\* Every variable keeps its type.
THEOREM JobsTyped == Spec => []TypeOK
<1>1. JobInv => TypeOK
  BY DEF JobInv
<1> QED BY <1>1, JobsHaveOneKeeper, PTL

\* Whatever the number of threads and jobs, and through errors and crashes, success is
\* reported only for a function that has returned.
THEOREM SuccessIsTrue == Spec => []SuccessMeansReturned
<1>1. JobInv => SuccessMeansReturned
  BY DEF JobInv
<1> QED BY <1>1, JobsHaveOneKeeper, PTL

LEMMA TerminalStays ==
  ASSUME JobInv, [Next]_vars, NEW j \in Jobs, row[j].status \in Terminal
  PROVE  row'[j] = row[j]
<1> USE DEF JobInv
<1>1. CASE row' = row
  BY <1>1
<1>2. ASSUME NEW k \in Jobs, Submit(k) PROVE row'[j] = row[j]
  BY <1>2 DEF Submit, UpdateStatus, Terminal, TypeOK
<1>3. ASSUME NEW w \in Workers, Start(w) \/ Finishes(w) PROVE row'[j] = row[j]
  <2>1. Keeps(w)
    BY <1>3 DEF Start, Finishes, GiveUp, WriteResult, WriteError, Keeps, At
  <2>2. worker[w].job # j
    BY <2>1 DEF KeptRows, Terminal
  <2> QED BY <1>3, <2>2 DEF Start, Finishes, GiveUp, WriteResult, WriteError, UpdateStatus,
             TypeOK
<1>4. \/ row' = row
      \/ \E k \in Jobs : Submit(k)
      \/ \E w \in Workers : Start(w) \/ Finishes(w)
  BY DEF Next, vars, Thread, TakeRun, TakeFunction, TakeCancelled, FunctionEnds, Done, TimedOut,
         DbError, Crash, Finishes
<1> QED BY <1>1, <1>2, <1>3, <1>4

\* A finished job stays as it was reported: its keeper is gone, and no other thread
\* writes its row.
THEOREM FinishedJobsStay == Spec => TerminalIsFinal
<1>1. JobInv /\ [Next]_vars
        => [\A j \in Jobs : row[j].status \in Terminal => row'[j] = row[j]]_vars
  BY TerminalStays
<1> QED BY <1>1, JobsHaveOneKeeper, PTL DEF Spec, TerminalIsFinal

---------------------------------------------------------------------------
(* The jobs keep the board.  What is missing is that a function waits in    *)
(* the queue only while its job is waited for.                              *)

Awaits(w) == worker[w].pc \in {"wait", "timeout"}

QueuedIsAwaited ==
  \A j \in Jobs : future[j] = "queued" =>
    \E w \in Workers : Awaits(w) /\ worker[w].job = j

LEMMA InitAwaited == Init => QueuedIsAwaited
BY DEF Init, QueuedIsAwaited

LEMMA NextKeepsAwaited ==
  ASSUME JobInv, QueuedIsAwaited, [Next]_vars
  PROVE  QueuedIsAwaited'
<1> USE DEF JobInv
<1> SUFFICES ASSUME NEW j \in Jobs, future'[j] = "queued"
             PROVE  \E x \in Workers : Awaits(x)' /\ worker'[x].job = j
  BY DEF QueuedIsAwaited
<1>1. CASE UNCHANGED <<future, worker>>
  BY <1>1 DEF QueuedIsAwaited, Awaits
<1>2. ASSUME NEW w \in Workers, Start(w) PROVE \E x \in Workers : Awaits(x)' /\ worker'[x].job = j
  <2>1. /\ At(w, "start") /\ worker' = [worker EXCEPT ![w].pc = "wait"]
        /\ future' = [future EXCEPT ![worker[w].job] = "queued"]
    BY <1>2 DEF Start, Goto
  <2>2. CASE worker[w].job = j
    BY <2>1, <2>2 DEF Awaits, TypeOK
  <2>3. CASE worker[w].job # j
    <3>1. PICK x \in Workers : Awaits(x) /\ worker[x].job = j
      BY <2>1, <2>3 DEF QueuedIsAwaited, TypeOK
    <3>2. x # w
      BY <3>1, <2>3
    <3> QED BY <2>1, <3>1, <3>2 DEF Awaits, TypeOK
  <2> QED BY <2>2, <2>3
<1>3. ASSUME NEW w \in Workers, ~Awaits(w), UNCHANGED future \/ future'[j] = future[j],
             \A x \in Workers : x # w => worker'[x] = worker[x]
      PROVE  \E x \in Workers : Awaits(x)' /\ worker'[x].job = j
  <2>1. PICK x \in Workers : Awaits(x) /\ worker[x].job = j
    BY <1>3 DEF QueuedIsAwaited
  <2> QED BY <1>3, <2>1 DEF Awaits
<1>4. ASSUME NEW w \in Workers, ~Start(w), Thread(w)
      PROVE  \E x \in Workers : Awaits(x)' /\ worker'[x].job = j
  <2>1. \A x \in Workers : x # w => worker'[x] = worker[x]
    BY <1>4 DEF Thread, TakeRun, TakeFunction, TakeCancelled, FunctionEnds, Done, TimedOut,
                GiveUp, WriteResult, WriteError, DbError, Goto, Free, TypeOK
  <2>2. future'[j] = future[j]
    BY <1>4 DEF Thread, TakeRun, TakeFunction, TakeCancelled, FunctionEnds, Done, TimedOut,
                GiveUp, WriteResult, WriteError, DbError, Cancelled, Returned, TypeOK
  <2>3. CASE ~Awaits(w)
    BY <1>3, <2>1, <2>2, <2>3
  <2>4. CASE Awaits(w)
    <3>1. PICK x \in Workers : Awaits(x) /\ worker[x].job = j
      BY <2>2 DEF QueuedIsAwaited
    <3>2. CASE x # w
      BY <2>1, <3>1, <3>2 DEF Awaits
    <3>3. CASE x = w
      <4>1. ~Done(w) /\ ~GiveUp(w) /\ ~(DbError(w) /\ At(w, "timeout"))
        BY <2>2, <3>1, <3>3 DEF Done, Returned, GiveUp, DbError, Cancelled, At, TypeOK
      <4>2. TimedOut(w) \/ worker' = worker
        BY <1>4, <2>4, <4>1 DEF Thread, Take, TakeRun, TakeFunction, TakeCancelled, FunctionEnds,
              WriteResult, WriteError, DbError, At, Awaits
      <4> QED BY <3>1, <3>3, <4>2 DEF TimedOut, Goto, Awaits, TypeOK
    <3> QED BY <3>2, <3>3
  <2> QED BY <2>3, <2>4
<1>5. CASE Crash
  BY <1>5 DEF Crash, TypeOK, Returned
<1>6. ASSUME NEW k \in Jobs, Submit(k) PROVE UNCHANGED <<future, worker>>
  BY <1>6 DEF Submit
<1> QED BY <1>1, <1>2, <1>4, <1>5, <1>6 DEF Next, vars

\* What waits in the queue for a thread is the function of a running job.
LEMMA QueuedIsRunning ==
  ASSUME JobInv, QueuedIsAwaited, NEW j \in Jobs, future[j] = "queued"
  PROVE  row[j].status = "running" /\ Attended(j)
<1>1. PICK w \in Workers : Awaits(w) /\ worker[w].job = j
  BY DEF QueuedIsAwaited
<1> QED BY <1>1 DEF Awaits, Attended, Keeps, At, JobInv, KeptRows

---------------------------------------------------------------------------
(* The refinement *)

LEMMA SameBoard ==
  ASSUME \A k \in Jobs : PhaseOf(k)' = PhaseOf(k) /\ CallOf(k)' = CallOf(k)
  PROVE  UNCHANGED <<JobPhases, JobCalls>>
BY DEF JobPhases, JobCalls

LEMMA PhaseEntered ==
  ASSUME NEW j \in Jobs, NEW to, PhaseOf(j)' = to,
         \A k \in Jobs : k # j => PhaseOf(k)' = PhaseOf(k),
         \A k \in Jobs : CallOf(k)' = CallOf(k)
  PROVE  JobPhases' = [JobPhases EXCEPT ![j] = to] /\ UNCHANGED JobCalls
BY DEF JobPhases, JobCalls

LEMMA CallEntered ==
  ASSUME NEW j \in Jobs, NEW to, CallOf(j)' = to,
         \A k \in Jobs : k # j => CallOf(k)' = CallOf(k),
         \A k \in Jobs : PhaseOf(k)' = PhaseOf(k)
  PROVE  JobCalls' = [JobCalls EXCEPT ![j] = to] /\ UNCHANGED JobPhases
BY DEF JobPhases, JobCalls

LEMMA SubmitKeepsBoard ==
  ASSUME JobInv, NEW j \in Jobs, Submit(j)
  PROVE  Board!Submitted(j)
<1> USE DEF JobInv
<1>1. /\ queue' = Append(queue, Run(j)) /\ UNCHANGED <<future, worker>>
      /\ row[j].status = "none"
      /\ row' = [row EXCEPT ![j] = [status |-> "pending", error |-> "none"]]
  BY DEF Submit, UpdateStatus
<1>2. \A k \in Jobs : Attended(k)' <=> Attended(k) \/ k = j
  <2>1. /\ DOMAIN queue' = DOMAIN queue \cup {Len(queue) + 1}
        /\ queue'[Len(queue) + 1] = Run(j) /\ \A i \in DOMAIN queue : queue'[i] = queue[i]
    BY <1>1, Appended, TasksDiffer DEF TypeOK
  <2> QED BY <1>1, <2>1, TasksDiffer DEF Attended, Keeps
<1>3. PhaseOf(j) = "none" /\ PhaseOf(j)' = "pending"
  BY <1>1, <1>2 DEF PhaseOf, TypeOK
<1>4. \A k \in Jobs : CallOf(k)' = CallOf(k) /\ (k # j => PhaseOf(k)' = PhaseOf(k))
  BY <1>1, <1>2 DEF PhaseOf, CallOf, TypeOK
<1> QED BY <1>3, <1>4, PhaseEntered DEF Board!Submitted, Board!Enter, JobPhases

\* A thread that takes a _run becomes the keeper of its job in the same step.
LEMMA TakeRunKeepsBoard ==
  ASSUME JobInv, NEW w \in Workers, NEW j \in Jobs, TakeRun(w, j)
  PROVE  UNCHANGED <<JobPhases, JobCalls>>
<1> USE DEF JobInv
<1>1. /\ At(w, "idle") /\ queue # <<>> /\ Head(queue) = Run(j) /\ queue' = Tail(queue)
      /\ worker' = [worker EXCEPT ![w] = [pc |-> "start", job |-> j]]
      /\ UNCHANGED <<row, future>>
  BY DEF TakeRun, Take
<1>2. 1 \in DOMAIN queue /\ queue[1] = Run(j) /\ queue \in Seq(Tasks)
  BY <1>1, Removed DEF TypeOK
<1>3. ASSUME NEW k \in Jobs
      PROVE  (\E i \in DOMAIN queue : queue[i] = Run(k))
               <=> (\E i \in DOMAIN queue' : queue'[i] = Run(k)) \/ k = j
  <2>1. (\E i \in DOMAIN queue : queue[i] = Run(k))
          <=> (\E i \in DOMAIN Tail(queue) : Tail(queue)[i] = Run(k)) \/ Run(k) = Head(queue)
    BY <1>1, <1>2, HeadTaken
  <2>2. Run(k) = Run(j) <=> k = j
    BY TasksDiffer
  <2> QED BY <1>1, <2>1, <2>2
<1>4. \A k \in Jobs : Attended(k)' <=> Attended(k)
  BY <1>1, <1>2, <1>3 DEF Attended, Keeps, At, TypeOK
<1> QED BY <1>1, <1>4, SameBoard DEF PhaseOf, CallOf

LEMMA FunctionTakenAttends ==
  ASSUME JobInv, NEW w \in Workers, NEW j \in Jobs, Take(w, Function(j)),
         \A x \in Workers : Keeps(x)' <=> Keeps(x),
         \A x \in Workers : Keeps(x) => worker'[x].job = worker[x].job
  PROVE  \A k \in Jobs : Attended(k)' <=> Attended(k)
<1> USE DEF JobInv
<1>1. /\ queue # <<>> /\ Head(queue) = Function(j) /\ queue' = Tail(queue)
      /\ queue \in Seq(Tasks)
  BY DEF Take, TypeOK
<1>2. ASSUME NEW k \in Jobs
      PROVE  (\E i \in DOMAIN queue : queue[i] = Run(k))
               <=> (\E i \in DOMAIN queue' : queue'[i] = Run(k))
  <2>1. (\E i \in DOMAIN queue : queue[i] = Run(k))
          <=> (\E i \in DOMAIN Tail(queue) : Tail(queue)[i] = Run(k)) \/ Run(k) = Head(queue)
    BY <1>1, HeadTaken
  <2>2. Run(k) # Function(j)
    BY TasksDiffer
  <2> QED BY <1>1, <2>1, <2>2
<1> QED BY <1>2 DEF Attended

LEMMA TakeFunctionKeepsBoard ==
  ASSUME JobInv, QueuedIsAwaited, NEW w \in Workers, NEW j \in Jobs, TakeFunction(w, j)
  PROVE  Board!Called(j)
<1> USE DEF JobInv
<1>1. /\ At(w, "idle") /\ Take(w, Function(j)) /\ future[j] = "queued" /\ row' = row
      /\ future' = [future EXCEPT ![j] = "running"]
      /\ worker' = [worker EXCEPT ![w] = [pc |-> "fn", job |-> j]]
  BY DEF TakeFunction, Take
<1>2. \A k \in Jobs : Attended(k)' <=> Attended(k)
  BY <1>1, FunctionTakenAttends DEF Keeps, At, TypeOK
<1>3. PhaseOf(j) = "running" /\ CallOf(j) = "none"
  BY <1>1, QueuedIsRunning DEF PhaseOf, CallOf
<1>4. /\ CallOf(j)' = "running"
      /\ \A k \in Jobs : PhaseOf(k)' = PhaseOf(k) /\ (k # j => CallOf(k)' = CallOf(k))
  BY <1>1, <1>2 DEF PhaseOf, CallOf, TypeOK
<1> QED BY <1>3, <1>4, CallEntered DEF Board!Called, JobPhases, JobCalls

LEMMA TakeCancelledKeepsBoard ==
  ASSUME JobInv, NEW w \in Workers, NEW j \in Jobs, TakeCancelled(w, j)
  PROVE  UNCHANGED <<JobPhases, JobCalls>>
<1>1. Take(w, Function(j)) /\ UNCHANGED <<row, future, worker>>
  BY DEF TakeCancelled
<1>2. \A k \in Jobs : Attended(k)' <=> Attended(k)
  BY <1>1, FunctionTakenAttends DEF Keeps
<1> QED BY <1>1, <1>2, SameBoard DEF PhaseOf, CallOf

LEMMA FunctionEndsKeepsBoard ==
  ASSUME JobInv, NEW w \in Workers, NEW outcome \in Returned, FunctionEnds(w, outcome)
  PROVE  \E j \in Jobs : Board!Ended(j)
<1> USE DEF JobInv
<1>0. PICK j : j = worker[w].job
  OBVIOUS
<1>1. /\ Executes(w) /\ UNCHANGED <<row, queue>>
      /\ future' = [future EXCEPT ![j] = outcome]
      /\ worker' = [worker EXCEPT ![w] = Idle]
  BY <1>0 DEF FunctionEnds, Executes, Free
<1>2. j \in Jobs /\ future[j] = "running"
  BY <1>0, <1>1 DEF RunningFunctions
<1>3. \A k \in Jobs : Attended(k)' <=> Attended(k)
  BY <1>1 DEF Attended, Keeps, Executes, At, Idle, TypeOK
<1>4. /\ CallOf(j) = "running" /\ CallOf(j)' = outcome
      /\ \A k \in Jobs : PhaseOf(k)' = PhaseOf(k) /\ (k # j => CallOf(k)' = CallOf(k))
  BY <1>1, <1>2, <1>3 DEF PhaseOf, CallOf, Returned, TypeOK
<1>5. /\ JobCalls[j] = "running" /\ UNCHANGED JobPhases
      /\ JobCalls' = [JobCalls EXCEPT ![j] = outcome]
  BY <1>2, <1>4, CallEntered DEF JobCalls
<1>6. Board!Ended(j)
  BY <1>5 DEF Board!Ended, Returned
<1> QED BY <1>2, <1>6

LEMMA StartKeepsBoard ==
  ASSUME JobInv, NEW w \in Workers, Start(w)
  PROVE  \E j \in Jobs : Board!Begun(j)
<1> USE DEF JobInv
<1>0. PICK j : j = worker[w].job
  OBVIOUS
<1>1. /\ At(w, "start") /\ Keeps(w) /\ j \in Jobs /\ row[j].status = "pending"
      /\ future[j] = "none"
  BY <1>0 DEF Start, Keeps, At, KeptRows, NotStarted
<1>2. /\ row' = [row EXCEPT ![j] = [status |-> "running", error |-> "none"]]
      /\ queue' = Append(queue, Function(j))
      /\ future' = [future EXCEPT ![j] = "queued"]
      /\ worker' = [worker EXCEPT ![w].pc = "wait"]
  BY <1>0 DEF Start, UpdateStatus, Goto
<1>3. \A k \in Jobs : Attended(k)' <=> Attended(k)
  <2>1. /\ DOMAIN queue' = DOMAIN queue \cup {Len(queue) + 1}
        /\ queue'[Len(queue) + 1] = Function(j)
        /\ \A i \in DOMAIN queue : queue'[i] = queue[i]
    BY <1>1, <1>2, Appended, TasksDiffer DEF TypeOK
  <2> QED BY <1>1, <1>2, <2>1, TasksDiffer DEF Attended, Keeps, At, TypeOK
<1>4. Attended(j)
  BY <1>0, <1>1 DEF Attended
<1>5. PhaseOf(j) = "pending" /\ PhaseOf(j)' = "running"
  BY <1>1, <1>2, <1>3, <1>4 DEF PhaseOf, TypeOK
<1>6. \A k \in Jobs : CallOf(k)' = CallOf(k) /\ (k # j => PhaseOf(k)' = PhaseOf(k))
  BY <1>1, <1>2, <1>3 DEF PhaseOf, CallOf, TypeOK
<1>7. Board!Begun(j)
  BY <1>1, <1>5, <1>6, PhaseEntered DEF Board!Begun, Board!Enter, JobPhases
<1> QED BY <1>1, <1>7

\* The keeper of a job goes on.
LEMMA WaitEndsKeepsBoard ==
  ASSUME JobInv, NEW w \in Workers, NEW pc \in {"timeout", "result", "error"},
         Keeps(w), Goto(w, pc), UNCHANGED <<row, future, queue>>
  PROVE  UNCHANGED <<JobPhases, JobCalls>>
<1>1. \A k \in Jobs : Attended(k)' <=> Attended(k)
  BY DEF Attended, Keeps, Goto, JobInv, TypeOK
<1> QED BY <1>1, SameBoard DEF PhaseOf, CallOf

\* Once its keeper has let go, nobody attends a job, and the others are attended as before.
LEMMA LetGo ==
  ASSUME JobInv, NEW w \in Workers, NEW j, j = worker[w].job,
         Keeps(w), Free(w), UNCHANGED queue
  PROVE  /\ j \in Jobs /\ Attended(j) /\ ~Attended(j)'
         /\ \A k \in Jobs : k # j => (Attended(k)' <=> Attended(k))
<1> USE DEF JobInv
<1>1. /\ worker' = [worker EXCEPT ![w] = Idle]
      /\ \A x \in Workers : Keeps(x)' <=> Keeps(x) /\ x # w
      /\ \A x \in Workers : x # w => worker'[x] = worker[x]
  BY DEF Free, Keeps, Idle, TypeOK
<1>2. /\ j \in Jobs
      /\ \A x \in Workers : Keeps(x) /\ x # w => worker[x].job # j
      /\ \A i \in DOMAIN queue : queue[i] # Run(j)
  BY DEF KeptRows, OneKeeper, QueuedRuns
<1> QED BY <1>1, <1>2 DEF Attended

LEMMA FinishingKeepsBoard ==
  ASSUME JobInv, NEW w \in Workers, Finishes(w)
  PROVE  \E j \in Jobs : Board!Failed(j) \/ Board!Succeeded(j)
<1> USE DEF JobInv
<1>0. PICK j : j = worker[w].job
  OBVIOUS
<1>1. /\ Keeps(w) /\ ~At(w, "start") /\ Free(w) /\ UNCHANGED queue
      /\ \/ future' = future
         \/ future' = [future EXCEPT ![j] = Cancelled(@)]
  BY <1>0 DEF Finishes, GiveUp, WriteResult, WriteError, Keeps, At
<1>2. /\ j \in Jobs /\ row[j].status = "running"
      /\ Attended(j) /\ \A k \in Jobs : k # j => (Attended(k)' <=> Attended(k))
  BY <1>0, <1>1, LetGo DEF KeptRows
<1>3. \A k \in Jobs : CallOf(k)' = CallOf(k)
  BY <1>1, <1>2 DEF CallOf, Cancelled, TypeOK
<1>4. PICK status \in Terminal :
        /\ row'[j].status = status /\ \A k \in Jobs : k # j => row'[k] = row[k]
        /\ status = "success" => future[j] = "returned"
  BY <1>0, <1>2 DEF Finishes, GiveUp, WriteResult, WriteError, UpdateStatus, Terminal, TypeOK
<1>5. /\ PhaseOf(j) = "running" /\ PhaseOf(j)' = status
      /\ \A k \in Jobs : k # j => PhaseOf(k)' = PhaseOf(k)
  BY <1>2, <1>4 DEF PhaseOf, Terminal
<1>6. Board!Enter(j, {"running"}, status)
  BY <1>2, <1>3, <1>5, PhaseEntered DEF Board!Enter, JobPhases
<1>7. status = "success" => JobCalls[j] = "returned"
  BY <1>2, <1>4 DEF JobCalls, CallOf
<1> QED BY <1>2, <1>6, <1>7 DEF Board!Failed, Board!Succeeded, Terminal

LEMMA DbErrorKeepsBoard ==
  ASSUME JobInv, NEW w \in Workers, DbError(w)
  PROVE  (\E j \in Jobs : Board!Abandoned(j)) \/ UNCHANGED <<JobPhases, JobCalls>>
<1> USE DEF JobInv
<1>0. PICK j : j = worker[w].job
  OBVIOUS
<1>1. Keeps(w) /\ UNCHANGED <<row, queue>>
  BY DEF DbError, Keeps, At
<1>2. CASE Goto(w, "error") /\ UNCHANGED future
  BY <1>1, <1>2, WaitEndsKeepsBoard
<1>3. CASE /\ Free(w)
           /\ \/ UNCHANGED future
              \/ future' = [future EXCEPT ![j] = Cancelled(@)]
  <2>1. /\ j \in Jobs /\ row[j].status \in {"pending", "running"}
        /\ Attended(j) /\ ~Attended(j)'
        /\ \A k \in Jobs : k # j => (Attended(k)' <=> Attended(k))
    BY <1>0, <1>1, <1>3, LetGo DEF KeptRows
  <2>2. \A k \in Jobs : CallOf(k)' = CallOf(k)
    BY <1>3, <2>1 DEF CallOf, Cancelled, TypeOK
  <2>3. /\ PhaseOf(j) \in {"pending", "running"} /\ PhaseOf(j)' = "abandoned"
        /\ \A k \in Jobs : k # j => PhaseOf(k)' = PhaseOf(k)
    BY <1>1, <2>1 DEF PhaseOf
  <2>4. Board!Abandoned(j)
    BY <2>1, <2>2, <2>3, PhaseEntered DEF Board!Abandoned, Board!Enter, Board!Unended, JobPhases
  <2> QED BY <2>1, <2>4
<1> QED BY <1>0, <1>2, <1>3 DEF DbError

LEMMA CrashKeepsBoard ==
  ASSUME JobInv, Crash
  PROVE  Board!Lost
<1> USE DEF JobInv
<1>1. /\ row' = row /\ queue' = <<>> /\ worker' = [w \in Workers |-> Idle]
      /\ future' = [j \in Jobs |-> IF future[j] \in Returned THEN future[j] ELSE "none"]
  BY DEF Crash
<1>2. \A k \in Jobs : ~Attended(k)'
  BY <1>1 DEF Attended, Keeps, Idle
<1>3. \A k \in Jobs : PhaseOf(k)' =
        IF PhaseOf(k) \in Board!Unended THEN "abandoned" ELSE PhaseOf(k)
  BY <1>1, <1>2 DEF PhaseOf, Board!Unended
<1>4. \A k \in Jobs : CallOf(k)' = IF CallOf(k) = "running" THEN "none" ELSE CallOf(k)
  BY <1>1 DEF CallOf, Returned, TypeOK
<1> QED BY <1>3, <1>4 DEF Board!Lost, JobPhases, JobCalls

\* Every step of the pool is one of the board's, or changes nothing on it.
LEMMA NextKeepsBoard ==
  ASSUME JobInv, QueuedIsAwaited, [Next]_vars
  PROVE  Board!BoardNext \/ UNCHANGED <<JobPhases, JobCalls>>
<1>1. CASE UNCHANGED vars
  BY <1>1, SameBoard DEF vars, PhaseOf, CallOf, Attended, Keeps
<1>2. ASSUME NEW j \in Jobs, Submit(j) PROVE Board!BoardNext
  BY <1>2, SubmitKeepsBoard DEF Board!BoardNext
<1>3. ASSUME NEW w \in Workers, Thread(w)
      PROVE  Board!BoardNext \/ UNCHANGED <<JobPhases, JobCalls>>
  <2>1. ASSUME NEW j \in Jobs, TakeRun(w, j) \/ TakeCancelled(w, j)
        PROVE  UNCHANGED <<JobPhases, JobCalls>>
    BY <2>1, TakeRunKeepsBoard, TakeCancelledKeepsBoard
  <2>2. ASSUME NEW j \in Jobs, TakeFunction(w, j) PROVE Board!BoardNext
    BY <2>2, TakeFunctionKeepsBoard DEF Board!BoardNext
  <2>3. ASSUME NEW outcome \in Returned, FunctionEnds(w, outcome) PROVE Board!BoardNext
    BY <2>3, FunctionEndsKeepsBoard DEF Board!BoardNext
  <2>4. CASE Start(w)
    BY <2>4, StartKeepsBoard DEF Board!BoardNext
  <2>5. CASE Done(w) \/ TimedOut(w)
    <3>1. /\ Keeps(w) /\ UNCHANGED <<row, future, queue>>
          /\ Goto(w, "result") \/ Goto(w, "timeout")
      BY <2>5 DEF Done, TimedOut, Keeps, At
    <3> QED BY <3>1, WaitEndsKeepsBoard
  <2>6. CASE Finishes(w)
    BY <2>6, FinishingKeepsBoard DEF Board!BoardNext
  <2>7. CASE DbError(w)
    BY <2>7, DbErrorKeepsBoard DEF Board!BoardNext
  <2> QED BY <1>3, <2>1, <2>2, <2>3, <2>4, <2>5, <2>6, <2>7 DEF Thread, Finishes
<1>4. CASE Crash
  BY <1>4, CrashKeepsBoard DEF Board!BoardNext
<1> QED BY <1>1, <1>2, <1>3, <1>4 DEF Next

\* The pool implements the board, for any number of jobs and threads, through timeouts,
\* failed writes and crashes.
THEOREM PoolImplementsBoard == Spec => JobsKeepBoard
<1>1. Init => QueuedIsAwaited /\ Board!BoardInit
  <2>1. Init => Board!BoardInit
    BY DEF Init, Board!BoardInit, JobPhases, JobCalls, PhaseOf, CallOf, NoRow
  <2> QED BY <2>1, InitAwaited
<1>2. JobInv /\ QueuedIsAwaited /\ [Next]_vars => QueuedIsAwaited'
  BY NextKeepsAwaited
<1>3. JobInv /\ QueuedIsAwaited /\ [Next]_vars => [Board!BoardNext]_(Board!boardVars)
  BY NextKeepsBoard DEF Board!boardVars
<1> QED BY <1>1, <1>2, <1>3, JobsHaveOneKeeper, PTL DEF Spec, JobsKeepBoard, Board!BoardSpec
=============================================================================
