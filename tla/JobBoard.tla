------------------------------ MODULE JobBoard ------------------------------
(***************************************************************************)
(* What the background jobs promise whoever polls them, whichever threads  *)
(* run them: the function of a job is called once at most, and only while  *)
(* the job is reported as running, a success comes after its return, and   *)
(* whatever has ended, or was left behind by an error or a crash, stays    *)
(* that way, even if its function is still at work.                        *)
(***************************************************************************)
CONSTANT Jobs

VARIABLES
  phase,   \* what is reported of a job, "abandoned" once nobody will report again
  call     \* what has become of the call of its function

boardVars == <<phase, call>>

Unended == {"pending", "running"}

BoardInit ==
  /\ phase = [j \in Jobs |-> "none"]
  /\ call = [j \in Jobs |-> "none"]

Enter(j, from, to) ==
  /\ phase[j] \in from
  /\ phase' = [phase EXCEPT ![j] = to]
  /\ UNCHANGED call

Submitted(j) == Enter(j, {"none"}, "pending")
Begun(j) == Enter(j, {"pending"}, "running")
Failed(j) == Enter(j, {"running"}, "failed")
Succeeded(j) == call[j] = "returned" /\ Enter(j, {"running"}, "success")
Abandoned(j) == Enter(j, Unended, "abandoned")

Called(j) ==
  /\ phase[j] = "running"
  /\ call[j] = "none"
  /\ call' = [call EXCEPT ![j] = "running"]
  /\ UNCHANGED phase

Ended(j) ==
  /\ call[j] = "running"
  /\ \E outcome \in {"returned", "raised"} : call' = [call EXCEPT ![j] = outcome]
  /\ UNCHANGED phase

\* The process goes, with every call in it.
Lost ==
  /\ phase' = [j \in Jobs |-> IF phase[j] \in Unended THEN "abandoned" ELSE phase[j]]
  /\ call' = [j \in Jobs |-> IF call[j] = "running" THEN "none" ELSE call[j]]

BoardNext ==
  \/ \E j \in Jobs :
       \/ Submitted(j) \/ Begun(j) \/ Called(j) \/ Ended(j)
       \/ Failed(j) \/ Succeeded(j) \/ Abandoned(j)
  \/ Lost

BoardSpec == BoardInit /\ [][BoardNext]_boardVars
=============================================================================
