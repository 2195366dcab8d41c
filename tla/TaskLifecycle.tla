---------------------------- MODULE TaskLifecycle ----------------------------
(***************************************************************************)
(* What the server of rest_server/ promises the client that posted a task, *)
(* without threads, tokens or an op_id table.  The status of a task is     *)
(* that of task_result::status_code while the server remembers the task;   *)
(* a ping reports it, and a final status is reported at most once.         *)
(***************************************************************************)
CONSTANT Request      \* the posted tasks

VARIABLES
  status,             \* the status of each task
  told                \* the status last reported to the client of the task

vars == <<status, told>>

Remembered == {"RUNNING", "CANCELED", "FINISHED"}

Init ==
  /\ status = [r \in Request |-> "unknown"]
  /\ told = [r \in Request |-> "nothing"]

Open(r) ==
  /\ status[r] = "unknown"
  /\ status' = [status EXCEPT ![r] = "RUNNING"]
  /\ UNCHANGED told

Cancel(r) ==
  /\ status[r] = "RUNNING"
  /\ status' = [status EXCEPT ![r] = "CANCELED"]
  /\ UNCHANGED told

\* A result that is ready when the cancellation takes effect still counts.
Finish(r) ==
  /\ status[r] \in {"RUNNING", "CANCELED"}
  /\ status' = [status EXCEPT ![r] = "FINISHED"]
  /\ UNCHANGED told

\* A ping.  One that comes too late reports CANCELED whatever the status.
Report(r) ==
  /\ status[r] \in Remembered
  /\ \E s \in {status[r], "CANCELED"} :
       /\ told' = [told EXCEPT ![r] = s]
       /\ status' = [status EXCEPT ![r] = IF s = "RUNNING" THEN s ELSE "forgotten"]

\* The tasks S are given up: their clients have not pinged for too long.
Forget(S) ==
  /\ S \subseteq {r \in Request : status[r] \in Remembered}
  /\ status' = [r \in Request |-> IF r \in S THEN "forgotten" ELSE status[r]]
  /\ UNCHANGED told

Next ==
  \/ \E r \in Request : Open(r) \/ Cancel(r) \/ Finish(r) \/ Report(r)
  \/ \E S \in SUBSET Request : Forget(S)

Spec == Init /\ [][Next]_vars
=============================================================================
