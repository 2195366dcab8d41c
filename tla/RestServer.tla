------------------------------ MODULE RestServer ------------------------------
(***************************************************************************)
(* The task service of rest_server/microservice_controller.cpp: clients    *)
(* post a formula, ping for its result and cancel it; a worker lambda on a *)
(* pool thread runs the prover; the main thread sweeps away the tasks      *)
(* nobody pings for.                                                       *)
(*                                                                         *)
(* op_id_to_task_info_ is shared under a mutex, so a critical section is   *)
(* one step; running_tasks and the cancellation tokens are atomic.  The    *)
(* steps of one thread between two such accesses are one action.  Message  *)
(* texts, the prover and HTTP itself are left out: a request arrives when  *)
(* it likes, as often as it likes.                                         *)
(*                                                                         *)
(* A definition named Mutant... is a plausible slip in the definition that *)
(* follows it; nothing uses it, it shows that a property is not vacuous.   *)
(***************************************************************************)
EXTENDS Naturals, Sequences, FiniteSets

CONSTANTS
  Request,                 \* the POST /task requests
  OpId,                    \* the identifiers generate_random_op_id can return
  FreshIds,                \* does it never return an identifier twice?
  concurrent_tasks_limit,  \* the -c option
  MaxLog,                  \* bound: log lines per task
  None                     \* no identifier, no result, no answer yet

ASSUME ServerAssumption ==
  /\ IsFiniteSet(Request)
  /\ FreshIds \in BOOLEAN
  /\ concurrent_tasks_limit \in Nat
  /\ MaxLog \in Nat
  /\ None \notin Request \cup OpId

VARIABLES
  handler,              \* how far handle_task has come with each request
  op_id,                \* the identifier it got
  worker,               \* the lambda that runs the task
  canceled,             \* its cancellation token
  is_task_info_removed, \* the lambda's local variable
  info_output,          \* the log lines the lambda has not streamed yet
  logged,               \* the number of lines it has logged
  op_id_to_task_info,   \* the table, a function on the identifiers in use
  running_tasks,        \* the global counter
  answer,               \* history: the last status and result a ping reported
  delivered,            \* history: the log lines the pings reported
  cancel_true           \* history: a cancel was answered "cancel true"

workerVars == <<worker, canceled, is_task_info_removed, info_output, logged>>
clientVars == <<answer, delivered, cancel_true>>
vars == <<handler, op_id, workerVars, op_id_to_task_info, running_tasks, clientVars>>

-----------------------------------------------------------------------------
(* The table of tasks.  request names the task whose cancellation token    *)
(* source the entry owns; late says that the task was posted more than     *)
(* task_run_time_limit ago.                                                *)

MutantNewTaskInfo(r) == [request |-> r, status |-> "", is_active |-> TRUE,
                         late |-> FALSE, result |-> None, output |-> <<>>]
NewTaskInfo(r) == [request |-> r, status |-> "RUNNING", is_active |-> TRUE,
                   late |-> FALSE, result |-> None, output |-> <<>>]

InTable(id) == id \in DOMAIN op_id_to_task_info

Entry(r) == op_id_to_task_info[op_id[r]]

\* The table with an entry changed, and with the entries ids erased.
Put(id, entry) == [op_id_to_task_info EXCEPT ![id] = entry]
Without(ids) == [id \in DOMAIN op_id_to_task_info \ ids |-> op_id_to_task_info[id]]

Unused == OpId \ IF FreshIds THEN {op_id[r] : r \in Request}
                             ELSE DOMAIN op_id_to_task_info

Init ==
  /\ handler = [r \in Request |-> "new"]
  /\ op_id = [r \in Request |-> None]
  /\ worker = [r \in Request |-> "none"]
  /\ canceled = [r \in Request |-> FALSE]
  /\ is_task_info_removed = [r \in Request |-> FALSE]
  /\ info_output = [r \in Request |-> <<>>]
  /\ logged = [r \in Request |-> 0]
  /\ op_id_to_task_info = << >>
  /\ running_tasks = 0
  /\ answer = [r \in Request |-> [status |-> "nothing", result |-> None]]
  /\ delivered = [r \in Request |-> <<>>]
  /\ cancel_true = [r \in Request |-> FALSE]

-----------------------------------------------------------------------------
(* handle_task, on the thread of the listener.                             *)

\* The limit is looked up, and nothing is reserved.
CheckLimit(r) ==
  /\ handler[r] = "new"
  /\ handler' = [handler EXCEPT ![r] =
       IF running_tasks >= concurrent_tasks_limit THEN "refused" ELSE "admitted"]
  /\ UNCHANGED <<op_id, workerVars, op_id_to_task_info, running_tasks, clientVars>>

\* generate_new_op_id_and_token.
Register(r) ==
  /\ handler[r] = "admitted"
  /\ \E id \in Unused :
       /\ op_id' = [op_id EXCEPT ![r] = id]
       /\ op_id_to_task_info' = [i \in DOMAIN op_id_to_task_info \cup {id} |->
            IF i = id THEN NewTaskInfo(r) ELSE op_id_to_task_info[i]]
  /\ handler' = [handler EXCEPT ![r] = "registered"]
  /\ UNCHANGED <<workerVars, running_tasks, clientVars>>

\* A query parameter is missing: the entry stays behind.
Reject(r) ==
  /\ handler[r] = "registered"
  /\ handler' = [handler EXCEPT ![r] = "rejected"]
  /\ UNCHANGED <<op_id, workerVars, op_id_to_task_info, running_tasks, clientVars>>

\* The op_id is sent to the client, and the lambda waits for the body.
Accept(r) ==
  /\ handler[r] = "registered"
  /\ handler' = [handler EXCEPT ![r] = "accepted"]
  /\ worker' = [worker EXCEPT ![r] = "scheduled"]
  /\ UNCHANGED <<op_id, canceled, is_task_info_removed, info_output, logged,
                 op_id_to_task_info, running_tasks, clientVars>>

-----------------------------------------------------------------------------
(* The worker lambda, on a thread of the pool.                             *)

\* The lambda is not run: its token is canceled, or the body did not arrive.
SkipWorker(r) ==
  /\ worker[r] = "scheduled"
  /\ worker' = [worker EXCEPT ![r] = IF canceled[r] THEN "skipped" ELSE "lost"]
  /\ UNCHANGED <<handler, op_id, canceled, is_task_info_removed, info_output, logged,
                 op_id_to_task_info, running_tasks, clientVars>>

\* ++running_tasks; then uri::decode throws if the body is not well encoded,
\* outside of the try block that would decrement the counter.
StartWorker(r) ==
  /\ worker[r] = "scheduled"
  /\ ~canceled[r]
  /\ running_tasks' = running_tasks + 1
  /\ worker' \in {[worker EXCEPT ![r] = w] : w \in {"running", "undecoded"}}
  /\ UNCHANGED <<handler, op_id, canceled, is_task_info_removed, info_output, logged,
                 op_id_to_task_info, clientVars>>

\* stream_accumulated_output when lines are what the stringstream holds.
\* It acts once a second (due).  The clear() called when the entry is gone
\* resets the state bits of the stream, not its content.
Stream(r, lines, due) ==
  /\ \/ /\ due /\ InTable(op_id[r])
        /\ op_id_to_task_info' = Put(op_id[r], [Entry(r) EXCEPT !.output = @ \o lines])
        /\ info_output' = [info_output EXCEPT ![r] = <<>>]
     \/ /\ ~(due /\ InTable(op_id[r]))
        /\ info_output' = [info_output EXCEPT ![r] = lines]
        /\ UNCHANGED op_id_to_task_info
  /\ is_task_info_removed' =
       [is_task_info_removed EXCEPT ![r] = @ \/ (due /\ ~InTable(op_id[r]))]

\* The prover logs a line.
Log(r) ==
  /\ worker[r] = "running"
  /\ logged[r] < MaxLog
  /\ logged' = [logged EXCEPT ![r] = @ + 1]
  /\ \E due \in BOOLEAN : Stream(r, Append(info_output[r], logged[r] + 1), due)
  /\ UNCHANGED <<handler, op_id, worker, canceled, running_tasks, clientVars>>

\* What the termination callback returns.
MutantMustStop(r) == canceled[r]
MustStop(r) == canceled[r] \/ is_task_info_removed'[r]

\* TERMINATE_IF_NEEDED.
Poll(r, due) ==
  /\ worker[r] = "running"
  /\ Stream(r, info_output[r], due)
  /\ worker' = [worker EXCEPT ![r] = IF MustStop(r) THEN "terminated" ELSE @]
  /\ UNCHANGED <<handler, op_id, canceled, logged, running_tasks, clientVars>>

\* A critical section that ends the task: the rest of the output goes into
\* the entry, if it is still there.  The lambda's locals end with it.
Conclude(r, entry) ==
  /\ op_id_to_task_info' =
       IF InTable(op_id[r])
       THEN Put(op_id[r], [entry EXCEPT !.output = @ \o info_output[r]])
       ELSE op_id_to_task_info
  /\ info_output' = [info_output EXCEPT ![r] = <<>>]

\* The prover has an answer.
MutantUnmarked(entry, r) == [entry EXCEPT !.result = r]
MutantFinished(entry, r) == [entry EXCEPT !.status = "FINISHED"]
Finished(entry, r) == [entry EXCEPT !.status = "FINISHED", !.result = r]

PublishResult(r) ==
  /\ worker[r] = "running"
  /\ Conclude(r, Finished(Entry(r), r))
  /\ worker' = [worker EXCEPT ![r] = "leaving"]
  /\ UNCHANGED <<handler, op_id, canceled, is_task_info_removed, logged, running_tasks,
                 clientVars>>

\* TerminationException is caught.  The line logged here is taken for a part
\* of info_output.
Terminated(entry) == [entry EXCEPT !.status = "CANCELED"]

ReportTermination(r) ==
  /\ worker[r] = "terminated"
  /\ Conclude(r, Terminated(Entry(r)))
  /\ worker' = [worker EXCEPT ![r] = "leaving"]
  /\ UNCHANGED <<handler, op_id, canceled, is_task_info_removed, logged, running_tasks,
                 clientVars>>

\* Anything else that is thrown is swallowed, the entry keeps its status.
Fail(r) ==
  /\ worker[r] = "running"
  /\ worker' = [worker EXCEPT ![r] = "failing"]
  /\ UNCHANGED <<handler, op_id, canceled, is_task_info_removed, info_output, logged,
                 op_id_to_task_info, running_tasks, clientVars>>

\* --running_tasks.
MutantReleased(r) == IF worker[r] = "failing" THEN running_tasks ELSE running_tasks - 1
Released(r) == running_tasks - 1

Leave(r) ==
  /\ worker[r] \in {"leaving", "failing"}
  /\ worker' = [worker EXCEPT ![r] = IF @ = "leaving" THEN "ended" ELSE "failed"]
  /\ running_tasks' = Released(r)
  /\ UNCHANGED <<handler, op_id, canceled, is_task_info_removed, info_output, logged,
                 op_id_to_task_info, clientVars>>

-----------------------------------------------------------------------------
(* The other handlers, for a client that was told its op_id, and time.     *)

\* handle_cancel.  "cancel failed" changes nothing.
MutantCanceled(entry) == [entry EXCEPT !.is_active = TRUE]
Canceled(entry) == [entry EXCEPT !.is_active = TRUE, !.status = "CANCELED"]

Cancel(r) ==
  /\ handler[r] = "accepted"
  /\ InTable(op_id[r])
  /\ Entry(r).status # "FINISHED"
  /\ canceled' = [canceled EXCEPT ![Entry(r).request] = TRUE]
  /\ op_id_to_task_info' = Put(op_id[r], Canceled(Entry(r)))
  /\ cancel_true' = [cancel_true EXCEPT ![r] = TRUE]
  /\ UNCHANGED <<handler, op_id, worker, is_task_info_removed, info_output, logged,
                 running_tasks, answer, delivered>>

\* handle_ping.  "no such op_id." changes nothing.
MutantPinged(entry) == [entry EXCEPT !.is_active = TRUE,
                                     !.status = IF entry.late THEN "CANCELED" ELSE @]
Pinged(entry) == [entry EXCEPT !.is_active = TRUE, !.output = <<>>,
                               !.status = IF entry.late THEN "CANCELED" ELSE @]

MutantIsFinal(status) == status = "CANCELED"
IsFinal(status) == status # "RUNNING"

Ping(r) ==
  LET entry == Pinged(Entry(r))
  IN /\ handler[r] = "accepted"
     /\ InTable(op_id[r])
     /\ answer' = [answer EXCEPT ![r] = [status |-> entry.status, result |-> entry.result]]
     /\ delivered' = [delivered EXCEPT ![r] = @ \o Entry(r).output]
     /\ op_id_to_task_info' = IF IsFinal(entry.status) THEN Without({op_id[r]})
                                                       ELSE Put(op_id[r], entry)
     /\ UNCHANGED <<handler, op_id, workerVars, running_tasks, cancel_true>>

\* More than task_run_time_limit has passed since the task was posted.
LimitPasses(id) ==
  /\ InTable(id)
  /\ ~op_id_to_task_info[id].late
  /\ op_id_to_task_info' = [op_id_to_task_info EXCEPT ![id].late = TRUE]
  /\ UNCHANGED <<handler, op_id, workerVars, running_tasks, clientVars>>

\* remove_non_active, every ten seconds on the main thread.
MutantDeactivated(entry) == entry
Deactivated(entry) == [entry EXCEPT !.is_active = FALSE]

Sweep ==
  LET inactive == {id \in DOMAIN op_id_to_task_info : ~op_id_to_task_info[id].is_active}
      kept == Without(inactive)
  IN /\ op_id_to_task_info' = [id \in DOMAIN kept |-> Deactivated(kept[id])]
     /\ UNCHANGED <<handler, op_id, workerVars, running_tasks, clientVars>>

-----------------------------------------------------------------------------
HandleTask(r) == CheckLimit(r) \/ Register(r) \/ Reject(r) \/ Accept(r)

RunTask(r) ==
  \/ SkipWorker(r) \/ StartWorker(r)
  \/ Log(r) \/ \E due \in BOOLEAN : Poll(r, due)
  \/ PublishResult(r) \/ ReportTermination(r) \/ Fail(r)
  \/ Leave(r)

Next ==
  \/ \E r \in Request : HandleTask(r) \/ RunTask(r) \/ Ping(r) \/ Cancel(r)
  \/ \E id \in OpId : LimitPasses(id)
  \/ Sweep

Spec == Init /\ [][Next]_vars

(***************************************************************************)
(* Time passes and the main thread sweeps.  A worker that runs polls again *)
(* and again, a second apart now and then, and once its try block is left  *)
(* it reaches its end.  No request is owed by a client, and no answer by   *)
(* the prover, which may take longer than anyone waits.                    *)
(***************************************************************************)
FairSpec ==
  /\ Spec
  /\ WF_vars(Sweep)
  /\ \A id \in OpId : WF_vars(LimitPasses(id))
  /\ \A r \in Request : /\ WF_vars(Poll(r, TRUE))
                        /\ WF_vars(ReportTermination(r) \/ Leave(r))

-----------------------------------------------------------------------------
\* The lambdas that have raised running_tasks and can still lower it.
Running == {r \in Request : worker[r] \in {"running", "terminated", "leaving", "failing"}}

(***************************************************************************)
(* The variables have their types.                                         *)
(***************************************************************************)
Status == {"RUNNING", "CANCELED", "FINISHED"}

TaskInfo == [request : Request, status : Status, is_active : BOOLEAN, late : BOOLEAN,
             result : Request \cup {None}, output : Seq(1..MaxLog)]

TypeOK ==
  /\ handler \in [Request -> {"new", "refused", "admitted", "registered", "rejected",
                              "accepted"}]
  /\ op_id \in [Request -> OpId \cup {None}]
  /\ worker \in [Request -> {"none", "scheduled", "skipped", "lost", "undecoded", "running",
                             "terminated", "leaving", "failing", "ended", "failed"}]
  /\ canceled \in [Request -> BOOLEAN]
  /\ is_task_info_removed \in [Request -> BOOLEAN]
  /\ info_output \in [Request -> Seq(1..MaxLog)]
  /\ logged \in [Request -> 0..MaxLog]
  /\ \E ids \in SUBSET OpId : op_id_to_task_info \in [ids -> TaskInfo]
  /\ running_tasks \in Nat
  /\ answer \in [Request -> [status : Status \cup {"nothing"}, result : Request \cup {None}]]
  /\ delivered \in [Request -> Seq(1..MaxLog)]
  /\ cancel_true \in [Request -> BOOLEAN]

(***************************************************************************)
(* running_tasks counts the running lambdas and those that decoding the    *)
(* body has ended, whatever the others do in between: it never underflows  *)
(* and no other way out of the lambda keeps its slot.                      *)
(***************************************************************************)
CountIsExact ==
  running_tasks = Cardinality(Running \cup {r \in Request : worker[r] = "undecoded"})

(***************************************************************************)
(* A client that is told FINISHED is told the result of its own task, not  *)
(* an unset one and not that of another task.                              *)
(***************************************************************************)
FinishedIsOwnResult ==
  \A r \in Request : answer[r].status = "FINISHED" => answer[r].result = r

(***************************************************************************)
(* Once a cancel was answered "cancel true" no worker, ping or sweep makes *)
(* the task RUNNING again, so that the next ping tells the end of it.      *)
(***************************************************************************)
CancelIsKept ==
  \A r \in Request : cancel_true[r] /\ InTable(op_id[r]) => IsFinal(Entry(r).status)

(***************************************************************************)
(* A worker that ended with a result or by termination, or was never run   *)
(* because of a cancel, has not left its task RUNNING: the next ping tells *)
(* the client.                                                             *)
(***************************************************************************)
EndIsReported ==
  \A r \in Request : worker[r] \in {"leaving", "ended", "skipped"} /\ InTable(op_id[r])
                       => IsFinal(Entry(r).status)

(***************************************************************************)
(* As long as the server remembers a task, the lines its client received,  *)
(* those in the entry and those still held by the worker are all that was  *)
(* logged, in order: streaming against pings loses and repeats nothing.    *)
(* Only an unexpected exception drops what the worker held.                *)
(***************************************************************************)
LogIsComplete ==
  \A r \in Request : InTable(op_id[r]) /\ worker[r] \notin {"failing", "failed"} =>
    delivered[r] \o Entry(r).output \o info_output[r] = [i \in 1..logged[r] |-> i]

(***************************************************************************)
(* Each task goes through the life of TaskLifecycle: its status reaches    *)
(* the client as it is, a final one once, and a task that was answered or  *)
(* given up never comes back, whatever its worker does later.              *)
(***************************************************************************)
TaskStatus(r) ==
  CASE op_id[r] = None -> "unknown"
    [] op_id[r] # None /\ InTable(op_id[r]) -> Entry(r).status
    [] OTHER -> "forgotten"

Lifecycle == INSTANCE TaskLifecycle
               WITH status <- [r \in Request |-> TaskStatus(r)],
                    told <- [r \in Request |-> answer[r].status]

ImplementsLifecycle == Lifecycle!Spec

(***************************************************************************)
(* A worker whose task was canceled or forgotten stops, and gives its slot *)
(* back, even if its prover would never come to an end.                    *)
(***************************************************************************)
StopsWhenAbandoned ==
  \A r \in Request : r \in Running /\ (canceled[r] \/ ~InTable(op_id[r])) ~> r \notin Running

(***************************************************************************)
(* No entry stays in the table for ever, also if its handler or its worker *)
(* failed: pings come to the time limit, silence to the sweep.  Only a     *)
(* client that cancels over and over again can keep its entry alive.       *)
(***************************************************************************)
EntriesLeave ==
  \A id \in OpId : []<>~InTable(id) \/ []<><<\E r \in Request : Cancel(r)>>_vars

-----------------------------------------------------------------------------
(* What a comment says and the code does not do.                           *)

(***************************************************************************)
(* "the max number of tasks which can be ran in the same time"             *)
(* (source.cpp:63): the counter is raised long after it was looked up.     *)
(***************************************************************************)
LimitHolds == Cardinality(Running) <= concurrent_tasks_limit
=============================================================================
