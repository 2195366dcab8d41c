-------------------------------- MODULE Client --------------------------------
(***************************************************************************)
(* The page simple_client/index.html with server_api.js: one page that     *)
(* posts a formula, asks once a second how the task does and shows the     *)
(* answer.  The server is module TaskLifecycle, which RestServer           *)
(* implements.  Requests and answers are under way for as long as they     *)
(* like and overtake each other; any of them may be lost, which the page   *)
(* takes for a failure.                                                    *)
(*                                                                         *)
(* The tasks are numbered in the order in which the page posts them, the   *)
(* number is also the op_id.  The timer of a task has its number, too.     *)
(* The cancel button is commented out of the page, so no task is canceled  *)
(* by its client.                                                          *)
(***************************************************************************)
EXTENDS Naturals

CONSTANTS
  MaxTasks,      \* bound: how often a button is clicked
  MaxPings,      \* bound: how many pings are under way at a time
  Null           \* null, nothing

ASSUME ClientAssumption ==
  /\ MaxTasks \in Nat
  /\ MaxPings \in Nat \ {0}
  /\ Null \notin Nat

Task == 1..MaxTasks
Slot == 1..MaxPings

VARIABLES
  status, told,  \* the server: the status of each task, and the last reported one
  created,       \* the number of tasks that the page has posted
  post,          \* what has become of each POST
  valid_op_id,   \* the variable of the page that all its timers share
  timers,        \* the timers that are set
  pings,         \* the pings under way, with their answers if they have one
  enabled,       \* the buttons
  shown,         \* algorithm_result, with the task that it is about
  overlapped     \* history: a ping was sent before another one was answered

serverVars == <<status, told>>
pageVars == <<valid_op_id, timers, enabled, shown>>
vars == <<serverVars, created, post, pageVars, pings, overlapped>>

Server == INSTANCE TaskLifecycle WITH Request <- Task

Text(s, t) == [text |-> s, task |-> t]

Init ==
  /\ Server!Init
  /\ created = 0
  /\ post = [t \in Task |-> "none"]
  /\ valid_op_id = Null
  /\ timers = {}
  /\ pings = [s \in Slot |-> Null]
  /\ enabled = TRUE
  /\ shown = Text("Resting", 0)
  /\ overlapped = FALSE

-----------------------------------------------------------------------------
MutantWhileRunning == TRUE
\* change_computing_components_availability(false).
WhileRunning == FALSE

\* A click on one of the model buttons: create_task, up to post_task.
CreateTask ==
  /\ enabled
  /\ created < MaxTasks
  /\ created' = created + 1
  /\ post' = [post EXCEPT ![created'] = "sent"]
  /\ enabled' = WhileRunning
  /\ shown' = Text("Running", created')
  /\ UNCHANGED <<serverVars, valid_op_id, timers, pings, overlapped>>

\* The server takes the task; its answer may be lost.
TakePost(t) ==
  /\ post[t] = "sent"
  /\ Server!Open(t)
  /\ post' \in {[post EXCEPT ![t] = a] : a \in {"accepted", "refused"}}
  /\ UNCHANGED <<created, pageVars, pings, overlapped>>

\* The server has too many tasks (429), or cannot be reached.
RefusePost(t) ==
  /\ post[t] = "sent"
  /\ post' = [post EXCEPT ![t] = "refused"]
  /\ UNCHANGED <<serverVars, created, pageVars, pings, overlapped>>

\* The op_id arrives, and a timer is set.
PostDone(t) ==
  /\ post[t] = "accepted"
  /\ post' = [post EXCEPT ![t] = "done"]
  /\ valid_op_id' = t
  /\ timers' = timers \cup {t}
  /\ UNCHANGED <<serverVars, created, pings, enabled, shown, overlapped>>

\* The page asks to try again later, but the buttons are left as they are.
PostFailed(t) ==
  /\ post[t] = "refused"
  /\ post' = [post EXCEPT ![t] = "failed"]
  /\ UNCHANGED <<serverVars, created, pageVars, pings, overlapped>>

-----------------------------------------------------------------------------
\* The timer of t calls ping_task, whatever has become of earlier pings.
Tick(t) ==
  /\ t \in timers
  /\ \E s \in Slot :
       /\ pings[s] = Null
       /\ pings' = [pings EXCEPT ![s] = [timer |-> t, op_id |-> valid_op_id, answer |-> "none"]]
  /\ overlapped' = (overlapped \/ \E s \in Slot : pings[s] # Null)
  /\ UNCHANGED <<serverVars, created, post, pageVars>>

IsAsked(s) == pings[s] # Null /\ pings[s].answer = "none"

Answer(s, a) == pings' = [pings EXCEPT ![s].answer = a]

\* handle_ping answers, and the answer arrives or is lost.
AnswerPing(s) ==
  /\ IsAsked(s)
  /\ pings[s].op_id # Null
  /\ Server!Report(pings[s].op_id)
  /\ Answer(s, told'[pings[s].op_id]) \/ Answer(s, "error")
  /\ UNCHANGED <<created, post, pageVars, overlapped>>

\* "no such op_id.", or the server cannot be reached.
RefusePing(s) ==
  /\ IsAsked(s)
  /\ Answer(s, "error")
  /\ UNCHANGED <<serverVars, created, post, pageVars, overlapped>>

\* The timers after one has been told the end of its task.
MutantRemaining(timer) == timers
Remaining(timer) == timers \ {timer}

\* What is shown once a ping has got its answer; "the server is down" goes to
\* another part of the page.
MutantShownAfter(ping) == Text(ping.answer, ping.op_id)
ShownAfter(ping) ==
  CASE ping.answer = "error" -> shown
    [] ping.answer = "RUNNING" -> Text("Running", ping.op_id)
    [] OTHER -> Text(ping.answer, ping.op_id)

IsEnd(answer) == answer \in {"FINISHED", "CANCELED", "error"}

\* The promise of ping_task is resolved or rejected.
PingDone(s) ==
  LET ping == pings[s]
  IN /\ ping # Null
     /\ ping.answer # "none"
     /\ pings' = [pings EXCEPT ![s] = Null]
     /\ shown' = ShownAfter(ping)
     /\ \/ /\ IsEnd(ping.answer)
           /\ timers' = Remaining(ping.timer)
           /\ valid_op_id' = Null
           /\ enabled' = TRUE
        \/ /\ ~IsEnd(ping.answer)
           /\ UNCHANGED <<timers, valid_op_id, enabled>>
     /\ UNCHANGED <<serverVars, created, post, overlapped>>

\* The answer has a text with an apostrophe in it (the log repeats the formula):
\* it does not parse, and its promise is neither resolved nor rejected.
Unreadable(s) ==
  /\ pings[s] # Null
  /\ pings[s].answer \in {"RUNNING", "CANCELED", "FINISHED"}
  /\ pings' = [pings EXCEPT ![s] = Null]
  /\ UNCHANGED <<serverVars, created, post, pageVars, overlapped>>

\* The page is loaded again, what it waited for is given up.
Reload ==
  /\ post' = [t \in Task |-> IF post[t] = "none" THEN "none" ELSE "done"]
  /\ valid_op_id' = Null
  /\ timers' = {}
  /\ pings' = [s \in Slot |-> Null]
  /\ enabled' = TRUE
  /\ shown' = Text("Resting", 0)
  /\ overlapped' = FALSE
  /\ UNCHANGED <<serverVars, created>>

-----------------------------------------------------------------------------
\* A worker has a result; the server forgets tasks, all of them if it restarts.
ServerStep ==
  /\ \/ \E t \in Task : Server!Finish(t)
     \/ \E S \in SUBSET Task : Server!Forget(S)
  /\ UNCHANGED <<created, post, pageVars, pings, overlapped>>

PageStep ==
  \/ CreateTask
  \/ \E t \in Task : PostDone(t) \/ PostFailed(t) \/ Tick(t)
  \/ \E s \in Slot : PingDone(s) \/ Unreadable(s)
  \/ Reload

Next ==
  \/ PageStep
  \/ \E t \in Task : TakePost(t) \/ RefusePost(t)
  \/ \E s \in Slot : AnswerPing(s) \/ RefusePing(s)
  \/ ServerStep

Spec == Init /\ [][Next]_vars

(***************************************************************************)
(* Timers tick, pings and their answers arrive or fail.  A task that is    *)
(* asked about again and again is at some time not answered with RUNNING:  *)
(* the server has a time limit.  The ticks are strongly fair because the   *)
(* bound on the pings under way is not one of the page.                    *)
(***************************************************************************)
EndsTask(s) == AnswerPing(s) /\ pings'[s].answer # "RUNNING"

FairSpec ==
  /\ Spec
  /\ \A t \in Task : SF_vars(Tick(t)) /\ WF_vars(PostDone(t))
  /\ \A s \in Slot : /\ WF_vars(AnswerPing(s) \/ RefusePing(s))
                     /\ WF_vars(PingDone(s))
  /\ \A t \in Task : SF_vars(\E s \in Slot : IsAsked(s) /\ pings[s].op_id = t /\ EndsTask(s))

-----------------------------------------------------------------------------
(***************************************************************************)
(* The variables have their types.                                         *)
(***************************************************************************)
Ping == [timer : Task, op_id : Task \cup {Null},
         answer : {"none", "RUNNING", "CANCELED", "FINISHED", "error"}]

TypeOK ==
  /\ created \in 0..MaxTasks
  /\ post \in [Task -> {"none", "sent", "accepted", "refused", "done", "failed"}]
  /\ valid_op_id \in Task \cup {Null}
  /\ timers \subseteq Task
  /\ \A s \in Slot : pings[s] = Null \/ pings[s] \in Ping
  /\ enabled \in BOOLEAN
  /\ shown \in [text : {"Resting", "Running", "CANCELED", "FINISHED"}, task : 0..MaxTasks]
  /\ overlapped \in BOOLEAN

UnderWay(t) == t \in timers \/ post[t] \in {"sent", "accepted", "refused"}

(***************************************************************************)
(* As long as each ping is answered before the next one is sent, the       *)
(* buttons are open exactly while the page waits for no task, so that a    *)
(* second task cannot share valid_op_id with the first; but a POST that    *)
(* failed leaves them closed (index.html:144-151), although the page asks  *)
(* to try again.                                                           *)
(***************************************************************************)
ButtonsFollowTheTask ==
  ~overlapped =>
    (enabled <=> \A t \in Task : ~UnderWay(t) /\ post[t] # "failed")

(***************************************************************************)
(* Under the same condition a final answer on the page is about the task   *)
(* posted last, and is the last thing that the server said of it: none is  *)
(* left over from an earlier task, which may have ended in another way     *)
(* than the page was told.                                                 *)
(***************************************************************************)
ShownIsOfLastTask ==
  ~overlapped /\ shown.text \in {"FINISHED", "CANCELED"} =>
    shown.task = created /\ told[created] = shown.text

(***************************************************************************)
(* No timer asks for ever, also one that shares valid_op_id with another   *)
(* or has been robbed of it, whatever is lost and however pings overlap:   *)
(* a task that the server has taken does not leave the buttons closed.     *)
(***************************************************************************)
TimersEnd == \A t \in Task : t \in timers ~> t \notin timers
=============================================================================
