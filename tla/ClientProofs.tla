----------------------------- MODULE ClientProofs -----------------------------
(***************************************************************************)
(* The page keeps its buttons and its answer in step with the task, for    *)
(* every number of tasks and of pings under way, as long as each ping is   *)
(* answered before the next one is sent.                                   *)
(*                                                                         *)
(* The argument: then everything under way is about the task posted last.  *)
(* At most one ping is under way, it is of the timer of that task, and the *)
(* timer is still set; the buttons are closed until it ends.               *)
(***************************************************************************)
EXTENDS Client, TLAPS

USE ClientAssumption

-----------------------------------------------------------------------------
Statuses == {"unknown", "RUNNING", "CANCELED", "FINISHED", "forgotten"}
Answers == {"none", "RUNNING", "CANCELED", "FINISHED", "error"}

\* The types, those of the server included.
Typed ==
  /\ status \in [Task -> Statuses]
  /\ told \in [Task -> {"nothing", "RUNNING", "CANCELED", "FINISHED"}]
  /\ created \in 0..MaxTasks
  /\ post \in [Task -> {"none", "sent", "accepted", "refused", "done", "failed"}]
  /\ valid_op_id \in Task \cup {Null}
  /\ timers \subseteq Task
  /\ pings \in [Slot -> Ping \cup {Null}]
  /\ enabled \in BOOLEAN
  /\ shown \in [text : {"Resting", "Running", "CANCELED", "FINISHED"}, task : 0..MaxTasks]
  /\ overlapped \in BOOLEAN

\* The tasks are posted in the order of their numbers.
Posted ==
  /\ \A t \in Task : post[t] = "none" <=> t > created
  /\ \A t \in timers : post[t] = "done"

\* Only a ping with an op_id is answered by the server.
Answered ==
  \A s \in Slot : pings[s] # Null /\ pings[s].op_id = Null => pings[s].answer \in {"none", "error"}

\* What the page still waits for, or has closed its buttons for.
Pending == {t \in Task : UnderWay(t) \/ post[t] = "failed"}

\* Without overlapping pings all is about the last task.
LastOnly ==
  /\ enabled <=> Pending = {}
  /\ Pending \subseteq {created}
  /\ timers # {} => valid_op_id = created
  /\ \A s \in Slot : pings[s] # Null =>
       /\ pings[s].timer = created /\ pings[s].op_id = created
       /\ created \in timers
       /\ pings[s].answer \in {"CANCELED", "FINISHED"} => told[created] = pings[s].answer
       /\ \A s2 \in Slot : pings[s2] # Null => s2 = s
  /\ shown.text \in {"CANCELED", "FINISHED"} =>
       enabled /\ shown.task = created /\ told[created] = shown.text

IInv == Typed /\ Posted /\ Answered /\ (~overlapped => LastOnly)

-----------------------------------------------------------------------------
\* A ping that is under way is a record with all its fields.
LEMMA PingTypes ==
  ASSUME Typed, NEW s \in Slot, pings[s] # Null
  PROVE  pings[s] \in Ping
BY DEF Typed

LEMMA ServerTypes ==
  ASSUME Typed
  PROVE  /\ \A t \in Task : Server!Open(t) \/ Server!Finish(t) \/ Server!Cancel(t) =>
              status' \in [Task -> Statuses] /\ told' = told
         /\ \A S \in SUBSET Task : Server!Forget(S) =>
              status' \in [Task -> Statuses] /\ told' = told
         /\ \A t \in Task : Server!Report(t) =>
              /\ status' \in [Task -> Statuses]
              /\ told' \in [Task -> {"nothing", "RUNNING", "CANCELED", "FINISHED"}]
              /\ told'[t] \in {"RUNNING", "CANCELED", "FINISHED"}
              /\ \A u \in Task \ {t} : told'[u] = told[u]
<1>1. ASSUME NEW t \in Task, Server!Open(t) \/ Server!Finish(t) \/ Server!Cancel(t)
      PROVE  status' \in [Task -> Statuses] /\ told' = told
  BY <1>1 DEF Typed, Statuses, Server!Open, Server!Finish, Server!Cancel
<1>2. ASSUME NEW S \in SUBSET Task, Server!Forget(S)
      PROVE  status' \in [Task -> Statuses] /\ told' = told
  BY <1>2 DEF Typed, Statuses, Server!Forget
<1>3. ASSUME NEW t \in Task, Server!Report(t)
      PROVE  /\ status' \in [Task -> Statuses]
             /\ told' \in [Task -> {"nothing", "RUNNING", "CANCELED", "FINISHED"}]
             /\ told'[t] \in {"RUNNING", "CANCELED", "FINISHED"}
             /\ \A u \in Task \ {t} : told'[u] = told[u]
  <2>1. PICK a \in {"RUNNING", "CANCELED", "FINISHED"} :
          /\ told' = [told EXCEPT ![t] = a]
          /\ status' = [status EXCEPT ![t] = IF a = "RUNNING" THEN a ELSE "forgotten"]
    BY <1>3 DEF Server!Report, Server!Remembered
  <2> QED  BY <2>1 DEF Typed, Statuses
<1> QED  BY <1>1, <1>2, <1>3

LEMMA InvariantInit == Init => IInv
<1> SUFFICES ASSUME Init PROVE IInv  OBVIOUS
<1>1. Typed
  <2>1. /\ status \in [Task -> Statuses]
        /\ told \in [Task -> {"nothing", "RUNNING", "CANCELED", "FINISHED"}]
    BY DEF Init, Server!Init, Statuses
  <2>2. shown \in [text : {"Resting", "Running", "CANCELED", "FINISHED"}, task : 0..MaxTasks]
    BY DEF Init, Text
  <2>3. created \in 0..MaxTasks  BY DEF Init
  <2> QED  BY <2>1, <2>2, <2>3 DEF Init, Typed
<1>2. Posted  BY DEF Init, Posted, Task
<1>3. Pending = {}  BY DEF Init, Pending, UnderWay
<1>4. LastOnly  BY <1>3 DEF Init, LastOnly, Text
<1>5. Answered  BY DEF Init, Answered
<1> QED  BY <1>1, <1>2, <1>4, <1>5 DEF IInv

LEMMA StepOfCreate == ASSUME IInv, CreateTask PROVE IInv'
<1>0. Typed /\ Posted /\ Answered /\ (~overlapped => LastOnly)  BY DEF IInv
<1>1. /\ created' = created + 1 /\ created' \in Task
      /\ post' = [post EXCEPT ![created'] = "sent"]
      /\ enabled = TRUE /\ enabled' = FALSE /\ shown' = [text |-> "Running", task |-> created']
      /\ UNCHANGED <<serverVars, valid_op_id, timers, pings, overlapped>>
  BY <1>0 DEF CreateTask, WhileRunning, Text, Typed, Task
<1>2. Typed'
  <2>1. created' \in 0..MaxTasks  BY <1>1 DEF Task
  <2>2. shown' \in [text : {"Resting", "Running", "CANCELED", "FINISHED"}, task : 0..MaxTasks]
    BY <1>1, <2>1
  <2> QED  BY <1>0, <1>1, <2>1, <2>2 DEF Typed, serverVars
<1>3. Posted'
  <2>1. post[created'] = "none"  BY <1>0, <1>1 DEF Posted, Typed, Task
  <2>2. created' \notin timers  BY <1>0, <2>1 DEF Posted
  <2> QED  BY <1>0, <1>1, <2>2 DEF Posted, Typed, Task
<1>4. ASSUME ~overlapped' PROVE LastOnly'
  <2>1. LastOnly /\ Pending = {}  BY <1>0, <1>1, <1>4 DEF LastOnly
  <2>2. timers = {}  BY <2>1, <1>0 DEF Pending, UnderWay, Typed
  <2>3. Pending' = {created'}
    BY <1>0, <1>1, <2>1 DEF Pending, UnderWay, Typed
  <2>4. \A s \in Slot : pings[s] = Null  BY <2>1, <2>2 DEF LastOnly
  <2> QED  BY <1>1, <2>2, <2>3, <2>4 DEF LastOnly
<1>5. Answered'  BY <1>0, <1>1 DEF Answered
<1> QED  BY <1>2, <1>3, <1>4, <1>5 DEF IInv

\* The steps of a POST: only its state and, at its end, the timer change.
LEMMA StepOfPost ==
  ASSUME IInv, NEW t \in Task, TakePost(t) \/ RefusePost(t) \/ PostDone(t) \/ PostFailed(t)
  PROVE  IInv'
<1>0. Typed /\ Posted /\ Answered /\ (~overlapped => LastOnly)  BY DEF IInv
<1>1. PICK a \in {"accepted", "refused", "done", "failed"} :
        post' = [post EXCEPT ![t] = a] /\ (a = "done" <=> PostDone(t))
  BY <1>0 DEF TakePost, RefusePost, PostDone, PostFailed, Typed
<1>2. /\ UNCHANGED <<created, pings, enabled, shown, overlapped>>
      /\ told' = told /\ status' \in [Task -> Statuses]
      /\ post[t] \in {"sent", "accepted", "refused"}
  BY <1>0, ServerTypes
     DEF TakePost, RefusePost, PostDone, PostFailed, pageVars, serverVars, Typed
<1>3. \/ PostDone(t) /\ valid_op_id' = t /\ timers' = timers \cup {t}
      \/ ~PostDone(t) /\ valid_op_id' = valid_op_id /\ timers' = timers
  BY DEF TakePost, RefusePost, PostDone, PostFailed, pageVars
<1>4. Typed'  BY <1>0, <1>1, <1>2, <1>3 DEF Typed
<1>5. Posted'
  BY <1>0, <1>1, <1>2, <1>3 DEF Posted, Typed
<1>6. ASSUME ~overlapped' PROVE LastOnly'
  <2>1. LastOnly  BY <1>0, <1>2, <1>6
  <2>2. t \in Pending  BY <1>2 DEF Pending, UnderWay
  <2>3. t = created  BY <2>1, <2>2 DEF LastOnly
  <2>4. Pending' = Pending
    BY <1>0, <1>1, <1>3, <2>2 DEF Pending, UnderWay, Typed
  <2>5. timers' # {} => valid_op_id' = created
    BY <1>3, <2>1, <2>3 DEF LastOnly
  <2> QED  BY <1>2, <1>3, <2>1, <2>4, <2>5 DEF LastOnly
<1>7. Answered'  BY <1>0, <1>2 DEF Answered
<1> QED  BY <1>4, <1>5, <1>6, <1>7 DEF IInv

LEMMA StepOfTick == ASSUME IInv, NEW t \in Task, Tick(t) PROVE IInv'
<1>0. Typed /\ Posted /\ Answered /\ (~overlapped => LastOnly)  BY DEF IInv
<1>1. PICK s \in Slot :
        /\ pings[s] = Null
        /\ pings' = [pings EXCEPT ![s] = [timer |-> t, op_id |-> valid_op_id, answer |-> "none"]]
  BY DEF Tick
<1>2. /\ t \in timers
      /\ overlapped' = (overlapped \/ \E s2 \in Slot : pings[s2] # Null)
      /\ UNCHANGED <<serverVars, created, post, pageVars>>
  BY DEF Tick
<1>3. Typed'
  <2>1. [timer |-> t, op_id |-> valid_op_id, answer |-> "none"] \in Ping
    BY <1>0 DEF Typed, Ping
  <2> QED  BY <1>0, <1>1, <1>2, <2>1 DEF Typed, serverVars, pageVars
<1>4. Posted'  BY <1>0, <1>2 DEF Posted, pageVars
<1>5. ASSUME ~overlapped' PROVE LastOnly'
  <2>1. LastOnly /\ \A s2 \in Slot : pings[s2] = Null  BY <1>0, <1>2, <1>5
  <2>2. t \in Pending  BY <1>2 DEF Pending, UnderWay
  <2>3. t = created /\ valid_op_id = created  BY <1>2, <2>1, <2>2 DEF LastOnly
  <2>4. Pending' = Pending  BY <1>2 DEF Pending, UnderWay, pageVars
  <2>5. /\ pings'[s] = [timer |-> t, op_id |-> valid_op_id, answer |-> "none"]
        /\ \A s2 \in Slot \ {s} : pings'[s2] = Null
    BY <1>0, <1>1, <2>1 DEF Typed
  <2>6. /\ pings'[s].timer = created /\ pings'[s].op_id = created
        /\ pings'[s].answer = "none"
    BY <2>3, <2>5
  <2> QED  BY <1>2, <2>1, <2>3, <2>4, <2>5, <2>6 DEF LastOnly, pageVars, serverVars
<1>6. Answered'
  <2>1. /\ pings'[s].answer = "none"
        /\ \A s2 \in Slot \ {s} : pings'[s2] = pings[s2]
    BY <1>0, <1>1 DEF Typed
  <2> QED  BY <1>0, <2>1 DEF Answered
<1> QED  BY <1>3, <1>4, <1>5, <1>6 DEF IInv

\* A ping gets its answer.
LEMMA StepOfAnswer ==
  ASSUME IInv, NEW s \in Slot, AnswerPing(s) \/ RefusePing(s)
  PROVE  IInv'
<1>0. Typed /\ Posted /\ Answered /\ (~overlapped => LastOnly)  BY DEF IInv
<1>1. pings[s] \in Ping /\ pings[s] # Null /\ UNCHANGED <<created, post, pageVars, overlapped>>
  BY <1>0, PingTypes DEF AnswerPing, RefusePing, IsAsked
<1>2. CASE AnswerPing(s)
  <2> DEFINE t == pings[s].op_id
  <2>1. t \in Task /\ Server!Report(t)  BY <1>1, <1>2 DEF AnswerPing, Ping
  <2>2. /\ status' \in [Task -> Statuses]
        /\ told' \in [Task -> {"nothing", "RUNNING", "CANCELED", "FINISHED"}]
        /\ told'[t] \in {"RUNNING", "CANCELED", "FINISHED"}
        /\ \A u \in Task \ {t} : told'[u] = told[u]
    BY <1>0, <2>1, ServerTypes
  <2>3. PICK a \in {told'[t], "error"} : pings' = [pings EXCEPT ![s].answer = a]
    BY <1>2 DEF AnswerPing, Answer
  <2>4. pings'[s] = [pings[s] EXCEPT !.answer = a] /\ \A s2 \in Slot \ {s} : pings'[s2] = pings[s2]
    BY <1>0, <2>3 DEF Typed
  <2>5. /\ pings'[s] \in Ping /\ pings'[s].timer = pings[s].timer /\ pings'[s].op_id = t
        /\ pings'[s].answer = a
    BY <1>1, <2>2, <2>4 DEF Ping
  <2>6. Typed'
    <3>1. pings' \in [Slot -> Ping \cup {Null}]  BY <1>0, <2>3, <2>4, <2>5 DEF Typed
    <3> QED  BY <1>0, <1>1, <2>2, <3>1 DEF Typed, pageVars
  <2>7. Posted'  BY <1>0, <1>1 DEF Posted, pageVars
  <2>8. ASSUME ~overlapped' PROVE LastOnly'
    <3>1. LastOnly  BY <1>0, <1>1, <2>8
    <3>2. /\ pings[s].timer = created /\ t = created /\ created \in timers
          /\ \A s2 \in Slot : pings[s2] # Null => s2 = s
      BY <1>1, <3>1 DEF LastOnly
    <3>3. Pending' = Pending  BY <1>1 DEF Pending, UnderWay, pageVars
    <3>4. \A s2 \in Slot : pings'[s2] # Null => s2 = s  BY <2>4, <3>2
    <3>5. created \in Pending
      BY <1>0, <3>2 DEF Pending, UnderWay, Typed
    <3>6. ~enabled  BY <3>1, <3>5 DEF LastOnly
    <3>7. shown.text \notin {"CANCELED", "FINISHED"}  BY <3>1, <3>6 DEF LastOnly
    <3>8. a \in {"CANCELED", "FINISHED"} => told'[created] = a  BY <2>3, <3>2
    <3> HIDE DEF t
    <3>9. \A s2 \in Slot : pings'[s2] # Null =>
            /\ pings'[s2].timer = created /\ pings'[s2].op_id = created
            /\ created \in timers
            /\ pings'[s2].answer \in {"CANCELED", "FINISHED"} => told'[created] = pings'[s2].answer
            /\ \A s3 \in Slot : pings'[s3] # Null => s3 = s2
      BY <2>5, <3>2, <3>4, <3>8
    <3> QED  BY <1>1, <3>1, <3>3, <3>7, <3>9 DEF LastOnly, pageVars
  <2>9. Answered'
    <3>1. pings'[s].op_id # Null  BY <2>1, <2>5 DEF Task
    <3> QED  BY <1>0, <2>4, <3>1 DEF Answered
  <2> QED  BY <2>6, <2>7, <2>8, <2>9 DEF IInv
<1>3. CASE RefusePing(s)
  <2>1. UNCHANGED serverVars /\ pings' = [pings EXCEPT ![s].answer = "error"]
    BY <1>3 DEF RefusePing, Answer
  <2>2. /\ pings'[s] = [pings[s] EXCEPT !.answer = "error"]
        /\ \A s2 \in Slot \ {s} : pings'[s2] = pings[s2]
    BY <1>0, <2>1 DEF Typed
  <2>3. /\ pings'[s] \in Ping /\ pings'[s].timer = pings[s].timer
        /\ pings'[s].op_id = pings[s].op_id /\ pings'[s].answer = "error"
    BY <1>1, <2>2 DEF Ping
  <2>4. Typed'
    <3>1. pings' \in [Slot -> Ping \cup {Null}]  BY <1>0, <2>1, <2>2, <2>3 DEF Typed
    <3> QED  BY <1>0, <1>1, <2>1, <3>1 DEF Typed, pageVars, serverVars
  <2>5. Posted'  BY <1>0, <1>1 DEF Posted, pageVars
  <2>6. ASSUME ~overlapped' PROVE LastOnly'
    <3>1. LastOnly  BY <1>0, <1>1, <2>6
    <3>2. Pending' = Pending  BY <1>1 DEF Pending, UnderWay, pageVars
    <3>3. /\ pings[s].timer = created /\ pings[s].op_id = created /\ created \in timers
          /\ \A s2 \in Slot : pings[s2] # Null => s2 = s
      BY <1>1, <3>1 DEF LastOnly
    <3>4. \A s2 \in Slot : pings'[s2] # Null => s2 = s  BY <2>2, <3>3
    <3> QED  BY <1>1, <2>1, <2>3, <3>1, <3>2, <3>3, <3>4 DEF LastOnly, pageVars, serverVars
  <2>7. Answered'  BY <1>0, <2>2, <2>3 DEF Answered
  <2> QED  BY <2>4, <2>5, <2>6, <2>7 DEF IInv
<1> QED  BY <1>2, <1>3

\* The answer of a ping reaches the page, or does not parse.
LEMMA StepOfPingDone == ASSUME IInv, NEW s \in Slot, PingDone(s) PROVE IInv'
<1> DEFINE ping == pings[s]
<1>0. Typed /\ Posted /\ Answered /\ (~overlapped => LastOnly)  BY DEF IInv
<1>1. /\ ping # Null /\ ping \in Ping /\ ping.answer # "none"
      /\ pings' = [pings EXCEPT ![s] = Null]
      /\ shown' = ShownAfter(ping)
      /\ UNCHANGED <<serverVars, created, post, overlapped>>
  BY <1>0, PingTypes DEF PingDone
<1>2. \/ /\ IsEnd(ping.answer) /\ timers' = timers \ {ping.timer}
         /\ valid_op_id' = Null /\ enabled' = TRUE
      \/ /\ ping.answer = "RUNNING"
         /\ UNCHANGED <<timers, valid_op_id, enabled>>
  BY <1>1 DEF PingDone, Remaining, IsEnd, Ping
<1>3. pings'[s] = Null /\ \A s2 \in Slot \ {s} : pings'[s2] = pings[s2]
  BY <1>0, <1>1 DEF Typed
<1>4. \/ shown' = shown /\ ping.answer = "error"
      \/ shown' = [text |-> "Running", task |-> ping.op_id] /\ ping.answer = "RUNNING"
      \/ /\ shown' = [text |-> ping.answer, task |-> ping.op_id]
         /\ ping.answer \in {"CANCELED", "FINISHED"}
  BY <1>1 DEF ShownAfter, Text, Ping
<1> HIDE DEF ping
<1>5. ASSUME ~overlapped PROVE LastOnly'
  <2>1. LastOnly  BY <1>0, <1>5
  <2>2. /\ ping.timer = created /\ ping.op_id = created /\ created \in timers
        /\ ping.answer \in {"CANCELED", "FINISHED"} => told[created] = ping.answer
        /\ \A s2 \in Slot : pings[s2] # Null => s2 = s
    BY <1>1, <2>1 DEF LastOnly, ping
  <2>3. \A s2 \in Slot : pings'[s2] = Null  BY <1>3, <2>2
  <2>4. /\ created \in Pending /\ Pending = {created} /\ ~enabled
    BY <1>0, <2>1, <2>2 DEF LastOnly, Pending, UnderWay, Typed
  <2>5. timers = {created}
    <3>1. timers \subseteq Pending  BY <1>0 DEF Pending, UnderWay, Typed
    <3> QED  BY <2>2, <2>4, <3>1
  <2>6. CASE IsEnd(ping.answer)
    <3>1. timers' = {} /\ enabled' = TRUE  BY <1>2, <2>2, <2>5, <2>6 DEF IsEnd
    <3>2. post[created] = "done"  BY <1>0, <2>2 DEF Posted
    <3>3. Pending' = {}
      <4>1. Pending' \subseteq Pending  BY <1>1, <2>5, <3>1 DEF Pending, UnderWay
      <4>2. created \notin Pending'  BY <1>1, <3>1, <3>2 DEF Pending, UnderWay
      <4> QED  BY <2>4, <4>1, <4>2
    <3>4. shown'.text \in {"CANCELED", "FINISHED"} =>
            shown'.task = created /\ told[created] = shown'.text
      BY <1>4, <2>1, <2>2, <2>4 DEF LastOnly
    <3> QED  BY <1>1, <2>3, <3>1, <3>3, <3>4 DEF LastOnly, serverVars
  <2>7. CASE ~IsEnd(ping.answer)
    <3>1. ping.answer = "RUNNING" /\ UNCHANGED <<timers, valid_op_id, enabled>>
      BY <1>2, <2>7
    <3>2. shown'.text = "Running"  BY <1>4, <3>1
    <3>3. Pending' = Pending  BY <1>1, <3>1 DEF Pending, UnderWay
    <3> QED  BY <1>1, <2>1, <2>3, <3>1, <3>2, <3>3 DEF LastOnly, serverVars
  <2> QED  BY <2>6, <2>7
<1>6. Typed'
  <2>1. shown' \in [text : {"Resting", "Running", "CANCELED", "FINISHED"}, task : 0..MaxTasks]
    <3>1. ping.answer # "error" => ping.op_id \in 0..MaxTasks
      BY <1>0, <1>1 DEF Ping, Task, Answered, ping
    <3> QED  BY <1>0, <1>4, <3>1 DEF Typed
  <2> QED  BY <1>0, <1>1, <1>2, <2>1 DEF Typed, serverVars
<1>7. Posted'
  BY <1>0, <1>1, <1>2 DEF Posted
<1>8. Answered'  BY <1>0, <1>3 DEF Answered
<1> QED  BY <1>1, <1>5, <1>6, <1>7, <1>8 DEF IInv

LEMMA StepOfUnreadable == ASSUME IInv, NEW s \in Slot, Unreadable(s) PROVE IInv'
<1>0. Typed /\ Posted /\ Answered /\ (~overlapped => LastOnly)  BY DEF IInv
<1>1. /\ pings' = [pings EXCEPT ![s] = Null]
      /\ UNCHANGED <<serverVars, created, post, pageVars, overlapped>>
  BY DEF Unreadable
<1>2. pings'[s] = Null /\ \A s2 \in Slot \ {s} : pings'[s2] = pings[s2]
  BY <1>0, <1>1 DEF Typed
<1>3. Typed' /\ Posted'
  BY <1>0, <1>1 DEF Typed, Posted, serverVars, pageVars
<1>4. ASSUME ~overlapped' PROVE LastOnly'
  <2>1. LastOnly  BY <1>0, <1>1, <1>4
  <2>2. Pending' = Pending  BY <1>1 DEF Pending, UnderWay, pageVars
  <2>3. \A s2 \in Slot : pings'[s2] # Null => pings[s2] = pings'[s2]  BY <1>2
  <2> QED  BY <1>1, <2>1, <2>2, <2>3 DEF LastOnly, serverVars, pageVars
<1>5. Answered'  BY <1>0, <1>2 DEF Answered
<1> QED  BY <1>3, <1>4, <1>5 DEF IInv

LEMMA StepOfReload == ASSUME IInv, Reload PROVE IInv'
<1>0. Typed /\ Posted /\ Answered  BY DEF IInv
<1>1. /\ post' = [t \in Task |-> IF post[t] = "none" THEN "none" ELSE "done"]
      /\ valid_op_id' = Null /\ timers' = {} /\ enabled' = TRUE /\ overlapped' = FALSE
      /\ pings' = [s \in Slot |-> Null]
      /\ shown' = [text |-> "Resting", task |-> 0]
      /\ UNCHANGED <<serverVars, created>>
  BY DEF Reload, Text
<1>2. Typed'
  <2>1. 0 \in 0..MaxTasks  OBVIOUS
  <2> QED  BY <1>0, <1>1, <2>1 DEF Typed, serverVars
<1>3. Posted'  BY <1>0, <1>1 DEF Posted
<1>4. Pending' = {}  BY <1>1 DEF Pending, UnderWay
<1>5. LastOnly'  BY <1>1, <1>4 DEF LastOnly
<1>6. Answered'  BY <1>1 DEF Answered
<1> QED  BY <1>2, <1>3, <1>5, <1>6 DEF IInv

LEMMA StepOfServer == ASSUME IInv, ServerStep \/ UNCHANGED vars PROVE IInv'
<1>0. Typed /\ Posted /\ Answered /\ (~overlapped => LastOnly)  BY DEF IInv
<1>1. /\ status' \in [Task -> Statuses] /\ told' = told
      /\ UNCHANGED <<created, post, pageVars, pings, overlapped>>
  BY <1>0, ServerTypes DEF ServerStep, vars, serverVars, Typed
<1>2. Typed' /\ Posted'  BY <1>0, <1>1 DEF Typed, Posted, pageVars
<1>3. Pending' = Pending  BY <1>1 DEF Pending, UnderWay, pageVars
<1>4. ASSUME ~overlapped' PROVE LastOnly'
  BY <1>0, <1>1, <1>3, <1>4 DEF LastOnly, pageVars
<1>5. Answered'  BY <1>0, <1>1 DEF Answered
<1> QED  BY <1>2, <1>4, <1>5 DEF IInv

LEMMA Invariant == Spec => []IInv
<1>1. IInv /\ [Next]_vars => IInv'
  BY StepOfCreate, StepOfPost, StepOfTick, StepOfAnswer, StepOfPingDone, StepOfUnreadable,
     StepOfReload, StepOfServer DEF Next, PageStep
<1> QED  BY <1>1, InvariantInit, PTL DEF Spec

(***************************************************************************)
(* Every variable keeps its type, whatever is lost and overtaken.          *)
(***************************************************************************)
THEOREM TypeCorrect == Spec => []TypeOK
<1>1. IInv => TypeOK  BY DEF IInv, Typed, TypeOK
<1> QED  BY <1>1, Invariant, PTL

(***************************************************************************)
(* Without overlapping pings the buttons are open exactly while the page   *)
(* waits for no task and no POST has failed, so that no two timers share   *)
(* valid_op_id.                                                            *)
(***************************************************************************)
THEOREM ButtonsCorrect == Spec => []ButtonsFollowTheTask
<1>1. IInv => ButtonsFollowTheTask
  BY DEF IInv, LastOnly, Pending, ButtonsFollowTheTask
<1> QED  BY <1>1, Invariant, PTL

(***************************************************************************)
(* Without overlapping pings a final answer on the page is about the task  *)
(* posted last and the last one the server gave for it.                    *)
(***************************************************************************)
THEOREM ShownCorrect == Spec => []ShownIsOfLastTask
<1>1. IInv => ShownIsOfLastTask
  BY DEF IInv, LastOnly, ShownIsOfLastTask
<1> QED  BY <1>1, Invariant, PTL
===============================================================================
