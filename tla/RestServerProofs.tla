--------------------------- MODULE RestServerProofs ---------------------------
(***************************************************************************)
(* The task service keeps its promises for every number of requests and    *)
(* identifiers, every limit and every length of the logs.                  *)
(*                                                                         *)
(* First the types and the counter, which are inductive together: the      *)
(* counter stays a natural number because it is the number of the lambdas  *)
(* that hold a slot.  Then, for identifiers that never repeat, who owns    *)
(* which entry of the table, and from it what the clients are told.  Last  *)
(* the refinement of TaskLifecycle.                                        *)
(***************************************************************************)
EXTENDS RestServer, FiniteSetTheorems, SequenceTheorems, TLAPS

USE ServerAssumption

-----------------------------------------------------------------------------
(* The table of tasks.                                                     *)

IsTable(T) == \E ids \in SUBSET OpId : T \in [ids -> TaskInfo]

LEMMA TableIsFunction ==
  ASSUME NEW T, IsTable(T)
  PROVE  /\ DOMAIN T \subseteq OpId
         /\ T \in [DOMAIN T -> TaskInfo]
         /\ \A id \in DOMAIN T : T[id] \in TaskInfo
BY DEF IsTable

LEMMA TableWithEntry ==
  ASSUME NEW T, IsTable(T), NEW id \in DOMAIN T, NEW entry \in TaskInfo
  PROVE  /\ IsTable([T EXCEPT ![id] = entry])
         /\ DOMAIN [T EXCEPT ![id] = entry] = DOMAIN T
         /\ [T EXCEPT ![id] = entry][id] = entry
         /\ \A i \in DOMAIN T \ {id} : [T EXCEPT ![id] = entry][i] = T[i]
BY DEF IsTable

LEMMA TableWithout ==
  ASSUME NEW T, IsTable(T), NEW ids
  PROVE  IsTable([id \in DOMAIN T \ ids |-> T[id]])
BY DEF IsTable

\* What the handlers and the worker do to an entry leaves it an entry.
LEMMA EntryTypes ==
  ASSUME NEW entry \in TaskInfo
  PROVE  /\ Terminated(entry) \in TaskInfo
         /\ Canceled(entry) \in TaskInfo
         /\ Pinged(entry) \in TaskInfo
         /\ Deactivated(entry) \in TaskInfo
         /\ [entry EXCEPT !.late = TRUE] \in TaskInfo
         /\ \A r \in Request : Finished(entry, r) \in TaskInfo
<1>1. Terminated(entry) \in TaskInfo  BY DEF TaskInfo, Status, Terminated
<1>2. Canceled(entry) \in TaskInfo  BY DEF TaskInfo, Status, Canceled
<1>3. Pinged(entry) \in TaskInfo
  <2>1. <<>> \in Seq(1..MaxLog)  OBVIOUS
  <2> QED  BY <2>1 DEF TaskInfo, Status, Pinged
<1>4. Deactivated(entry) \in TaskInfo  BY DEF TaskInfo, Deactivated
<1>5. [entry EXCEPT !.late = TRUE] \in TaskInfo  BY DEF TaskInfo
<1>6. \A r \in Request : Finished(entry, r) \in TaskInfo
  BY DEF TaskInfo, Status, Finished
<1> QED  BY <1>1, <1>2, <1>3, <1>4, <1>5, <1>6

LEMMA EntryWithOutput ==
  ASSUME NEW entry \in TaskInfo, NEW lines \in Seq(1..MaxLog)
  PROVE  [entry EXCEPT !.output = @ \o lines] \in TaskInfo
<1>1. entry.output \o lines \in Seq(1..MaxLog)  BY DEF TaskInfo
<1> QED  BY <1>1 DEF TaskInfo

-----------------------------------------------------------------------------
(* The types.                                                              *)

\* The types without the counter.
Typed ==
  /\ handler \in [Request -> {"new", "refused", "admitted", "registered", "rejected",
                              "accepted"}]
  /\ op_id \in [Request -> OpId \cup {None}]
  /\ worker \in [Request -> {"none", "scheduled", "skipped", "lost", "undecoded", "running",
                             "terminated", "leaving", "failing", "ended", "failed"}]
  /\ canceled \in [Request -> BOOLEAN]
  /\ is_task_info_removed \in [Request -> BOOLEAN]
  /\ info_output \in [Request -> Seq(1..MaxLog)]
  /\ logged \in [Request -> 0..MaxLog]
  /\ IsTable(op_id_to_task_info)
  /\ answer \in [Request -> [status : Status \cup {"nothing"}, result : Request \cup {None}]]
  /\ delivered \in [Request -> Seq(1..MaxLog)]
  /\ cancel_true \in [Request -> BOOLEAN]

LEMMA TypeOKIsTyped == TypeOK <=> Typed /\ running_tasks \in Nat
BY DEF TypeOK, Typed, IsTable

LEMMA TypedInit == Init => Typed
<1> SUFFICES ASSUME Init PROVE Typed  OBVIOUS
<1>1. << >> \in [{} -> TaskInfo]  OBVIOUS
<1>2. IsTable(op_id_to_task_info)  BY <1>1 DEF Init, IsTable
<1> QED  BY <1>2 DEF Init, Typed, Status

LEMMA TypedHandler ==
  ASSUME Typed, NEW r \in Request, HandleTask(r)
  PROVE  Typed'
<1>1. CASE CheckLimit(r)
  BY <1>1 DEF CheckLimit, Typed, workerVars, clientVars
<1>2. CASE Register(r)
  <2>1. PICK id \in OpId :
          /\ op_id' = [op_id EXCEPT ![r] = id]
          /\ op_id_to_task_info' = [i \in DOMAIN op_id_to_task_info \cup {id} |->
               IF i = id THEN NewTaskInfo(r) ELSE op_id_to_task_info[i]]
    BY <1>2 DEF Register, Unused
  <2>2. IsTable(op_id_to_task_info')
    <3>1. NewTaskInfo(r) \in TaskInfo
      BY DEF NewTaskInfo, TaskInfo, Status
    <3>2. \A i \in DOMAIN op_id_to_task_info : op_id_to_task_info[i] \in TaskInfo
      BY TableIsFunction DEF Typed
    <3>3. DOMAIN op_id_to_task_info \cup {id} \in SUBSET OpId
      BY TableIsFunction DEF Typed
    <3>4. op_id_to_task_info' \in [DOMAIN op_id_to_task_info \cup {id} -> TaskInfo]
      BY <2>1, <3>1, <3>2
    <3> QED  BY <3>3, <3>4 DEF IsTable
  <2>3. op_id' \in [Request -> OpId \cup {None}]  BY <2>1 DEF Typed
  <2>4. handler' = [handler EXCEPT ![r] = "registered"]  BY <1>2 DEF Register
  <2> QED  BY <1>2, <2>2, <2>3, <2>4 DEF Register, Typed, workerVars, clientVars
<1>3. CASE Reject(r)
  BY <1>3 DEF Reject, Typed, workerVars, clientVars
<1>4. CASE Accept(r)
  BY <1>4 DEF Accept, Typed, workerVars, clientVars
<1> QED  BY <1>1, <1>2, <1>3, <1>4 DEF HandleTask

\* The streaming of accumulated lines.
LEMMA TypedStream ==
  ASSUME Typed, NEW r \in Request, NEW lines \in Seq(1..MaxLog), NEW due \in BOOLEAN,
         Stream(r, lines, due)
  PROVE  /\ IsTable(op_id_to_task_info')
         /\ info_output' \in [Request -> Seq(1..MaxLog)]
         /\ is_task_info_removed' \in [Request -> BOOLEAN]
<1>1. is_task_info_removed' \in [Request -> BOOLEAN]
  <2>1. is_task_info_removed' = [is_task_info_removed EXCEPT ![r] =
           is_task_info_removed[r] \/ (due /\ ~InTable(op_id[r]))]
    BY DEF Stream
  <2>2. (is_task_info_removed[r] \/ (due /\ ~InTable(op_id[r]))) \in BOOLEAN
    OBVIOUS
  <2> QED  BY <2>1, <2>2 DEF Typed
<1>2. info_output' \in [Request -> Seq(1..MaxLog)]
  <2>1. <<>> \in Seq(1..MaxLog)  OBVIOUS
  <2> QED  BY <2>1 DEF Stream, Typed
<1>3. IsTable(op_id_to_task_info')
  <2>1. CASE op_id_to_task_info' = op_id_to_task_info
    BY <2>1 DEF Typed
  <2>2. CASE /\ InTable(op_id[r])
             /\ op_id_to_task_info' = Put(op_id[r], [Entry(r) EXCEPT !.output = @ \o lines])
    <3>1. Entry(r) \in TaskInfo
      BY <2>2, TableIsFunction DEF Typed, InTable, Entry
    <3>2. [Entry(r) EXCEPT !.output = @ \o lines] \in TaskInfo
      BY <3>1, EntryWithOutput
    <3> QED  BY <2>2, <3>2, TableWithEntry DEF Typed, InTable, Put
  <2> QED  BY <2>1, <2>2 DEF Stream
<1> QED  BY <1>1, <1>2, <1>3

LEMMA TypedConclude ==
  ASSUME Typed, NEW r \in Request, NEW entry,
         InTable(op_id[r]) => entry \in TaskInfo,
         Conclude(r, entry)
  PROVE  /\ IsTable(op_id_to_task_info')
         /\ info_output' \in [Request -> Seq(1..MaxLog)]
<1>1. info_output' \in [Request -> Seq(1..MaxLog)]
  <2>1. <<>> \in Seq(1..MaxLog)  OBVIOUS
  <2> QED  BY <2>1 DEF Conclude, Typed
<1>2. CASE ~InTable(op_id[r])
  BY <1>1, <1>2 DEF Conclude, Typed
<1>3. CASE InTable(op_id[r])
  <2>1. [entry EXCEPT !.output = @ \o info_output[r]] \in TaskInfo
    BY <1>3, EntryWithOutput DEF Typed
  <2> QED  BY <1>1, <1>3, <2>1, TableWithEntry DEF Conclude, Typed, InTable, Put
<1> QED  BY <1>2, <1>3

LEMMA TypedWorker ==
  ASSUME Typed, NEW r \in Request, RunTask(r)
  PROVE  Typed'
<1>0. /\ InTable(op_id[r]) => Entry(r) \in TaskInfo
      /\ info_output[r] \in Seq(1..MaxLog)
  BY TableIsFunction DEF Typed, InTable, Entry
<1>1. CASE SkipWorker(r)
  BY <1>1 DEF SkipWorker, Typed, clientVars
<1>2. CASE StartWorker(r)
  <2>1. PICK w \in {"running", "undecoded"} : worker' = [worker EXCEPT ![r] = w]
    BY <1>2 DEF StartWorker
  <2> QED  BY <1>2, <2>1 DEF StartWorker, Typed, clientVars
<1>3. CASE Log(r)
  <2>1. logged[r] + 1 \in 1..MaxLog  BY <1>3 DEF Log, Typed
  <2>2. Append(info_output[r], logged[r] + 1) \in Seq(1..MaxLog)  BY <1>0, <2>1
  <2>3. PICK due \in BOOLEAN : Stream(r, Append(info_output[r], logged[r] + 1), due)
    BY <1>3 DEF Log
  <2>4. logged' \in [Request -> 0..MaxLog]  BY <1>3, <2>1 DEF Log, Typed
  <2>5. /\ IsTable(op_id_to_task_info')
        /\ info_output' \in [Request -> Seq(1..MaxLog)]
        /\ is_task_info_removed' \in [Request -> BOOLEAN]
    BY <2>2, <2>3, TypedStream
  <2>6. UNCHANGED <<handler, op_id, worker, canceled, clientVars>>
    BY <1>3 DEF Log
  <2> QED  BY <2>4, <2>5, <2>6 DEF Typed, clientVars
<1>4. CASE \E due \in BOOLEAN : Poll(r, due)
  <2>1. PICK due \in BOOLEAN : Poll(r, due)  BY <1>4
  <2>2. worker' = [worker EXCEPT ![r] = "terminated"] \/ worker' = worker
    BY <2>1 DEF Poll, Typed
  <2>3. Stream(r, info_output[r], due)  BY <2>1 DEF Poll
  <2> QED  BY <1>0, <2>1, <2>2, <2>3, TypedStream DEF Poll, Typed, clientVars
<1>5. CASE PublishResult(r)
  <2>1. InTable(op_id[r]) => Finished(Entry(r), r) \in TaskInfo
    BY <1>0, EntryTypes
  <2>2. Conclude(r, Finished(Entry(r), r))  BY <1>5 DEF PublishResult
  <2> QED  BY <1>5, <2>1, <2>2, TypedConclude DEF PublishResult, Typed, clientVars
<1>6. CASE ReportTermination(r)
  <2>1. InTable(op_id[r]) => Terminated(Entry(r)) \in TaskInfo
    BY <1>0, EntryTypes
  <2>2. Conclude(r, Terminated(Entry(r)))  BY <1>6 DEF ReportTermination
  <2> QED  BY <1>6, <2>1, <2>2, TypedConclude DEF ReportTermination, Typed, clientVars
<1>7. CASE Fail(r)
  BY <1>7 DEF Fail, Typed, clientVars
<1>8. CASE Leave(r)
  <2>1. PICK w \in {"ended", "failed"} : worker' = [worker EXCEPT ![r] = w]
    BY <1>8 DEF Leave
  <2> QED  BY <1>8, <2>1 DEF Leave, Typed, clientVars
<1> QED  BY <1>1, <1>2, <1>3, <1>4, <1>5, <1>6, <1>7, <1>8 DEF RunTask

LEMMA TypedCancel ==
  ASSUME Typed, NEW r \in Request, Cancel(r)
  PROVE  Typed'
<1>1. Entry(r) \in TaskInfo
  BY TableIsFunction DEF Cancel, Typed, InTable, Entry
<1>2. IsTable(op_id_to_task_info')
  BY <1>1, EntryTypes, TableWithEntry DEF Cancel, Typed, InTable, Put
<1> QED  BY <1>2 DEF Cancel, Typed

LEMMA TypedPing ==
  ASSUME Typed, NEW r \in Request, Ping(r)
  PROVE  Typed'
<1>1. Entry(r) \in TaskInfo
  BY TableIsFunction DEF Ping, Typed, InTable, Entry
<1>2. Pinged(Entry(r)) \in TaskInfo
  BY <1>1, EntryTypes
<1>3. IsTable(op_id_to_task_info')
  <2>1. IsTable(Put(op_id[r], Pinged(Entry(r))))
    BY <1>2, TableWithEntry DEF Ping, Typed, InTable, Put
  <2>2. IsTable(Without({op_id[r]}))  BY TableWithout DEF Typed, Without
  <2> QED  BY <2>1, <2>2 DEF Ping
<1>4. [status |-> Pinged(Entry(r)).status, result |-> Pinged(Entry(r)).result]
         \in [status : Status \cup {"nothing"}, result : Request \cup {None}]
  BY <1>2 DEF TaskInfo
<1>5. delivered[r] \o Entry(r).output \in Seq(1..MaxLog)
  BY <1>1 DEF TaskInfo, Typed
<1>6. answer' \in [Request -> [status : Status \cup {"nothing"}, result : Request \cup {None}]]
  BY <1>4 DEF Ping, Typed
<1>7. delivered' \in [Request -> Seq(1..MaxLog)]
  BY <1>5 DEF Ping, Typed
<1> QED  BY <1>3, <1>6, <1>7 DEF Ping, Typed, workerVars

LEMMA TypedLimit ==
  ASSUME Typed, NEW id \in OpId, LimitPasses(id)
  PROVE  Typed'
<1>1. [op_id_to_task_info[id] EXCEPT !.late = TRUE] \in TaskInfo
  BY TableIsFunction, EntryTypes DEF LimitPasses, InTable, Typed
<1>2. op_id_to_task_info' =
        [op_id_to_task_info EXCEPT ![id] = [op_id_to_task_info[id] EXCEPT !.late = TRUE]]
  BY DEF LimitPasses
<1>3. IsTable(op_id_to_task_info')
  <2>1. IsTable([op_id_to_task_info EXCEPT ![id] =
                   [op_id_to_task_info[id] EXCEPT !.late = TRUE]])
    BY <1>1, TableWithEntry DEF LimitPasses, InTable, Typed
  <2> QED  BY <1>2, <2>1
<1> QED  BY <1>3 DEF LimitPasses, Typed, workerVars, clientVars

LEMMA TypedSweep ==
  ASSUME Typed, Sweep
  PROVE  Typed'
<1> DEFINE inactive == {id \in DOMAIN op_id_to_task_info : ~op_id_to_task_info[id].is_active}
           kept == Without(inactive)
<1>1. op_id_to_task_info' = [id \in DOMAIN kept |-> Deactivated(kept[id])]
  BY DEF Sweep
<1>2. IsTable(kept)  BY TableWithout DEF Typed, Without
<1>3. \A id \in DOMAIN kept : Deactivated(kept[id]) \in TaskInfo
  BY <1>2, TableIsFunction, EntryTypes
<1>4. IsTable(op_id_to_task_info')
  BY <1>1, <1>2, <1>3, TableIsFunction DEF IsTable
<1> QED  BY <1>4 DEF Sweep, Typed, workerVars, clientVars

LEMMA TypedStep == Typed /\ [Next]_vars => Typed'
<1> SUFFICES ASSUME Typed, [Next]_vars PROVE Typed'  OBVIOUS
<1>1. CASE \E r \in Request : HandleTask(r) \/ RunTask(r) \/ Ping(r) \/ Cancel(r)
  BY <1>1, TypedHandler, TypedWorker, TypedPing, TypedCancel
<1>2. CASE \E id \in OpId : LimitPasses(id)  BY <1>2, TypedLimit
<1>3. CASE Sweep  BY <1>3, TypedSweep
<1>4. CASE UNCHANGED vars  BY <1>4 DEF vars, workerVars, clientVars, Typed
<1> QED  BY <1>1, <1>2, <1>3, <1>4 DEF Next

-----------------------------------------------------------------------------
(* The counter of the running tasks.                                       *)

\* The lambdas that have raised the counter and not lowered it.
Slots == {r \in Request : worker[r] \in {"running", "terminated", "leaving", "failing",
                                         "undecoded"}}

LEMMA SlotsOfCount ==
  /\ Slots = Running \cup {r \in Request : worker[r] = "undecoded"}
  /\ IsFiniteSet(Slots)
<1>1. Slots = Running \cup {r \in Request : worker[r] = "undecoded"}
  BY DEF Slots, Running
<1>2. IsFiniteSet(Slots)
  BY FS_Subset DEF Slots
<1> QED  BY <1>1, <1>2

Counted == running_tasks = Cardinality(Slots)

\* Only an accepted request has a lambda, and no lambda starts twice.
Posted == \A r \in Request : worker[r] # "none" => handler[r] = "accepted"

LEMMA PostedStep == Typed /\ Posted /\ [Next]_vars => Posted'
<1> SUFFICES ASSUME Typed, Posted, [Next]_vars PROVE Posted'  OBVIOUS
<1>1. ASSUME NEW r \in Request, HandleTask(r) PROVE Posted'
  BY <1>1 DEF Typed, Posted, HandleTask, CheckLimit, Register, Reject, Accept, workerVars
<1>2. ASSUME NEW r \in Request, RunTask(r) PROVE Posted'
  <2>1. worker[r] # "none" /\ handler' = handler
    BY <1>2 DEF RunTask, SkipWorker, StartWorker, Log, Poll, PublishResult,
                ReportTermination, Fail, Leave
  <2>2. \A s \in Request \ {r} : worker'[s] = worker[s]
    BY <1>2 DEF Typed, RunTask, SkipWorker, StartWorker, Log, Poll, PublishResult,
                ReportTermination, Fail, Leave
  <2> QED  BY <2>1, <2>2 DEF Posted
<1>3. ASSUME \/ \E r \in Request : Ping(r) \/ Cancel(r)
             \/ \E id \in OpId : LimitPasses(id)
             \/ Sweep \/ UNCHANGED vars
      PROVE  Posted'
  BY <1>3 DEF Ping, Cancel, LimitPasses, Sweep, vars, workerVars, Posted
<1> QED  BY <1>1, <1>2, <1>3 DEF Next

LEMMA CountedInit == Init => Posted /\ Counted
<1> SUFFICES ASSUME Init PROVE Posted /\ Counted  OBVIOUS
<1>1. Slots = {}  BY DEF Init, Slots
<1> QED  BY <1>1, FS_EmptySet DEF Init, Posted, Counted

\* ++running_tasks and --running_tasks go with a lambda each.
LEMMA CountedStep == Typed /\ Posted /\ Counted /\ [Next]_vars => Counted'
<1> SUFFICES ASSUME Typed, Posted, Counted, [Next]_vars PROVE Counted'  OBVIOUS
<1>0. IsFiniteSet(Slots)  BY SlotsOfCount
<1>1. CASE running_tasks' = running_tasks /\ Slots' = Slots
  BY <1>1 DEF Counted
<1>2. ASSUME NEW r \in Request, HandleTask(r) \/ Ping(r) \/ Cancel(r) PROVE Counted'
  <2>1. running_tasks' = running_tasks /\ Slots' = Slots
    <3>1. CASE Accept(r)  BY <3>1 DEF Typed, Posted, Accept, Slots
    <3>2. CASE CheckLimit(r) \/ Register(r) \/ Reject(r)
      BY <3>2 DEF CheckLimit, Register, Reject, workerVars, Slots
    <3>3. CASE Ping(r) \/ Cancel(r)  BY <3>3 DEF Ping, Cancel, workerVars, Slots
    <3> QED  BY <1>2, <3>1, <3>2, <3>3 DEF HandleTask
  <2> QED  BY <2>1, <1>1
<1>3. ASSUME NEW r \in Request, StartWorker(r) PROVE Counted'
  <2>1. r \notin Slots  BY <1>3 DEF StartWorker, Slots
  <2>2. Slots' = Slots \cup {r}  BY <1>3 DEF StartWorker, Slots, Typed
  <2>3. Cardinality(Slots') = Cardinality(Slots) + 1
    BY <1>0, <2>1, <2>2, FS_AddElement
  <2> QED  BY <1>3, <2>3 DEF StartWorker, Counted
<1>4. ASSUME NEW r \in Request, Leave(r) PROVE Counted'
  <2>1. r \in Slots  BY <1>4 DEF Leave, Slots
  <2>2. Slots' = Slots \ {r}  BY <1>4 DEF Leave, Slots, Typed
  <2>3. Cardinality(Slots') = Cardinality(Slots) - 1
    BY <1>0, <2>1, <2>2, FS_RemoveElement
  <2> QED  BY <1>4, <2>3 DEF Leave, Released, Counted
<1>5. ASSUME NEW r \in Request,
             \/ SkipWorker(r) \/ Log(r) \/ \E due \in BOOLEAN : Poll(r, due)
             \/ PublishResult(r) \/ ReportTermination(r) \/ Fail(r)
      PROVE  Counted'
  <2>1. running_tasks' = running_tasks /\ Slots' = Slots
    BY <1>5 DEF Typed, SkipWorker, Log, Poll, PublishResult, ReportTermination, Fail, Slots
  <2> QED  BY <2>1, <1>1
<1>6. ASSUME Sweep \/ (\E id \in OpId : LimitPasses(id)) \/ UNCHANGED vars PROVE Counted'
  <2>1. running_tasks' = running_tasks /\ Slots' = Slots
    BY <1>6 DEF Sweep, LimitPasses, vars, workerVars, Slots
  <2> QED  BY <2>1, <1>1
<1> QED  BY <1>2, <1>3, <1>4, <1>5, <1>6 DEF Next, RunTask

LEMMA CountedIsNatural == Counted => running_tasks \in Nat
BY SlotsOfCount, FS_CardinalityType DEF Counted

(***************************************************************************)
(* Every variable keeps its type, in particular the counter of the running *)
(* tasks never drops below zero, however the lambdas interleave, also if   *)
(* identifiers repeat.                                                     *)
(***************************************************************************)
THEOREM TypeCorrect == Spec => []TypeOK
<1>1. Init => Typed /\ Posted /\ Counted
  BY TypedInit, CountedInit
<1>2. Typed /\ Posted /\ Counted /\ [Next]_vars => (Typed /\ Posted /\ Counted)'
  BY TypedStep, PostedStep, CountedStep
<1>3. Typed /\ Counted => TypeOK
  BY CountedIsNatural, TypeOKIsTyped
<1> QED  BY <1>1, <1>2, <1>3, PTL DEF Spec

(***************************************************************************)
(* running_tasks is the number of the lambdas that hold a slot, those      *)
(* whose body could not be decoded included: every other way out of the    *)
(* lambda gives the slot back exactly once.                                *)
(***************************************************************************)
THEOREM CountCorrect == Spec => []CountIsExact
<1>1. Init => Typed /\ Posted /\ Counted
  BY TypedInit, CountedInit
<1>2. Typed /\ Posted /\ Counted /\ [Next]_vars => (Typed /\ Posted /\ Counted)'
  BY TypedStep, PostedStep, CountedStep
<1>3. Counted => CountIsExact
  BY SlotsOfCount DEF Counted, CountIsExact
<1> QED  BY <1>1, <1>2, <1>3, PTL DEF Spec

-----------------------------------------------------------------------------
(* Who owns which entry, when identifiers do not repeat.                   *)

\* A request has its identifier for itself, also after the entry is gone.
Own ==
  /\ \A r \in Request :
       op_id[r] # None <=> handler[r] \in {"registered", "rejected", "accepted"}
  /\ \A r, s \in Request : op_id[r] = op_id[s] /\ op_id[r] # None => r = s
  /\ \A id \in DOMAIN op_id_to_task_info : op_id[op_id_to_task_info[id].request] = id

LEMMA OwnEntry ==
  ASSUME Typed, Own, NEW r \in Request, InTable(op_id[r])
  PROVE  /\ op_id[r] \in OpId /\ op_id[r] # None
         /\ Entry(r) \in TaskInfo
         /\ Entry(r).request = r
         /\ \A s \in Request \ {r} : op_id[s] # op_id[r]
<1>1. op_id[r] \in OpId /\ Entry(r) \in TaskInfo
  BY TableIsFunction DEF Typed, InTable, Entry
<1>2. op_id[r] # None  BY <1>1
<1>3. op_id[Entry(r).request] = op_id[r]
  BY DEF Own, InTable, Entry
<1>4. Entry(r).request \in Request  BY <1>1 DEF TaskInfo
<1> QED  BY <1>1, <1>2, <1>3, <1>4 DEF Own

\* What a request's story is made of, without the table and with it.
SameRequest(s) ==
  /\ handler'[s] = handler[s] /\ op_id'[s] = op_id[s]
  /\ worker'[s] = worker[s] /\ canceled'[s] = canceled[s]
  /\ info_output'[s] = info_output[s] /\ logged'[s] = logged[s]
  /\ answer'[s] = answer[s] /\ delivered'[s] = delivered[s]
  /\ cancel_true'[s] = cancel_true[s]

SameEntry(s) ==
  /\ Entry(s)'.status = Entry(s).status
  /\ Entry(s)'.result = Entry(s).result
  /\ Entry(s)'.output = Entry(s).output

\* A step may do no more to the requests it is not about.
Kept(s) ==
  /\ SameRequest(s)
  /\ InTable(op_id[s])' <=> InTable(op_id[s])
  /\ InTable(op_id[s]) => SameEntry(s)

KeptOrForgotten(s) ==
  /\ SameRequest(s)
  /\ InTable(op_id[s])' => InTable(op_id[s]) /\ SameEntry(s)

LEMMA KeptIsWeaker ==
  ASSUME NEW s \in Request, Kept(s)
  PROVE  KeptOrForgotten(s)
BY DEF Kept, KeptOrForgotten

\* A step that leaves the table alone.
LEMMA TableUntouched ==
  ASSUME NEW s \in Request, SameRequest(s), op_id_to_task_info' = op_id_to_task_info
  PROVE  Kept(s)
BY DEF Kept, SameRequest, SameEntry, InTable, Entry

LEMMA OwnUntouched ==
  ASSUME Own, op_id' = op_id, op_id_to_task_info' = op_id_to_task_info,
         \A r \in Request : handler'[r] \in {"registered", "rejected", "accepted"}
                              <=> handler[r] \in {"registered", "rejected", "accepted"}
  PROVE  Own'
BY DEF Own

\* A step that changes the entry of request r.
LEMMA TableTouched ==
  ASSUME Typed, Own, NEW r \in Request, InTable(op_id[r]),
         NEW entry, entry.request = Entry(r).request,
         op_id' = op_id, handler' = handler,
         op_id_to_task_info' = Put(op_id[r], entry)
  PROVE  /\ Own'
         /\ InTable(op_id[r])' /\ Entry(r)' = entry
         /\ \A s \in Request \ {r} : SameRequest(s) => Kept(s)
<1>1. DOMAIN op_id_to_task_info' = DOMAIN op_id_to_task_info  BY DEF Put
<1>2. op_id_to_task_info'[op_id[r]] = entry  BY DEF Put, InTable
<1>3. \A id \in DOMAIN op_id_to_task_info \ {op_id[r]} :
        op_id_to_task_info'[id] = op_id_to_task_info[id]
  BY DEF Put
<1>4. Own'
  BY <1>1, <1>2, <1>3 DEF Own, Entry
<1>5. InTable(op_id[r])' /\ Entry(r)' = entry
  BY <1>1, <1>2 DEF InTable, Entry
<1>6. ASSUME NEW s \in Request \ {r}, SameRequest(s) PROVE Kept(s)
  <2>1. op_id[s] # op_id[r]  BY OwnEntry
  <2> QED  BY <1>1, <1>3, <1>6, <2>1 DEF Kept, SameEntry, InTable, Entry
<1> QED  BY <1>4, <1>5, <1>6

\* A step that erases entries.
LEMMA TableErased ==
  ASSUME Own, NEW ids, op_id' = op_id, handler' = handler,
         op_id_to_task_info' = Without(ids)
  PROVE  /\ Own'
         /\ \A s \in Request : InTable(op_id[s])' <=> InTable(op_id[s]) /\ op_id[s] \notin ids
         /\ \A s \in Request : SameRequest(s) => KeptOrForgotten(s)
         /\ \A s \in Request : SameRequest(s) /\ op_id[s] \notin ids => Kept(s)
<1>1. DOMAIN op_id_to_task_info' = DOMAIN op_id_to_task_info \ ids  BY DEF Without
<1>2. \A id \in DOMAIN op_id_to_task_info' : op_id_to_task_info'[id] = op_id_to_task_info[id]
  BY DEF Without
<1>3. Own'  BY <1>1, <1>2 DEF Own
<1>4. \A s \in Request : InTable(op_id[s])' <=> InTable(op_id[s]) /\ op_id[s] \notin ids
  BY <1>1 DEF InTable
<1>5. \A s \in Request : InTable(op_id[s])' => SameEntry(s)
  BY <1>2 DEF InTable, SameEntry, Entry
<1> QED  BY <1>3, <1>4, <1>5 DEF KeptOrForgotten, Kept

-----------------------------------------------------------------------------
(* What becomes of a request.                                              *)

\* Only an accepted request is run or canceled.
StageAt(r) ==
  /\ canceled[r] \/ cancel_true[r] => handler[r] = "accepted"
  /\ worker[r] = "skipped" => canceled[r]

\* How the status follows the end and the cancellation.
EndAt(r) ==
  InTable(op_id[r]) =>
    /\ canceled[r] \/ cancel_true[r] => Entry(r).status # "RUNNING"
    /\ worker[r] \in {"leaving", "ended"} => Entry(r).status # "RUNNING"
    /\ Entry(r).status = "FINISHED" =>
         Entry(r).result = r /\ worker[r] \in {"leaving", "ended"}

\* Where the log lines are.
LogAt(r) ==
  /\ op_id[r] = None => delivered[r] = <<>> /\ info_output[r] = <<>> /\ logged[r] = 0
  /\ InTable(op_id[r]) /\ worker[r] \notin {"failing", "failed"} =>
       delivered[r] \o Entry(r).output \o info_output[r] = [i \in 1..logged[r] |-> i]

AnswerAt(r) == answer[r].status = "FINISHED" => answer[r].result = r

FateAt(r) == StageAt(r) /\ EndAt(r) /\ LogAt(r) /\ AnswerAt(r)

Fates == \A r \in Request : FateAt(r)

LEMMA FateKept ==
  ASSUME NEW s \in Request, FateAt(s), KeptOrForgotten(s)
  PROVE  FateAt(s)'
<1> USE DEF KeptOrForgotten, SameRequest, SameEntry
<1>1. StageAt(s)'  BY DEF FateAt, StageAt
<1>2. EndAt(s)'  BY DEF FateAt, EndAt
<1>3. LogAt(s)'
  BY DEF FateAt, LogAt
<1>4. AnswerAt(s)'  BY DEF FateAt, AnswerAt
<1> QED  BY <1>1, <1>2, <1>3, <1>4 DEF FateAt

\* The lines that a request has logged.
LEMMA LinesSoFar ==
  ASSUME NEW n \in Nat
  PROVE  /\ [i \in 1..0 |-> i] = <<>>
         /\ Append([i \in 1..n |-> i], n + 1) = [i \in 1..(n + 1) |-> i]
OBVIOUS

(***************************************************************************)
(* What a step may do: the requests it is not about are kept, except that  *)
(* the sweep may forget any.                                               *)
(***************************************************************************)
StepIsLocal(r) ==
  /\ Own'
  /\ FateAt(r)'
  /\ \A s \in Request \ {r} : Kept(s)

LEMMA LocalStepKeepsFates ==
  ASSUME Fates, NEW r \in Request, StepIsLocal(r)
  PROVE  Own' /\ Fates'
BY FateKept, KeptIsWeaker DEF Fates, StepIsLocal

LEMMA HandlerIsLocal ==
  ASSUME FreshIds, Typed, Posted, Own, Fates, NEW r \in Request, HandleTask(r)
  PROVE  StepIsLocal(r)
<1>0. FateAt(r)  BY DEF Fates
<1>1. CASE CheckLimit(r)
  <2>1. \A s \in Request \ {r} : SameRequest(s)
    BY <1>1 DEF CheckLimit, Typed, workerVars, clientVars, SameRequest
  <2>2. Own'  BY <1>1, OwnUntouched DEF CheckLimit, Typed
  <2>3. FateAt(r)'
    BY <1>0, <1>1 DEF CheckLimit, Typed, workerVars, clientVars, FateAt, StageAt, EndAt, LogAt,
                      AnswerAt, InTable, Entry
  <2> QED  BY <1>1, <2>1, <2>2, <2>3, TableUntouched DEF CheckLimit, StepIsLocal
<1>2. CASE Register(r)
  <2>1. PICK id \in OpId \ {op_id[s] : s \in Request} :
          /\ op_id' = [op_id EXCEPT ![r] = id]
          /\ op_id_to_task_info' = [i \in DOMAIN op_id_to_task_info \cup {id} |->
               IF i = id THEN NewTaskInfo(r) ELSE op_id_to_task_info[i]]
    BY <1>2 DEF Register, Unused
  <2>2. id # None /\ op_id[r] = None /\ handler[r] = "admitted"
    BY <1>2, <2>1 DEF Register, Own
  <2>3. \A i \in DOMAIN op_id_to_task_info :
          /\ op_id_to_task_info[i].request \in Request
          /\ i \in OpId
    BY TableIsFunction DEF Typed, TaskInfo
  <2>4. id \notin DOMAIN op_id_to_task_info
    BY <2>1, <2>3 DEF Own
  <2>5. /\ op_id'[r] = id
        /\ \A s \in Request \ {r} : op_id'[s] = op_id[s]
        /\ DOMAIN op_id_to_task_info' = DOMAIN op_id_to_task_info \cup {id}
        /\ op_id_to_task_info'[id] = NewTaskInfo(r)
        /\ \A i \in DOMAIN op_id_to_task_info : op_id_to_task_info'[i] = op_id_to_task_info[i]
    BY <2>1, <2>4 DEF Typed
  <2>6. handler' = [handler EXCEPT ![r] = "registered"]  BY <1>2 DEF Register
  <2>7. Own'
    <3>1. \A q \in Request :
            op_id'[q] # None <=> handler'[q] \in {"registered", "rejected", "accepted"}
      BY <2>2, <2>5, <2>6 DEF Own, Typed
    <3>2. \A q, s \in Request : op_id'[q] = op_id'[s] /\ op_id'[q] # None => q = s
      BY <2>1, <2>5 DEF Own
    <3>3. \A i \in DOMAIN op_id_to_task_info' : op_id'[op_id_to_task_info'[i].request] = i
      <4>1. NewTaskInfo(r).request = r  BY DEF NewTaskInfo
      <4>2. ASSUME NEW i \in DOMAIN op_id_to_task_info
            PROVE  op_id'[op_id_to_task_info[i].request] = i
        <5>1. op_id[op_id_to_task_info[i].request] = i  BY DEF Own
        <5>2. op_id_to_task_info[i].request # r  BY <5>1, <2>2, <2>3
        <5> QED  BY <5>1, <5>2, <2>3, <2>5
      <4> QED  BY <4>1, <4>2, <2>5
    <3> QED  BY <3>1, <3>2, <3>3 DEF Own
  <2>8. \A s \in Request \ {r} : Kept(s)
    <3>1. \A s \in Request \ {r} : SameRequest(s)
      BY <1>2, <2>5, <2>6 DEF Register, Typed, workerVars, clientVars, SameRequest
    <3>2. \A s \in Request : op_id[s] # id  BY <2>1
    <3> QED  BY <2>5, <3>1, <3>2 DEF Kept, SameEntry, InTable, Entry
  <2>9. FateAt(r)'
    <3>1. UNCHANGED <<workerVars, clientVars>>  BY <1>2 DEF Register
    <3>2. Entry(r)' = NewTaskInfo(r) /\ InTable(op_id[r])'
      BY <2>5 DEF Entry, InTable
    <3>3. ~canceled[r] /\ ~cancel_true[r] /\ worker[r] = "none"
      BY <1>0, <2>2 DEF FateAt, StageAt, Posted
    <3>4. delivered[r] = <<>> /\ info_output[r] = <<>> /\ logged[r] = 0
      BY <1>0, <2>2 DEF FateAt, LogAt
    <3>5. StageAt(r)' /\ EndAt(r)' /\ AnswerAt(r)'
      BY <1>0, <3>1, <3>2, <3>3 DEF StageAt, EndAt, AnswerAt, FateAt, NewTaskInfo, workerVars,
                                    clientVars
    <3>6. LogAt(r)'
      <4>1. delivered'[r] \o NewTaskInfo(r).output \o info_output'[r] = <<>>
        BY <3>1, <3>4 DEF NewTaskInfo, workerVars, clientVars
      <4>2. op_id'[r] # None /\ logged'[r] = 0
        BY <2>2, <2>5, <3>1, <3>4 DEF workerVars
      <4> QED  BY <3>2, <4>1, <4>2, LinesSoFar DEF LogAt
    <3> QED  BY <3>5, <3>6 DEF FateAt
  <2> QED  BY <2>7, <2>8, <2>9 DEF StepIsLocal
<1>3. CASE Reject(r)
  <2>1. \A s \in Request \ {r} : SameRequest(s)
    BY <1>3 DEF Reject, Typed, workerVars, clientVars, SameRequest
  <2>2. Own'  BY <1>3, OwnUntouched DEF Reject, Typed
  <2>3. FateAt(r)'
    BY <1>0, <1>3 DEF Reject, Typed, workerVars, clientVars, FateAt, StageAt, EndAt, LogAt,
                      AnswerAt, InTable, Entry
  <2> QED  BY <1>3, <2>1, <2>2, <2>3, TableUntouched DEF Reject, StepIsLocal
<1>4. CASE Accept(r)
  <2>1. \A s \in Request \ {r} : SameRequest(s)
    BY <1>4 DEF Accept, Typed, clientVars, SameRequest
  <2>2. Own'  BY <1>4, OwnUntouched DEF Accept, Typed
  <2>3. worker[r] = "none"  BY <1>4 DEF Accept, Posted
  <2>4. FateAt(r)'
    BY <1>0, <1>4, <2>3 DEF Accept, Typed, clientVars, FateAt, StageAt, EndAt, LogAt,
                      AnswerAt, InTable, Entry
  <2> QED  BY <1>4, <2>1, <2>2, <2>4, TableUntouched DEF Accept, StepIsLocal
<1> QED  BY <1>1, <1>2, <1>3, <1>4 DEF HandleTask

-----------------------------------------------------------------------------
(* The worker and its log.                                                 *)

\* \o under a name of its own: the solvers compare sequences line by line.
Join(a, b) == a \o b

\* Streaming moves lines from the worker to the entry, in order.
LEMMA StreamIsLocal ==
  ASSUME Typed, Own, NEW r \in Request, NEW lines \in Seq(1..MaxLog), NEW due \in BOOLEAN,
         Stream(r, lines, due), op_id' = op_id, handler' = handler
  PROVE  /\ Own'
         /\ \A s \in Request \ {r} : SameRequest(s) => Kept(s)
         /\ InTable(op_id[r])' <=> InTable(op_id[r])
         /\ InTable(op_id[r]) =>
              /\ Entry(r)'.status = Entry(r).status
              /\ Entry(r)'.result = Entry(r).result
              /\ Join(Entry(r)'.output, info_output'[r]) = Join(Entry(r).output, lines)
<1>1. CASE /\ InTable(op_id[r])
           /\ op_id_to_task_info' = Put(op_id[r], [Entry(r) EXCEPT !.output = @ \o lines])
           /\ info_output' = [info_output EXCEPT ![r] = <<>>]
  <2> DEFINE entry == [Entry(r) EXCEPT !.output = @ \o lines]
  <2>1. Entry(r) \in TaskInfo  BY <1>1, OwnEntry
  <2>2. /\ entry.request = Entry(r).request /\ entry.status = Entry(r).status
        /\ entry.result = Entry(r).result /\ entry.output = Entry(r).output \o lines
    BY <2>1 DEF TaskInfo
  <2>3. /\ Own'
        /\ InTable(op_id[r])' /\ Entry(r)' = entry
        /\ \A s \in Request \ {r} : SameRequest(s) => Kept(s)
    <3> HIDE DEF entry
    <3>1. op_id_to_task_info' = Put(op_id[r], entry)  BY <1>1 DEF entry
    <3> QED  BY <1>1, <2>2, <3>1, TableTouched
  <2>4. entry.output \in Seq(1..MaxLog) /\ info_output'[r] = <<>>
    BY <1>1, <2>1, <2>2 DEF TaskInfo, Typed
  <2>5. Join(entry.output, info_output'[r]) = Join(Entry(r).output, lines)
    BY <2>2, <2>4, ConcatEmptySeq DEF Join
  <2> QED  BY <1>1, <2>2, <2>3, <2>5
<1>2. CASE /\ ~(due /\ InTable(op_id[r]))
           /\ info_output' = [info_output EXCEPT ![r] = lines]
           /\ op_id_to_task_info' = op_id_to_task_info
  <2>1. info_output'[r] = lines  BY <1>2 DEF Typed
  <2>2. Own'  BY <1>2, OwnUntouched
  <2>3. (InTable(op_id[r])' <=> InTable(op_id[r])) /\ Entry(r)' = Entry(r)
    BY <1>2 DEF InTable, Entry
  <2> QED  BY <1>2, <2>1, <2>2, <2>3, TableUntouched
<1> QED  BY <1>1, <1>2 DEF Stream

LEMMA ConcludeIsLocal ==
  ASSUME Typed, Own, NEW r \in Request, NEW entry,
         InTable(op_id[r]) => /\ entry \in TaskInfo
                              /\ entry.request = r
                              /\ entry.output = Entry(r).output,
         Conclude(r, entry), op_id' = op_id, handler' = handler
  PROVE  /\ Own'
         /\ \A s \in Request \ {r} : SameRequest(s) => Kept(s)
         /\ InTable(op_id[r])' <=> InTable(op_id[r])
         /\ InTable(op_id[r]) =>
              /\ Entry(r)'.status = entry.status
              /\ Entry(r)'.result = entry.result
              /\ Join(Entry(r)'.output, info_output'[r]) = Join(Entry(r).output, info_output[r])
<1>1. CASE InTable(op_id[r])
  <2> DEFINE concluded == [entry EXCEPT !.output = @ \o info_output[r]]
  <2>1. /\ concluded.request = Entry(r).request /\ concluded.status = entry.status
        /\ concluded.result = entry.result
        /\ concluded.output = Entry(r).output \o info_output[r]
    BY <1>1, OwnEntry DEF TaskInfo
  <2>2. /\ Own'
        /\ InTable(op_id[r])' /\ Entry(r)' = concluded
        /\ \A s \in Request \ {r} : SameRequest(s) => Kept(s)
    <3> HIDE DEF concluded
    <3>1. op_id_to_task_info' = Put(op_id[r], concluded)  BY <1>1 DEF Conclude, concluded
    <3> QED  BY <1>1, <2>1, <3>1, TableTouched
  <2>3. concluded.output \in Seq(1..MaxLog) /\ info_output'[r] = <<>>
    <3>1. Entry(r).output \o info_output[r] \in Seq(1..MaxLog)
      BY <1>1, OwnEntry DEF TaskInfo, Typed
    <3>2. info_output'[r] = <<>>  BY DEF Conclude, Typed
    <3> QED  BY <2>1, <3>1, <3>2
  <2>4. Join(concluded.output, info_output'[r]) = Join(Entry(r).output, info_output[r])
    BY <2>1, <2>3, ConcatEmptySeq DEF Join
  <2> QED  BY <1>1, <2>1, <2>2, <2>4
<1>2. CASE ~InTable(op_id[r])
  <2>1. op_id_to_task_info' = op_id_to_task_info  BY <1>2 DEF Conclude
  <2>2. Own'  BY <2>1, OwnUntouched
  <2>3. InTable(op_id[r])' <=> InTable(op_id[r])  BY <2>1 DEF InTable
  <2> QED  BY <1>2, <2>1, <2>2, <2>3, TableUntouched
<1> QED  BY <1>1, <1>2

\* Lines that were moved are neither lost nor repeated.
LEMMA MovedLines ==
  ASSUME NEW S, NEW told \in Seq(S), NEW out \in Seq(S), NEW held \in Seq(S),
         NEW out2 \in Seq(S), NEW held2 \in Seq(S)
  PROVE  out2 \o held2 = out \o held => (told \o out2) \o held2 = (told \o out) \o held
<1>1. (told \o out2) \o held2 = told \o (out2 \o held2)  BY ConcatAssociative
<1>2. (told \o out) \o held = told \o (out \o held)  BY ConcatAssociative
<1> QED  BY <1>1, <1>2

LEMMA LoggedLine ==
  ASSUME NEW S, NEW s \in Seq(S), NEW held \in Seq(S), NEW line \in S
  PROVE  s \o Append(held, line) = Append(s \o held, line)
<1>1. Append(held, line) = held \o <<line>> /\ <<line>> \in Seq(S)  BY AppendIsConcat
<1>2. s \o (held \o <<line>>) = (s \o held) \o <<line>>  BY <1>1, ConcatAssociative
<1>3. s \o held \in Seq(S)  BY ConcatProperties
<1> QED  BY <1>1, <1>2, <1>3, AppendIsConcat

\* Both for the lines of a task.
LEMMA MovedLog ==
  \A given, out, held, out2, held2 \in Seq(1..MaxLog) :
    Join(out2, held2) = Join(out, held) =>
      Join(Join(given, out2), held2) = Join(Join(given, out), held)
BY MovedLines DEF Join

LEMMA LoggedLog ==
  \A s, held \in Seq(1..MaxLog) : \A line \in 1..MaxLog :
    Join(s, Append(held, line)) = Append(Join(s, held), line)
BY LoggedLine DEF Join

\* What the log invariant says of a running task.
LEMMA LinesOfEntry ==
  ASSUME Typed, Own, NEW r \in Request, InTable(op_id[r])
  PROVE  /\ delivered[r] \in Seq(1..MaxLog)
         /\ Entry(r).output \in Seq(1..MaxLog)
         /\ info_output[r] \in Seq(1..MaxLog)
         /\ delivered[r] \o Entry(r).output \in Seq(1..MaxLog)
BY OwnEntry DEF Typed, TaskInfo

LEMMA LinesAfter ==
  ASSUME Typed', NEW r \in Request, InTable(op_id[r])'
  PROVE  /\ Entry(r)'.output \in Seq(1..MaxLog)
         /\ info_output'[r] \in Seq(1..MaxLog)
<1>1. Entry(r)' \in TaskInfo  BY TableIsFunction DEF Typed, InTable, Entry
<1> QED  BY <1>1 DEF Typed, TaskInfo

LEMMA LogIsLocal ==
  ASSUME Typed, Posted, Own, Fates, NEW r \in Request, Log(r)
  PROVE  StepIsLocal(r)
<1>0. FateAt(r) /\ worker[r] = "running" /\ op_id[r] # None
  BY DEF Fates, Log, Posted, Own
<1>1. /\ logged[r] + 1 \in 1..MaxLog /\ logged[r] \in Nat
      /\ Append(info_output[r], logged[r] + 1) \in Seq(1..MaxLog)
  BY DEF Log, Typed
<1>2. PICK due \in BOOLEAN : Stream(r, Append(info_output[r], logged[r] + 1), due)
  BY DEF Log
<1>3. /\ UNCHANGED <<handler, op_id, worker, canceled, running_tasks, clientVars>>
      /\ logged' = [logged EXCEPT ![r] = logged[r] + 1]
  BY DEF Log
<1>4. /\ Own'
      /\ \A s \in Request \ {r} : SameRequest(s) => Kept(s)
      /\ InTable(op_id[r])' <=> InTable(op_id[r])
      /\ InTable(op_id[r]) =>
           /\ Entry(r)'.status = Entry(r).status
           /\ Entry(r)'.result = Entry(r).result
           /\ Join(Entry(r)'.output, info_output'[r])
                = Join(Entry(r).output, Append(info_output[r], logged[r] + 1))
  BY <1>1, <1>2, <1>3, StreamIsLocal
<1>5. \A s \in Request \ {r} : SameRequest(s)
  <2>1. \A s \in Request \ {r} : info_output'[s] = info_output[s]
    BY <1>2 DEF Stream, Typed
  <2> QED  BY <1>3, <2>1 DEF Typed, clientVars, SameRequest
<1>6. StageAt(r)' /\ EndAt(r)' /\ AnswerAt(r)'
  BY <1>0, <1>3, <1>4 DEF StageAt, EndAt, AnswerAt, FateAt, clientVars
<1>7. LogAt(r)'
  <2>1. CASE InTable(op_id[r])
    <3> DEFINE line == logged[r] + 1
    <3>1. /\ info_output'[r] \in Seq(1..MaxLog)
          /\ InTable(op_id[r])' /\ Entry(r)'.output \in Seq(1..MaxLog)
      BY <1>4, <2>1, TypedWorker, LinesAfter DEF RunTask
    <3>2. /\ delivered[r] \in Seq(1..MaxLog) /\ Entry(r).output \in Seq(1..MaxLog)
          /\ info_output[r] \in Seq(1..MaxLog)
          /\ Join(delivered[r], Entry(r).output) \in Seq(1..MaxLog)
      BY <2>1, LinesOfEntry DEF Join
    <3>3. Join(Join(delivered[r], Entry(r)'.output), info_output'[r])
            = Join(Join(delivered[r], Entry(r).output), Append(info_output[r], line))
      <4> DEFINE held == Append(info_output[r], line)
      <4>1. Join(Entry(r)'.output, info_output'[r]) = Join(Entry(r).output, held)
        BY <1>4, <2>1
      <4>2. held \in Seq(1..MaxLog)  BY <1>1
      <4> HIDE DEF held
      <4>3. Join(Join(delivered[r], Entry(r)'.output), info_output'[r])
              = Join(Join(delivered[r], Entry(r).output), held)
        BY <3>1, <3>2, <4>1, <4>2, MovedLog
      <4> QED  BY <4>3 DEF held
    <3>4. @ = Append(Join(Join(delivered[r], Entry(r).output), info_output[r]), line)
      BY <1>1, <3>2, LoggedLog
    <3>5. Join(Join(delivered[r], Entry(r).output), info_output[r]) = [i \in 1..logged[r] |-> i]
      BY <1>0, <2>1 DEF FateAt, LogAt, Join
    <3>6. Append([i \in 1..logged[r] |-> i], line) = [i \in 1..line |-> i]
      BY <1>1, LinesSoFar
    <3>7. Join(Join(delivered'[r], Entry(r)'.output), info_output'[r])
            = [i \in 1..logged'[r] |-> i]
      BY <1>3, <3>3, <3>4, <3>5, <3>6 DEF Typed, clientVars
    <3> QED  BY <1>0, <1>3, <3>7 DEF LogAt, Join
  <2>2. CASE ~InTable(op_id[r])
    BY <1>0, <1>3, <1>4, <2>2 DEF LogAt
  <2> QED  BY <2>1, <2>2
<1> QED  BY <1>4, <1>5, <1>6, <1>7 DEF StepIsLocal, FateAt

\* A step of the worker that moves lines and logs none.
LEMMA LogFollows ==
  ASSUME Typed, Typed', Own, Own', NEW r \in Request, FateAt(r), op_id[r] # None,
         worker[r] \notin {"failing", "failed"},
         UNCHANGED <<op_id, delivered, logged>>,
         InTable(op_id[r])' <=> InTable(op_id[r]),
         InTable(op_id[r]) => Join(Entry(r)'.output, info_output'[r])
                                = Join(Entry(r).output, info_output[r])
  PROVE  LogAt(r)'
<1>1. CASE InTable(op_id[r])
  <2>1. /\ info_output'[r] \in Seq(1..MaxLog)
        /\ InTable(op_id[r])' /\ Entry(r)'.output \in Seq(1..MaxLog)
    BY <1>1, LinesAfter
  <2>0. /\ delivered[r] \in Seq(1..MaxLog) /\ Entry(r).output \in Seq(1..MaxLog)
        /\ info_output[r] \in Seq(1..MaxLog)
    BY <1>1, LinesOfEntry
  <2>2. Join(Join(delivered[r], Entry(r)'.output), info_output'[r])
          = Join(Join(delivered[r], Entry(r).output), info_output[r])
    BY <1>1, <2>0, <2>1, MovedLog
  <2>3. @ = [i \in 1..logged[r] |-> i]
    BY <1>1 DEF FateAt, LogAt, Join
  <2> QED  BY <2>2, <2>3 DEF LogAt, Join
<1>2. CASE ~InTable(op_id[r])
  BY <1>2 DEF LogAt
<1> QED  BY <1>1, <1>2

LEMMA WorkerIsLocal ==
  ASSUME Typed, Posted, Own, Fates, NEW r \in Request, RunTask(r)
  PROVE  StepIsLocal(r)
<1>0. FateAt(r)  BY DEF Fates
<1>1. Typed'  BY TypedWorker
<1>2. worker[r] # "none" => op_id[r] # None  BY DEF Posted, Own
<1>3. CASE SkipWorker(r) \/ StartWorker(r) \/ Fail(r) \/ Leave(r)
  <2>1. UNCHANGED <<handler, op_id, canceled, is_task_info_removed, info_output, logged,
                    op_id_to_task_info, clientVars>>
    BY <1>3 DEF SkipWorker, StartWorker, Fail, Leave
  <2>2. \A s \in Request \ {r} : worker'[s] = worker[s]
    BY <1>3 DEF SkipWorker, StartWorker, Fail, Leave, Typed
  <2>3. \A s \in Request \ {r} : SameRequest(s)
    BY <2>1, <2>2 DEF clientVars, SameRequest
  <2>4. Own'  BY <2>1, OwnUntouched
  <2>5. /\ InTable(op_id[r])' <=> InTable(op_id[r])
        /\ Entry(r)' = Entry(r)
    BY <2>1 DEF InTable, Entry
  <2>6. \/ worker'[r] = "skipped" /\ worker[r] = "scheduled" /\ canceled[r]
        \/ worker'[r] \in {"lost", "running", "undecoded"} /\ worker[r] = "scheduled"
        \/ worker'[r] = "failing" /\ worker[r] = "running"
        \/ worker'[r] = "ended" /\ worker[r] = "leaving"
        \/ worker'[r] = "failed" /\ worker[r] = "failing"
    BY <1>3 DEF SkipWorker, StartWorker, Fail, Leave, Typed
  <2>7. worker[r] \in {"scheduled", "running", "leaving", "failing"}
    BY <1>3 DEF SkipWorker, StartWorker, Fail, Leave
  <2>8. StageAt(r)' /\ EndAt(r)' /\ AnswerAt(r)'
    BY <1>0, <2>1, <2>5, <2>6 DEF FateAt, StageAt, EndAt, AnswerAt, clientVars
  <2>9. LogAt(r)'
    <3>1. CASE worker[r] = "failing"
      <4>1. worker'[r] = "failed" /\ op_id'[r] # None  BY <1>2, <2>1, <2>6, <3>1
      <4> QED  BY <4>1 DEF LogAt
    <3>2. CASE worker[r] # "failing"
      BY <1>0, <1>1, <1>2, <2>1, <2>4, <2>5, <2>7, <3>2, LogFollows DEF clientVars
    <3> QED  BY <3>1, <3>2
  <2> QED  BY <2>1, <2>3, <2>4, <2>8, <2>9, TableUntouched DEF StepIsLocal, FateAt
<1>4. CASE Log(r)  BY <1>4, LogIsLocal
<1>5. CASE \E due \in BOOLEAN : Poll(r, due)
  <2>1. PICK due \in BOOLEAN : Poll(r, due)  BY <1>5
  <2>2. /\ UNCHANGED <<handler, op_id, canceled, logged, running_tasks, clientVars>>
        /\ worker[r] = "running" /\ worker'[r] \in {"running", "terminated"}
        /\ \A s \in Request \ {r} : worker'[s] = worker[s]
    BY <2>1 DEF Poll, Typed
  <2>3. Stream(r, info_output[r], due) /\ info_output[r] \in Seq(1..MaxLog)
    BY <2>1 DEF Poll, Typed
  <2>4. /\ Own'
        /\ \A s \in Request \ {r} : SameRequest(s) => Kept(s)
        /\ InTable(op_id[r])' <=> InTable(op_id[r])
        /\ InTable(op_id[r]) =>
             /\ Entry(r)'.status = Entry(r).status
             /\ Entry(r)'.result = Entry(r).result
             /\ Join(Entry(r)'.output, info_output'[r]) = Join(Entry(r).output, info_output[r])
    BY <2>2, <2>3, StreamIsLocal
  <2>5. \A s \in Request \ {r} : SameRequest(s)
    <3>1. \A s \in Request \ {r} : info_output'[s] = info_output[s]
      BY <2>3 DEF Stream, Typed
    <3> QED  BY <2>2, <3>1 DEF clientVars, SameRequest
  <2>6. StageAt(r)' /\ EndAt(r)' /\ AnswerAt(r)'
    BY <1>0, <2>2, <2>4 DEF StageAt, EndAt, AnswerAt, FateAt, clientVars
  <2>7. LogAt(r)'
    BY <1>0, <1>1, <1>2, <2>2, <2>4, LogFollows DEF clientVars
  <2> QED  BY <2>4, <2>5, <2>6, <2>7 DEF StepIsLocal, FateAt
<1>6. ASSUME NEW entry,
             InTable(op_id[r]) => /\ entry \in TaskInfo
                                  /\ entry.request = r
                                  /\ entry.output = Entry(r).output
                                  /\ entry.status # "RUNNING"
                                  /\ entry.status = "FINISHED" => entry.result = r,
             Conclude(r, entry),
             worker[r] \in {"running", "terminated"},
             worker' = [worker EXCEPT ![r] = "leaving"],
             UNCHANGED <<handler, op_id, canceled, is_task_info_removed, logged,
                         running_tasks, clientVars>>
      PROVE  StepIsLocal(r)
  <2>1. /\ Own'
        /\ \A s \in Request \ {r} : SameRequest(s) => Kept(s)
        /\ InTable(op_id[r])' <=> InTable(op_id[r])
        /\ InTable(op_id[r]) =>
             /\ Entry(r)'.status = entry.status
             /\ Entry(r)'.result = entry.result
             /\ Join(Entry(r)'.output, info_output'[r]) = Join(Entry(r).output, info_output[r])
    BY <1>6, ConcludeIsLocal
  <2>2. worker'[r] = "leaving" /\ \A s \in Request \ {r} : worker'[s] = worker[s]
    BY <1>6 DEF Typed
  <2>3. \A s \in Request \ {r} : SameRequest(s)
    <3>1. \A s \in Request \ {r} : info_output'[s] = info_output[s]
      BY <1>6 DEF Conclude, Typed
    <3> QED  BY <1>6, <2>2, <3>1 DEF clientVars, SameRequest
  <2>4. StageAt(r)' /\ EndAt(r)' /\ AnswerAt(r)'
    BY <1>0, <1>6, <2>1, <2>2 DEF StageAt, EndAt, AnswerAt, FateAt, clientVars
  <2>5. LogAt(r)'
    BY <1>0, <1>1, <1>2, <1>6, <2>1, LogFollows DEF clientVars
  <2> QED  BY <2>1, <2>3, <2>4, <2>5 DEF StepIsLocal, FateAt
<1>7. CASE PublishResult(r)
  <2>1. InTable(op_id[r]) => /\ Finished(Entry(r), r) \in TaskInfo
                             /\ Finished(Entry(r), r).request = r
                             /\ Finished(Entry(r), r).output = Entry(r).output
                             /\ Finished(Entry(r), r).status # "RUNNING"
                             /\ Finished(Entry(r), r).result = r
    BY OwnEntry, EntryTypes DEF Finished, TaskInfo
  <2> QED  BY <1>6, <1>7, <2>1 DEF PublishResult
<1>8. CASE ReportTermination(r)
  <2>1. InTable(op_id[r]) => /\ Terminated(Entry(r)) \in TaskInfo
                             /\ Terminated(Entry(r)).request = r
                             /\ Terminated(Entry(r)).output = Entry(r).output
                             /\ Terminated(Entry(r)).status = "CANCELED"
    BY OwnEntry, EntryTypes DEF Terminated, TaskInfo
  <2> QED  BY <1>6, <1>8, <2>1 DEF ReportTermination
<1> QED  BY <1>3, <1>4, <1>5, <1>7, <1>8 DEF RunTask

-----------------------------------------------------------------------------
(* The other handlers and time.                                            *)

LEMMA CancelIsLocal ==
  ASSUME Typed, Posted, Own, Fates, NEW r \in Request, Cancel(r)
  PROVE  StepIsLocal(r)
<1>0. FateAt(r) /\ handler[r] = "accepted" /\ InTable(op_id[r]) /\ op_id[r] # None
  BY OwnEntry DEF Fates, Cancel
<1>1. Entry(r) \in TaskInfo /\ Entry(r).request = r  BY <1>0, OwnEntry
<1>2. /\ UNCHANGED <<handler, op_id, worker, info_output, logged, answer, delivered>>
      /\ canceled' = [canceled EXCEPT ![r] = TRUE]
      /\ cancel_true' = [cancel_true EXCEPT ![r] = TRUE]
      /\ op_id_to_task_info' = Put(op_id[r], Canceled(Entry(r)))
  BY <1>1 DEF Cancel
<1>3. /\ Canceled(Entry(r)).request = Entry(r).request
      /\ Canceled(Entry(r)).status = "CANCELED"
      /\ Canceled(Entry(r)).output = Entry(r).output
  BY <1>1 DEF Canceled, TaskInfo
<1>4. /\ Own'
      /\ InTable(op_id[r])' /\ Entry(r)' = Canceled(Entry(r))
      /\ \A s \in Request \ {r} : SameRequest(s) => Kept(s)
  BY <1>0, <1>2, <1>3, TableTouched
<1>5. \A s \in Request \ {r} : SameRequest(s)
  BY <1>2 DEF Typed, SameRequest
<1>6. StageAt(r)' /\ EndAt(r)' /\ AnswerAt(r)'
  BY <1>0, <1>2, <1>3, <1>4 DEF StageAt, EndAt, AnswerAt, FateAt, Typed
<1>7. LogAt(r)'
  <2>1. delivered'[r] \o Entry(r)'.output \o info_output'[r]
          = delivered[r] \o Entry(r).output \o info_output[r]
    BY <1>2, <1>3, <1>4
  <2> QED  BY <1>0, <1>2, <1>3, <1>4 DEF LogAt, FateAt
<1> QED  BY <1>4, <1>5, <1>6, <1>7 DEF StepIsLocal, FateAt

\* What a ping does to the entry.
LEMMA PingedEntry ==
  ASSUME NEW entry \in TaskInfo
  PROVE  /\ Pinged(entry).request = entry.request
         /\ Pinged(entry).result = entry.result
         /\ Pinged(entry).output = <<>>
         /\ Pinged(entry).status \in {entry.status, "CANCELED"}
BY DEF Pinged, TaskInfo

LEMMA PingIsLocal ==
  ASSUME Typed, Posted, Own, Fates, NEW r \in Request, Ping(r)
  PROVE  StepIsLocal(r)
<1> DEFINE entry == Pinged(Entry(r))
<1>0. FateAt(r) /\ handler[r] = "accepted" /\ InTable(op_id[r]) /\ op_id[r] # None
  BY OwnEntry DEF Fates, Ping
<1>1. Entry(r) \in TaskInfo  BY <1>0, OwnEntry
<1>2. /\ UNCHANGED <<handler, op_id, workerVars, cancel_true>>
      /\ answer' = [answer EXCEPT ![r] = [status |-> entry.status, result |-> entry.result]]
      /\ delivered' = [delivered EXCEPT ![r] = delivered[r] \o Entry(r).output]
      /\ op_id_to_task_info' = IF IsFinal(entry.status) THEN Without({op_id[r]})
                                                        ELSE Put(op_id[r], entry)
  BY DEF Ping
<1>3. /\ entry.request = Entry(r).request /\ entry.result = Entry(r).result
      /\ entry.output = <<>> /\ entry.status \in {Entry(r).status, "CANCELED"}
  BY <1>1, PingedEntry
<1> HIDE DEF entry
<1>4. \A s \in Request \ {r} : SameRequest(s)
  BY <1>2 DEF Typed, SameRequest, workerVars
<1>5. StageAt(r)' /\ AnswerAt(r)'
  <2>1. answer'[r].status = entry.status /\ answer'[r].result = entry.result
    BY <1>2 DEF Typed
  <2>2. entry.status = "FINISHED" => entry.result = r
    BY <1>0, <1>3 DEF FateAt, EndAt
  <2> QED  BY <1>0, <1>2, <2>1, <2>2 DEF StageAt, AnswerAt, FateAt, workerVars
<1>6. CASE IsFinal(entry.status)
  <2>1. op_id_to_task_info' = Without({op_id[r]}) /\ op_id' = op_id /\ handler' = handler
    BY <1>2, <1>6
  <2>2. /\ Own'
        /\ \A s \in Request : InTable(op_id[s])' <=> InTable(op_id[s]) /\ op_id[s] # op_id[r]
        /\ \A s \in Request : SameRequest(s) /\ op_id[s] # op_id[r] => Kept(s)
    BY <2>1, TableErased
  <2>3. \A s \in Request \ {r} : op_id[s] # op_id[r]  BY <1>0, OwnEntry
  <2>4. ~InTable(op_id[r])'  BY <2>2
  <2>5. EndAt(r)' /\ LogAt(r)'
    BY <1>0, <2>1, <2>4 DEF EndAt, LogAt
  <2> QED  BY <1>4, <1>5, <2>2, <2>3, <2>5 DEF StepIsLocal, FateAt
<1>7. CASE ~IsFinal(entry.status)
  <2>1. op_id_to_task_info' = Put(op_id[r], entry) /\ op_id' = op_id /\ handler' = handler
    BY <1>2, <1>7
  <2>2. /\ Own'
        /\ InTable(op_id[r])' /\ Entry(r)' = entry
        /\ \A s \in Request \ {r} : SameRequest(s) => Kept(s)
    BY <1>0, <1>3, <2>1, TableTouched
  <2>3. EndAt(r)'
    <3>1. entry.status = "RUNNING" /\ Entry(r).status = "RUNNING"
      BY <1>3, <1>7 DEF IsFinal
    <3> QED  BY <1>0, <1>2, <2>2, <3>1 DEF EndAt, FateAt, workerVars
  <2>4. LogAt(r)'
    <3>1. /\ Join(delivered[r], Entry(r).output) \in Seq(1..MaxLog)
      BY <1>0, LinesOfEntry DEF Join
    <3>2. delivered'[r] = Join(delivered[r], Entry(r).output)
      BY <1>2 DEF Typed, Join
    <3>3. Join(delivered'[r], Entry(r)'.output) = Join(delivered[r], Entry(r).output)
      BY <1>3, <2>2, <3>1, <3>2, ConcatEmptySeq DEF Join
    <3>4. /\ info_output' = info_output /\ logged' = logged /\ worker' = worker
          /\ op_id'[r] # None
      BY <1>0, <1>2 DEF workerVars
    <3>5. worker[r] \notin {"failing", "failed"} =>
            Join(Join(delivered[r], Entry(r).output), info_output[r])
              = [i \in 1..logged[r] |-> i]
      BY <1>0 DEF LogAt, FateAt, Join
    <3>6. worker'[r] \notin {"failing", "failed"} =>
            Join(Join(delivered'[r], Entry(r)'.output), info_output'[r])
              = [i \in 1..logged'[r] |-> i]
      BY <3>3, <3>4, <3>5
    <3> QED  BY <3>4, <3>6 DEF LogAt, Join
  <2> QED  BY <1>4, <1>5, <2>2, <2>3, <2>4 DEF StepIsLocal, FateAt
<1> QED  BY <1>6, <1>7

LEMMA LimitKeeps ==
  ASSUME Typed, Own, NEW id \in OpId, LimitPasses(id)
  PROVE  Own' /\ \A s \in Request : Kept(s)
<1>1. /\ UNCHANGED <<handler, op_id, workerVars, running_tasks, clientVars>>
      /\ DOMAIN op_id_to_task_info' = DOMAIN op_id_to_task_info
      /\ op_id_to_task_info[id] \in TaskInfo
      /\ op_id_to_task_info'[id] = [op_id_to_task_info[id] EXCEPT !.late = TRUE]
      /\ \A i \in DOMAIN op_id_to_task_info \ {id} :
           op_id_to_task_info'[i] = op_id_to_task_info[i]
  BY TableIsFunction DEF LimitPasses, InTable, Typed
<1>2. \A i \in DOMAIN op_id_to_task_info :
        /\ op_id_to_task_info'[i].request = op_id_to_task_info[i].request
        /\ op_id_to_task_info'[i].status = op_id_to_task_info[i].status
        /\ op_id_to_task_info'[i].result = op_id_to_task_info[i].result
        /\ op_id_to_task_info'[i].output = op_id_to_task_info[i].output
  BY <1>1 DEF TaskInfo
<1>3. Own'  BY <1>1, <1>2 DEF Own
<1>4. \A s \in Request : SameRequest(s)
  BY <1>1 DEF workerVars, clientVars, SameRequest
<1> QED  BY <1>1, <1>2, <1>3, <1>4 DEF Kept, SameEntry, InTable, Entry

\* What the sweep leaves of the table.
LEMMA SweptTable ==
  ASSUME Typed, Own, Sweep
  PROVE  /\ Own'
         /\ \A s \in Request : SameRequest(s)
         /\ \A s \in Request : InTable(op_id[s])' => InTable(op_id[s]) /\ SameEntry(s)
<1> DEFINE inactive == {id \in DOMAIN op_id_to_task_info : ~op_id_to_task_info[id].is_active}
           kept == Without(inactive)
<1>1. /\ op_id_to_task_info' = [id \in DOMAIN kept |-> Deactivated(kept[id])]
      /\ UNCHANGED <<handler, op_id, workerVars, running_tasks, clientVars>>
  BY DEF Sweep
<1>2. /\ DOMAIN op_id_to_task_info' \subseteq DOMAIN op_id_to_task_info
      /\ \A id \in DOMAIN op_id_to_task_info' :
           /\ op_id_to_task_info'[id] = Deactivated(op_id_to_task_info[id])
           /\ op_id_to_task_info[id] \in TaskInfo
  BY <1>1, TableIsFunction DEF Without, Typed
<1>3. \A id \in DOMAIN op_id_to_task_info' :
        /\ op_id_to_task_info'[id].request = op_id_to_task_info[id].request
        /\ op_id_to_task_info'[id].status = op_id_to_task_info[id].status
        /\ op_id_to_task_info'[id].result = op_id_to_task_info[id].result
        /\ op_id_to_task_info'[id].output = op_id_to_task_info[id].output
  BY <1>2 DEF Deactivated, TaskInfo
<1> HIDE DEF inactive, kept
<1>4. Own'  BY <1>1, <1>2, <1>3 DEF Own
<1>5. \A s \in Request : SameRequest(s)
  BY <1>1 DEF workerVars, clientVars, SameRequest
<1> QED  BY <1>1, <1>2, <1>3, <1>4, <1>5 DEF SameEntry, InTable, Entry

-----------------------------------------------------------------------------
(* The invariant, and what it says.                                        *)

IInv == Typed /\ Posted /\ Own /\ Fates

LEMMA InvariantInit == Init => IInv
<1> SUFFICES ASSUME Init PROVE IInv  OBVIOUS
<1>1. Posted  BY DEF Init, Posted
<1>2. Own  BY DEF Init, Own
<1>3. ASSUME NEW r \in Request PROVE FateAt(r)
  <2>1. ~InTable(op_id[r])  BY DEF Init, InTable
  <2> QED  BY <2>1 DEF Init, FateAt, StageAt, EndAt, LogAt, AnswerAt
<1> QED  BY <1>1, <1>2, <1>3, TypedInit DEF IInv, Fates

LEMMA InvariantStep == FreshIds /\ IInv /\ [Next]_vars => IInv'
<1> SUFFICES ASSUME FreshIds, IInv, [Next]_vars PROVE IInv'  OBVIOUS
<1>0. Typed /\ Posted /\ Own /\ Fates  BY DEF IInv
<1>1. Typed' /\ Posted'  BY <1>0, TypedStep, PostedStep
<1>2. Own' /\ Fates'
  <2>1. ASSUME NEW r \in Request, HandleTask(r) \/ RunTask(r) \/ Ping(r) \/ Cancel(r)
        PROVE  Own' /\ Fates'
    BY <1>0, <2>1, HandlerIsLocal, WorkerIsLocal, PingIsLocal, CancelIsLocal,
       LocalStepKeepsFates
  <2>2. ASSUME NEW id \in OpId, LimitPasses(id) PROVE Own' /\ Fates'
    BY <1>0, <2>2, LimitKeeps, KeptIsWeaker, FateKept DEF Fates
  <2>3. ASSUME Sweep PROVE Own' /\ Fates'
    <3>1. Own' /\ \A s \in Request : KeptOrForgotten(s)
      BY <1>0, <2>3, SweptTable DEF KeptOrForgotten
    <3> QED  BY <1>0, <3>1, FateKept DEF Fates
  <2>4. ASSUME UNCHANGED vars PROVE Own' /\ Fates'
    <3>1. Own'  BY <1>0, <2>4, OwnUntouched DEF vars
    <3>2. \A s \in Request : SameRequest(s)
      BY <2>4 DEF vars, workerVars, clientVars, SameRequest
    <3> QED  BY <1>0, <2>4, <3>1, <3>2, TableUntouched, KeptIsWeaker, FateKept
             DEF Fates, vars
  <2> QED  BY <2>1, <2>2, <2>3, <2>4 DEF Next
<1> QED  BY <1>1, <1>2 DEF IInv

LEMMA Invariant == ASSUME FreshIds PROVE Spec => []IInv
<1>1. IInv /\ [Next]_vars => IInv'  BY InvariantStep
<1> QED  BY <1>1, InvariantInit, PTL DEF Spec

(***************************************************************************)
(* A client that is told FINISHED is told the result of its own task.      *)
(***************************************************************************)
THEOREM FinishedCorrect == ASSUME FreshIds PROVE Spec => []FinishedIsOwnResult
<1>1. IInv => FinishedIsOwnResult
  BY DEF IInv, Fates, FateAt, AnswerAt, FinishedIsOwnResult
<1> QED  BY <1>1, Invariant, PTL

(***************************************************************************)
(* Once "cancel true" was answered the task never counts as running again, *)
(* whatever its worker, later pings and the sweep do.                      *)
(***************************************************************************)
THEOREM CancelCorrect == ASSUME FreshIds PROVE Spec => []CancelIsKept
<1>1. IInv => CancelIsKept
  BY DEF IInv, Fates, FateAt, EndAt, CancelIsKept, IsFinal
<1> QED  BY <1>1, Invariant, PTL

(***************************************************************************)
(* A lambda that reached its end, or was skipped because of a cancel, has  *)
(* left a final status for the next ping.                                  *)
(***************************************************************************)
THEOREM EndCorrect == ASSUME FreshIds PROVE Spec => []EndIsReported
<1>1. IInv => EndIsReported
  BY DEF IInv, Fates, FateAt, StageAt, EndAt, EndIsReported, IsFinal
<1> QED  BY <1>1, Invariant, PTL

(***************************************************************************)
(* The lines a client received, those in the entry and those the worker    *)
(* still holds are the lines that were logged, in order, without a gap or  *)
(* a repetition, for logs of any length.                                   *)
(***************************************************************************)
THEOREM LogCorrect == ASSUME FreshIds PROVE Spec => []LogIsComplete
<1>1. IInv => LogIsComplete
  BY DEF IInv, Fates, FateAt, LogAt, LogIsComplete
<1> QED  BY <1>1, Invariant, PTL

-----------------------------------------------------------------------------
(* The service implements TaskLifecycle.                                   *)

\* The requests a step keeps stand still in the lifecycle.
LEMMA KeptStatus ==
  ASSUME NEW s \in Request, Kept(s)
  PROVE  /\ TaskStatus(s)' = TaskStatus(s)
         /\ answer'[s].status = answer[s].status
BY DEF Kept, SameRequest, SameEntry, TaskStatus

\* The status of a request that has its identifier.
LEMMA StatusOfEntry ==
  ASSUME NEW s \in Request
  PROVE  /\ op_id[s] # None /\ InTable(op_id[s]) => TaskStatus(s) = Entry(s).status
         /\ op_id[s] # None /\ ~InTable(op_id[s]) => TaskStatus(s) = "forgotten"
         /\ op_id[s] = None => TaskStatus(s) = "unknown"
BY DEF TaskStatus

LEMMA StatusAfter ==
  ASSUME NEW s \in Request
  PROVE  /\ op_id'[s] # None /\ InTable(op_id[s])' => TaskStatus(s)' = Entry(s)'.status
         /\ op_id'[s] # None /\ ~InTable(op_id[s])' => TaskStatus(s)' = "forgotten"
         /\ op_id'[s] = None => TaskStatus(s)' = "unknown"
BY DEF TaskStatus

\* The mapped variables, and what a step about one request does to them.
Statuses == [r \in Request |-> TaskStatus(r)]
Told == [r \in Request |-> answer[r].status]

LEMMA LocalMapping ==
  ASSUME NEW r \in Request, \A s \in Request \ {r} : Kept(s)
  PROVE  /\ Statuses' = [Statuses EXCEPT ![r] = TaskStatus(r)']
         /\ Told' = [Told EXCEPT ![r] = answer'[r].status]
         /\ Statuses[r] = TaskStatus(r)
         /\ Told[r] = answer[r].status
         /\ TaskStatus(r)' = TaskStatus(r) => Statuses' = Statuses
         /\ answer'[r].status = answer[r].status => Told' = Told
<1>1. \A s \in Request \ {r} : /\ TaskStatus(s)' = TaskStatus(s)
                               /\ answer'[s].status = answer[s].status
  BY KeptStatus
<1>2. Statuses' = [s \in Request |-> TaskStatus(s)']  BY DEF Statuses
<1>3. Told' = [s \in Request |-> answer'[s].status]  BY DEF Told
<1> QED  BY <1>1, <1>2, <1>3 DEF Statuses, Told

AbstractStep == [Lifecycle!Next]_(Lifecycle!vars)

LEMMA StandingStill ==
  ASSUME Statuses' = Statuses, Told' = Told
  PROVE  AbstractStep
BY DEF AbstractStep, Lifecycle!vars, Statuses, Told

\* The steps of the lifecycle, in terms of the mapped variables.
LEMMA Abstraction ==
  ASSUME NEW r \in Request
  PROVE  /\ (/\ Statuses[r] = "unknown" /\ Told' = Told
             /\ Statuses' = [Statuses EXCEPT ![r] = "RUNNING"])
            => AbstractStep
         /\ (/\ Statuses[r] = "RUNNING" /\ Told' = Told
             /\ Statuses' = [Statuses EXCEPT ![r] = "CANCELED"])
            => AbstractStep
         /\ (/\ Statuses[r] \in {"RUNNING", "CANCELED"} /\ Told' = Told
             /\ Statuses' = [Statuses EXCEPT ![r] = "FINISHED"])
            => AbstractStep
         /\ \A st \in {Statuses[r], "CANCELED"} :
              (/\ Statuses[r] \in Status
               /\ Told' = [Told EXCEPT ![r] = st]
               /\ Statuses' = [Statuses EXCEPT ![r] = IF st = "RUNNING" THEN st
                                                     ELSE "forgotten"])
              => AbstractStep
<1> USE DEF AbstractStep, Lifecycle!Next, Lifecycle!vars, Statuses, Told
<1>2. Lifecycle!Open(r) => AbstractStep  OBVIOUS
<1>3. Lifecycle!Cancel(r) => AbstractStep  OBVIOUS
<1>4. Lifecycle!Finish(r) => AbstractStep  OBVIOUS
<1>5. Lifecycle!Report(r) => AbstractStep  OBVIOUS
<1> QED
  BY <1>2, <1>3, <1>4, <1>5
     DEF Lifecycle!Open, Lifecycle!Cancel, Lifecycle!Finish, Lifecycle!Report,
         Lifecycle!Remembered, Status

LEMMA HandlerIsAbstract ==
  ASSUME FreshIds, Typed, Posted, Own, Fates, NEW r \in Request, HandleTask(r)
  PROVE  AbstractStep
<1>1. \A s \in Request \ {r} : Kept(s)
  BY HandlerIsLocal DEF StepIsLocal
<1>2. answer' = answer
  BY DEF HandleTask, CheckLimit, Register, Reject, Accept, clientVars
<1>3. Told' = Told  BY <1>1, <1>2, LocalMapping
<1>4. CASE Register(r)
  <2>1. PICK id \in OpId :
          /\ op_id' = [op_id EXCEPT ![r] = id]
          /\ op_id_to_task_info' = [i \in DOMAIN op_id_to_task_info \cup {id} |->
               IF i = id THEN NewTaskInfo(r) ELSE op_id_to_task_info[i]]
    BY <1>4 DEF Register, Unused
  <2>2. op_id[r] = None  BY <1>4 DEF Register, Own
  <2>3. op_id'[r] = id /\ id # None  BY <2>1 DEF Typed
  <2>4. InTable(op_id[r])' /\ Entry(r)' = NewTaskInfo(r)
    BY <2>1, <2>3 DEF InTable, Entry
  <2>5. TaskStatus(r) = "unknown" /\ TaskStatus(r)' = "RUNNING"
    BY <2>2, <2>3, <2>4, StatusOfEntry, StatusAfter DEF NewTaskInfo
  <2> QED  BY <1>1, <1>3, <2>5, LocalMapping, Abstraction
<1>5. CASE ~Register(r)
  <2>1. op_id' = op_id /\ op_id_to_task_info' = op_id_to_task_info
    BY <1>5 DEF HandleTask, CheckLimit, Reject, Accept
  <2>2. TaskStatus(r)' = TaskStatus(r)  BY <2>1 DEF TaskStatus, InTable, Entry
  <2> QED  BY <1>1, <1>3, <2>2, LocalMapping, StandingStill
<1> QED  BY <1>4, <1>5

LEMMA WorkerIsAbstract ==
  ASSUME Typed, Posted, Own, Fates, NEW r \in Request, RunTask(r)
  PROVE  AbstractStep
<1>0. FateAt(r) /\ \A s \in Request \ {r} : Kept(s)
  BY WorkerIsLocal DEF StepIsLocal, Fates
<1>1. op_id' = op_id /\ handler' = handler /\ answer' = answer
  BY DEF RunTask, SkipWorker, StartWorker, Log, Poll, PublishResult, ReportTermination, Fail,
         Leave, clientVars
<1>2. Told' = Told  BY <1>0, <1>1, LocalMapping
<1>3. ASSUME /\ InTable(op_id[r])' <=> InTable(op_id[r])
             /\ InTable(op_id[r]) => Entry(r)'.status = Entry(r).status
      PROVE  AbstractStep
  <2>1. TaskStatus(r)' = TaskStatus(r)
    BY <1>1, <1>3, StatusOfEntry, StatusAfter
  <2> QED  BY <1>0, <1>2, <2>1, LocalMapping, StandingStill
<1>4. CASE SkipWorker(r) \/ StartWorker(r) \/ Fail(r) \/ Leave(r)
  <2>1. op_id_to_task_info' = op_id_to_task_info
    BY <1>4 DEF SkipWorker, StartWorker, Fail, Leave
  <2> QED  BY <1>1, <1>3, <2>1 DEF InTable, Entry
<1>5. CASE Log(r)
  <2>1. PICK due \in BOOLEAN : Stream(r, Append(info_output[r], logged[r] + 1), due)
    BY <1>5 DEF Log
  <2>2. Append(info_output[r], logged[r] + 1) \in Seq(1..MaxLog)
    BY <1>5 DEF Log, Typed
  <2> QED  BY <1>1, <1>3, <2>1, <2>2, StreamIsLocal
<1>6. CASE \E due \in BOOLEAN : Poll(r, due)
  <2>1. PICK due \in BOOLEAN : Stream(r, info_output[r], due)
    BY <1>6 DEF Poll
  <2>2. info_output[r] \in Seq(1..MaxLog)  BY DEF Typed
  <2> QED  BY <1>1, <1>3, <2>1, <2>2, StreamIsLocal
<1>7. ASSUME NEW entry,
             InTable(op_id[r]) => /\ entry \in TaskInfo
                                  /\ entry.request = r
                                  /\ entry.output = Entry(r).output
                                  /\ entry.status \in {"FINISHED", "CANCELED"},
             Conclude(r, entry), worker[r] \in {"running", "terminated"}
      PROVE  AbstractStep
  <2>1. /\ InTable(op_id[r])' <=> InTable(op_id[r])
        /\ InTable(op_id[r]) => Entry(r)'.status = entry.status
    BY <1>1, <1>7, ConcludeIsLocal
  <2>2. CASE InTable(op_id[r])
    <3>1. Entry(r).status \in {"RUNNING", "CANCELED"}
      BY <1>0, <1>7, <2>2, OwnEntry DEF FateAt, EndAt, TaskInfo, Status
    <3>2. TaskStatus(r) = Entry(r).status /\ TaskStatus(r)' = entry.status
      BY <1>1, <2>1, <2>2, OwnEntry, StatusOfEntry, StatusAfter
    <3>3. /\ Statuses[r] \in {"RUNNING", "CANCELED"}
          /\ Statuses' = [Statuses EXCEPT ![r] = entry.status]
      BY <1>0, <3>1, <3>2, LocalMapping
    <3>4. CASE entry.status = "FINISHED"
      BY <1>2, <3>3, <3>4, Abstraction
    <3>5. CASE entry.status = "CANCELED" /\ Statuses[r] = "RUNNING"
      BY <1>2, <3>3, <3>5, Abstraction
    <3>6. CASE entry.status = "CANCELED" /\ Statuses[r] = "CANCELED"
      BY <1>0, <1>2, <3>2, <3>6, LocalMapping, StandingStill
    <3> QED  BY <1>7, <2>2, <3>3, <3>4, <3>5, <3>6
  <2>3. CASE ~InTable(op_id[r])  BY <1>3, <2>1, <2>3
  <2> QED  BY <2>2, <2>3
<1>8. CASE PublishResult(r)
  <2>1. InTable(op_id[r]) => /\ Finished(Entry(r), r) \in TaskInfo
                             /\ Finished(Entry(r), r).request = r
                             /\ Finished(Entry(r), r).output = Entry(r).output
                             /\ Finished(Entry(r), r).status = "FINISHED"
    BY OwnEntry, EntryTypes DEF Finished, TaskInfo
  <2> QED  BY <1>7, <1>8, <2>1 DEF PublishResult
<1>9. CASE ReportTermination(r)
  <2>1. InTable(op_id[r]) => /\ Terminated(Entry(r)) \in TaskInfo
                             /\ Terminated(Entry(r)).request = r
                             /\ Terminated(Entry(r)).output = Entry(r).output
                             /\ Terminated(Entry(r)).status = "CANCELED"
    BY OwnEntry, EntryTypes DEF Terminated, TaskInfo
  <2> QED  BY <1>7, <1>9, <2>1 DEF ReportTermination
<1> QED  BY <1>4, <1>5, <1>6, <1>8, <1>9 DEF RunTask

LEMMA CancelIsAbstract ==
  ASSUME Typed, Posted, Own, Fates, NEW r \in Request, Cancel(r)
  PROVE  AbstractStep
<1>1. /\ \A s \in Request \ {r} : Kept(s)
      /\ InTable(op_id[r]) /\ op_id[r] # None /\ Entry(r) \in TaskInfo
  BY CancelIsLocal, OwnEntry DEF StepIsLocal, Cancel
<1>2. /\ op_id' = op_id /\ handler' = handler /\ answer' = answer
      /\ Entry(r).status # "FINISHED"
      /\ op_id_to_task_info' = Put(op_id[r], Canceled(Entry(r)))
  BY DEF Cancel
<1>3. /\ Canceled(Entry(r)).request = Entry(r).request
      /\ Canceled(Entry(r)).status = "CANCELED"
  BY <1>1 DEF Canceled, TaskInfo
<1>4. InTable(op_id[r])' /\ Entry(r)' = Canceled(Entry(r))
  BY <1>1, <1>2, <1>3, TableTouched
<1>5. TaskStatus(r) = Entry(r).status /\ TaskStatus(r)' = "CANCELED"
  BY <1>1, <1>2, <1>3, <1>4, StatusOfEntry, StatusAfter
<1>6. Told' = Told  BY <1>1, <1>2, LocalMapping
<1>7. Entry(r).status \in {"RUNNING", "CANCELED"}
  BY <1>1, <1>2 DEF TaskInfo, Status
<1>8. CASE Entry(r).status = "RUNNING"
  BY <1>1, <1>5, <1>6, <1>8, LocalMapping, Abstraction
<1>9. CASE Entry(r).status = "CANCELED"
  BY <1>1, <1>5, <1>6, <1>9, LocalMapping, StandingStill
<1> QED  BY <1>7, <1>8, <1>9

LEMMA PingIsAbstract ==
  ASSUME Typed, Posted, Own, Fates, NEW r \in Request, Ping(r)
  PROVE  AbstractStep
<1> DEFINE entry == Pinged(Entry(r))
<1>1. /\ \A s \in Request \ {r} : Kept(s)
      /\ InTable(op_id[r]) /\ op_id[r] # None /\ Entry(r) \in TaskInfo
  BY PingIsLocal, OwnEntry DEF StepIsLocal, Ping
<1>2. /\ op_id' = op_id /\ handler' = handler
      /\ answer'[r].status = entry.status
      /\ op_id_to_task_info' = IF IsFinal(entry.status) THEN Without({op_id[r]})
                                                        ELSE Put(op_id[r], entry)
  BY DEF Ping, Typed
<1>3. /\ entry.request = Entry(r).request
      /\ entry.status \in {Entry(r).status, "CANCELED"}
  BY <1>1, PingedEntry
<1> HIDE DEF entry
<1>4. TaskStatus(r) = Entry(r).status /\ Entry(r).status \in Status
  BY <1>1, StatusOfEntry DEF TaskInfo
<1>5. TaskStatus(r)' = IF entry.status = "RUNNING" THEN entry.status ELSE "forgotten"
  <2>1. CASE IsFinal(entry.status)
    <3>1. op_id_to_task_info' = Without({op_id[r]})  BY <1>2, <2>1
    <3>2. ~InTable(op_id[r])'  BY <1>2, <3>1, TableErased
    <3> QED  BY <1>1, <1>2, <2>1, <3>2, StatusAfter DEF IsFinal
  <2>2. CASE ~IsFinal(entry.status)
    <3>1. op_id_to_task_info' = Put(op_id[r], entry)  BY <1>2, <2>2
    <3>2. InTable(op_id[r])' /\ Entry(r)' = entry
      BY <1>1, <1>2, <1>3, <3>1, TableTouched
    <3> QED  BY <1>1, <1>2, <2>2, <3>2, StatusAfter DEF IsFinal
  <2> QED  BY <2>1, <2>2
<1>6. /\ Statuses[r] = Entry(r).status
      /\ Statuses' = [Statuses EXCEPT ![r] = IF entry.status = "RUNNING" THEN entry.status
                                             ELSE "forgotten"]
      /\ Told' = [Told EXCEPT ![r] = entry.status]
  BY <1>1, <1>2, <1>4, <1>5, LocalMapping
<1> QED  BY <1>3, <1>4, <1>6, Abstraction

LEMMA SweepIsAbstract ==
  ASSUME Typed, Posted, Own, Fates, Sweep
  PROVE  AbstractStep
<1> DEFINE S == {s \in Request : TaskStatus(s)' # TaskStatus(s)}
<1>1. /\ \A s \in Request : SameRequest(s)
      /\ \A s \in Request : InTable(op_id[s])' => InTable(op_id[s]) /\ SameEntry(s)
  BY SweptTable
<1>2. ASSUME NEW s \in S PROVE TaskStatus(s)' = "forgotten" /\ TaskStatus(s) \in Status
  <2>0. s \in Request /\ TaskStatus(s)' # TaskStatus(s)  OBVIOUS
  <2>1. op_id'[s] = op_id[s]  BY <1>1, <2>0 DEF SameRequest
  <2>2. op_id[s] # None  BY <2>0, <2>1, StatusOfEntry, StatusAfter
  <2>3. ~InTable(op_id[s])'
    <3>1. InTable(op_id[s])' => TaskStatus(s)' = TaskStatus(s)
      BY <1>1, <2>0, <2>1, <2>2, StatusOfEntry, StatusAfter DEF SameEntry
    <3> QED  BY <2>0, <3>1
  <2>4. TaskStatus(s)' = "forgotten"  BY <2>0, <2>1, <2>2, <2>3, StatusAfter
  <2>5. InTable(op_id[s])  BY <2>0, <2>2, <2>4, StatusOfEntry
  <2>6. TaskStatus(s) \in Status
    BY <2>0, <2>2, <2>5, OwnEntry, StatusOfEntry DEF TaskInfo
  <2> QED  BY <2>4, <2>6
<1>3. Statuses' = [s \in Request |-> IF s \in S THEN "forgotten" ELSE Statuses[s]]
  BY <1>2 DEF Statuses
<1>4. Told' = Told
  BY <1>1 DEF SameRequest, Told
<1>5. S \subseteq {s \in Request : Statuses[s] \in Status}
  BY <1>2 DEF Statuses
<1>6. Lifecycle!Forget(S)
  <2> HIDE DEF S
  <2> QED  BY <1>3, <1>4, <1>5 DEF Lifecycle!Forget, Lifecycle!Remembered, Statuses, Told, Status
<1>7. S \in SUBSET Request  OBVIOUS
<1> QED  BY <1>6, <1>7 DEF AbstractStep, Lifecycle!Next

(***************************************************************************)
(* Refinement: for every number of clients the service is a TaskLifecycle  *)
(* of each task.  A task that was told or given up never comes back, a     *)
(* final status is told at most once, and a canceled one may still finish, *)
(* but never runs again.                                                   *)
(***************************************************************************)
THEOREM Implements == ASSUME FreshIds PROVE Spec => ImplementsLifecycle
<1>1. Init => Lifecycle!Init
  BY DEF Init, Lifecycle!Init, TaskStatus
<1>2. IInv /\ [Next]_vars => AbstractStep
  <2> SUFFICES ASSUME IInv, [Next]_vars PROVE AbstractStep  OBVIOUS
  <2>0. Typed /\ Posted /\ Own /\ Fates  BY DEF IInv
  <2>1. ASSUME NEW r \in Request, HandleTask(r) \/ RunTask(r) \/ Ping(r) \/ Cancel(r)
        PROVE  AbstractStep
    BY <2>0, <2>1, HandlerIsAbstract, WorkerIsAbstract, PingIsAbstract, CancelIsAbstract
  <2>2. ASSUME NEW id \in OpId, LimitPasses(id) PROVE AbstractStep
    <3>1. \A s \in Request : /\ TaskStatus(s)' = TaskStatus(s)
                             /\ answer'[s].status = answer[s].status
      BY <2>0, <2>2, LimitKeeps, KeptStatus
    <3> QED  BY <3>1, StandingStill DEF Statuses, Told
  <2>3. ASSUME UNCHANGED vars PROVE AbstractStep
    BY <2>3, StandingStill DEF vars, workerVars, clientVars, Statuses, Told, TaskStatus, InTable,
                               Entry
  <2> QED  BY <2>0, <2>1, <2>2, <2>3, SweepIsAbstract DEF Next
<1> QED  BY <1>1, <1>2, Invariant, PTL DEF Spec, ImplementsLifecycle, Lifecycle!Spec, AbstractStep
===============================================================================
