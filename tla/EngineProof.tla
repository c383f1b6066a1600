---------------------------- MODULE EngineProof ----------------------------
(***************************************************************************)
(* The run of core/src/engine.rs, for every workflow, every set of callers *)
(* and however often the process dies.                                     *)
(*                                                                         *)
(* 1. Types.  TypeOK alone is not inductive: a worker writes the status of *)
(* cur[p], a process goes on to ret[p], a step is counted down from        *)
(* left[p] and a master is written from mval[p].  LocalsOK says that these *)
(* locals hold what the location of the process makes of them.             *)
(*                                                                         *)
(* 2. An executor does not sleep through a change of the tasks: the        *)
(* wake-up is registered before the tasks are read, and whoever writes a   *)
(* task notifies.                                                          *)
(*                                                                         *)
(* 3. An executor does not start a task before the tasks its node depends  *)
(* on have been completed.  It queues what its snapshot makes runnable,    *)
(* and DepInv says what a snapshot shows: every task the workflow starts   *)
(* with - a dependency of which no task was saved yet would hold back too  *)
(* little - and Completed only what execute_task has completed.  The first *)
(* half is why Setup is needed: until the last initial task is saved,      *)
(* nobody reads the tasks.                                                 *)
(*                                                                         *)
(* 4. A Running task has an owner.  A task thread exists only once its     *)
(* call is done, so no thread's task is taken away, and the one process    *)
(* that works on a task leaves it only by writing how it ended.            *)
(*                                                                         *)
(* 5. A run on which no API call is made (Caller = {}) has one executor    *)
(* and nothing beside it.  Its snapshot is then the stored tasks when it   *)
(* decides; a master that does not show its children is about to be        *)
(* updated; and the matrix tasks are those of the state it recompiled for  *)
(* last, which is the state as it is when the run ends.                    *)
(***************************************************************************)
EXTENDS WorkflowEngine, FiniteSetTheorems, TLAPS

-----------------------------------------------------------------------------
(* What a process holds.                                                   *)

\* Where update_parent_matrix_master_for_task and its like return to.
ReturnPC == {"off", "branch", "check", "failed", "notify", "guard", "runNext",
             "save", "reread", "decide", "launch", "cancelMark"}

HasTask(p) ==
    pc[p] \in TaskPC \cup {"spawned"} \/ (pc[p] \in MasterPC /\ ret[p] \in TaskPC)

LocalsOK ==
    /\ ret \in [Proc -> ReturnPC]
    /\ \A p \in Worker : pc[p] \in {"step", "after"} => left[p] > 0
    /\ \A p \in Worker : HasTask(p) => cur[p] \in TaskId
    /\ \A c \in Call : pc[c] = "resumeMark" => cur[c] \in TaskId
    /\ \A p \in Proc : pc[p] = "masterWrite" => mval[p] # NoWrite

TypeInv == TypeOK /\ LocalsOK

USE DEF storeVars, notifyVars, masterVars, execVars, callVars

-----------------------------------------------------------------------------
(* Sets.                                                                   *)

\* A call never runs execute_task.
LEMMA CallsAreNotWorkers == Call \cap Worker = {}
  BY EngineAssumption DEF Call, Worker, Thread, CallOf, ThreadOf

\* The parent of a task is a node that a matrix is expanded from.
LEMMA ParentType == \A t \in TaskId : Parent(t) \subseteq Expanded
  BY DEF TaskId, InitialTasks, StaticTasks, DynamicTasks, Parent, Master, Child,
         Single

\* The parents of a set of tasks are such nodes.
LEMMA ParentsType == \A T \in SUBSET TaskId : ParentsOf(T) \subseteq Expanded
  BY ParentType DEF ParentsOf

\* A master is a task.
LEMMA MasterType == \A m \in Expanded : Master(m) \in TaskId
<1> SUFFICES ASSUME NEW m \in Expanded PROVE Master(m) \in InitialTasks
  BY DEF TaskId
<1>1. m \in Node BY SchedulerAssumption DEF Expanded
<1>2. Master(m) \in StaticTasks(m) BY DEF StaticTasks
<1> QED BY <1>1, <1>2 DEF InitialTasks

\* A master's status is computed to be a task status.
LEMMA MasterStatusType == \A S, m : MasterStatus(S, m) \in TaskStatus
  BY DEF MasterStatus, TaskStatus

-----------------------------------------------------------------------------
(* The operations of the state adapter.                                    *)

\* Marking a task keeps the store well typed.
LEMMA WriteType ==
    ASSUME status \in Snapshot, err \in [TaskId -> TaskError],
           NEW t,
           \/ MarkRunning(t) \/ MarkAwaitingTrigger(t) \/ MarkCanceled(t)
           \/ MarkFailed(t) \/ MarkCompleted(t)
    PROVE  /\ status' \in Snapshot
           /\ err' \in [TaskId -> TaskError]
           /\ woken' \in [Executor -> BOOLEAN]
<1>1. \A e \in TaskError : ErrorFields(e) \in [TaskId -> TaskError]
  BY DEF ErrorFields
<1>2. ASSUME NEW s \in TaskStatus, NEW f \in [TaskId -> TaskError],
             ApplyTaskFields({t}, s, f)
      PROVE  /\ status' \in Snapshot
             /\ err' \in [TaskId -> TaskError]
             /\ woken' \in [Executor -> BOOLEAN]
  BY <1>2 DEF ApplyTaskFields, Snapshot, Wake
<1>3. CASE MarkRunning(t) \/ MarkAwaitingTrigger(t)
  BY <1>1, <1>2, <1>3 DEF MarkRunning, MarkAwaitingTrigger, TaskStatus, TaskError
<1>4. CASE MarkCanceled(t) \/ MarkFailed(t)
  BY <1>1, <1>2, <1>4 DEF MarkCanceled, MarkFailed, TaskStatus, TaskError
<1>5. CASE MarkCompleted(t)
  BY <1>2, <1>5 DEF MarkCompleted, TaskStatus
<1> QED BY <1>3, <1>4, <1>5

\* Writing one status to a set of tasks keeps the store well typed.
LEMMA SetStatusType ==
    ASSUME status \in Snapshot, err \in [TaskId -> TaskError],
           NEW T, NEW s \in TaskStatus, SetStatus(T, s)
    PROVE  /\ status' \in Snapshot
           /\ err' \in [TaskId -> TaskError]
           /\ woken' \in [Executor -> BOOLEAN]
  BY DEF SetStatus, ApplyTaskFields, Snapshot, Wake

\* Writing the run's status keeps it well typed and wakes every executor.
LEMMA SetRunType ==
    ASSUME NEW s \in RunStatus, SetWorkflowStatus(s)
    PROVE  run' \in RunStatus /\ woken' \in [Executor -> BOOLEAN]
  BY DEF SetWorkflowStatus, Wake

\* notify_one stores a permit or notifies an executor.
LEMMA NotifyOneType ==
    ASSUME permit \in BOOLEAN, notified \subseteq Executor, NotifyOne
    PROVE  permit' \in BOOLEAN /\ notified' \subseteq Executor
  BY Zenon DEF NotifyOne, CompletionWaiters

-----------------------------------------------------------------------------
(* Moves of one process.                                                   *)

\* What a location that p has moved to asks of its locals.
Fits(p, l) ==
    /\ p \in Worker /\ l \in {"step", "after"} => left'[p] > 0
    /\ p \in Worker /\ l \in TaskPC \cup {"spawned"} => cur'[p] \in TaskId
    /\ p \in Call /\ l = "resumeMark" => cur'[p] \in TaskId

OthersKeep(p) ==
    /\ \A q \in Proc \ {p} : cur'[q] = cur[q]
    /\ \A q \in Worker \ {p} : left'[q] = left[q]

\* Every location a process returns to is a location.
LEMMA ReturnType == ReturnPC \subseteq PC \ (MasterPC \cup {"step", "after", "resumeMark", "spawned"})
  BY DEF ReturnPC, PC, MasterPC, TaskPC, ExecPC, ThreadPC, CallPC

\* A process that goes to a location its locals fit keeps the locals well typed.
LEMMA MoveType ==
    ASSUME TypeInv, NEW p \in Proc, NEW l \in PC \ MasterPC, Goto(p, l),
           UNCHANGED masterVars, OthersKeep(p), Fits(p, l)
    PROVE  pc' \in [Proc -> PC] /\ LocalsOK'
<1>1. pc' = [pc EXCEPT ![p] = l] /\ pc \in [Proc -> PC]
  BY DEF Goto, TypeInv, TypeOK
<1>2. ret' \in [Proc -> ReturnPC]
  BY DEF TypeInv, LocalsOK
<1>3. \A q \in Worker : pc'[q] \in {"step", "after"} => left'[q] > 0
  BY <1>1 DEF TypeInv, LocalsOK, OthersKeep, Fits, Proc
<1>4. \A q \in Worker : HasTask(q)' => cur'[q] \in TaskId
  BY <1>1 DEF TypeInv, LocalsOK, HasTask, OthersKeep, Fits, Proc
<1>5. \A c \in Call : pc'[c] = "resumeMark" => cur'[c] \in TaskId
  BY <1>1 DEF TypeInv, LocalsOK, OthersKeep, Fits, Proc
<1>6. \A q \in Proc : pc'[q] = "masterWrite" => mval'[q] # NoWrite
  BY <1>1 DEF TypeInv, LocalsOK, MasterPC
<1> QED BY <1>1, <1>2, <1>3, <1>4, <1>5, <1>6 DEF LocalsOK, HasTask

\* So does one that has masters to update first, if any.
LEMMA UpdateMastersType ==
    ASSUME TypeInv, NEW p \in Proc, NEW M \in SUBSET Expanded, NEW l \in ReturnPC,
           UpdateMasters(p, M, l), UNCHANGED mval, OthersKeep(p), Fits(p, l)
    PROVE  /\ pc' \in [Proc -> PC]
           /\ masters' \in [Proc -> SUBSET Expanded]
           /\ ret' \in [Proc -> PC]
           /\ LocalsOK'
<1>1. masters' \in [Proc -> SUBSET Expanded]
  BY DEF UpdateMasters, TypeInv, TypeOK
<1>2. CASE M = {}
  <2>1. Goto(p, l) /\ ret' = ret
    BY <1>2 DEF UpdateMasters
  <2>2. pc' = [pc EXCEPT ![p] = l] /\ pc \in [Proc -> PC] /\ l \in PC \ MasterPC
    BY <2>1, ReturnType DEF Goto, TypeInv, TypeOK
  <2>3. \A q \in Worker : pc'[q] \in {"step", "after"} => left'[q] > 0
    BY <2>2 DEF TypeInv, LocalsOK, OthersKeep, Fits, Proc
  <2>4. \A q \in Worker : HasTask(q)' => cur'[q] \in TaskId
    BY <2>1, <2>2 DEF TypeInv, LocalsOK, HasTask, OthersKeep, Fits, Proc
  <2>5. \A c \in Call : pc'[c] = "resumeMark" => cur'[c] \in TaskId
    BY <2>2 DEF TypeInv, LocalsOK, OthersKeep, Fits, Proc
  <2>6. \A q \in Proc : pc'[q] = "masterWrite" => mval'[q] # NoWrite
    BY <2>2 DEF TypeInv, LocalsOK, MasterPC
  <2> QED
    BY <1>1, <2>1, <2>2, <2>3, <2>4, <2>5, <2>6 DEF TypeInv, TypeOK, LocalsOK, HasTask
<1>3. CASE M # {}
  <2>1. /\ pc' = [pc EXCEPT ![p] = "masterRead"] /\ pc \in [Proc -> PC]
        /\ ret' = [ret EXCEPT ![p] = l]
    BY <1>3 DEF UpdateMasters, Goto, TypeInv, TypeOK
  <2>2. pc' \in [Proc -> PC]
    BY <2>1 DEF PC, MasterPC
  <2>3. ret' \in [Proc -> ReturnPC] /\ ret' \in [Proc -> PC]
    BY <2>1, ReturnType DEF TypeInv, TypeOK, LocalsOK
  <2>4. \A q \in Worker : pc'[q] \in {"step", "after"} => left'[q] > 0
    BY <2>1 DEF TypeInv, LocalsOK, OthersKeep, Proc
  <2>5. \A q \in Worker : HasTask(q)' => cur'[q] \in TaskId
    <3> SUFFICES ASSUME NEW q \in Worker, HasTask(q)' PROVE cur'[q] \in TaskId
      OBVIOUS
    <3>1. CASE q = p
      <4>1. pc'[q] = "masterRead" /\ ret'[q] = l
        BY <2>1, <3>1 DEF TypeInv, TypeOK
      <4>2. l \in TaskPC
        BY <4>1 DEF HasTask, TaskPC
      <4> QED BY <3>1, <4>2 DEF Fits
    <3>2. CASE q # p
      BY <2>1, <3>2 DEF TypeInv, TypeOK, LocalsOK, HasTask, OthersKeep, Proc
    <3> QED BY <3>1, <3>2
  <2>6. \A c \in Call : pc'[c] = "resumeMark" => cur'[c] \in TaskId
    BY <2>1 DEF TypeInv, LocalsOK, OthersKeep, Proc
  <2>7. \A q \in Proc : pc'[q] = "masterWrite" => mval'[q] # NoWrite
    BY <2>1 DEF TypeInv, LocalsOK
  <2> QED BY <1>1, <2>2, <2>3, <2>4, <2>5, <2>6, <2>7 DEF LocalsOK, HasTask
<1> QED BY <1>2, <1>3

\* A process at one of its task's locations has a task.
LEMMA TaskType ==
    ASSUME TypeInv, NEW p \in Worker, pc[p] \in TaskPC \cup {"spawned"}
    PROVE  cur[p] \in TaskId
  BY DEF TypeInv, LocalsOK, HasTask

\* Workers and calls are processes.
LEMMA ProcType ==
    /\ Executor \subseteq Worker /\ Thread \subseteq Worker
    /\ Worker \subseteq Proc /\ Call \subseteq Proc
  BY DEF Proc, Worker

-----------------------------------------------------------------------------
(* The update of a master.                                                 *)

\* A process that stays in the update or returns from it keeps the locals.
LEMMA MasterMoveType ==
    ASSUME TypeInv, NEW p \in Proc, pc[p] \in MasterPC,
           NEW l \in MasterPC \cup {ret[p]}, Goto(p, l),
           UNCHANGED <<cur, left, ret>>, \A q \in Proc \ {p} : mval'[q] = mval[q],
           l = "masterWrite" => mval'[p] # NoWrite
    PROVE  pc' \in [Proc -> PC] /\ LocalsOK'
<1>1. pc' = [pc EXCEPT ![p] = l] /\ pc \in [Proc -> PC] /\ ret[p] \in ReturnPC
  BY DEF Goto, TypeInv, TypeOK, LocalsOK
<1>2. pc' \in [Proc -> PC]
  BY <1>1, ReturnType DEF PC
<1>3. l \notin {"step", "after", "resumeMark", "spawned"}
  BY <1>1, ReturnType DEF MasterPC
<1>4. \A q \in Worker : pc'[q] \in {"step", "after"} => left'[q] > 0
  BY <1>1, <1>3 DEF TypeInv, LocalsOK, Proc
<1>5. \A q \in Worker : HasTask(q)' => cur'[q] \in TaskId
  <2>1. \A q \in Worker : HasTask(q)' => HasTask(q)
    BY <1>1, <1>3, ProcType DEF HasTask, TaskPC, MasterPC
  <2> QED BY <2>1 DEF TypeInv, LocalsOK
<1>6. \A c \in Call : pc'[c] = "resumeMark" => cur'[c] \in TaskId
  BY <1>1, <1>3 DEF TypeInv, LocalsOK, Proc
<1>7. \A q \in Proc : pc'[q] = "masterWrite" => mval'[q] # NoWrite
  BY <1>1 DEF TypeInv, LocalsOK
<1> QED BY <1>2, <1>4, <1>5, <1>6, <1>7 DEF TypeInv, LocalsOK, HasTask

\* Reading a master leaves a status to write, or goes on.
LEMMA MasterReadType == ASSUME TypeInv, NEW p \in Proc, MasterRead(p) PROVE TypeInv'
<1>1. pc[p] \in MasterPC
  BY DEF MasterRead, MasterPC
<1>2. PICK m \in masters[p] :
        /\ masters' = [masters EXCEPT ![p] = @ \ {m}]
        /\ IF MasterWrites(status, m)
           THEN /\ mval' = [mval EXCEPT ![p] = <<m, MasterStatus(status, m)>>]
                /\ Goto(p, "masterWrite")
           ELSE /\ Goto(p, IF masters[p] = {m} THEN ret[p] ELSE "masterRead")
                /\ UNCHANGED mval
  BY DEF MasterRead
<1>3. <<m, MasterStatus(status, m)>> \in Expanded \X TaskStatus
  BY MasterStatusType DEF TypeInv, TypeOK
<1>4. masters' \in [Proc -> SUBSET Expanded]
  BY <1>2 DEF TypeInv, TypeOK
<1>5. mval' \in [Proc -> (Expanded \X TaskStatus) \cup {NoWrite}]
  BY <1>2, <1>3 DEF TypeInv, TypeOK
<1>6. pc' \in [Proc -> PC] /\ LocalsOK'
  <2>1. CASE MasterWrites(status, m)
    <3>1. mval'[p] # NoWrite /\ \A q \in Proc \ {p} : mval'[q] = mval[q]
      BY <1>2, <1>3, <2>1, EngineAssumption DEF TypeInv, TypeOK
    <3> QED BY <1>1, <1>2, <2>1, <3>1, MasterMoveType DEF MasterRead, MasterPC
  <2>2. CASE ~MasterWrites(status, m)
    <3>1. Goto(p, ret[p]) \/ Goto(p, "masterRead")
      BY <1>2, <2>2
    <3>2. ret[p] # "masterWrite"
      BY ReturnType DEF TypeInv, LocalsOK, MasterPC
    <3> QED BY <1>1, <1>2, <2>2, <3>1, <3>2, MasterMoveType DEF MasterRead, MasterPC
  <2> QED BY <2>1, <2>2
<1> QED BY <1>4, <1>5, <1>6 DEF TypeInv, TypeOK, MasterRead

\* The status that was left to write is a task status.
LEMMA MasterWriteType == ASSUME TypeInv, NEW p \in Proc, MasterWrite(p) PROVE TypeInv'
<1>1. pc[p] \in MasterPC
  BY DEF MasterWrite, MasterPC
<1>2. mval[p] \in Expanded \X TaskStatus
  BY DEF TypeInv, TypeOK, LocalsOK, MasterWrite
<1>3. /\ status' \in Snapshot
      /\ err' \in [TaskId -> TaskError]
      /\ woken' \in [Executor -> BOOLEAN]
  <2>1. mval[p][2] \in TaskStatus
    BY <1>2
  <2> QED BY <2>1, SetStatusType DEF TypeInv, TypeOK, MasterWrite
<1>4. mval' \in [Proc -> (Expanded \X TaskStatus) \cup {NoWrite}]
  BY DEF TypeInv, TypeOK, MasterWrite
<1>5. \A q \in Proc \ {p} : mval'[q] = mval[q]
  BY DEF TypeInv, TypeOK, MasterWrite
<1>6. Goto(p, ret[p]) \/ Goto(p, "masterRead")
  BY DEF MasterWrite
<1>7. ret[p] # "masterWrite"
  BY ReturnType DEF TypeInv, LocalsOK, MasterPC
<1>8. pc' \in [Proc -> PC] /\ LocalsOK'
  BY <1>1, <1>5, <1>6, <1>7, MasterMoveType DEF MasterWrite, MasterPC
<1> QED BY <1>3, <1>4, <1>8 DEF TypeInv, TypeOK, MasterWrite

-----------------------------------------------------------------------------
(* execute_task.                                                           *)

USE ProcType

\* A task begins with all its steps left.
LEMMA BeginTaskType == ASSUME TypeInv, NEW p \in Worker, BeginTask(p) PROVE TypeInv'
<1> DEFINE l == IF cur[p].node \in Managed THEN "branch" ELSE "check"
<1>1. cur[p] \in TaskId
  BY TaskType DEF BeginTask, TaskPC
<1>2. /\ status' \in Snapshot
      /\ err' \in [TaskId -> TaskError]
      /\ woken' \in [Executor -> BOOLEAN]
  BY WriteType DEF TypeInv, TypeOK, BeginTask
<1>3. left' \in [Worker -> 0..NumSteps]
  BY EngineAssumption DEF TypeInv, TypeOK, BeginTask
<1>4. OthersKeep(p) /\ Fits(p, l)
  BY <1>1, CallsAreNotWorkers DEF BeginTask, OthersKeep, Fits, TypeInv, TypeOK
<1>5. l \in ReturnPC /\ UpdateMasters(p, Parent(cur[p]), l)
  BY DEF BeginTask, UpdateParent, ReturnPC
<1>6. /\ pc' \in [Proc -> PC] /\ masters' \in [Proc -> SUBSET Expanded]
      /\ ret' \in [Proc -> PC] /\ LocalsOK'
  <2> HIDE DEF l
  <2> QED BY <1>1, <1>4, <1>5, ParentType, UpdateMastersType DEF BeginTask
<1> QED BY <1>2, <1>3, <1>6 DEF TypeInv, TypeOK, BeginTask

\* Preparing the branch ends the task or goes on to its steps.
LEMMA BeginBranchType == ASSUME TypeInv, NEW p \in Worker, BeginBranch(p) PROVE TypeInv'
<1>1. cur[p] \in TaskId
  BY TaskType DEF BeginBranch, TaskPC
<1>2. PICK l \in {"check", "failed"} : Goto(p, l)
  BY DEF BeginBranch
<1>3. OthersKeep(p) /\ Fits(p, l) /\ l \in PC \ MasterPC
  BY <1>1 DEF BeginBranch, OthersKeep, Fits, PC, TaskPC, MasterPC
<1>4. pc' \in [Proc -> PC] /\ LocalsOK'
  BY <1>2, <1>3, MoveType DEF BeginBranch
<1>5. out' \in [Worker -> {"Ok", "Fail", "Defer", "Error"}]
  BY DEF BeginBranch, TypeInv, TypeOK
<1> QED BY <1>4, <1>5 DEF TypeInv, TypeOK, BeginBranch

\* A step is begun only while one is left.
LEMMA CheckStepType == ASSUME TypeInv, NEW p \in Worker, CheckStep(p) PROVE TypeInv'
<1>1. cur[p] \in TaskId
  BY TaskType DEF CheckStep, TaskPC
<1>2. PICK l \in {AfterSteps(cur[p]), "step", "failed"} :
        Goto(p, l) /\ (l = "step" => left[p] > 0)
  BY DEF CheckStep, AfterSteps
<1>3. OthersKeep(p) /\ Fits(p, l) /\ l \in PC \ MasterPC
  BY <1>1, <1>2
  DEF CheckStep, OthersKeep, Fits, PC, TaskPC, MasterPC, AfterSteps
<1>4. pc' \in [Proc -> PC] /\ LocalsOK'
  BY <1>2, <1>3, MoveType DEF CheckStep
<1>5. out' \in [Worker -> {"Ok", "Fail", "Defer", "Error"}]
  BY DEF CheckStep, TypeInv, TypeOK
<1> QED BY <1>4, <1>5 DEF TypeInv, TypeOK, CheckStep

\* A skipped step is one of those left.
LEMMA SkipStepType == ASSUME TypeInv, NEW p \in Worker, SkipStep(p) PROVE TypeInv'
<1>1. cur[p] \in TaskId
  BY TaskType DEF SkipStep, TaskPC
<1>2. left[p] > 0
  BY DEF SkipStep, TypeInv, LocalsOK
<1>3. OthersKeep(p) /\ Fits(p, "check") /\ "check" \in PC \ MasterPC
  BY <1>1 DEF SkipStep, OthersKeep, Fits, PC, TaskPC, MasterPC, TypeInv, TypeOK
<1>4. pc' \in [Proc -> PC] /\ LocalsOK'
  BY <1>3, MoveType DEF SkipStep
<1>5. left' \in [Worker -> 0..NumSteps]
  <2>1. left[p] - 1 \in 0..NumSteps
    BY <1>2, EngineAssumption DEF TypeInv, TypeOK
  <2> QED BY <2>1 DEF SkipStep, TypeInv, TypeOK
<1> QED BY <1>4, <1>5 DEF TypeInv, TypeOK, SkipStep

\* A step ends in an outcome of its node, and writes a value of its own.
LEMMA RunStepType == ASSUME TypeInv, NEW p \in Worker, RunStep(p) PROVE TypeInv'
<1>1. cur[p] \in TaskId /\ left[p] > 0
  BY TaskType DEF RunStep, TaskPC, TypeInv, LocalsOK
<1>2. cur[p].node \in Node
  BY <1>1, SchedulerAssumption
  DEF TaskId, InitialTasks, StaticTasks, DynamicTasks, Master, Child, Single
<1>3. PICK o \in Outcomes[cur[p].node] \ {"Skip"} :
        /\ out' = [out EXCEPT ![p] = o]
        /\ \/ UNCHANGED <<state, woken>>
           \/ /\ o = "Ok"
              /\ \E w \in Outputs[cur[p].node] :
                    state' = [state EXCEPT ![w[1]] = w[2]]
              /\ Wake
  BY DEF RunStep
<1>4. out' \in [Worker -> {"Ok", "Fail", "Defer", "Error"}]
  BY <1>2, <1>3, EngineAssumption DEF TypeInv, TypeOK
<1>5. state' \in WorkflowState /\ woken' \in [Executor -> BOOLEAN]
  <2>1. CASE UNCHANGED <<state, woken>>
    BY <2>1 DEF TypeInv, TypeOK
  <2>2. CASE (\E w \in Outputs[cur[p].node] :
                 state' = [state EXCEPT ![w[1]] = w[2]]) /\ Wake
    <3>1. PICK w \in FromState \X StateValue : state' = [state EXCEPT ![w[1]] = w[2]]
      BY <1>2, <2>2, EngineAssumption
    <3> QED BY <2>2, <3>1 DEF TypeInv, TypeOK, WorkflowState, Wake
  <2> QED BY <1>3, <2>1, <2>2
<1>6. OthersKeep(p) /\ Fits(p, "after") /\ "after" \in PC \ MasterPC
  BY <1>1 DEF RunStep, OthersKeep, Fits, PC, TaskPC, MasterPC
<1>7. pc' \in [Proc -> PC] /\ LocalsOK'
  BY <1>6, MoveType DEF RunStep
<1> QED BY <1>4, <1>5, <1>7 DEF TypeInv, TypeOK, RunStep

\* A canceled task fails with an error.
LEMMA StepCanceledType == ASSUME TypeInv, NEW p \in Worker, StepCanceled(p) PROVE TypeInv'
<1>1. cur[p] \in TaskId
  BY TaskType DEF StepCanceled, TaskPC
<1>2. OthersKeep(p) /\ Fits(p, "failed") /\ "failed" \in PC \ MasterPC
  BY <1>1 DEF StepCanceled, OthersKeep, Fits, PC, TaskPC, MasterPC
<1>3. pc' \in [Proc -> PC] /\ LocalsOK'
  BY <1>2, MoveType DEF StepCanceled
<1> QED BY <1>3 DEF TypeInv, TypeOK, StepCanceled

\* A step that succeeded was one of those left.
LEMMA StepSucceededType == ASSUME TypeInv, NEW p \in Worker, StepSucceeded(p) PROVE TypeInv'
<1>1. cur[p] \in TaskId /\ left[p] > 0
  BY TaskType DEF StepSucceeded, TaskPC, TypeInv, LocalsOK
<1>2. PICK l \in {"check", "failed"} : Goto(p, l)
  BY DEF StepSucceeded
<1>3. OthersKeep(p) /\ Fits(p, l) /\ l \in PC \ MasterPC
  BY <1>1 DEF StepSucceeded, OthersKeep, Fits, PC, TaskPC, MasterPC, TypeInv, TypeOK
<1>4. pc' \in [Proc -> PC] /\ LocalsOK'
  BY <1>2, <1>3, MoveType DEF StepSucceeded
<1>5. out' \in [Worker -> {"Ok", "Fail", "Defer", "Error"}]
  BY DEF StepSucceeded, TypeInv, TypeOK
<1>6. left' \in [Worker -> 0..NumSteps]
  <2>1. left[p] - 1 \in 0..NumSteps
    BY <1>1, EngineAssumption DEF TypeInv, TypeOK
  <2> QED BY <2>1 DEF StepSucceeded, TypeInv, TypeOK
<1> QED BY <1>4, <1>5, <1>6 DEF TypeInv, TypeOK, StepSucceeded

\* A deferred step leaves the task to its thread.
LEMMA StepDeferredType == ASSUME TypeInv, NEW p \in Worker, StepDeferred(p) PROVE TypeInv'
<1>1. cur[p] \in TaskId
  BY TaskType DEF StepDeferred, TaskPC
<1>2. OthersKeep(p) /\ Fits(p, "failed") /\ "failed" \in PC \ MasterPC
  BY <1>1 DEF StepDeferred, OthersKeep, Fits, PC, TaskPC, MasterPC
<1>3. pc' \in [Proc -> PC] /\ LocalsOK'
  BY <1>2, MoveType DEF StepDeferred
<1> QED BY <1>3 DEF TypeInv, TypeOK, StepDeferred

\* A failed step fails a task.
LEMMA StepFailedType == ASSUME TypeInv, NEW p \in Worker, StepFailed(p) PROVE TypeInv'
<1>1. cur[p] \in TaskId
  BY TaskType DEF StepFailed, TaskPC
<1>2. /\ status' \in Snapshot
      /\ err' \in [TaskId -> TaskError]
      /\ woken' \in [Executor -> BOOLEAN]
  BY WriteType DEF TypeInv, TypeOK, StepFailed
<1>3. OthersKeep(p) /\ Fits(p, "failed") /\ "failed" \in ReturnPC
  BY <1>1, CallsAreNotWorkers DEF StepFailed, OthersKeep, Fits, ReturnPC
<1>4. /\ pc' \in [Proc -> PC] /\ masters' \in [Proc -> SUBSET Expanded]
      /\ ret' \in [Proc -> PC] /\ LocalsOK'
  BY <1>1, <1>3, ParentType, UpdateMastersType DEF StepFailed, UpdateParent
<1> QED BY <1>2, <1>4 DEF TypeInv, TypeOK, StepFailed

\* Finalizing a task ends it or goes on to complete it.
LEMMA FinalizeTaskType == ASSUME TypeInv, NEW p \in Worker, FinalizeTask(p) PROVE TypeInv'
<1>1. cur[p] \in TaskId
  BY TaskType DEF FinalizeTask, TaskPC
<1>2. PICK l \in {"complete", "failed"} : Goto(p, l)
  BY DEF FinalizeTask
<1>3. OthersKeep(p) /\ Fits(p, l) /\ l \in PC \ MasterPC
  BY <1>1 DEF FinalizeTask, OthersKeep, Fits, PC, TaskPC, MasterPC
<1>4. pc' \in [Proc -> PC] /\ LocalsOK'
  BY <1>2, <1>3, MoveType DEF FinalizeTask
<1>5. out' \in [Worker -> {"Ok", "Fail", "Defer", "Error"}]
  BY DEF FinalizeTask, TypeInv, TypeOK
<1> QED BY <1>4, <1>5 DEF TypeInv, TypeOK, FinalizeTask

\* What has been completed is a task.
LEMMA CompleteTaskType == ASSUME TypeInv, NEW p \in Worker, CompleteTask(p) PROVE TypeInv'
<1>1. cur[p] \in TaskId
  BY TaskType DEF CompleteTask, TaskPC
<1>2. /\ status' \in Snapshot
      /\ err' \in [TaskId -> TaskError]
      /\ woken' \in [Executor -> BOOLEAN]
  BY WriteType DEF TypeInv, TypeOK, CompleteTask
<1>3. OthersKeep(p) /\ Fits(p, "notify") /\ "notify" \in ReturnPC
  BY <1>1, CallsAreNotWorkers DEF CompleteTask, OthersKeep, Fits, ReturnPC
<1>4. /\ pc' \in [Proc -> PC] /\ masters' \in [Proc -> SUBSET Expanded]
      /\ ret' \in [Proc -> PC] /\ LocalsOK'
  BY <1>1, <1>3, ParentType, UpdateMastersType DEF CompleteTask, UpdateParent
<1>5. done' \subseteq TaskId
  BY <1>1 DEF TypeInv, TypeOK, CompleteTask
<1> QED BY <1>2, <1>4, <1>5 DEF TypeInv, TypeOK, CompleteTask

\* The end of a task is notified to an executor or stored.
LEMMA NotifyCompletionType ==
    ASSUME TypeInv, NEW p \in Worker, NotifyCompletion(p) PROVE TypeInv'
<1>1. PICK l \in {"runNext", "off"} : Goto(p, l)
  BY DEF NotifyCompletion
<1>2. OthersKeep(p) /\ Fits(p, l) /\ l \in PC \ MasterPC
  BY DEF NotifyCompletion, OthersKeep, Fits, PC, ExecPC, TaskPC, MasterPC
<1>3. pc' \in [Proc -> PC] /\ LocalsOK'
  BY <1>1, <1>2, MoveType DEF NotifyCompletion
<1>4. permit' \in BOOLEAN /\ notified' \subseteq Executor
  BY NotifyOneType DEF NotifyCompletion, TypeInv, TypeOK
<1>5. woken' \in [Executor -> BOOLEAN]
  BY DEF NotifyCompletion, Wake
<1> QED BY <1>3, <1>4, <1>5 DEF TypeInv, TypeOK, NotifyCompletion

-----------------------------------------------------------------------------
(* spawn_task_with_handle.                                                 *)

\* A thread that was spawned has a task to begin.
LEMMA ThreadStartType == ASSUME TypeInv, NEW p \in Thread, ThreadStart(p) PROVE TypeInv'
<1>1. cur[p] \in TaskId
  BY TaskType DEF ThreadStart
<1>2. OthersKeep(p) /\ Fits(p, "begin") /\ "begin" \in PC \ MasterPC
  BY <1>1 DEF ThreadStart, OthersKeep, Fits, PC, TaskPC, MasterPC
<1>3. pc' \in [Proc -> PC] /\ LocalsOK'
  BY <1>2, MoveType DEF ThreadStart
<1> QED BY <1>3 DEF TypeInv, TypeOK, ThreadStart

\* A process that drops its locals leaves those of the others alone.
LEMMA ForgetType ==
    ASSUME TypeInv, NEW p \in Worker, ForgetTask(p), UNCHANGED cur
    PROVE  /\ out' \in [Worker -> {"Ok", "Fail", "Defer", "Error"}]
           /\ left' \in [Worker -> 0..NumSteps]
           /\ OthersKeep(p)
           /\ \A l \in {"off", "guard", "runNext"} : Fits(p, l)
<1>1. /\ out' \in [Worker -> {"Ok", "Fail", "Defer", "Error"}]
      /\ left' \in [Worker -> 0..NumSteps]
  BY EngineAssumption DEF TypeInv, TypeOK, ForgetTask
<1>2. OthersKeep(p)
  BY DEF TypeInv, TypeOK, ForgetTask, OthersKeep
<1>3. \A l \in {"off", "guard", "runNext"} : Fits(p, l)
  BY DEF Fits, TaskPC
<1> QED BY <1>1, <1>2, <1>3

\* A thread that fails has a task to fail.
LEMMA ThreadFailsType == ASSUME TypeInv, NEW p \in Thread, ThreadFails(p) PROVE TypeInv'
<1>1. cur[p] \in TaskId
  BY TaskType DEF ThreadFails, TaskPC
<1>2. /\ status' \in Snapshot
      /\ err' \in [TaskId -> TaskError]
      /\ woken' \in [Executor -> BOOLEAN]
  BY WriteType DEF TypeInv, TypeOK, ThreadFails
<1>3. /\ pc' \in [Proc -> PC] /\ masters' \in [Proc -> SUBSET Expanded]
      /\ ret' \in [Proc -> PC] /\ LocalsOK'
  <2>1. "guard" \in ReturnPC
    BY DEF ReturnPC
  <2> QED
    BY <1>1, <2>1, ForgetType, ParentType, UpdateMastersType DEF ThreadFails, UpdateParent
<1> QED BY <1>2, <1>3, ForgetType DEF TypeInv, TypeOK, ThreadFails

\* A thread that defers has a task to hand back.
LEMMA ThreadDeferredType ==
    ASSUME TypeInv, NEW p \in Thread, ThreadDeferred(p) PROVE TypeInv'
<1>1. cur[p] \in TaskId
  BY TaskType DEF ThreadDeferred, TaskPC
<1>2. /\ status' \in Snapshot
      /\ err' \in [TaskId -> TaskError]
      /\ woken' \in [Executor -> BOOLEAN]
  BY WriteType DEF TypeInv, TypeOK, ThreadDeferred
<1>3. /\ pc' \in [Proc -> PC] /\ masters' \in [Proc -> SUBSET Expanded]
      /\ ret' \in [Proc -> PC] /\ LocalsOK'
  <2>1. "off" \in ReturnPC
    BY DEF ReturnPC
  <2> QED
    BY <1>1, <2>1, ForgetType, ParentType, UpdateMastersType DEF ThreadDeferred, UpdateParent
<1> QED BY <1>2, <1>3, ForgetType DEF TypeInv, TypeOK, ThreadDeferred

\* A thread with an error has a task to fail, if it is not settled.
LEMMA ThreadErrorType == ASSUME TypeInv, NEW p \in Thread, ThreadError(p) PROVE TypeInv'
<1>1. cur[p] \in TaskId
  BY TaskType DEF ThreadError, TaskPC
<1>2. ForgetTask(p) /\ UNCHANGED cur
  BY DEF ThreadError
<1>3. CASE Goto(p, "guard") /\ UNCHANGED <<status, err, woken, masters, ret>>
  <2>1. "guard" \in PC \ MasterPC
    BY DEF PC, ThreadPC, MasterPC
  <2>2. pc' \in [Proc -> PC] /\ LocalsOK'
    BY <1>2, <1>3, <2>1, ForgetType, MoveType DEF ThreadError
  <2> QED BY <1>2, <1>3, <2>2, ForgetType DEF TypeInv, TypeOK, ThreadError
<1>4. CASE MarkFailed(cur[p]) /\ UpdateParent(p, cur[p], "guard")
  <2>1. /\ status' \in Snapshot
        /\ err' \in [TaskId -> TaskError]
        /\ woken' \in [Executor -> BOOLEAN]
    BY <1>4, WriteType DEF TypeInv, TypeOK
  <2>2. "guard" \in ReturnPC
    BY DEF ReturnPC
  <2>3. /\ pc' \in [Proc -> PC] /\ masters' \in [Proc -> SUBSET Expanded]
        /\ ret' \in [Proc -> PC] /\ LocalsOK'
    BY <1>1, <1>2, <1>4, <2>2, ForgetType, ParentType, UpdateMastersType
    DEF ThreadError, UpdateParent
  <2> QED BY <1>2, <2>1, <2>3, ForgetType DEF TypeInv, TypeOK, ThreadError
<1> QED BY <1>3, <1>4 DEF ThreadError

\* The guard notifies an executor or stores a permit.
LEMMA CleanupGuardType == ASSUME TypeInv, NEW p \in Thread, CleanupGuard(p) PROVE TypeInv'
<1>1. OthersKeep(p) /\ Fits(p, "off") /\ "off" \in PC \ MasterPC
  BY DEF CleanupGuard, OthersKeep, Fits, PC, ThreadPC, TaskPC, MasterPC
<1>2. pc' \in [Proc -> PC] /\ LocalsOK'
  BY <1>1, MoveType DEF CleanupGuard
<1>3. permit' \in BOOLEAN /\ notified' \subseteq Executor
  BY NotifyOneType DEF CleanupGuard, TypeInv, TypeOK
<1> QED BY <1>2, <1>3 DEF TypeInv, TypeOK, CleanupGuard

-----------------------------------------------------------------------------
(* execute_workflow.                                                       *)

\* An executor sets the run Running.
LEMMA StartExecutorType ==
    ASSUME TypeInv, NEW p \in Executor, StartExecutor(p) PROVE TypeInv'
<1>1. run' \in RunStatus /\ woken' \in [Executor -> BOOLEAN]
  BY SetRunType DEF StartExecutor, RunStatus
<1>2. OthersKeep(p) /\ Fits(p, "create") /\ "create" \in PC \ MasterPC
  BY DEF StartExecutor, OthersKeep, Fits, PC, ExecPC, TaskPC, MasterPC
<1>3. pc' \in [Proc -> PC] /\ LocalsOK'
  BY <1>2, MoveType DEF StartExecutor
<1> QED BY <1>1, <1>3 DEF TypeInv, TypeOK, StartExecutor

\* Only initial tasks are left to save.
LEMMA CreateInitialTasksType ==
    ASSUME TypeInv, NEW p \in Executor, CreateInitialTasks(p) PROVE TypeInv'
<1>1. PICK l \in {"save", "loop"} : Goto(p, l)
  BY DEF CreateInitialTasks
<1>2. OthersKeep(p) /\ Fits(p, l) /\ l \in PC \ MasterPC
  BY DEF CreateInitialTasks, OthersKeep, Fits, PC, ExecPC, TaskPC, MasterPC
<1>3. pc' \in [Proc -> PC] /\ LocalsOK'
  BY <1>1, <1>2, MoveType DEF CreateInitialTasks
<1>4. todo' \in [Executor \cup Call -> SUBSET TaskId]
  BY DEF CreateInitialTasks, TypeInv, TypeOK, TaskId
<1> QED BY <1>3, <1>4 DEF TypeInv, TypeOK, CreateInitialTasks

\* A task is saved as Pending, and a master is updated.
LEMMA SaveTaskType == ASSUME TypeInv, NEW p \in Executor, SaveTask(p) PROVE TypeInv'
<1>0. OthersKeep(p) /\ Fits(p, "loop") /\ Fits(p, "save")
  BY DEF SaveTask, OthersKeep, Fits, TaskPC
<1>1. CASE todo[p] = {} /\ Goto(p, "loop") /\ UNCHANGED <<status, err, woken, todo, masters, ret>>
  <2>1. "loop" \in PC \ MasterPC
    BY DEF PC, ExecPC, MasterPC
  <2>2. pc' \in [Proc -> PC] /\ LocalsOK'
    BY <1>0, <1>1, <2>1, MoveType DEF SaveTask
  <2> QED BY <1>1, <2>2 DEF TypeInv, TypeOK, SaveTask
<1>2. ASSUME NEW t \in todo[p],
             SetStatus({t}, "Pending"), todo' = [todo EXCEPT ![p] = @ \ {t}],
             UpdateMasters(p, IF t.kind = "master" THEN {t.node} ELSE {}, "save")
      PROVE  TypeInv'
  <2>1. t \in TaskId
    BY DEF TypeInv, TypeOK
  <2>2. t.kind = "master" => t.node \in Expanded
    BY <2>1 DEF TaskId, InitialTasks, StaticTasks, DynamicTasks, Master, Child, Single
  <2>3. (IF t.kind = "master" THEN {t.node} ELSE {}) \in SUBSET Expanded
    BY <2>2
  <2>4. "save" \in ReturnPC /\ "Pending" \in TaskStatus
    BY DEF ReturnPC, TaskStatus
  <2>5. /\ pc' \in [Proc -> PC] /\ masters' \in [Proc -> SUBSET Expanded]
        /\ ret' \in [Proc -> PC] /\ LocalsOK'
    BY <1>0, <1>2, <2>3, <2>4, UpdateMastersType DEF SaveTask
  <2>6. /\ status' \in Snapshot
        /\ err' \in [TaskId -> TaskError]
        /\ woken' \in [Executor -> BOOLEAN]
    BY <1>2, <2>4, SetStatusType DEF TypeInv, TypeOK
  <2>7. todo' \in [Executor \cup Call -> SUBSET TaskId]
    BY <1>2 DEF TypeInv, TypeOK
  <2> QED BY <2>5, <2>6, <2>7 DEF TypeInv, TypeOK, SaveTask
<1> QED BY <1>1, <1>2 DEF SaveTask

\* A snapshot is what the store holds.
LEMMA ReadTasksType == ASSUME TypeInv, NEW p \in Executor, ReadTasks(p) PROVE TypeInv'
<1>1. OthersKeep(p) /\ Fits(p, "waitRunning") /\ "waitRunning" \in PC \ MasterPC
  BY DEF ReadTasks, OthersKeep, Fits, PC, ExecPC, TaskPC, MasterPC
<1>2. pc' \in [Proc -> PC] /\ LocalsOK'
  BY <1>1, MoveType DEF ReadTasks
<1>3. snap' \in [Executor -> Snapshot] /\ woken' \in [Executor -> BOOLEAN]
  BY DEF ReadTasks, TypeInv, TypeOK
<1> QED BY <1>2, <1>3 DEF TypeInv, TypeOK, ReadTasks

\* Looking for running tasks changes no type.
LEMMA CheckRunningType == ASSUME TypeInv, NEW p \in Executor, CheckRunning(p) PROVE TypeInv'
<1>1. PICK l \in {"awaitCompletion", "recompile"} : Goto(p, l)
  BY DEF CheckRunning
<1>2. OthersKeep(p) /\ Fits(p, l) /\ l \in PC \ MasterPC
  BY DEF CheckRunning, OthersKeep, Fits, PC, ExecPC, TaskPC, MasterPC
<1>3. pc' \in [Proc -> PC] /\ LocalsOK'
  BY <1>1, <1>2, MoveType DEF CheckRunning
<1> QED BY <1>3 DEF TypeInv, TypeOK, CheckRunning

\* A permit is consumed or a notification used.
LEMMA AwaitCompletionType ==
    ASSUME TypeInv, NEW p \in Executor, AwaitCompletion(p) PROVE TypeInv'
<1>1. OthersKeep(p) /\ Fits(p, "waitRunning") /\ "waitRunning" \in PC \ MasterPC
  BY DEF AwaitCompletion, OthersKeep, Fits, PC, ExecPC, TaskPC, MasterPC
<1>2. pc' \in [Proc -> PC] /\ LocalsOK'
  BY <1>1, MoveType DEF AwaitCompletion
<1> QED BY <1>2 DEF TypeInv, TypeOK, AwaitCompletion

\* Recompiled tasks are Pending or WontDo; masters are those of from_state.
LEMMA RecompileType == ASSUME TypeInv, NEW p \in Executor, Recompile(p) PROVE TypeInv'
<1>1. FromState \in SUBSET Expanded
  BY SchedulerAssumption DEF Recompile, Expanded
<1>2. OthersKeep(p) /\ Fits(p, "reread") /\ "reread" \in ReturnPC
  BY DEF Recompile, OthersKeep, Fits, TaskPC, ReturnPC
<1>3. /\ pc' \in [Proc -> PC] /\ masters' \in [Proc -> SUBSET Expanded]
      /\ ret' \in [Proc -> PC] /\ LocalsOK'
  BY <1>1, <1>2, UpdateMastersType DEF Recompile
<1>4. status' \in Snapshot
  BY DEF Recompile, TypeInv, TypeOK, Snapshot, TaskStatus
<1>5. woken' \in [Executor -> BOOLEAN]
  BY Zenon DEF Recompile, TypeInv, TypeOK, Wake
<1>6. lastState' \in [Executor -> WorkflowState \cup {NoState}]
  BY DEF Recompile, TypeInv, TypeOK
<1> QED BY <1>3, <1>4, <1>5, <1>6 DEF TypeInv, TypeOK, Recompile

\* The second snapshot is what the store holds.
LEMMA RereadTasksType == ASSUME TypeInv, NEW p \in Executor, RereadTasks(p) PROVE TypeInv'
<1>1. OthersKeep(p) /\ Fits(p, "schedule") /\ "schedule" \in PC \ MasterPC
  BY DEF RereadTasks, OthersKeep, Fits, PC, ExecPC, TaskPC, MasterPC
<1>2. pc' \in [Proc -> PC] /\ LocalsOK'
  BY <1>1, MoveType DEF RereadTasks
<1> QED BY <1>2 DEF TypeInv, TypeOK, RereadTasks

\* Nothing is recompiled.
LEMMA SkipRecompileType ==
    ASSUME TypeInv, NEW p \in Executor, SkipRecompile(p) PROVE TypeInv'
<1>1. OthersKeep(p) /\ Fits(p, "schedule") /\ "schedule" \in PC \ MasterPC
  BY DEF SkipRecompile, OthersKeep, Fits, PC, ExecPC, TaskPC, MasterPC
<1>2. pc' \in [Proc -> PC] /\ LocalsOK'
  BY <1>1, MoveType DEF SkipRecompile
<1> QED BY <1>2 DEF TypeInv, TypeOK, SkipRecompile

\* An executor that exits forgets what it has read.
LEMMA ExitType ==
    ASSUME TypeInv, NEW p \in Executor, ExitExecutor(p), UNCHANGED <<masterVars, cur, left>>
    PROVE  /\ pc' \in [Proc -> PC] /\ LocalsOK'
           /\ snap' \in [Executor -> Snapshot]
           /\ lastState' \in [Executor -> WorkflowState \cup {NoState}]
<1>1. OthersKeep(p) /\ Fits(p, "off") /\ "off" \in PC \ MasterPC
  BY DEF OthersKeep, Fits, PC, ExecPC, TaskPC, MasterPC
<1>2. pc' \in [Proc -> PC] /\ LocalsOK'
  BY <1>1, MoveType DEF ExitExecutor
<1>3. NoTasks \in Snapshot
  BY DEF NoTasks, Snapshot
<1> QED BY <1>2, <1>3 DEF ExitExecutor, TypeInv, TypeOK

\* A finished run is Failed or Completed.
LEMMA FinishWorkflowType ==
    ASSUME TypeInv, NEW p \in Executor, FinishWorkflow(p) PROVE TypeInv'
<1>1. run' \in RunStatus /\ woken' \in [Executor -> BOOLEAN]
  BY SetRunType DEF FinishWorkflow, RunStatus
<1> QED BY <1>1, ExitType DEF TypeInv, TypeOK, FinishWorkflow

\* Only tasks are queued.
LEMMA ScheduleAutoType == ASSUME TypeInv, NEW p \in Executor, ScheduleAuto(p) PROVE TypeInv'
<1>1. OthersKeep(p) /\ Fits(p, "decide") /\ "decide" \in PC \ MasterPC
  BY DEF ScheduleAuto, OthersKeep, Fits, PC, ExecPC, TaskPC, MasterPC
<1>2. pc' \in [Proc -> PC] /\ LocalsOK'
  BY <1>1, MoveType DEF ScheduleAuto
<1>3. queue' \in [Executor -> SUBSET TaskId]
  <2>1. RunnableTasks(snap[p]) \cup AutoTriggered(snap[p]) \in SUBSET TaskId
    BY DEF RunnableTasks, AutoTriggered, TasksToAwaitTrigger, Candidates, Exists
  <2> QED BY <2>1 DEF ScheduleAuto, TypeInv, TypeOK
<1> QED BY <1>2, <1>3 DEF TypeInv, TypeOK, ScheduleAuto

\* Only tasks are queued or made to wait for a trigger.
LEMMA ScheduleType == ASSUME TypeInv, NEW p \in Executor, Schedule(p) PROVE TypeInv'
<1> DEFINE waiting == TasksToAwaitTrigger(snap[p])
<1>1. waiting \in SUBSET TaskId /\ RunnableTasks(snap[p]) \in SUBSET TaskId
  BY DEF RunnableTasks, TasksToAwaitTrigger, Candidates, Exists
<1>2. queue' \in [Executor -> SUBSET TaskId]
  BY <1>1 DEF Schedule, TypeInv, TypeOK
<1>3. /\ status' \in Snapshot
      /\ err' \in [TaskId -> TaskError]
      /\ woken' \in [Executor -> BOOLEAN]
  <2>1. CASE UNCHANGED <<status, err, woken>>
    BY <2>1 DEF TypeInv, TypeOK
  <2>2. CASE SetStatus(waiting, "AwaitingTrigger")
    <3>1. "AwaitingTrigger" \in TaskStatus
      BY DEF TaskStatus
    <3> QED BY <2>2, <3>1, SetStatusType DEF TypeInv, TypeOK
  <2> QED BY <2>1, <2>2 DEF Schedule
<1>4. OthersKeep(p) /\ Fits(p, "decide") /\ "decide" \in ReturnPC
  BY DEF Schedule, OthersKeep, Fits, TaskPC, ReturnPC
<1>5. /\ pc' \in [Proc -> PC] /\ masters' \in [Proc -> SUBSET Expanded]
      /\ ret' \in [Proc -> PC] /\ LocalsOK'
  <2>1. UpdateMasters(p, ParentsOf(waiting), "decide")
    BY DEF Schedule, ParentsOf
  <2>2. ParentsOf(waiting) \in SUBSET Expanded
    BY <1>1, ParentsType
  <2> HIDE DEF waiting
  <2> QED BY <1>4, <2>1, <2>2, UpdateMastersType DEF Schedule
<1> QED BY <1>2, <1>3, <1>5 DEF TypeInv, TypeOK, Schedule

\* Deciding what to do next moves the executor only.
LEMMA DecideType == ASSUME TypeInv, NEW p \in Executor, Decide(p) PROVE TypeInv'
<1>1. PICK l \in {"runNext", "pause", "awaitWake"} : Goto(p, l)
  BY DEF Decide
<1>2. OthersKeep(p) /\ Fits(p, l) /\ l \in PC \ MasterPC
  BY DEF Decide, OthersKeep, Fits, PC, ExecPC, TaskPC, MasterPC
<1>3. pc' \in [Proc -> PC] /\ LocalsOK'
  BY <1>1, <1>2, MoveType DEF Decide
<1> QED BY <1>3 DEF TypeInv, TypeOK, Decide

\* A paused run awaits a trigger.
LEMMA PauseWorkflowType ==
    ASSUME TypeInv, NEW p \in Executor, PauseWorkflow(p) PROVE TypeInv'
<1>1. run' \in RunStatus /\ woken' \in [Executor -> BOOLEAN]
  BY SetRunType DEF PauseWorkflow, RunStatus
<1> QED BY <1>1, ExitType DEF TypeInv, TypeOK, PauseWorkflow

\* Waking up moves the executor only.
LEMMA AwaitWakeType == ASSUME TypeInv, NEW p \in Executor, AwaitWake(p) PROVE TypeInv'
<1>2. OthersKeep(p) /\ Fits(p, "loop") /\ "loop" \in PC \ MasterPC
  BY DEF AwaitWake, OthersKeep, Fits, PC, ExecPC, TaskPC, MasterPC
<1>3. pc' \in [Proc -> PC] /\ LocalsOK'
  BY <1>2, MoveType DEF AwaitWake
<1> QED BY <1>3 DEF TypeInv, TypeOK, AwaitWake

\* The task that is begun was queued.
LEMMA RunNextType == ASSUME TypeInv, NEW p \in Executor, RunNext(p) PROVE TypeInv'
<1>1. CASE Goto(p, "loop") /\ UNCHANGED <<cur, queue>>
  <2>1. OthersKeep(p) /\ Fits(p, "loop") /\ "loop" \in PC \ MasterPC
    BY <1>1 DEF RunNext, OthersKeep, Fits, PC, ExecPC, TaskPC, MasterPC
  <2>2. pc' \in [Proc -> PC] /\ LocalsOK'
    BY <1>1, <2>1, MoveType DEF RunNext
  <2> QED BY <1>1, <2>2 DEF TypeInv, TypeOK, RunNext
<1>2. ASSUME NEW t \in queue[p], cur' = [cur EXCEPT ![p] = t],
             queue' = [queue EXCEPT ![p] = @ \ {t}], Goto(p, "begin")
      PROVE  TypeInv'
  <2>1. t \in TaskId
    BY DEF TypeInv, TypeOK
  <2>2. /\ cur' \in [Proc -> TaskId \cup {NoTask}] /\ cur'[p] = t
        /\ queue' \in [Executor -> SUBSET TaskId]
    BY <1>2, <2>1 DEF TypeInv, TypeOK
  <2>3. OthersKeep(p)
    BY <1>2 DEF RunNext, OthersKeep, TypeInv, TypeOK
  <2>4. Fits(p, "begin") /\ "begin" \in PC \ MasterPC
    BY <2>1, <2>2, CallsAreNotWorkers DEF Fits, PC, TaskPC, MasterPC
  <2>5. pc' \in [Proc -> PC] /\ LocalsOK'
    BY <1>2, <2>3, <2>4, MoveType DEF RunNext
  <2> QED BY <2>2, <2>5 DEF TypeInv, TypeOK, RunNext
<1> QED BY <1>1, <1>2 DEF RunNext

\* An executor with an error has a task to fail or defer, if it is not settled.
LEMMA ExecutorErrorType ==
    ASSUME TypeInv, NEW p \in Executor, ExecutorError(p) PROVE TypeInv'
<1>1. cur[p] \in TaskId
  BY TaskType DEF ExecutorError, TaskPC
<1>2. ForgetTask(p) /\ UNCHANGED cur
  BY DEF ExecutorError
<1>3. CASE Goto(p, "runNext") /\ UNCHANGED <<status, err, woken, masters, ret>>
  <2>1. "runNext" \in PC \ MasterPC
    BY DEF PC, ExecPC, MasterPC
  <2>2. pc' \in [Proc -> PC] /\ LocalsOK'
    BY <1>2, <1>3, <2>1, ForgetType, MoveType DEF ExecutorError
  <2> QED BY <1>2, <1>3, <2>2, ForgetType DEF TypeInv, TypeOK, ExecutorError
<1>4. CASE /\ MarkAwaitingTrigger(cur[p]) \/ MarkFailed(cur[p])
           /\ UpdateParent(p, cur[p], "runNext")
  <2>1. /\ status' \in Snapshot
        /\ err' \in [TaskId -> TaskError]
        /\ woken' \in [Executor -> BOOLEAN]
    BY <1>4, WriteType DEF TypeInv, TypeOK
  <2>2. "runNext" \in ReturnPC
    BY DEF ReturnPC
  <2>3. /\ pc' \in [Proc -> PC] /\ masters' \in [Proc -> SUBSET Expanded]
        /\ ret' \in [Proc -> PC] /\ LocalsOK'
    BY <1>1, <1>2, <1>4, <2>2, ForgetType, ParentType, UpdateMastersType
    DEF ExecutorError, UpdateParent
  <2> QED BY <1>2, <2>1, <2>3, ForgetType DEF TypeInv, TypeOK, ExecutorError
<1> QED BY <1>3, <1>4 DEF ExecutorError

-----------------------------------------------------------------------------
(* API calls.                                                              *)

\* A call resumes tasks that exist.
LEMMA ResumeType == ASSUME TypeInv, NEW p \in Call, Resume(p) PROVE TypeInv'
<1>2. OthersKeep(p) /\ Fits(p, "resumeCheck") /\ "resumeCheck" \in PC \ MasterPC
  BY DEF Resume, OthersKeep, Fits, PC, CallPC, TaskPC, MasterPC
<1>3. pc' \in [Proc -> PC] /\ LocalsOK'
  BY <1>2, MoveType DEF Resume
<1>4. todo' \in [Executor \cup Call -> SUBSET TaskId]
  BY DEF Resume, TypeInv, TypeOK, Exists
<1> QED BY <1>3, <1>4 DEF TypeInv, TypeOK, Resume

\* A call that goes on to launch what it has triggered.
LEMMA ToLaunchType ==
    ASSUME TypeInv, NEW p \in Call, UpdateMasters(p, ParentsOf(batch[p]), "launch"),
           UNCHANGED <<cur, left, mval>>
    PROVE  /\ pc' \in [Proc -> PC] /\ masters' \in [Proc -> SUBSET Expanded]
           /\ ret' \in [Proc -> PC] /\ LocalsOK'
<1>1. ParentsOf(batch[p]) \in SUBSET Expanded
  BY ParentsType DEF TypeInv, TypeOK
<1>2. OthersKeep(p) /\ Fits(p, "launch") /\ "launch" \in ReturnPC
  BY DEF OthersKeep, Fits, TaskPC, ReturnPC
<1> QED BY <1>1, <1>2, UpdateMastersType

\* The task that a call goes on to mark was named by it.
LEMMA ResumeCheckType == ASSUME TypeInv, NEW p \in Call, ResumeCheck(p) PROVE TypeInv'
<1>1. ASSUME NEW t \in todo[p], todo' = [todo EXCEPT ![p] = @ \ {t}],
             IF Triggerable(t)
             THEN cur' = [cur EXCEPT ![p] = t] /\ Goto(p, "resumeMark")
             ELSE UNCHANGED <<cur, pc>>,
             UNCHANGED <<masters, ret>>
      PROVE  TypeInv'
  <2>1. t \in TaskId
    BY DEF TypeInv, TypeOK
  <2>2. todo' \in [Executor \cup Call -> SUBSET TaskId]
    BY <1>1 DEF TypeInv, TypeOK
  <2>3. CASE Triggerable(t)
    <3>1. cur' \in [Proc -> TaskId \cup {NoTask}] /\ cur'[p] = t
      BY <1>1, <2>1, <2>3 DEF TypeInv, TypeOK
    <3>2. OthersKeep(p)
      BY <1>1, <2>3 DEF ResumeCheck, OthersKeep, TypeInv, TypeOK
    <3>3. Fits(p, "resumeMark") /\ "resumeMark" \in PC \ MasterPC
      BY <2>1, <3>1, CallsAreNotWorkers DEF Fits, PC, CallPC, MasterPC
    <3>4. pc' \in [Proc -> PC] /\ LocalsOK'
      BY <1>1, <2>3, <3>2, <3>3, MoveType DEF ResumeCheck
    <3> QED BY <2>2, <3>1, <3>4, <1>1 DEF TypeInv, TypeOK, ResumeCheck
  <2>4. CASE ~Triggerable(t)
    BY <1>1, <2>2, <2>4 DEF TypeInv, TypeOK, LocalsOK, HasTask, ResumeCheck
  <2> QED BY <2>3, <2>4
<1>2. CASE FinishCall(p) /\ UNCHANGED <<todo, cur, masters, ret>>
  <2>1. OthersKeep(p) /\ Fits(p, "done") /\ "done" \in PC \ MasterPC
    BY <1>2 DEF ResumeCheck, OthersKeep, Fits, PC, CallPC, TaskPC, MasterPC
  <2>2. pc' \in [Proc -> PC] /\ LocalsOK'
    BY <1>2, <2>1, MoveType DEF ResumeCheck, FinishCall
  <2> QED BY <1>2, <2>2 DEF TypeInv, TypeOK, ResumeCheck
<1>3. CASE /\ UpdateMasters(p, ParentsOf(batch[p]), "launch")
           /\ UNCHANGED <<todo, cur>>
  BY <1>3, ToLaunchType DEF TypeInv, TypeOK, ResumeCheck
<1> QED BY <1>1, <1>2, <1>3 DEF ResumeCheck

\* The task that is marked joins the batch.
LEMMA ResumeMarkType == ASSUME TypeInv, NEW p \in Call, ResumeMark(p) PROVE TypeInv'
<1>1. cur[p] \in TaskId
  BY DEF ResumeMark, TypeInv, LocalsOK
<1>2. /\ status' \in Snapshot
      /\ err' \in [TaskId -> TaskError]
      /\ woken' \in [Executor -> BOOLEAN]
  BY WriteType DEF TypeInv, TypeOK, ResumeMark
<1>3. /\ batch' \in [Call -> SUBSET TaskId]
      /\ cur' \in [Proc -> TaskId \cup {NoTask}]
  BY <1>1 DEF TypeInv, TypeOK, ResumeMark
<1>4. OthersKeep(p)
  BY DEF ResumeMark, OthersKeep, TypeInv, TypeOK
<1>5. Fits(p, "resumeCheck") /\ "resumeCheck" \in PC \ MasterPC
  BY DEF Fits, PC, CallPC, TaskPC, MasterPC
<1>6. pc' \in [Proc -> PC] /\ LocalsOK'
  BY <1>4, <1>5, MoveType DEF ResumeMark
<1> QED BY <1>2, <1>3, <1>6 DEF TypeInv, TypeOK, ResumeMark

\* A thread is spawned for each task of the batch, with that task.
LEMMA LaunchType == ASSUME TypeInv, NEW p \in Caller, Launch(p) PROVE TypeInv'
<1> DEFINE c == CallOf(p)
           spawned == {ThreadOf(p, t) : t \in batch[c]}
<1>1. c \in Call
  BY DEF Call
<1>2. \A q \in spawned : q \in Thread /\ q[3] \in TaskId
  BY <1>1 DEF TypeInv, TypeOK, Thread, ThreadOf
<1>3. /\ pc' = [q \in Proc |-> IF q \in spawned THEN "spawned"
                            ELSE IF q = ExecutorOf(p) THEN "start"
                            ELSE IF q = c THEN "done" ELSE pc[q]]
      /\ cur' = [q \in Proc |-> IF q \in spawned THEN q[3] ELSE cur[q]]
      /\ batch' = [batch EXCEPT ![c] = {}]
  BY DEF Launch
<1>a. "spawned" \in PC /\ "start" \in PC /\ "done" \in PC
  BY DEF PC, ThreadPC, ExecPC, CallPC, TaskPC
<1> HIDE DEF spawned
<1>4. pc' \in [Proc -> PC]
  BY <1>3, <1>a DEF TypeInv, TypeOK
<1>5. cur' \in [Proc -> TaskId \cup {NoTask}]
  BY <1>2, <1>3 DEF TypeInv, TypeOK
<1>6. batch' \in [Call -> SUBSET TaskId]
  BY <1>1, <1>3 DEF TypeInv, TypeOK
<1>7. run' \in RunStatus /\ woken' \in [Executor -> BOOLEAN]
  BY DEF Launch, SetWorkflowStatus, Wake, RunStatus
<1>8. TypeOK'
  BY <1>4, <1>5, <1>6, <1>7
   DEF TypeInv, TypeOK, Launch, execVars, notifyVars, masterVars
<1>9. LocalsOK'
  <2>1. UNCHANGED <<left, ret, mval>>
    BY DEF Launch, masterVars
  <2>2. \A q \in Worker : pc'[q] \in {"step", "after"} => left'[q] > 0
    BY <1>3, <2>1 DEF TypeInv, LocalsOK, Proc
  <2>3. \A q \in Worker : HasTask(q)' => cur'[q] \in TaskId
    BY <1>2, <1>3, <2>1 DEF TypeInv, LocalsOK, HasTask, MasterPC, TaskPC, Proc
  <2>4. \A d \in Call : pc'[d] = "resumeMark" => cur'[d] \in TaskId
    BY <1>2, <1>3, <2>1 DEF TypeInv, LocalsOK, Proc
  <2>5. \A q \in Proc : pc'[q] = "masterWrite" => mval'[q] # NoWrite
    BY <1>3, <2>1 DEF TypeInv, LocalsOK
  <2> QED BY <2>1, <2>2, <2>3, <2>4, <2>5 DEF TypeInv, LocalsOK, HasTask
<1> QED BY <1>8, <1>9 DEF TypeInv

\* A call triggers tasks of the store.
LEMMA TriggerAllType == ASSUME TypeInv, NEW p \in Call, TriggerAll(p) PROVE TypeInv'
<1>1. PICK l \in {"triggerMark", "triggerDone", "done"} : Goto(p, l)
  BY DEF TriggerAll
<1>2. OthersKeep(p) /\ Fits(p, l) /\ l \in PC \ MasterPC
  BY DEF TriggerAll, OthersKeep, Fits, PC, CallPC, TaskPC, MasterPC
<1>3. pc' \in [Proc -> PC] /\ LocalsOK'
  BY <1>1, <1>2, MoveType DEF TriggerAll
<1>4. todo' \in [Executor \cup Call -> SUBSET TaskId]
  BY DEF TriggerAll, TypeInv, TypeOK
<1> QED BY <1>3, <1>4 DEF TypeInv, TypeOK, TriggerAll

\* A run without active tasks is Completed.
LEMMA TriggerDoneType == ASSUME TypeInv, NEW p \in Call, TriggerDone(p) PROVE TypeInv'
<1>2. OthersKeep(p) /\ Fits(p, "done") /\ "done" \in PC \ MasterPC
  BY DEF TriggerDone, OthersKeep, Fits, PC, CallPC, TaskPC, MasterPC
<1>3. pc' \in [Proc -> PC] /\ LocalsOK'
  BY <1>2, MoveType DEF TriggerDone, FinishCall
<1>4. run' \in RunStatus /\ woken' \in [Executor -> BOOLEAN]
  BY SetRunType DEF TriggerDone, RunStatus
<1> QED BY <1>3, <1>4 DEF TypeInv, TypeOK, TriggerDone

\* The task that is marked joins the batch.
LEMMA TriggerMarkType == ASSUME TypeInv, NEW p \in Call, TriggerMark(p) PROVE TypeInv'
<1>1. ASSUME NEW t \in todo[p], MarkRunning(t), todo' = [todo EXCEPT ![p] = @ \ {t}],
             batch' = [batch EXCEPT ![p] = @ \cup {t}], UNCHANGED <<pc, masters, ret>>
      PROVE  TypeInv'
  <2>1. t \in TaskId
    BY DEF TypeInv, TypeOK
  <2>2. /\ status' \in Snapshot
        /\ err' \in [TaskId -> TaskError]
        /\ woken' \in [Executor -> BOOLEAN]
    BY <1>1, WriteType DEF TypeInv, TypeOK
  <2>3. /\ todo' \in [Executor \cup Call -> SUBSET TaskId]
        /\ batch' \in [Call -> SUBSET TaskId]
    BY <1>1, <2>1 DEF TypeInv, TypeOK
  <2> QED BY <1>1, <2>2, <2>3 DEF TypeInv, TypeOK, LocalsOK, HasTask, TriggerMark
<1>2. CASE /\ UpdateMasters(p, ParentsOf(batch[p]), "launch")
           /\ UNCHANGED <<status, err, woken, todo, batch>>
  BY <1>2, ToLaunchType DEF TypeInv, TypeOK, TriggerMark
<1> QED BY <1>1, <1>2 DEF TriggerMark

\* Cancelling begins with a look at the run.
LEMMA CancelType == ASSUME TypeInv, NEW p \in Call, Cancel(p) PROVE TypeInv'
<1>1. PICK l \in {"cancelRead", "done"} : Goto(p, l)
  BY DEF Cancel
<1>2. OthersKeep(p) /\ Fits(p, l) /\ l \in PC \ MasterPC
  BY DEF Cancel, OthersKeep, Fits, PC, CallPC, TaskPC, MasterPC
<1>3. pc' \in [Proc -> PC] /\ LocalsOK'
  BY <1>1, <1>2, MoveType DEF Cancel
<1> QED BY <1>3 DEF TypeInv, TypeOK, Cancel

\* A call cancels tasks of the store.
LEMMA CancelReadType == ASSUME TypeInv, NEW p \in Call, CancelRead(p) PROVE TypeInv'
<1>2. OthersKeep(p) /\ Fits(p, "cancelMark") /\ "cancelMark" \in PC \ MasterPC
  BY DEF CancelRead, OthersKeep, Fits, PC, CallPC, TaskPC, MasterPC
<1>3. pc' \in [Proc -> PC] /\ LocalsOK'
  BY <1>2, MoveType DEF CancelRead
<1>4. todo' \in [Executor \cup Call -> SUBSET TaskId]
  BY DEF CancelRead, TypeInv, TypeOK
<1> QED BY <1>3, <1>4 DEF TypeInv, TypeOK, CancelRead

\* A canceled task is a Failed one, and its master is updated.
LEMMA CancelMarkType == ASSUME TypeInv, NEW p \in Call, CancelMark(p) PROVE TypeInv'
<1>0. OthersKeep(p) /\ Fits(p, "cancelMark") /\ Fits(p, "cancelRun")
  BY DEF CancelMark, OthersKeep, Fits, TaskPC
<1>1. ASSUME NEW t \in todo[p], MarkCanceled(t), todo' = [todo EXCEPT ![p] = @ \ {t}],
             UpdateParent(p, t, "cancelMark")
      PROVE  TypeInv'
  <2>1. t \in TaskId /\ Parent(t) \in SUBSET Expanded
    BY ParentType DEF TypeInv, TypeOK
  <2>2. /\ status' \in Snapshot
        /\ err' \in [TaskId -> TaskError]
        /\ woken' \in [Executor -> BOOLEAN]
    BY <1>1, WriteType DEF TypeInv, TypeOK
  <2>3. todo' \in [Executor \cup Call -> SUBSET TaskId]
    BY <1>1 DEF TypeInv, TypeOK
  <2>4. "cancelMark" \in ReturnPC
    BY DEF ReturnPC
  <2>5. /\ pc' \in [Proc -> PC] /\ masters' \in [Proc -> SUBSET Expanded]
        /\ ret' \in [Proc -> PC] /\ LocalsOK'
    BY <1>0, <1>1, <2>1, <2>4, UpdateMastersType DEF CancelMark, UpdateParent
  <2> QED BY <2>2, <2>3, <2>5 DEF TypeInv, TypeOK, CancelMark
<1>2. CASE /\ Goto(p, "cancelRun")
           /\ UNCHANGED <<status, err, woken, todo, masters, ret>>
  <2>1. "cancelRun" \in PC \ MasterPC
    BY DEF PC, CallPC, MasterPC
  <2>2. pc' \in [Proc -> PC] /\ LocalsOK'
    BY <1>0, <1>2, <2>1, MoveType DEF CancelMark
  <2> QED BY <1>2, <2>2 DEF TypeInv, TypeOK, CancelMark
<1> QED BY <1>1, <1>2 DEF CancelMark

\* The run is Canceled.
LEMMA CancelRunType == ASSUME TypeInv, NEW p \in Call, CancelRun(p) PROVE TypeInv'
<1>2. OthersKeep(p) /\ Fits(p, "done") /\ "done" \in PC \ MasterPC
  BY DEF CancelRun, OthersKeep, Fits, PC, CallPC, TaskPC, MasterPC
<1>3. pc' \in [Proc -> PC] /\ LocalsOK'
  BY <1>2, MoveType DEF CancelRun, FinishCall
<1>4. run' \in RunStatus /\ woken' \in [Executor -> BOOLEAN]
  BY SetRunType DEF CancelRun, RunStatus
<1> QED BY <1>3, <1>4 DEF TypeInv, TypeOK, CancelRun

-----------------------------------------------------------------------------

\* After a crash every process is off and has nothing.
LEMMA CrashType == ASSUME TypeInv, Crash PROVE TypeInv'
<1>1. pc' \in [Proc -> PC]
  BY DEF Crash, PC, ThreadPC, CallPC
<1>2. snap' \in [Executor -> Snapshot]
  BY DEF Crash, NoTasks, Snapshot
<1>3. ret' \in [Proc -> ReturnPC] /\ ret' \in [Proc -> PC]
  BY DEF Crash, ReturnPC, PC, ThreadPC
<1>4. left' \in [Worker -> 0..NumSteps]
  BY EngineAssumption DEF Crash
<1>5. TypeOK'
  BY <1>1, <1>2, <1>3, <1>4 DEF TypeInv, TypeOK, Crash
<1>6. LocalsOK'
  BY <1>3 DEF Crash, LocalsOK, HasTask, MasterPC, TaskPC, Proc, Worker
<1> QED BY <1>5, <1>6 DEF TypeInv

\* The initial state is well typed.
LEMMA TypeInit == Init => TypeInv
<1> SUFFICES ASSUME Init PROVE TypeInv
  OBVIOUS
<1>1. pc \in [Proc -> PC]
  BY DEF Init, PC, ThreadPC, ExecPC
<1>2. status \in Snapshot /\ snap \in [Executor -> Snapshot]
  BY DEF Init, NoTasks, Snapshot
<1>3. ret \in [Proc -> ReturnPC] /\ ret \in [Proc -> PC]
  BY DEF Init, ReturnPC, PC, ThreadPC
<1>4. left \in [Worker -> 0..NumSteps]
  BY EngineAssumption DEF Init
<1>5. state \in WorkflowState
  BY SchedulerAssumption DEF Init, WorkflowState, StateValue
<1>6. err \in [TaskId -> TaskError] /\ run \in RunStatus
  BY DEF Init, TaskError, RunStatus
<1>7. TypeOK
  BY <1>1, <1>2, <1>3, <1>4, <1>5, <1>6 DEF TypeOK, Init
<1>8. LocalsOK
  BY <1>3 DEF Init, LocalsOK, HasTask, MasterPC, TaskPC, Proc, Worker
<1> QED BY <1>7, <1>8 DEF TypeInv

\* Every step keeps the types: it is a step of one of the actions above.
LEMMA TypeStep == TypeInv /\ [Next]_vars => TypeInv'
<1> SUFFICES ASSUME TypeInv, [Next]_vars PROVE TypeInv'
  OBVIOUS
<1> USE DEF Proc, Worker
<1>1. ASSUME NEW p \in Proc, UpdateMaster(p) PROVE TypeInv'
  BY <1>1, MasterReadType, MasterWriteType DEF UpdateMaster
<1>2. ASSUME NEW p \in Worker, ExecuteTask(p) PROVE TypeInv'
  BY <1>2, BeginTaskType, BeginBranchType, CheckStepType, SkipStepType,
     RunStepType, StepCanceledType, StepSucceededType, StepDeferredType,
     StepFailedType, FinalizeTaskType, CompleteTaskType, NotifyCompletionType
     DEF ExecuteTask
<1>3. ASSUME NEW p \in Thread, TaskThread(p) PROVE TypeInv'
  BY <1>1, <1>2, <1>3, ThreadStartType, ThreadFailsType, ThreadDeferredType,
     ThreadErrorType, CleanupGuardType
     DEF TaskThread
<1>4. ASSUME NEW e \in Executor, ExecuteWorkflow(e) PROVE TypeInv'
  BY <1>1, <1>2, <1>4, StartExecutorType, CreateInitialTasksType, SaveTaskType,
     ReadTasksType, CheckRunningType, AwaitCompletionType, RecompileType,
     RereadTasksType, SkipRecompileType, FinishWorkflowType, ScheduleAutoType,
     ScheduleType, DecideType, PauseWorkflowType, AwaitWakeType, RunNextType,
     ExecutorErrorType
     DEF ExecuteWorkflow
<1>5. ASSUME NEW c \in Caller, StartCall(c) \/ RunningCall(c) PROVE TypeInv'
  <2>1. CallOf(c) \in Call
    BY DEF Call
  <2> QED
    BY <1>1, <1>5, <2>1, ResumeType, ResumeCheckType, ResumeMarkType,
       LaunchType,
       TriggerAllType, TriggerDoneType, TriggerMarkType, CancelType,
       CancelReadType, CancelMarkType, CancelRunType
       DEF StartCall, RunningCall
<1>6. CASE UNCHANGED vars
  BY <1>6 DEF vars, storeVars, notifyVars, procVars, masterVars, execVars,
     callVars, TypeInv, TypeOK, LocalsOK, HasTask
<1> QED
  BY <1>3, <1>4, <1>5, <1>6, CrashType DEF Next

\* Every reachable state is well typed, whatever the workflow, the callers and
\* the crashes; with it, what the program counters say about the locals.
THEOREM TypeInvariant == Spec => []TypeInv
<1>1. Init => TypeInv
  BY TypeInit
<1>2. TypeInv /\ [Next]_vars => TypeInv'
  BY TypeStep
<1> QED
  BY <1>1, <1>2, PTL DEF Spec

\* The type invariant that the runs check.
THEOREM TypeCorrect == Spec => []TypeOK
<1>1. TypeInv => TypeOK
  BY DEF TypeInv
<1> QED
  BY <1>1, TypeInvariant, PTL

-----------------------------------------------------------------------------
(* Wake-ups                                                                *)

\* From the moment executor e has read the tasks until it sleeps.
InLoop(e) ==
    \/ pc[e] \in {"waitRunning", "awaitCompletion", "recompile", "reread",
                  "schedule", "decide", "awaitWake"}
    \/ pc[e] \in MasterPC /\ ret[e] \in {"reread", "decide"}

\* While it has not been notified, what it has read is what is stored.
LoopInv == \A e \in Executor : InLoop(e) /\ ~woken[e] => snap[e] = status

\* An executor, a thread and a call are different processes.
LEMMA DistinctProcs ==
    Executor \cap Call = {} /\ Executor \cap Thread = {} /\ Thread \cap Call = {}
  BY EngineAssumption DEF Call, Thread, CallOf, ThreadOf

\* A step that changes a task notifies every executor.
LEMMA WritesNotify ==
    ASSUME TypeInv, [Next]_vars
    PROVE  status' = status \/ woken' = [e \in Executor |-> TRUE]
<1> DEFINE Goal == status' = status \/ woken' = [e \in Executor |-> TRUE]
<1>1. ASSUME NEW p \in Proc, MasterRead(p) PROVE Goal
  BY <1>1 DEF MasterRead, storeVars
<1>2. ASSUME NEW p \in Proc, MasterWrite(p) PROVE Goal
  BY <1>2 DEF MasterWrite, SetStatus, ApplyTaskFields, Wake
<1>3. ASSUME NEW p \in Worker, BeginTask(p) PROVE Goal
  BY <1>3 DEF BeginTask, MarkRunning, ApplyTaskFields, Wake
<1>4. ASSUME NEW p \in Worker, BeginBranch(p) PROVE Goal
  BY <1>4 DEF BeginBranch, storeVars
<1>5. ASSUME NEW p \in Worker, CheckStep(p) PROVE Goal
  BY <1>5 DEF CheckStep, storeVars
<1>6. ASSUME NEW p \in Worker, SkipStep(p) PROVE Goal
  BY <1>6 DEF SkipStep, storeVars
<1>7. ASSUME NEW p \in Worker, RunStep(p) PROVE Goal
  BY <1>7 DEF RunStep, storeVars
<1>8. ASSUME NEW p \in Worker, StepCanceled(p) PROVE Goal
  BY <1>8 DEF StepCanceled, storeVars
<1>9. ASSUME NEW p \in Worker, StepSucceeded(p) PROVE Goal
  BY <1>9 DEF StepSucceeded, storeVars
<1>10. ASSUME NEW p \in Worker, StepDeferred(p) PROVE Goal
  BY <1>10 DEF StepDeferred, storeVars
<1>11. ASSUME NEW p \in Worker, StepFailed(p) PROVE Goal
  BY <1>11 DEF StepFailed, MarkFailed, ApplyTaskFields, Wake
<1>12. ASSUME NEW p \in Worker, FinalizeTask(p) PROVE Goal
  BY <1>12 DEF FinalizeTask, storeVars
<1>13. ASSUME NEW p \in Worker, CompleteTask(p) PROVE Goal
  BY <1>13 DEF CompleteTask, MarkCompleted, ApplyTaskFields, Wake
<1>14. ASSUME NEW p \in Worker, NotifyCompletion(p) PROVE Goal
  BY <1>14 DEF NotifyCompletion, storeVars
<1>15. ASSUME NEW p \in Thread, ThreadStart(p) PROVE Goal
  BY <1>15 DEF ThreadStart, storeVars
<1>16. ASSUME NEW p \in Thread, ThreadFails(p) PROVE Goal
  BY <1>16 DEF ThreadFails, MarkFailed, ApplyTaskFields, Wake
<1>17. ASSUME NEW p \in Thread, ThreadDeferred(p) PROVE Goal
  BY <1>17 DEF ThreadDeferred, MarkAwaitingTrigger, ApplyTaskFields, Wake
<1>18. ASSUME NEW p \in Thread, ThreadError(p) PROVE Goal
  BY <1>18 DEF ThreadError, MarkFailed, ApplyTaskFields, Wake
<1>19. ASSUME NEW p \in Thread, CleanupGuard(p) PROVE Goal
  BY <1>19 DEF CleanupGuard, storeVars
<1>20. ASSUME NEW p \in Executor, StartExecutor(p) PROVE Goal
  BY <1>20 DEF StartExecutor, storeVars
<1>21. ASSUME NEW p \in Executor, CreateInitialTasks(p) PROVE Goal
  BY <1>21 DEF CreateInitialTasks, storeVars
<1>22. ASSUME NEW p \in Executor, SaveTask(p) PROVE Goal
  BY <1>22 DEF SaveTask, SetStatus, ApplyTaskFields, Wake
<1>23. ASSUME NEW p \in Executor, ReadTasks(p) PROVE Goal
  BY <1>23 DEF ReadTasks, storeVars
<1>24. ASSUME NEW p \in Executor, CheckRunning(p) PROVE Goal
  BY <1>24 DEF CheckRunning, storeVars
<1>25. ASSUME NEW p \in Executor, AwaitCompletion(p) PROVE Goal
  BY <1>25 DEF AwaitCompletion, storeVars
<1>26. ASSUME NEW p \in Executor, Recompile(p) PROVE Goal
  BY <1>26 DEF TypeInv, TypeOK, Snapshot, Recompile, Wake
<1>27. ASSUME NEW p \in Executor, RereadTasks(p) PROVE Goal
  BY <1>27 DEF RereadTasks, storeVars
<1>28. ASSUME NEW p \in Executor, SkipRecompile(p) PROVE Goal
  BY <1>28 DEF SkipRecompile, storeVars
<1>29. ASSUME NEW p \in Executor, FinishWorkflow(p) PROVE Goal
  BY <1>29 DEF FinishWorkflow, storeVars
<1>30. ASSUME NEW p \in Executor, ScheduleAuto(p) PROVE Goal
  BY <1>30 DEF ScheduleAuto, storeVars
<1>31. ASSUME NEW p \in Executor, Schedule(p) PROVE Goal
  BY <1>31 DEF Schedule, SetStatus, ApplyTaskFields, Wake
<1>32. ASSUME NEW p \in Executor, Decide(p) PROVE Goal
  BY <1>32 DEF Decide, storeVars
<1>33. ASSUME NEW p \in Executor, PauseWorkflow(p) PROVE Goal
  BY <1>33 DEF PauseWorkflow, storeVars
<1>34. ASSUME NEW p \in Executor, AwaitWake(p) PROVE Goal
  BY <1>34 DEF AwaitWake, storeVars
<1>35. ASSUME NEW p \in Executor, RunNext(p) PROVE Goal
  BY <1>35 DEF RunNext, storeVars
<1>36. ASSUME NEW p \in Executor, ExecutorError(p) PROVE Goal
  BY <1>36
   DEF ExecutorError, MarkFailed, MarkAwaitingTrigger, ApplyTaskFields, Wake
<1>37. ASSUME NEW p \in Call, Resume(p) PROVE Goal
  BY <1>37 DEF Resume, storeVars
<1>38. ASSUME NEW p \in Call, ResumeCheck(p) PROVE Goal
  BY <1>38 DEF ResumeCheck, storeVars
<1>39. ASSUME NEW p \in Call, ResumeMark(p) PROVE Goal
  BY <1>39 DEF ResumeMark, MarkRunning, ApplyTaskFields, Wake
<1>40. ASSUME NEW p \in Caller, Launch(p) PROVE Goal
  BY <1>40 DEF Launch, storeVars
<1>41. ASSUME NEW p \in Call, TriggerAll(p) PROVE Goal
  BY <1>41 DEF TriggerAll, storeVars
<1>42. ASSUME NEW p \in Call, TriggerDone(p) PROVE Goal
  BY <1>42 DEF TriggerDone, storeVars
<1>43. ASSUME NEW p \in Call, TriggerMark(p) PROVE Goal
  BY <1>43 DEF TriggerMark, MarkRunning, ApplyTaskFields, Wake
<1>44. ASSUME NEW p \in Call, Cancel(p) PROVE Goal
  BY <1>44 DEF Cancel, storeVars
<1>45. ASSUME NEW p \in Call, CancelRead(p) PROVE Goal
  BY <1>45 DEF CancelRead, storeVars
<1>46. ASSUME NEW p \in Call, CancelMark(p) PROVE Goal
  BY <1>46 DEF CancelMark, MarkCanceled, ApplyTaskFields, Wake
<1>47. ASSUME NEW p \in Call, CancelRun(p) PROVE Goal
  BY <1>47 DEF CancelRun, storeVars
<1>48. CASE Crash
  BY <1>48 DEF Crash
<1>49. CASE UNCHANGED vars
  BY <1>49 DEF vars, storeVars
<1>50. ASSUME NEW p \in Proc, UpdateMaster(p) PROVE Goal
  BY <1>50, <1>1, <1>2 DEF UpdateMaster
<1>51. ASSUME NEW p \in Worker, ExecuteTask(p) PROVE Goal
  BY <1>51, <1>3, <1>4, <1>5, <1>6, <1>7, <1>8, <1>9, <1>10, <1>11, <1>12,
     <1>13, <1>14
   DEF ExecuteTask
<1>52. ASSUME NEW p \in Thread, TaskThread(p) PROVE Goal
  BY <1>50, <1>51, <1>52, <1>15, <1>16, <1>17, <1>18, <1>19
   DEF TaskThread, Proc, Worker
<1>53. ASSUME NEW p \in Executor, ExecuteWorkflow(p) PROVE Goal
  BY <1>50, <1>51, <1>53, <1>20, <1>21, <1>22, <1>23, <1>24, <1>25, <1>26,
     <1>27, <1>28, <1>29, <1>30, <1>31, <1>32, <1>33, <1>34, <1>35, <1>36
   DEF ExecuteWorkflow, Proc, Worker
<1>54. ASSUME NEW c \in Caller, StartCall(c) \/ RunningCall(c) PROVE Goal
  BY <1>50, <1>54, <1>37, <1>38, <1>39, <1>40, <1>41, <1>42, <1>43, <1>44,
     <1>45, <1>46, <1>47
   DEF StartCall, RunningCall, Call, Proc
<1> QED BY <1>48, <1>49, <1>52, <1>53, <1>54 DEF Next


\* An executor gets to such a point, not notified, from another one with the
\* same snapshot, or by reading the tasks.
LEMMA LoopStep ==
    ASSUME TypeInv, [Next]_vars, NEW e \in Executor, InLoop(e)', ~woken'[e]
    PROVE  snap'[e] = status \/ (InLoop(e) /\ ~woken[e] /\ snap'[e] = snap[e])
<1> DEFINE Goal == snap'[e] = status \/ (InLoop(e) /\ ~woken[e] /\ snap'[e] = snap[e])
<1> USE DEF TypeInv, TypeOK, InLoop, MasterPC, Proc, Worker, Goto, storeVars,
            execVars, masterVars
<1>1. ASSUME NEW p \in Proc, MasterRead(p) PROVE Goal
  BY <1>1 DEF LocalsOK, ReturnPC, MasterRead, UpdateMasters
<1>2. ASSUME NEW p \in Proc, MasterWrite(p) PROVE Goal
  BY <1>2 DEF LocalsOK, ReturnPC, MasterWrite, UpdateMasters, SetStatus,
    ApplyTaskFields, Wake
<1>3. ASSUME NEW p \in Worker, BeginTask(p) PROVE Goal
  BY <1>3 DEF BeginTask, UpdateMasters, UpdateParent, MarkRunning, ApplyTaskFields,
    Wake
<1>4. ASSUME NEW p \in Worker, BeginBranch(p) PROVE Goal
  BY <1>4 DEF BeginBranch
<1>5. ASSUME NEW p \in Worker, CheckStep(p) PROVE Goal
  BY <1>5 DEF CheckStep, AfterSteps
<1>6. ASSUME NEW p \in Worker, SkipStep(p) PROVE Goal
  BY <1>6 DEF SkipStep
<1>7. ASSUME NEW p \in Worker, RunStep(p) PROVE Goal
  BY <1>7 DEF RunStep, Wake
<1>8. ASSUME NEW p \in Worker, StepCanceled(p) PROVE Goal
  BY <1>8 DEF StepCanceled
<1>9. ASSUME NEW p \in Worker, StepSucceeded(p) PROVE Goal
  BY <1>9 DEF StepSucceeded
<1>10. ASSUME NEW p \in Worker, StepDeferred(p) PROVE Goal
  BY <1>10 DEF StepDeferred
<1>11. ASSUME NEW p \in Worker, StepFailed(p) PROVE Goal
  BY <1>11 DEF StepFailed, UpdateMasters, UpdateParent, MarkFailed, ApplyTaskFields,
    Wake
<1>12. ASSUME NEW p \in Worker, FinalizeTask(p) PROVE Goal
  BY <1>12 DEF FinalizeTask
<1>13. ASSUME NEW p \in Worker, CompleteTask(p) PROVE Goal
  BY <1>13 DEF CompleteTask, UpdateMasters, UpdateParent, MarkCompleted,
    ApplyTaskFields, Wake
<1>14. ASSUME NEW p \in Worker, NotifyCompletion(p) PROVE Goal
  BY <1>14 DEF NotifyCompletion, Wake
<1>15. ASSUME NEW p \in Thread, ThreadStart(p) PROVE Goal
  BY <1>15, DistinctProcs DEF Thread, ThreadStart
<1>16. ASSUME NEW p \in Thread, ThreadFails(p) PROVE Goal
  BY <1>16, DistinctProcs DEF Thread, ThreadFails, UpdateMasters, UpdateParent,
    ForgetTask, MarkFailed, ApplyTaskFields, Wake
<1>17. ASSUME NEW p \in Thread, ThreadDeferred(p) PROVE Goal
  BY <1>17, DistinctProcs DEF Thread, ThreadDeferred, UpdateMasters, UpdateParent,
    ForgetTask, MarkAwaitingTrigger, ApplyTaskFields, Wake
<1>18. ASSUME NEW p \in Thread, ThreadError(p) PROVE Goal
  BY <1>18, DistinctProcs DEF Thread, ThreadError, UpdateMasters, UpdateParent,
    ForgetTask, MarkFailed, ApplyTaskFields, Wake
<1>19. ASSUME NEW p \in Thread, CleanupGuard(p) PROVE Goal
  BY <1>19, DistinctProcs DEF Thread, CleanupGuard
<1>20. ASSUME NEW p \in Executor, StartExecutor(p) PROVE Goal
  BY <1>20 DEF StartExecutor, SetWorkflowStatus, Wake
<1>21. ASSUME NEW p \in Executor, CreateInitialTasks(p) PROVE Goal
  BY <1>21 DEF CreateInitialTasks
<1>22. ASSUME NEW p \in Executor, SaveTask(p) PROVE Goal
  BY <1>22 DEF SaveTask, UpdateMasters, SetStatus, ApplyTaskFields, Wake
<1>23. ASSUME NEW p \in Executor, ReadTasks(p) PROVE Goal
  BY <1>23 DEF ReadTasks
<1>24. ASSUME NEW p \in Executor, CheckRunning(p) PROVE Goal
  BY <1>24 DEF CheckRunning
<1>25. ASSUME NEW p \in Executor, AwaitCompletion(p) PROVE Goal
  BY <1>25 DEF AwaitCompletion
<1>26. ASSUME NEW p \in Executor, Recompile(p) PROVE Goal
  BY <1>26 DEF Recompile, UpdateMasters, Wake
<1>27. ASSUME NEW p \in Executor, RereadTasks(p) PROVE Goal
  BY <1>27 DEF RereadTasks
<1>28. ASSUME NEW p \in Executor, SkipRecompile(p) PROVE Goal
  BY <1>28 DEF SkipRecompile
<1>29. ASSUME NEW p \in Executor, FinishWorkflow(p) PROVE Goal
  BY <1>29 DEF FinishWorkflow, ExitExecutor, SetWorkflowStatus, Wake
<1>30. ASSUME NEW p \in Executor, ScheduleAuto(p) PROVE Goal
  BY <1>30 DEF ScheduleAuto
<1>31. ASSUME NEW p \in Executor, Schedule(p) PROVE Goal
  BY <1>31 DEF Schedule, UpdateMasters, SetStatus, ApplyTaskFields, Wake
<1>32. ASSUME NEW p \in Executor, Decide(p) PROVE Goal
  BY <1>32 DEF Decide
<1>33. ASSUME NEW p \in Executor, PauseWorkflow(p) PROVE Goal
  BY <1>33 DEF PauseWorkflow, ExitExecutor, SetWorkflowStatus, Wake
<1>34. ASSUME NEW p \in Executor, AwaitWake(p) PROVE Goal
  BY <1>34 DEF AwaitWake
<1>35. ASSUME NEW p \in Executor, RunNext(p) PROVE Goal
  BY <1>35 DEF RunNext
<1>36. ASSUME NEW p \in Executor, ExecutorError(p) PROVE Goal
  BY <1>36 DEF ExecutorError, UpdateMasters, UpdateParent, ForgetTask, MarkFailed,
    MarkAwaitingTrigger, ApplyTaskFields, Wake
<1>37. ASSUME NEW p \in Call, Resume(p) PROVE Goal
  BY <1>37, DistinctProcs DEF Resume
<1>38. ASSUME NEW p \in Call, ResumeCheck(p) PROVE Goal
  BY <1>38, DistinctProcs DEF ResumeCheck, UpdateMasters, FinishCall
<1>39. ASSUME NEW p \in Call, ResumeMark(p) PROVE Goal
  BY <1>39, DistinctProcs DEF ResumeMark, MarkRunning, ApplyTaskFields, Wake
<1>40. ASSUME NEW p \in Caller, Launch(p) PROVE Goal
  BY <1>40, DistinctProcs DEF Launch, SetWorkflowStatus, Wake
<1>41. ASSUME NEW p \in Call, TriggerAll(p) PROVE Goal
  BY <1>41, DistinctProcs DEF TriggerAll
<1>42. ASSUME NEW p \in Call, TriggerDone(p) PROVE Goal
  BY <1>42, DistinctProcs DEF TriggerDone, FinishCall, SetWorkflowStatus, Wake
<1>43. ASSUME NEW p \in Call, TriggerMark(p) PROVE Goal
  BY <1>43, DistinctProcs DEF TriggerMark, UpdateMasters, MarkRunning,
    ApplyTaskFields, Wake
<1>44. ASSUME NEW p \in Call, Cancel(p) PROVE Goal
  BY <1>44, DistinctProcs DEF Cancel
<1>45. ASSUME NEW p \in Call, CancelRead(p) PROVE Goal
  BY <1>45, DistinctProcs DEF CancelRead
<1>46. ASSUME NEW p \in Call, CancelMark(p) PROVE Goal
  BY <1>46, DistinctProcs DEF CancelMark, UpdateMasters, UpdateParent, MarkCanceled,
    ApplyTaskFields, Wake
<1>47. ASSUME NEW p \in Call, CancelRun(p) PROVE Goal
  BY <1>47, DistinctProcs DEF CancelRun, FinishCall, SetWorkflowStatus, Wake
<1>48. CASE Crash
  BY <1>48 DEF Crash
<1>49. CASE UNCHANGED vars
  BY <1>49 DEF vars, procVars
<1>50. ASSUME NEW p \in Proc, UpdateMaster(p) PROVE Goal
  BY <1>50, <1>1, <1>2 DEF UpdateMaster
<1>51. ASSUME NEW p \in Worker, ExecuteTask(p) PROVE Goal
  BY <1>51, <1>3, <1>4, <1>5, <1>6, <1>7, <1>8, <1>9, <1>10, <1>11, <1>12,
     <1>13, <1>14
   DEF ExecuteTask
<1>52. ASSUME NEW p \in Thread, TaskThread(p) PROVE Goal
  BY <1>50, <1>51, <1>52, <1>15, <1>16, <1>17, <1>18, <1>19
   DEF TaskThread
<1>53. ASSUME NEW p \in Executor, ExecuteWorkflow(p) PROVE Goal
  BY <1>50, <1>51, <1>53, <1>20, <1>21, <1>22, <1>23, <1>24, <1>25, <1>26,
     <1>27, <1>28, <1>29, <1>30, <1>31, <1>32, <1>33, <1>34, <1>35, <1>36
   DEF ExecuteWorkflow
<1>54. ASSUME NEW c \in Caller, StartCall(c) \/ RunningCall(c) PROVE Goal
  BY <1>50, <1>54, <1>37, <1>38, <1>39, <1>40, <1>41, <1>42, <1>43, <1>44,
     <1>45, <1>46, <1>47
   DEF StartCall, RunningCall, Call
<1> QED BY <1>48, <1>49, <1>52, <1>53, <1>54 DEF Next

\* Every step keeps the invariant: who writes a task wakes, who reads it has it.
LEMMA LoopInvStep == TypeInv /\ LoopInv /\ [Next]_vars => LoopInv'
<1> SUFFICES ASSUME TypeInv, LoopInv, [Next]_vars,
                    NEW e \in Executor, InLoop(e)', ~woken'[e]
             PROVE  snap'[e] = status'
  BY DEF LoopInv
<1>1. status' = status
  BY WritesNotify
<1>2. snap'[e] = status \/ (InLoop(e) /\ ~woken[e] /\ snap'[e] = snap[e])
  BY LoopStep
<1> QED BY <1>1, <1>2 DEF LoopInv

\* No wake-up is lost: an executor that sleeps without having been notified has
\* decided on the tasks as they are stored now.
THEOREM NoLostWakeup == Spec => []SleepsOnCurrentTasks
<1>1. Init => LoopInv
  BY DEF Init, LoopInv, InLoop, MasterPC, Proc, Worker
<1>2. TypeInv /\ LoopInv /\ [Next]_vars => LoopInv'
  BY LoopInvStep
<1>3. LoopInv => SleepsOnCurrentTasks
  BY DEF LoopInv, InLoop, SleepsOnCurrentTasks
<1> QED
  BY <1>1, <1>2, <1>3, TypeInvariant, PTL DEF Spec

-----------------------------------------------------------------------------
(* Dependencies                                                            *)


\* The executor that run_workflow has started.
First == ExecutorOf(RunCall)

\* Every task the workflow starts with has been saved.
Saved(S) == \A t \in InitialTasks : S[t] # "Absent"

\* Until then nothing runs but that executor ...
SetupWorkers ==
    /\ \A p \in Worker \ {First} : pc[p] = "off"
    /\ pc[First] \in {"off", "start", "create", "save"} \cup MasterPC
    /\ pc[First] \in MasterPC => ret[First] = "save"
    /\ pc[First] = "masterWrite" => mval[First][2] \in {"Pending", "Completed"}
    /\ pc[First] \in {"start", "create"} => Exists(status) = {}
    /\ pc[First] \in {"save"} \cup MasterPC =>
          \A t \in InitialTasks : status[t] # "Absent" \/ t \in todo[First]

\* ... no task waits for a trigger or has ended ...
SetupTasks ==
    \A t \in TaskId :
        status[t] \in {"Absent", "Pending"} \/ (IsMaster(t) /\ status[t] = "Completed")

\* ... and so no call has anything to start or to cancel.
SetupCalls ==
    \A c \in Call :
        /\ pc[c] \in {"off", "resumeCheck", "triggerDone", "cancelRead", "cancelMark",
                      "cancelRun", "done"}
        /\ batch[c] = {}
        /\ pc[c] = "resumeCheck" => \A t \in todo[c] : ~IsMaster(t)
        /\ pc[c] = "cancelMark" => todo[c] = {}

Setup == SetupWorkers /\ SetupTasks /\ SetupCalls

\* A task that is Completed, now or in a snapshot, has been completed.
Completions(S) == \A t \in TaskId : S[t] = "Completed" /\ ~IsMaster(t) => t \in done

DepInv ==
    /\ StartsAfterDependencies
    /\ Saved(status) \/ Setup
    /\ Completions(status)
    /\ \A e \in Executor :
          Completions(snap[e]) /\ (snap[e] = NoTasks \/ Saved(snap[e]))

-----------------------------------------------------------------------------
(* What is Completed has been completed                                    *)

\* No task is forgotten, and only an execution completes one that is no master.
StatusMoves ==
    /\ done \subseteq done'
    /\ \A t \in TaskId :
          /\ status[t] # "Absent" => status'[t] # "Absent"
          /\ status'[t] = "Completed" => status[t] = "Completed" \/ IsMaster(t) \/ t \in done'

\* Whatever a step writes, the stored tasks move that way.
LEMMA StatusStep ==
    ASSUME TypeInv, [Next]_vars
    PROVE  StatusMoves
<1> USE DEF storeVars
<1>1. CASE UNCHANGED <<status, done>>
  BY <1>1 DEF StatusMoves
<1>2. ASSUME NEW T, NEW s \in TaskStatus \ {"Completed"}, NEW f,
             ApplyTaskFields(T, s, f), UNCHANGED done
      PROVE  StatusMoves
  BY <1>2 DEF StatusMoves, ApplyTaskFields, TaskStatus
<1>3. ASSUME NEW t \in TaskId,
             MarkRunning(t) \/ MarkAwaitingTrigger(t) \/ MarkCanceled(t) \/ MarkFailed(t),
             UNCHANGED done
      PROVE  StatusMoves
  BY <1>2, <1>3 DEF MarkRunning, MarkAwaitingTrigger, MarkCanceled, MarkFailed, TaskStatus
<1>4. ASSUME NEW p \in Proc, MasterRead(p) PROVE StatusMoves
  BY <1>1, <1>4 DEF MasterRead
<1>5. ASSUME NEW p \in Proc, MasterWrite(p) PROVE StatusMoves
  <2>1. /\ mval[p][1] \in Expanded /\ mval[p][2] \in TaskStatus
        /\ SetStatus({Master(mval[p][1])}, mval[p][2]) /\ UNCHANGED done
    BY <1>5 DEF MasterWrite, TypeInv, TypeOK, LocalsOK
  <2> QED
    BY <2>1 DEF StatusMoves, SetStatus, ApplyTaskFields, TaskStatus, IsMaster, Master
<1>6. ASSUME NEW p \in Worker, ExecuteTask(p) PROVE StatusMoves
  <2>1. CASE BeginTask(p) \/ StepFailed(p)
    <3>1. cur[p] \in TaskId
      BY <2>1, TaskType DEF BeginTask, StepFailed, TaskPC
    <3> QED  BY <1>3, <2>1, <3>1 DEF BeginTask, StepFailed
  <2>2. CASE CompleteTask(p)
    <3>1. status' = [t \in TaskId |-> IF t \in {cur[p]} THEN "Completed" ELSE status[t]]
      BY <2>2 DEF CompleteTask, MarkCompleted, ApplyTaskFields
    <3> QED  BY <2>2, <3>1 DEF StatusMoves, CompleteTask
  <2>3. CASE BeginBranch(p) \/ CheckStep(p) \/ SkipStep(p) \/ RunStep(p) \/ StepCanceled(p)
    BY <1>1, <2>3 DEF BeginBranch, CheckStep, SkipStep, RunStep, StepCanceled
  <2>4. CASE \/ StepSucceeded(p) \/ StepDeferred(p) \/ FinalizeTask(p)
             \/ NotifyCompletion(p)
    BY <1>1, <2>4 DEF StepSucceeded, StepDeferred, FinalizeTask, NotifyCompletion
  <2> QED  BY <1>6, <2>1, <2>2, <2>3, <2>4 DEF ExecuteTask
<1>7. ASSUME NEW p \in Thread, TaskThread(p) PROVE StatusMoves
  <2>0. p \in Proc /\ p \in Worker
    BY ProcType
  <2>1. CASE ThreadFails(p) \/ ThreadDeferred(p)
    <3>1. cur[p] \in TaskId
      BY <2>0, <2>1, TaskType DEF ThreadFails, ThreadDeferred, TaskPC
    <3> QED  BY <1>3, <2>1, <3>1 DEF ThreadFails, ThreadDeferred
  <2>2. CASE ThreadError(p)
    <3>1. cur[p] \in TaskId
      BY <2>0, <2>2, TaskType DEF ThreadError, TaskPC
    <3> QED  BY <1>1, <1>3, <2>2, <3>1 DEF ThreadError
  <2>3. CASE ThreadStart(p) \/ CleanupGuard(p)
    BY <1>1, <2>3 DEF ThreadStart, CleanupGuard
  <2> QED  BY <1>4, <1>5, <1>6, <1>7, <2>0, <2>1, <2>2, <2>3 DEF TaskThread, UpdateMaster
<1>8. ASSUME NEW e \in Executor, ExecuteWorkflow(e) PROVE StatusMoves
  <2>0. e \in Proc /\ e \in Worker
    BY ProcType
  <2>1. CASE SaveTask(e)
    BY <1>1, <1>2, <2>1 DEF SaveTask, SetStatus, TaskStatus
  <2>2. CASE Recompile(e)
    BY <2>2 DEF Recompile, StatusMoves
  <2>3. CASE Schedule(e)
    BY <1>1, <1>2, <2>3 DEF Schedule, SetStatus, TaskStatus
  <2>4. CASE ExecutorError(e)
    <3>1. cur[e] \in TaskId
      BY <2>0, <2>4, TaskType DEF ExecutorError, TaskPC
    <3> QED  BY <1>1, <1>3, <2>4, <3>1 DEF ExecutorError
  <2>5. CASE \/ StartExecutor(e) \/ CreateInitialTasks(e) \/ ReadTasks(e)
             \/ CheckRunning(e) \/ AwaitCompletion(e) \/ RereadTasks(e) \/ SkipRecompile(e)
    BY <1>1, <2>5 DEF StartExecutor, CreateInitialTasks, ReadTasks, CheckRunning,
       AwaitCompletion, RereadTasks, SkipRecompile
  <2>6. CASE \/ FinishWorkflow(e) \/ ScheduleAuto(e) \/ Decide(e)
             \/ PauseWorkflow(e) \/ AwaitWake(e) \/ RunNext(e)
    BY <1>1, <2>6 DEF FinishWorkflow, ScheduleAuto, Decide, PauseWorkflow, AwaitWake, RunNext
  <2> QED
    BY <1>4, <1>5, <1>6, <1>8, <2>0, <2>1, <2>2, <2>3, <2>4, <2>5, <2>6
       DEF ExecuteWorkflow, UpdateMaster
<1>9. ASSUME NEW k \in Caller, StartCall(k) \/ RunningCall(k) PROVE StatusMoves
  <2> DEFINE c == CallOf(k)
  <2>0. c \in Call /\ c \in Proc
    BY ProcType DEF Call
  <2>1. CASE ResumeMark(c)
    <3>1. cur[c] \in TaskId
      BY <2>0, <2>1 DEF ResumeMark, TypeInv, LocalsOK
    <3> QED  BY <1>3, <2>1, <3>1 DEF ResumeMark
  <2>2. CASE TriggerMark(c) \/ CancelMark(c)
    <3>1. \A t \in todo[c] : t \in TaskId
      BY <2>0 DEF TypeInv, TypeOK
    <3> QED  BY <1>1, <1>3, <2>2, <3>1 DEF TriggerMark, CancelMark
  <2>3. CASE \/ Resume(c) \/ TriggerAll(c) \/ Cancel(c) \/ ResumeCheck(c) \/ Launch(k)
             \/ TriggerDone(c) \/ CancelRead(c) \/ CancelRun(c)
    BY <1>1, <2>3 DEF Resume, TriggerAll, Cancel, ResumeCheck, Launch, TriggerDone,
       CancelRead, CancelRun
  <2> QED
    BY <1>4, <1>5, <1>9, <2>0, <2>1, <2>2, <2>3 DEF StartCall, RunningCall, UpdateMaster
<1> QED
  BY <1>1, <1>7, <1>8, <1>9 DEF Next, Crash, vars

-----------------------------------------------------------------------------
(* What an executor decides on                                             *)

\* Its snapshot is read, or forgotten; it queues what is runnable by the snapshot
\* and executes what it has queued.
Decides(e) ==
    /\ \/ snap'[e] \in {snap[e], NoTasks}
       \/ snap'[e] = status /\ pc[e] \in {"loop", "reread"}
    /\ \/ queue'[e] \subseteq queue[e]
       \/ queue'[e] \subseteq RunnableTasks(snap[e]) \cup AutoTriggered(snap[e])
    /\ cur'[e] \in {cur[e], NoTask} \cup queue[e]

\* No step gives an executor another snapshot, queue or task.
LEMMA DecidesStep ==
    ASSUME TypeInv, [Next]_vars, NEW e \in Executor
    PROVE  Decides(e)
<1>0. /\ snap \in [Executor -> Snapshot] /\ queue \in [Executor -> SUBSET TaskId]
      /\ cur \in [Proc -> TaskId \cup {NoTask}] /\ e \in Proc /\ e \in Worker
  BY ProcType DEF TypeInv, TypeOK
<1>1. CASE UNCHANGED <<snap, queue, cur>>
  BY <1>1 DEF Decides
<1>2. ASSUME NEW p \in Proc, UpdateMaster(p) PROVE Decides(e)
  BY <1>1, <1>2 DEF UpdateMaster, MasterRead, MasterWrite, execVars
<1>3. ASSUME NEW p \in Worker, ExecuteTask(p) PROVE Decides(e)
  <2>1. CASE BeginTask(p) \/ BeginBranch(p) \/ CheckStep(p) \/ SkipStep(p) \/ RunStep(p)
    BY <1>1, <2>1 DEF BeginTask, BeginBranch, CheckStep, SkipStep, RunStep, execVars
  <2>2. CASE StepCanceled(p) \/ StepSucceeded(p) \/ StepDeferred(p) \/ StepFailed(p)
    BY <1>1, <2>2 DEF StepCanceled, StepSucceeded, StepDeferred, StepFailed, execVars
  <2>3. CASE FinalizeTask(p) \/ CompleteTask(p) \/ NotifyCompletion(p)
    BY <1>1, <2>3 DEF FinalizeTask, CompleteTask, NotifyCompletion, execVars
  <2> QED  BY <1>3, <2>1, <2>2, <2>3 DEF ExecuteTask
<1>4. ASSUME NEW p \in Thread, TaskThread(p) PROVE Decides(e)
  <2>1. CASE ThreadStart(p) \/ ThreadFails(p) \/ ThreadDeferred(p)
    BY <1>1, <2>1 DEF ThreadStart, ThreadFails, ThreadDeferred, execVars
  <2>2. CASE ThreadError(p) \/ CleanupGuard(p)
    BY <1>1, <2>2 DEF ThreadError, CleanupGuard, execVars
  <2> QED  BY <1>2, <1>3, <1>4, <2>1, <2>2, ProcType DEF TaskThread
<1>5. ASSUME NEW f \in Executor, ExecuteWorkflow(f) PROVE Decides(e)
  <2>1. CASE \/ StartExecutor(f) \/ CreateInitialTasks(f) \/ SaveTask(f) \/ CheckRunning(f)
             \/ AwaitCompletion(f) \/ SkipRecompile(f) \/ Decide(f) \/ AwaitWake(f)
    BY <1>1, <2>1 DEF StartExecutor, CreateInitialTasks, SaveTask, CheckRunning,
       AwaitCompletion, SkipRecompile, Decide, AwaitWake, execVars
  <2>2. CASE Recompile(f) \/ ExecutorError(f)
    BY <1>1, <2>2 DEF Recompile, ExecutorError, execVars
  <2>3. CASE ReadTasks(f) \/ RereadTasks(f)
    BY <1>0, <2>3 DEF ReadTasks, RereadTasks, Decides
  <2>4. CASE FinishWorkflow(f) \/ PauseWorkflow(f)
    BY <1>0, <2>4 DEF FinishWorkflow, PauseWorkflow, ExitExecutor, Decides
  <2>5. CASE ScheduleAuto(f) \/ Schedule(f)
    BY <1>0, <2>5 DEF ScheduleAuto, Schedule, Decides
  <2>6. CASE RunNext(f)
    BY <1>0, <2>6, ProcType DEF RunNext, Decides
  <2> QED
    BY <1>2, <1>3, <1>5, <2>1, <2>2, <2>3, <2>4, <2>5, <2>6, ProcType DEF ExecuteWorkflow
<1>6. ASSUME NEW k \in Caller, StartCall(k) \/ RunningCall(k) PROVE Decides(e)
  <2> DEFINE c == CallOf(k)
  <2>0. c \in Call /\ c \in Proc /\ c # e
    BY DistinctProcs, ProcType DEF Call
  <2>1. CASE ResumeCheck(c) \/ ResumeMark(c)
    BY <1>0, <2>0, <2>1 DEF ResumeCheck, ResumeMark, execVars, Decides
  <2>2. CASE Launch(k)
    <3>1. e \notin Thread
      BY DistinctProcs
    <3>2. \A t \in batch[c] : t \in TaskId
      BY <2>0 DEF TypeInv, TypeOK
    <3>3. \A t \in batch[c] : ThreadOf(k, t) # e
      BY <3>1, <3>2 DEF Thread
    <3>4. cur'[e] = cur[e] /\ UNCHANGED <<snap, queue>>
      BY <1>0, <2>2, <3>3 DEF Launch, execVars
    <3> QED  BY <3>4 DEF Decides
  <2>3. CASE \/ Resume(c) \/ TriggerAll(c) \/ Cancel(c) \/ TriggerDone(c) \/ TriggerMark(c)
             \/ CancelRead(c) \/ CancelMark(c) \/ CancelRun(c)
    BY <1>1, <2>3 DEF Resume, TriggerAll, Cancel, TriggerDone, TriggerMark, CancelRead,
       CancelMark, CancelRun, execVars
  <2> QED  BY <1>2, <1>6, <2>0, <2>1, <2>2, <2>3 DEF StartCall, RunningCall
<1>7. CASE Crash
  BY <1>0, <1>7 DEF Crash, Decides
<1> QED
  BY <1>1, <1>4, <1>5, <1>6, <1>7 DEF Next, vars, execVars, procVars

-----------------------------------------------------------------------------
(* The initial tasks are saved before anything else happens                *)

\* The first executor is no call.
LEMMA FirstType == First \in Executor /\ First \in Worker /\ First \in Proc /\ First \notin Call
<1>1. First \in Executor
  BY EngineAssumption DEF First, ExecutorOf
<1> QED  BY <1>1, ProcType, DistinctProcs

\* Saving a task, or a step of the update of its master, goes on with the saving.
LEMMA SetupExecutor ==
    ASSUME TypeInv, Setup, ExecuteWorkflow(First)
    PROVE  Setup' \/ Saved(status')
<1> USE FirstType DEF storeVars
<1>0. /\ pc \in [Proc -> PC] /\ ret \in [Proc -> ReturnPC] /\ status \in Snapshot
      /\ todo \in [Executor \cup Call -> SUBSET TaskId]
      /\ mval \in [Proc -> (Expanded \X TaskStatus) \cup {NoWrite}]
      /\ Worker \subseteq Proc /\ Call \subseteq Proc
  BY ProcType DEF TypeInv, TypeOK, LocalsOK
<1>a. /\ pc[First] \in {"off", "start", "create", "save"} \cup MasterPC
      /\ pc[First] \in MasterPC => ret[First] = "save"
  BY DEF Setup, SetupWorkers
<1>1. ASSUME NEW l, Goto(First, l) PROVE \A p \in Proc \ {First} : pc'[p] = pc[p]
  BY <1>1, <1>0 DEF Goto
<1>2. ASSUME NEW l, Goto(First, l) PROVE pc'[First] = l
  BY <1>2, <1>0 DEF Goto
<1>3. ASSUME NEW l, Goto(First, l), batch' = batch,
             \A c \in Call : todo'[c] = todo[c]
      PROVE  SetupCalls'
  BY <1>0, <1>1, <1>3 DEF Setup, SetupCalls, IsMaster
<1>4. ASSUME NEW l, Goto(First, l)
      PROVE  \A p \in Worker \ {First} : pc'[p] = "off"
  BY <1>0, <1>1, <1>4 DEF Setup, SetupWorkers
<1>5. CASE StartExecutor(First)
  <2>1. SetupTasks' /\ SetupCalls'
    BY <1>3, <1>5 DEF StartExecutor, callVars, Setup, SetupTasks
  <2>2. SetupWorkers'
    BY <1>2, <1>4, <1>5 DEF StartExecutor, Setup, SetupWorkers, MasterPC, Exists
  <2> QED  BY <2>1, <2>2 DEF Setup
<1>6. CASE CreateInitialTasks(First)
  <2>0. Exists(status) = {}
    BY <1>6 DEF CreateInitialTasks, Setup, SetupWorkers
  <2>1. /\ todo' = [todo EXCEPT ![First] = InitialTasks] /\ Goto(First, "save")
        /\ UNCHANGED <<status, batch>>
    BY <1>6, <2>0 DEF CreateInitialTasks
  <2>2. SetupTasks' /\ SetupCalls'
    BY <1>0, <1>3, <2>1 DEF Setup, SetupTasks
  <2>3. SetupWorkers'
    BY <1>0, <1>2, <1>4, <2>1 DEF SetupWorkers, MasterPC
  <2> QED  BY <2>2, <2>3 DEF Setup
<1>7. CASE SaveTask(First)
  <2>1. CASE todo[First] = {} /\ UNCHANGED status
    BY <1>7, <2>1 DEF SaveTask, Setup, SetupWorkers, Saved
  <2>2. ASSUME NEW t \in todo[First], SetStatus({t}, "Pending"),
               todo' = [todo EXCEPT ![First] = @ \ {t}], batch' = batch,
               UpdateMasters(First, IF t.kind = "master" THEN {t.node} ELSE {}, "save")
        PROVE  Setup'
    <3>1. status' = [u \in TaskId |-> IF u \in {t} THEN "Pending" ELSE status[u]]
      BY <2>2 DEF SetStatus, ApplyTaskFields
    <3>2. PICK l \in {"save", "masterRead"} : Goto(First, l)
      BY <2>2 DEF UpdateMasters
    <3>3. l = "masterRead" => ret'[First] = "save"
      BY <1>0, <1>2, <2>2, <3>2 DEF UpdateMasters
    <3>4. SetupTasks'
      BY <3>1 DEF Setup, SetupTasks, IsMaster
    <3>5. SetupCalls'
      BY <1>0, <1>3, <2>2, <3>2
    <3>6. \A u \in InitialTasks : status'[u] # "Absent" \/ u \in todo'[First]
      BY <1>0, <1>7, <2>2, <3>1 DEF SaveTask, Setup, SetupWorkers, TaskId
    <3>7. SetupWorkers'
      BY <1>2, <1>4, <3>2, <3>3, <3>6 DEF SetupWorkers, MasterPC
    <3> QED  BY <3>4, <3>5, <3>7 DEF Setup
  <2> QED  BY <1>7, <2>1, <2>2 DEF SaveTask
<1>8. CASE MasterRead(First)
  <2>0. UNCHANGED <<status, todo, batch, ret>> /\ pc[First] = "masterRead"
    BY <1>8 DEF MasterRead, callVars
  <2>1. PICK m \in masters[First] :
           IF MasterWrites(status, m)
           THEN /\ mval' = [mval EXCEPT ![First] = <<m, MasterStatus(status, m)>>]
                /\ Goto(First, "masterWrite")
           ELSE /\ Goto(First, IF masters[First] = {m} THEN ret[First] ELSE "masterRead")
                /\ UNCHANGED mval
    BY <1>8 DEF MasterRead
  <2>2. MasterStatus(status, m) \in {"Pending", "Completed"}
    <3>1. \A t \in Children(status, m) : status[t] = "Pending"
      BY DEF Children, TasksOf, Exists, Setup, SetupTasks, IsMaster
    <3> QED  BY <3>1 DEF MasterStatus, SomeChild, AllTerminal
  <2>3. PICK l \in {"save"} \cup MasterPC :
           Goto(First, l) /\ (l = "masterWrite" => mval'[First][2] \in {"Pending", "Completed"})
    BY <1>0, <1>a, <2>0, <2>1, <2>2 DEF MasterPC
  <2>4. SetupTasks' /\ SetupCalls'
    BY <1>3, <2>0, <2>3 DEF Setup, SetupTasks
  <2>5. SetupWorkers'
    BY <1>2, <1>4, <2>0, <2>3 DEF Setup, SetupWorkers, MasterPC
  <2> QED  BY <2>4, <2>5 DEF Setup
<1>9. CASE MasterWrite(First)
  <2>0. /\ UNCHANGED <<todo, batch, ret>> /\ pc[First] = "masterWrite"
        /\ mval[First][2] \in {"Pending", "Completed"}
    BY <1>9 DEF MasterWrite, callVars, Setup, SetupWorkers
  <2>1. status' = [t \in TaskId |-> IF t \in {Master(mval[First][1])}
                                    THEN mval[First][2] ELSE status[t]]
    BY <1>9 DEF MasterWrite, SetStatus, ApplyTaskFields
  <2>2. PICK l \in {"save", "masterRead"} : Goto(First, l)
    BY <1>9, <1>a, <2>0 DEF MasterWrite, MasterPC
  <2>3. SetupTasks'
    BY <2>0, <2>1 DEF Setup, SetupTasks, IsMaster, Master
  <2>4. SetupCalls'
    BY <1>3, <2>0, <2>2
  <2>5. \A t \in InitialTasks : status'[t] # "Absent" \/ t \in todo'[First]
    BY <2>0, <2>1 DEF Setup, SetupWorkers, MasterPC, TaskId
  <2>6. SetupWorkers'
    BY <1>2, <1>4, <1>a, <2>0, <2>2, <2>5 DEF SetupWorkers, MasterPC
  <2> QED  BY <2>3, <2>4, <2>6 DEF Setup
<1> QED
  <2>1. ~ExecuteTask(First) /\ ~ExecutorError(First)
    BY <1>a DEF ExecuteTask, ExecutorError, MasterPC, BeginTask, BeginBranch, CheckStep,
       SkipStep, RunStep, StepCanceled, StepSucceeded, StepDeferred, StepFailed,
       FinalizeTask, CompleteTask, NotifyCompletion
  <2>2. /\ ~ReadTasks(First) /\ ~CheckRunning(First) /\ ~AwaitCompletion(First)
        /\ ~Recompile(First) /\ ~RereadTasks(First) /\ ~SkipRecompile(First)
    BY <1>a DEF MasterPC, ReadTasks, CheckRunning, AwaitCompletion, Recompile,
       RereadTasks, SkipRecompile
  <2>3. /\ ~FinishWorkflow(First) /\ ~ScheduleAuto(First) /\ ~Schedule(First)
        /\ ~Decide(First) /\ ~PauseWorkflow(First) /\ ~AwaitWake(First) /\ ~RunNext(First)
    BY <1>a DEF MasterPC, FinishWorkflow, ScheduleAuto, Schedule, Decide, PauseWorkflow,
       AwaitWake, RunNext
  <2> QED
    BY <1>5, <1>6, <1>7, <1>8, <1>9, <2>1, <2>2, <2>3 DEF ExecuteWorkflow, UpdateMaster

\* A call finds nothing to do.
LEMMA SetupCall ==
    ASSUME TypeInv, Setup, NEW k \in Caller, StartCall(k) \/ RunningCall(k)
    PROVE  Setup'
<1> USE FirstType DEF storeVars
<1> DEFINE c == CallOf(k)
<1>0. /\ pc \in [Proc -> PC] /\ status \in Snapshot
      /\ todo \in [Executor \cup Call -> SUBSET TaskId] /\ batch \in [Call -> SUBSET TaskId]
      /\ Worker \subseteq Proc /\ Call \subseteq Proc /\ c \in Call /\ c # First
      /\ c \notin Worker
  BY ProcType, CallsAreNotWorkers DEF TypeInv, TypeOK, Call
<1>a. /\ pc[c] \in {"off", "resumeCheck", "triggerDone", "cancelRead", "cancelMark",
                    "cancelRun", "done"}
      /\ batch[c] = {}
      /\ pc[c] = "resumeCheck" => \A t \in todo[c] : ~IsMaster(t)
      /\ pc[c] = "cancelMark" => todo[c] = {}
  BY <1>0 DEF Setup, SetupCalls
<1>1. ASSUME UNCHANGED <<status, mval, ret, batch>>,
             NEW l \in {"off", "resumeCheck", "triggerDone", "cancelRead", "cancelMark",
                        "cancelRun", "done"},
             Goto(c, l) \/ (UNCHANGED pc /\ l = pc[c]),
             NEW T, todo' = [todo EXCEPT ![c] = T],
             l = "resumeCheck" => \A t \in T : ~IsMaster(t),
             l = "cancelMark" => T = {}
      PROVE  Setup'
  <2>1. pc' = [pc EXCEPT ![c] = l]
    BY <1>0, <1>1 DEF Goto
  <2>2. \A p \in Worker : pc'[p] = pc[p] /\ todo'[First] = todo[First]
    BY <1>0, <1>1, <2>1
  <2>3. SetupTasks'
    BY <1>1 DEF Setup, SetupTasks
  <2>4. SetupWorkers'
    BY <1>1, <2>2 DEF Setup, SetupWorkers, MasterPC, Exists
  <2>5. SetupCalls'
    BY <1>0, <1>1, <2>1 DEF Setup, SetupCalls, IsMaster
  <2> QED  BY <2>3, <2>4, <2>5 DEF Setup
<1>2. todo = [todo EXCEPT ![c] = todo[c]]
  BY <1>0
<1>3. CASE Resume(c)
  <2>1. PICK T \in SUBSET {t \in Exists(status) : t.kind # "master"} :
           todo' = [todo EXCEPT ![c] = T]
    BY <1>3 DEF Resume
  <2>2. \A t \in T : ~IsMaster(t)
    BY DEF IsMaster
  <2>3. Goto(c, "resumeCheck") /\ UNCHANGED <<status, mval, ret, batch>>
    BY <1>3 DEF Resume, masterVars
  <2> QED  BY <1>1, <2>1, <2>2, <2>3
<1>4. CASE TriggerAll(c)
  <2>1. {t \in TaskId : status[t] = "AwaitingTrigger"} = {}
    BY DEF Setup, SetupTasks
  <2>2. PICK l \in {"triggerDone", "done"} : Goto(c, l)
    BY <1>4, <2>1 DEF TriggerAll
  <2>3. todo' = [todo EXCEPT ![c] = {}] /\ UNCHANGED <<status, mval, ret, batch>>
    BY <1>4, <2>1 DEF TriggerAll, masterVars
  <2> QED  BY <1>1, <2>2, <2>3
<1>5. CASE Cancel(c)
  <2>1. PICK l \in {"cancelRead", "done"} : Goto(c, l)
    BY <1>5 DEF Cancel
  <2>2. todo' = [todo EXCEPT ![c] = todo[c]] /\ UNCHANGED <<status, mval, ret, batch>>
    BY <1>2, <1>5 DEF Cancel, masterVars, callVars
  <2> QED  BY <1>1, <2>1, <2>2
<1>6. CASE ResumeCheck(c)
  <2>0. UNCHANGED <<status, mval, batch>> /\ pc[c] = "resumeCheck"
    BY <1>6 DEF ResumeCheck
  <2>1. ASSUME NEW t \in todo[c], todo' = [todo EXCEPT ![c] = @ \ {t}],
               IF Triggerable(t)
               THEN cur' = [cur EXCEPT ![c] = t] /\ Goto(c, "resumeMark")
               ELSE UNCHANGED <<cur, pc>>,
               UNCHANGED ret
        PROVE  Setup'
    <3>1. t \in TaskId /\ ~IsMaster(t)
      BY <1>0, <1>a, <2>0
    <3>2. ~Triggerable(t)
      BY <3>1 DEF Triggerable, Setup, SetupTasks
    <3>3. UNCHANGED pc
      BY <2>1, <3>2
    <3>4. todo' = [todo EXCEPT ![c] = todo[c] \ {t}]
      BY <2>1
    <3> QED  BY <1>1, <1>a, <2>0, <2>1, <3>3, <3>4
  <2>2. CASE Goto(c, "done") /\ UNCHANGED <<todo, ret>>
    BY <1>1, <1>2, <2>0, <2>2
  <2> QED  BY <1>6, <1>a, <2>1, <2>2 DEF ResumeCheck, FinishCall
<1>7. CASE TriggerDone(c)
  BY <1>1, <1>2, <1>7 DEF TriggerDone, FinishCall, masterVars, callVars
<1>8. CASE CancelRead(c)
  <2>1. {t \in TaskId : status[t] = "Running"} = {}
    BY DEF Setup, SetupTasks
  <2> QED  BY <1>1, <1>8, <2>1 DEF CancelRead, masterVars
<1>9. CASE CancelMark(c)
  <2>1. Goto(c, "cancelRun") /\ UNCHANGED <<status, mval, ret, batch, todo>>
    BY <1>9, <1>a DEF CancelMark
  <2> QED  BY <1>1, <1>2, <2>1
<1>10. CASE CancelRun(c)
  BY <1>1, <1>2, <1>10 DEF CancelRun, FinishCall, masterVars, callVars
<1> QED
  <2>1. ~UpdateMaster(c) /\ ~ResumeMark(c) /\ ~Launch(k) /\ ~TriggerMark(c)
    BY <1>a DEF UpdateMaster, MasterRead, MasterWrite, ResumeMark, Launch, TriggerMark
  <2> QED
    BY <1>3, <1>4, <1>5, <1>6, <1>7, <1>8, <1>9, <1>10, <2>1 DEF StartCall, RunningCall

\* The saving ends with every initial task saved, or goes on, or stops for ever.
LEMMA SetupStep ==
    ASSUME TypeInv, Setup, [Next]_vars
    PROVE  Setup' \/ Saved(status')
<1> USE FirstType DEF storeVars
<1>1. CASE UNCHANGED vars
  BY <1>1 DEF vars, masterVars, execVars, callVars, procVars, Setup, SetupWorkers,
     SetupTasks, SetupCalls, Exists, IsMaster
<1>2. ASSUME NEW e \in Executor, ExecuteWorkflow(e) PROVE Setup' \/ Saved(status')
  <2>1. CASE e = First
    BY <1>2, <2>1, SetupExecutor
  <2>2. CASE e # First
    <3>1. pc[e] = "off"
      BY <2>2, ProcType DEF Setup, SetupWorkers
    <3>2. ~ExecuteTask(e) /\ ~ExecutorError(e) /\ ~UpdateMaster(e)
      BY <3>1 DEF ExecuteTask, ExecutorError, UpdateMaster, MasterRead, MasterWrite,
         BeginTask, BeginBranch, CheckStep, SkipStep, RunStep, StepCanceled, StepSucceeded,
         StepDeferred, StepFailed, FinalizeTask, CompleteTask, NotifyCompletion
    <3>3. /\ ~StartExecutor(e) /\ ~CreateInitialTasks(e) /\ ~SaveTask(e)
          /\ ~ReadTasks(e) /\ ~CheckRunning(e) /\ ~AwaitCompletion(e)
          /\ ~Recompile(e) /\ ~RereadTasks(e) /\ ~SkipRecompile(e)
      BY <3>1 DEF StartExecutor, CreateInitialTasks, SaveTask, ReadTasks, CheckRunning,
         AwaitCompletion, Recompile, RereadTasks, SkipRecompile
    <3>4. /\ ~FinishWorkflow(e) /\ ~ScheduleAuto(e) /\ ~Schedule(e) /\ ~Decide(e)
          /\ ~PauseWorkflow(e) /\ ~AwaitWake(e) /\ ~RunNext(e)
      BY <3>1 DEF FinishWorkflow, ScheduleAuto, Schedule, Decide, PauseWorkflow,
         AwaitWake, RunNext
    <3> QED  BY <1>2, <3>2, <3>3, <3>4 DEF ExecuteWorkflow
  <2> QED  BY <2>1, <2>2
<1>3. ASSUME NEW p \in Thread, TaskThread(p) PROVE FALSE
  <2>1. pc[p] = "off"
    BY DistinctProcs, ProcType DEF Setup, SetupWorkers
  <2>2. ~ExecuteTask(p) /\ ~UpdateMaster(p)
    BY <2>1 DEF ExecuteTask, UpdateMaster, MasterRead, MasterWrite, BeginTask, BeginBranch,
       CheckStep, SkipStep, RunStep, StepCanceled, StepSucceeded, StepDeferred, StepFailed,
       FinalizeTask, CompleteTask, NotifyCompletion
  <2>3. /\ ~ThreadStart(p) /\ ~ThreadFails(p) /\ ~ThreadDeferred(p) /\ ~ThreadError(p)
        /\ ~CleanupGuard(p)
    BY <2>1 DEF ThreadStart, ThreadFails, ThreadDeferred, ThreadError, CleanupGuard
  <2> QED  BY <1>3, <2>2, <2>3 DEF TaskThread
<1>4. CASE Crash
  <2>1. /\ pc' = [p \in Proc |-> IF p \in Call /\ pc[p] # "off" THEN "done" ELSE "off"]
        /\ batch' = [c \in Call |-> {}] /\ UNCHANGED status
    BY <1>4 DEF Crash
  <2>2. SetupWorkers'
    BY <2>1, CallsAreNotWorkers, ProcType DEF SetupWorkers, MasterPC
  <2>3. SetupCalls'
    BY <2>1, ProcType DEF SetupCalls
  <2> QED  BY <2>1, <2>2, <2>3 DEF Setup, SetupTasks
<1> QED
  BY <1>1, <1>2, <1>3, <1>4, SetupCall DEF Next

-----------------------------------------------------------------------------
(* The dependencies of what is queued                                      *)

\* A task that a snapshot makes runnable comes after its dependencies.
LEMMA RunnableAfterDependencies ==
    ASSUME NEW S \in Snapshot, Completions(S), S = NoTasks \/ Saved(S),
           NEW t \in RunnableTasks(S) \cup AutoTriggered(S)
    PROVE  DependenciesDone(t)
<1>1. t \in TaskId /\ S[t] = "Pending"
  BY DEF RunnableTasks, AutoTriggered, TasksToAwaitTrigger, Candidates, Exists
<1>2. Saved(S)
  BY <1>1 DEF NoTasks
<1>3. t.node \in Node
  BY <1>1, SchedulerAssumption DEF TaskId, InitialTasks, StaticTasks, DynamicTasks,
     Single, Master, Child
<1>4. ASSUME NEW d \in DependsOn[t.node], NEW u \in Static(d) PROVE u \in done
  <2>1. d \in Node
    BY <1>3, SchedulerAssumption
  <2>2. u \in StaticTasks(d) /\ ~IsMaster(u)
    BY DEF Static, IsMaster
  <2>3. u \in InitialTasks /\ u \in TaskId /\ u.node = d
    BY <2>1, <2>2 DEF InitialTasks, TaskId, StaticTasks, Single, Master, Child
  <2>4. u \in TasksOf(S, d)
    BY <1>2, <2>3 DEF Saved, TasksOf, Exists
  <2>5. \A v \in TasksOf(S, d) : S[v] = "Completed"
    BY DEF RunnableTasks, AutoTriggered, DepsCompleted
  <2> QED  BY <2>2, <2>3, <2>4, <2>5 DEF Completions
<1> QED  BY <1>4 DEF DependenciesDone

\* Before the first step nothing is saved, queued or read.
LEMMA DepInvInit == Init => DepInv
<1> SUFFICES ASSUME Init PROVE DepInv
  OBVIOUS
<1>1. StartsAfterDependencies
  BY ProcType DEF Init, StartsAfterDependencies
<1>2. Setup
  <2>1. SetupWorkers
    BY FirstType, ProcType DEF Init, SetupWorkers, MasterPC, Exists, NoTasks, First
  <2>2. SetupTasks
    BY DEF Init, SetupTasks, NoTasks
  <2>3. SetupCalls
    BY FirstType, ProcType DEF Init, SetupCalls, First
  <2> QED  BY <2>1, <2>2, <2>3 DEF Setup
<1>3. Completions(NoTasks)
  BY DEF Completions, NoTasks
<1> QED  BY <1>1, <1>2, <1>3 DEF DepInv, Init

\* Every step keeps DepInv.
LEMMA DepInvStep == TypeInv /\ DepInv /\ [Next]_vars => DepInv'
<1> SUFFICES ASSUME TypeInv, DepInv, [Next]_vars PROVE DepInv'
  OBVIOUS
<1>0. /\ status \in Snapshot /\ snap \in [Executor -> Snapshot]
  BY DEF TypeInv, TypeOK
<1>1. StatusMoves
  BY StatusStep
<1> DEFINE DoneAfter(t) == \A d \in DependsOn[t.node] : Static(d) \subseteq done'
           CompletedAfter(S) == \A t \in TaskId : S[t] = "Completed" /\ ~IsMaster(t) => t \in done'
<1>2. \A t : DependenciesDone(t) => DoneAfter(t)
  BY <1>1 DEF StatusMoves, DependenciesDone
<1>3. \A S : Completions(S) => CompletedAfter(S)
  BY <1>1 DEF StatusMoves, Completions
<1>4. Completions(status)'
  BY <1>1 DEF StatusMoves, Completions, DepInv
<1>5. Saved(status)' \/ Setup'
  <2>1. CASE Saved(status)
    BY <1>1, <2>1 DEF StatusMoves, Saved, TaskId
  <2>2. CASE Setup
    BY <2>2, SetupStep DEF Saved
  <2> QED  BY <2>1, <2>2 DEF DepInv
<1>6. ASSUME NEW e \in Executor
      PROVE  /\ \A t \in queue'[e] : DoneAfter(t)
             /\ cur'[e] # NoTask => DoneAfter(cur'[e])
             /\ CompletedAfter(snap'[e]) /\ (snap'[e] = NoTasks \/ Saved(snap'[e]))
  <2>1. Decides(e)
    BY DecidesStep
  <2>2. snap[e] \in Snapshot
    BY <1>0
  <2>3. Completions(snap[e]) /\ (snap[e] = NoTasks \/ Saved(snap[e]))
    BY DEF DepInv
  <2>4. /\ \A t \in queue[e] : DependenciesDone(t)
        /\ cur[e] # NoTask => DependenciesDone(cur[e])
    BY DEF DepInv, StartsAfterDependencies
  <2>5. \A t \in queue'[e] : DependenciesDone(t)
    BY <2>1, <2>2, <2>3, <2>4, RunnableAfterDependencies DEF Decides
  <2>6. cur'[e] # NoTask => DependenciesDone(cur'[e])
    BY <2>1, <2>4 DEF Decides
  <2>7. CompletedAfter(snap'[e]) /\ (snap'[e] = NoTasks \/ Saved(snap'[e]))
    <3>1. CASE snap'[e] = snap[e]
      BY <1>3, <2>3, <3>1
    <3>2. CASE snap'[e] = NoTasks
      BY <3>2 DEF NoTasks
    <3>3. CASE snap'[e] = status /\ pc[e] \in {"loop", "reread"}
      <4>1. ~Setup
        BY <3>3, ProcType DEF Setup, SetupWorkers, MasterPC
      <4>2. Saved(status) /\ Completions(status)
        BY <4>1 DEF DepInv
      <4> QED  BY <1>3, <3>3, <4>2
    <3> QED  BY <2>1, <3>1, <3>2, <3>3 DEF Decides
  <2> QED  BY <1>2, <2>5, <2>6, <2>7
<1>7. StartsAfterDependencies'
  BY <1>6 DEF StartsAfterDependencies, DependenciesDone
<1> QED
  BY <1>4, <1>5, <1>6, <1>7 DEF DepInv, Completions

\* However many executors, threads and calls there are, and however often the
\* process dies: what an executor queues or executes comes after every task that
\* the node's dependencies were created with has been completed by execute_task.
THEOREM DependenciesCorrect == Spec => []StartsAfterDependencies
<1>1. DepInv => StartsAfterDependencies
  BY DEF DepInv
<1> QED
  BY <1>1, DepInvInit, DepInvStep, TypeInvariant, PTL DEF Spec

-----------------------------------------------------------------------------
(* Running tasks have an owner                                             *)

\* Somebody has yet to write how the task ends.
Owned(t) ==
    \/ \E p \in Worker : WorksOn(p, t)
    \/ \E c \in Call : t \in batch[c]

\* The executor and the threads of a call are started by its last step.
NothingStarted ==
    \A c \in Caller : pc[CallOf(c)] # "done" =>
        /\ pc[ExecutorOf(c)] = "off"
        /\ \A t \in TaskId : pc[ThreadOf(c, t)] = "off"

\* A step that p alone takes, and that starts no other process.
MovesAlone(p) ==
    /\ p \in Worker => pc[p] # "off"
    /\ pc[p] # "done"
    /\ \A q \in Proc \ {p} : pc'[q] = pc[q] /\ cur'[q] = cur[q] /\ ret'[q] = ret[q]
    /\ \A c \in Call : batch[c] \subseteq batch'[c]

\* Every step is one of those, a launch or a crash.
LEMMA MovesAloneStep ==
    ASSUME TypeInv, [Next]_vars
    PROVE  \/ UNCHANGED <<pc, cur, ret, batch, status>>
           \/ Crash
           \/ \E c \in Caller : Launch(c)
           \/ \E p \in Proc : MovesAlone(p)
<1> DEFINE Alone(p) == MovesAlone(p)
<1>0. /\ pc \in [Proc -> PC] /\ ret \in [Proc -> PC] /\ DOMAIN cur = Proc
      /\ DOMAIN batch = Call
  BY DEF TypeInv, TypeOK
<1> USE <1>0 DEF MovesAlone, Goto
<1>1. ASSUME NEW p \in Proc, UpdateMaster(p) PROVE Alone(p)
  BY <1>1 DEF UpdateMaster, MasterRead, MasterWrite
<1>2. ASSUME NEW p \in Worker, ExecuteTask(p) PROVE Alone(p)
  <2>1. CASE BeginTask(p) \/ BeginBranch(p) \/ CheckStep(p) \/ SkipStep(p)
    BY <2>1 DEF BeginTask, BeginBranch, CheckStep, SkipStep, UpdateParent, UpdateMasters
  <2>2. CASE RunStep(p) \/ StepCanceled(p) \/ StepSucceeded(p) \/ StepDeferred(p)
    BY <2>2 DEF RunStep, StepCanceled, StepSucceeded, StepDeferred
  <2>3. CASE StepFailed(p) \/ FinalizeTask(p) \/ CompleteTask(p) \/ NotifyCompletion(p)
    BY <2>3 DEF StepFailed, FinalizeTask, CompleteTask, NotifyCompletion,
       UpdateParent, UpdateMasters
  <2> QED  BY <1>2, <2>1, <2>2, <2>3 DEF ExecuteTask
<1>3. ASSUME NEW p \in Thread, TaskThread(p) PROVE Alone(p)
  <2>1. CASE ThreadStart(p) \/ ThreadFails(p) \/ ThreadDeferred(p)
    BY <2>1 DEF ThreadStart, ThreadFails, ThreadDeferred, UpdateParent, UpdateMasters
  <2>2. CASE ThreadError(p) \/ CleanupGuard(p)
    BY <2>2 DEF ThreadError, CleanupGuard, UpdateParent, UpdateMasters
  <2> QED  BY <1>1, <1>2, <1>3, <2>1, <2>2 DEF TaskThread
<1>4. ASSUME NEW e \in Executor, ExecuteWorkflow(e) PROVE Alone(e)
  <2>1. CASE StartExecutor(e) \/ CreateInitialTasks(e) \/ SaveTask(e) \/ ReadTasks(e)
    BY <2>1 DEF StartExecutor, CreateInitialTasks, SaveTask, ReadTasks, UpdateMasters
  <2>2. CASE CheckRunning(e) \/ AwaitCompletion(e) \/ Recompile(e) \/ RereadTasks(e)
    BY <2>2 DEF CheckRunning, AwaitCompletion, Recompile, RereadTasks, UpdateMasters
  <2>3. CASE SkipRecompile(e) \/ FinishWorkflow(e) \/ ScheduleAuto(e) \/ Schedule(e)
    BY <2>3 DEF SkipRecompile, FinishWorkflow, ScheduleAuto, Schedule, UpdateMasters,
       ExitExecutor
  <2>4. CASE Decide(e) \/ PauseWorkflow(e) \/ AwaitWake(e) \/ RunNext(e) \/ ExecutorError(e)
    BY <2>4 DEF Decide, PauseWorkflow, AwaitWake, RunNext, ExecutorError,
       UpdateParent, UpdateMasters, ExitExecutor
  <2> QED  BY <1>1, <1>2, <1>4, <2>1, <2>2, <2>3, <2>4 DEF ExecuteWorkflow
<1>5. ASSUME NEW k \in Caller, StartCall(k) \/ RunningCall(k)
      PROVE  Launch(k) \/ Alone(CallOf(k))
  <2> DEFINE c == CallOf(k)
  <2>0. c \in Call /\ c \in Proc /\ c \notin Worker
    BY ProcType, CallsAreNotWorkers DEF Call
  <2>1. CASE Resume(c) \/ TriggerAll(c) \/ Cancel(c) \/ ResumeCheck(c)
    BY <2>0, <2>1 DEF Resume, TriggerAll, Cancel, ResumeCheck, UpdateMasters, FinishCall
  <2>2. CASE ResumeMark(c) \/ TriggerDone(c) \/ TriggerMark(c)
    BY <2>0, <2>2 DEF ResumeMark, TriggerDone, TriggerMark, UpdateMasters, FinishCall
  <2>3. CASE CancelRead(c) \/ CancelMark(c) \/ CancelRun(c)
    BY <2>0, <2>3 DEF CancelRead, CancelMark, CancelRun, UpdateMasters, UpdateParent, FinishCall
  <2> QED  BY <1>1, <1>5, <2>0, <2>1, <2>2, <2>3 DEF StartCall, RunningCall
<1>6. CASE UNCHANGED vars
  BY <1>6 DEF vars, procVars
<1> QED
  BY <1>3, <1>4, <1>5, <1>6 DEF Next, Call

\* Nothing else starts what belongs to a call.
LEMMA NothingStartedStep ==
    ASSUME TypeInv, NothingStarted, [Next]_vars
    PROVE  NothingStarted'
<1> USE DEF NothingStarted
<1>0. pc \in [Proc -> PC]
  BY DEF TypeInv, TypeOK
<1>1. ASSUME NEW c \in Caller
      PROVE  /\ CallOf(c) \in Call /\ CallOf(c) \in Proc /\ CallOf(c) \notin Worker
             /\ ExecutorOf(c) \in Worker /\ ExecutorOf(c) \in Proc
             /\ \A t \in TaskId : ThreadOf(c, t) \in Worker /\ ThreadOf(c, t) \in Proc
  BY CallsAreNotWorkers, EngineAssumption DEF Call, ExecutorOf, Thread
<1>2. ASSUME NEW p \in Proc, MovesAlone(p) PROVE NothingStarted'
  BY <1>0, <1>1, <1>2 DEF MovesAlone
<1>3. CASE Crash
  BY <1>1, <1>3 DEF Crash
<1>4. ASSUME NEW k \in Caller, Launch(k) PROVE NothingStarted'
  <2> SUFFICES ASSUME NEW c \in Caller, pc'[CallOf(c)] # "done"
               PROVE  /\ pc'[ExecutorOf(c)] = "off"
                      /\ \A t \in TaskId : pc'[ThreadOf(c, t)] = "off"
    OBVIOUS
  <2>1. \A p \in Proc : pc'[p] = IF p \in {ThreadOf(k, t) : t \in batch[CallOf(k)]} THEN "spawned"
                                 ELSE IF p = ExecutorOf(k) THEN "start"
                                 ELSE IF p = CallOf(k) THEN "done"
                                 ELSE pc[p]
    BY <1>4 DEF Launch
  <2>2. c # k
    BY <1>1, <2>1, EngineAssumption DEF CallOf, ThreadOf, ExecutorOf
  <2>3. pc'[CallOf(c)] = pc[CallOf(c)]
    BY <1>1, <2>1, <2>2, EngineAssumption DEF CallOf, ThreadOf, ExecutorOf
  <2>4. pc'[ExecutorOf(c)] = pc[ExecutorOf(c)]
    BY <1>1, <2>1, <2>2, EngineAssumption DEF CallOf, ThreadOf, ExecutorOf
  <2>5. \A t \in TaskId : pc'[ThreadOf(c, t)] = pc[ThreadOf(c, t)]
    BY <1>1, <2>1, <2>2, EngineAssumption DEF CallOf, ThreadOf, ExecutorOf
  <2> QED  BY <2>3, <2>4, <2>5
<1>5. CASE UNCHANGED pc
  BY <1>5
<1> QED  BY <1>2, <1>3, <1>4, <1>5, MovesAloneStep

\* A task that is Running after a step was so before, or has got an owner by it;
\* who worked on it does, and what was going to be launched is or has been.
LEMMA OwnerStep ==
    ASSUME TypeInv, NothingStarted, [Next]_vars, ~MayCrash,
           NEW t \in TaskId, t.kind # "master", status'[t] = "Running"
    PROVE  /\ status[t] = "Running" \/ Owned(t)'
           /\ \A q \in Worker : WorksOn(q, t) => WorksOn(q, t)'
           /\ \A c \in Call : t \in batch[c] => Owned(t)'
<1> DEFINE Goal == /\ status[t] = "Running" \/ Owned(t)'
                   /\ \A q \in Worker : WorksOn(q, t) => WorksOn(q, t)'
                   /\ \A c \in Call : t \in batch[c] => Owned(t)'
<1>0. /\ pc \in [Proc -> PC] /\ ret \in [Proc -> PC] /\ cur \in [Proc -> TaskId \cup {NoTask}]
      /\ batch \in [Call -> SUBSET TaskId] /\ status \in Snapshot
  BY DEF TypeInv, TypeOK
<1> USE <1>0, CallsAreNotWorkers DEF Owned, WorksOn, Ending, MasterPC, Goto
<1>1. ASSUME NEW p \in Proc, MasterRead(p) PROVE Goal
  BY <1>1 DEF MasterRead
<1>2. ASSUME NEW p \in Proc, MasterWrite(p) PROVE Goal
  BY <1>2 DEF MasterWrite, SetStatus, ApplyTaskFields, Master
<1>3. ASSUME NEW p \in Worker, BeginTask(p) PROVE Goal
  BY <1>3 DEF BeginTask, UpdateMasters, ApplyTaskFields, MarkRunning, UpdateParent
<1>4. ASSUME NEW p \in Worker, BeginBranch(p) PROVE Goal
  BY <1>4 DEF BeginBranch
<1>5. ASSUME NEW p \in Worker, CheckStep(p) PROVE Goal
  BY <1>5 DEF CheckStep, AfterSteps
<1>6. ASSUME NEW p \in Worker, SkipStep(p) PROVE Goal
  BY <1>6 DEF SkipStep
<1>7. ASSUME NEW p \in Worker, RunStep(p) PROVE Goal
  BY <1>7 DEF RunStep
<1>8. ASSUME NEW p \in Worker, StepCanceled(p) PROVE Goal
  BY <1>8 DEF StepCanceled
<1>9. ASSUME NEW p \in Worker, StepSucceeded(p) PROVE Goal
  BY <1>9 DEF StepSucceeded
<1>10. ASSUME NEW p \in Worker, StepDeferred(p) PROVE Goal
  BY <1>10 DEF StepDeferred
<1>11. ASSUME NEW p \in Worker, StepFailed(p) PROVE Goal
  BY <1>11 DEF StepFailed, UpdateMasters, ApplyTaskFields, MarkFailed, UpdateParent
<1>12. ASSUME NEW p \in Worker, FinalizeTask(p) PROVE Goal
  BY <1>12 DEF FinalizeTask
<1>13. ASSUME NEW p \in Worker, CompleteTask(p) PROVE Goal
  BY <1>13 DEF CompleteTask, UpdateMasters, ApplyTaskFields, MarkCompleted, UpdateParent
<1>14. ASSUME NEW p \in Worker, NotifyCompletion(p) PROVE Goal
  BY <1>14 DEF NotifyCompletion
<1>15. ASSUME NEW p \in Thread, ThreadStart(p) PROVE Goal
  BY <1>15 DEF ThreadStart
<1>16. ASSUME NEW p \in Thread, ThreadFails(p) PROVE Goal
  BY <1>16 DEF ThreadFails, UpdateMasters, ApplyTaskFields, MarkFailed, UpdateParent
<1>17. ASSUME NEW p \in Thread, ThreadDeferred(p) PROVE Goal
  BY <1>17 DEF ThreadDeferred, UpdateMasters, ApplyTaskFields, MarkAwaitingTrigger, UpdateParent
<1>18. ASSUME NEW p \in Thread, ThreadError(p) PROVE Goal
  BY <1>18 DEF ThreadError, UpdateMasters, ApplyTaskFields, Settled, MarkFailed, UpdateParent
<1>19. ASSUME NEW p \in Thread, CleanupGuard(p) PROVE Goal
  BY <1>19 DEF CleanupGuard
<1>20. ASSUME NEW p \in Executor, StartExecutor(p) PROVE Goal
  BY <1>20 DEF StartExecutor
<1>21. ASSUME NEW p \in Executor, CreateInitialTasks(p) PROVE Goal
  BY <1>21 DEF CreateInitialTasks
<1>22. ASSUME NEW p \in Executor, SaveTask(p) PROVE Goal
  BY <1>22 DEF SaveTask, UpdateMasters, ApplyTaskFields, SetStatus
<1>23. ASSUME NEW p \in Executor, ReadTasks(p) PROVE Goal
  BY <1>23 DEF ReadTasks
<1>24. ASSUME NEW p \in Executor, CheckRunning(p) PROVE Goal
  BY <1>24 DEF CheckRunning
<1>25. ASSUME NEW p \in Executor, AwaitCompletion(p) PROVE Goal
  BY <1>25 DEF AwaitCompletion
<1>26. ASSUME NEW p \in Executor, Recompile(p) PROVE Goal
  BY <1>26 DEF Recompile, UpdateMasters
<1>27. ASSUME NEW p \in Executor, RereadTasks(p) PROVE Goal
  BY <1>27 DEF RereadTasks
<1>28. ASSUME NEW p \in Executor, SkipRecompile(p) PROVE Goal
  BY <1>28 DEF SkipRecompile
<1>29. ASSUME NEW p \in Executor, FinishWorkflow(p) PROVE Goal
  BY <1>29 DEF FinishWorkflow, ExitExecutor
<1>30. ASSUME NEW p \in Executor, ScheduleAuto(p) PROVE Goal
  BY <1>30 DEF ScheduleAuto
<1>31. ASSUME NEW p \in Executor, Schedule(p) PROVE Goal
  BY <1>31 DEF Schedule, UpdateMasters, ApplyTaskFields, SetStatus
<1>32. ASSUME NEW p \in Executor, Decide(p) PROVE Goal
  BY <1>32 DEF Decide
<1>33. ASSUME NEW p \in Executor, PauseWorkflow(p) PROVE Goal
  BY <1>33 DEF PauseWorkflow, ExitExecutor
<1>34. ASSUME NEW p \in Executor, AwaitWake(p) PROVE Goal
  BY <1>34 DEF AwaitWake
<1>35. ASSUME NEW p \in Executor, RunNext(p) PROVE Goal
  BY <1>35 DEF RunNext
<1>36. ASSUME NEW p \in Executor, ExecutorError(p) PROVE Goal
  BY <1>36 DEF ExecutorError, UpdateMasters, ApplyTaskFields, Settled, MarkFailed, MarkAwaitingTrigger, UpdateParent
<1>37. ASSUME NEW p \in Call, Resume(p) PROVE Goal
  BY <1>37 DEF Resume
<1>38. ASSUME NEW p \in Call, ResumeCheck(p) PROVE Goal
  BY <1>38 DEF ResumeCheck, UpdateMasters, FinishCall
<1>39. ASSUME NEW p \in Call, ResumeMark(p) PROVE Goal
  BY <1>39 DEF ResumeMark, ApplyTaskFields, MarkRunning
<1>40. ASSUME NEW p \in Call, TriggerAll(p) PROVE Goal
  BY <1>40 DEF TriggerAll
<1>41. ASSUME NEW p \in Call, TriggerDone(p) PROVE Goal
  BY <1>41 DEF TriggerDone, FinishCall
<1>42. ASSUME NEW p \in Call, TriggerMark(p) PROVE Goal
  BY <1>42 DEF TriggerMark, UpdateMasters, ApplyTaskFields, MarkRunning
<1>43. ASSUME NEW p \in Call, Cancel(p) PROVE Goal
  BY <1>43 DEF Cancel
<1>44. ASSUME NEW p \in Call, CancelRead(p) PROVE Goal
  BY <1>44 DEF CancelRead
<1>45. ASSUME NEW p \in Call, CancelMark(p) PROVE Goal
  BY <1>45 DEF CancelMark, UpdateMasters, ApplyTaskFields, MarkCanceled, UpdateParent
<1>46. ASSUME NEW p \in Call, CancelRun(p) PROVE Goal
  BY <1>46 DEF CancelRun, FinishCall
<1>47. ASSUME NEW k \in Caller, Launch(k) PROVE Goal
  <2> DEFINE spawned == {ThreadOf(k, u) : u \in batch[CallOf(k)]}
  <2>1. CallOf(k) \in Call /\ CallOf(k) \notin Worker /\ batch[CallOf(k)] \subseteq TaskId
    BY DEF Call
  <2>2. pc[CallOf(k)] # "done" /\ ExecutorOf(k) \in Worker
    BY <1>47, EngineAssumption DEF Launch, ExecutorOf
  <2>3. spawned \subseteq Thread /\ \A p \in spawned \cup {ExecutorOf(k)} : pc[p] = "off"
    BY <2>1, <2>2 DEF NothingStarted, Thread
  <2>4. /\ \A p \in Proc : pc'[p] = IF p \in spawned THEN "spawned"
                                    ELSE IF p = ExecutorOf(k) THEN "start"
                                    ELSE IF p = CallOf(k) THEN "done" ELSE pc[p]
        /\ \A p \in Proc : cur'[p] = IF p \in spawned THEN p[3] ELSE cur[p]
        /\ batch' = [batch EXCEPT ![CallOf(k)] = {}]
        /\ UNCHANGED <<status, ret>>
    BY <1>47 DEF Launch
  <2>5. status[t] = "Running"
    BY <2>4
  <2>6. \A q \in Worker : WorksOn(q, t) => WorksOn(q, t)'
    <3> SUFFICES ASSUME NEW q \in Worker, WorksOn(q, t) PROVE WorksOn(q, t)'
      OBVIOUS
    <3>1. q \notin spawned \cup {ExecutorOf(k)} /\ q # CallOf(k)
      BY <2>1, <2>3
    <3> QED  BY <2>4, <3>1
  <2>7. ASSUME t \in batch[CallOf(k)] PROVE Owned(t)'
    <3>1. ThreadOf(k, t) \in spawned /\ ThreadOf(k, t)[3] = t
      BY <2>7 DEF ThreadOf
    <3> HIDE DEF spawned
    <3>2. pc'[ThreadOf(k, t)] = "spawned" /\ cur'[ThreadOf(k, t)] = t
      BY <2>3, <2>4, <3>1
    <3> QED  BY <2>3, <3>1, <3>2
  <2> QED  BY <2>1, <2>4, <2>5, <2>6, <2>7
<1>48. CASE Crash
  BY <1>48 DEF Crash
<1>49. CASE UNCHANGED vars
  BY <1>49 DEF vars, procVars
<1>50. ASSUME NEW p \in Proc, UpdateMaster(p) PROVE Goal
  BY <1>50, <1>1, <1>2 DEF UpdateMaster
<1>51. ASSUME NEW p \in Worker, ExecuteTask(p) PROVE Goal
  BY <1>51, <1>3, <1>4, <1>5, <1>6, <1>7, <1>8, <1>9, <1>10, <1>11, <1>12,
     <1>13, <1>14
   DEF ExecuteTask
<1>52. ASSUME NEW p \in Thread, TaskThread(p) PROVE Goal
  BY <1>50, <1>51, <1>52, <1>15, <1>16, <1>17, <1>18, <1>19
   DEF TaskThread
<1>53. ASSUME NEW p \in Executor, ExecuteWorkflow(p) PROVE Goal
  BY <1>50, <1>51, <1>53, <1>20, <1>21, <1>22, <1>23, <1>24, <1>25, <1>26,
     <1>27, <1>28, <1>29, <1>30, <1>31, <1>32, <1>33, <1>34, <1>35, <1>36
   DEF ExecuteWorkflow
<1>54. ASSUME NEW c \in Caller, StartCall(c) \/ RunningCall(c) PROVE Goal
  BY <1>50, <1>54, <1>37, <1>38, <1>39, <1>40, <1>41, <1>42, <1>43, <1>44,
     <1>45, <1>46, <1>47
   DEF StartCall, RunningCall, Call
<1> QED BY <1>48, <1>49, <1>52, <1>53, <1>54 DEF Next

\* A call that has marked tasks goes on to launch them: it neither ends nor
\* returns to another place before.
BatchesAreLaunched ==
    \A c \in Call : batch[c] # {} =>
        \/ pc[c] \in {"resumeCheck", "resumeMark", "triggerMark", "launch"}
        \/ pc[c] \in MasterPC /\ ret[c] = "launch"

\* No step of a call forgets the batch, nor does that of another process.
LEMMA BatchesStep ==
    ASSUME TypeInv, BatchesAreLaunched, [Next]_vars
    PROVE  BatchesAreLaunched'
<1>0. /\ pc \in [Proc -> PC] /\ ret \in [Proc -> PC] /\ batch \in [Call -> SUBSET TaskId]
      /\ Call \cap Worker = {}
  BY CallsAreNotWorkers DEF TypeInv, TypeOK
<1> USE <1>0 DEF BatchesAreLaunched, MasterPC, Goto
<1>2. ASSUME NEW p \in Proc, UpdateMaster(p) PROVE BatchesAreLaunched'
  BY <1>2 DEF UpdateMaster, MasterRead, MasterWrite
<1>3. ASSUME NEW p \in Worker, ExecuteTask(p) PROVE BatchesAreLaunched'
  <2>1. CASE BeginTask(p) \/ BeginBranch(p) \/ CheckStep(p) \/ SkipStep(p)
    BY <2>1 DEF BeginTask, BeginBranch, CheckStep, SkipStep, UpdateParent, UpdateMasters
  <2>2. CASE RunStep(p) \/ StepCanceled(p) \/ StepSucceeded(p) \/ StepDeferred(p)
    BY <2>2 DEF RunStep, StepCanceled, StepSucceeded, StepDeferred
  <2>3. CASE StepFailed(p) \/ FinalizeTask(p) \/ CompleteTask(p) \/ NotifyCompletion(p)
    BY <2>3 DEF StepFailed, FinalizeTask, CompleteTask, NotifyCompletion,
       UpdateParent, UpdateMasters
  <2> QED  BY <1>3, <2>1, <2>2, <2>3 DEF ExecuteTask
<1>4. ASSUME NEW p \in Thread, TaskThread(p) PROVE BatchesAreLaunched'
  <2>1. CASE ThreadStart(p) \/ ThreadFails(p) \/ ThreadDeferred(p)
    BY <2>1 DEF ThreadStart, ThreadFails, ThreadDeferred, UpdateParent, UpdateMasters
  <2>2. CASE ThreadError(p) \/ CleanupGuard(p)
    BY <2>2 DEF ThreadError, CleanupGuard, UpdateParent, UpdateMasters
  <2> QED  BY <1>2, <1>3, <1>4, <2>1, <2>2 DEF TaskThread
<1>5. ASSUME NEW e \in Executor, ExecuteWorkflow(e) PROVE BatchesAreLaunched'
  <2>1. CASE StartExecutor(e) \/ CreateInitialTasks(e) \/ SaveTask(e) \/ ReadTasks(e)
    BY <2>1 DEF StartExecutor, CreateInitialTasks, SaveTask, ReadTasks, UpdateMasters
  <2>2. CASE CheckRunning(e) \/ AwaitCompletion(e) \/ Recompile(e) \/ RereadTasks(e)
    BY <2>2 DEF CheckRunning, AwaitCompletion, Recompile, RereadTasks, UpdateMasters
  <2>3. CASE SkipRecompile(e) \/ FinishWorkflow(e) \/ ScheduleAuto(e) \/ Schedule(e)
    BY <2>3 DEF SkipRecompile, FinishWorkflow, ScheduleAuto, Schedule, UpdateMasters,
       ExitExecutor
  <2>4. CASE Decide(e) \/ PauseWorkflow(e) \/ AwaitWake(e) \/ RunNext(e) \/ ExecutorError(e)
    BY <2>4 DEF Decide, PauseWorkflow, AwaitWake, RunNext, ExecutorError,
       UpdateParent, UpdateMasters, ExitExecutor
  <2> QED  BY <1>2, <1>3, <1>5, <2>1, <2>2, <2>3, <2>4 DEF ExecuteWorkflow
<1>6. ASSUME NEW k \in Caller, StartCall(k) \/ RunningCall(k) PROVE BatchesAreLaunched'
  <2> DEFINE c == CallOf(k)
  <2>0. c \in Call
    BY DEF Call
  <2> USE <2>0
  <2>1. CASE Resume(c) \/ TriggerAll(c) \/ Cancel(c)
    BY <2>1 DEF Resume, TriggerAll, Cancel
  <2>2. CASE ResumeCheck(c) \/ ResumeMark(c)
    BY <2>2 DEF ResumeCheck, ResumeMark, UpdateMasters, FinishCall
  <2>3. CASE TriggerDone(c) \/ TriggerMark(c)
    BY <2>3 DEF TriggerDone, TriggerMark, UpdateMasters, FinishCall
  <2>4. CASE CancelRead(c) \/ CancelMark(c) \/ CancelRun(c)
    BY <2>4 DEF CancelRead, CancelMark, CancelRun, UpdateMasters, UpdateParent, FinishCall
  <2>5. CASE Launch(k)
    <3>1. batch' = [batch EXCEPT ![c] = {}] /\ UNCHANGED ret
      BY <2>5 DEF Launch
    <3>2. \A d \in Call \ {c} : pc'[d] = pc[d]
      BY <2>5, EngineAssumption DEF Launch, Call, CallOf, ThreadOf, ExecutorOf
    <3> QED  BY <3>1, <3>2
  <2> HIDE DEF c
  <2> QED  BY <1>2, <1>6, <2>1, <2>2, <2>3, <2>4, <2>5 DEF StartCall, RunningCall, c
<1>7. CASE Crash
  BY <1>7 DEF Crash
<1>8. CASE UNCHANGED vars
  BY <1>8 DEF vars, procVars
<1> QED  BY <1>4, <1>5, <1>6, <1>7, <1>8 DEF Next

\* A task that a call has marked Running is in its batch until the call launches
\* it, and the call gets there.
THEOREM BatchesCorrect == Spec => []BatchesAreLaunched
<1>1. Init => BatchesAreLaunched
  BY DEF Init, BatchesAreLaunched
<1>2. TypeInv /\ BatchesAreLaunched /\ [Next]_vars => BatchesAreLaunched'
  BY BatchesStep
<1> QED  BY <1>1, <1>2, TypeInvariant, PTL DEF Spec

\* No task is left Running by everybody, whatever fails, is deferred, canceled
\* or triggered twice, for as long as the process lives.
THEOREM OwnerCorrect == Spec => []RunningHasOwner
<1> DEFINE IInv == NothingStarted /\ RunningHasOwner
<1>1. Init => IInv
  BY EngineAssumption
  DEF Init, NothingStarted, RunningHasOwner, NoTasks, CallOf, ExecutorOf, ThreadOf, Proc,
      Call, Thread, Worker
<1>2. TypeInv /\ IInv /\ [Next]_vars => IInv'
  <2> SUFFICES ASSUME TypeInv, IInv, [Next]_vars PROVE IInv'
    OBVIOUS
  <2>1. NothingStarted'
    BY NothingStartedStep
  <2>2. RunningHasOwner'
    <3> SUFFICES ASSUME ~MayCrash, NEW t \in TaskId, status'[t] = "Running", t.kind # "master"
                 PROVE  Owned(t)'
      BY DEF RunningHasOwner, Owned
    <3>1. status[t] = "Running" => Owned(t)
      BY DEF RunningHasOwner, Owned
    <3> QED  BY <3>1, OwnerStep DEF Owned
  <2> QED  BY <2>1, <2>2
<1> QED
  BY <1>1, <1>2, TypeInvariant, PTL DEF Spec

-----------------------------------------------------------------------------
(* A run on which no API call is made                                      *)

\* Where the first executor is, or returns to.
Where == IF pc[First] \in MasterPC THEN ret[First] ELSE pc[First]

\* It shows Running as long as it is executed.
RunInv ==
    /\ pc[First] \in MasterPC => ret[First] \in
          {"branch", "check", "failed", "notify", "runNext", "save", "reread", "decide"}
    /\ Where = "start" => run = "Pending"
    /\ Where \notin {"off", "start"} => run = "Running"

\* The executor decides on the tasks as they are.
DecisionInv ==
    /\ pc[First] \in {"waitRunning", "awaitCompletion", "recompile", "schedule"} =>
          snap[First] = status
    /\ pc[First] = "pause" =>
          SomeTask("AwaitingTrigger") /\ ~SomeTask("Pending") /\ ~SomeTask("Running")

\* Then every step is one of the first executor, or the process dies.
LEMMA SequentialStep ==
    ASSUME Caller = {}, [Next]_vars
    PROVE  UpdateMaster(First) \/ ExecuteTask(First) \/ ExecuteWorkflow(First) \/ Crash \/ UNCHANGED vars
<1>1. Executor = {First} /\ Thread = {}
  BY EngineAssumption DEF Thread, First, ExecutorOf
<1> QED  BY <1>1 DEF Next

\* What the run shows, and why.
ShowInv == RunInv /\ DecisionInv /\ RunStatusAgrees

\* What the run shows agrees with its tasks: the executor ends and pauses it on a
\* snapshot that is the stored tasks.
LEMMA ShowInvStep ==
    ASSUME Caller = {}, TypeInv, ShowInv, [Next]_vars
    PROVE  ShowInv'
<1>0. /\ pc \in [Proc -> PC] /\ ret \in [Proc -> PC] /\ snap \in [Executor -> Snapshot]
      /\ First \in Proc /\ First \in Executor /\ First \in Worker
  BY FirstType DEF TypeInv, TypeOK
<1> USE <1>0 DEF ShowInv, RunInv, DecisionInv, RunStatusAgrees, Where, MasterPC, Goto
<1>1. CASE MasterRead(First)
  BY <1>1 DEF MasterRead
<1>2. CASE MasterWrite(First)
  BY <1>2 DEF MasterWrite, UpdateMasters, ApplyTaskFields, SetStatus
<1>3. CASE BeginTask(First)
  BY <1>3 DEF BeginTask, UpdateMasters, ApplyTaskFields, MarkRunning, UpdateParent
<1>4. CASE BeginBranch(First)
  BY <1>4 DEF BeginBranch
<1>5. CASE CheckStep(First)
  BY <1>5 DEF CheckStep, AfterSteps
<1>6. CASE SkipStep(First)
  BY <1>6 DEF SkipStep
<1>7. CASE RunStep(First)
  BY <1>7 DEF RunStep
<1>8. CASE StepCanceled(First)
  BY <1>8 DEF StepCanceled
<1>9. CASE StepSucceeded(First)
  BY <1>9 DEF StepSucceeded
<1>10. CASE StepDeferred(First)
  BY <1>10 DEF StepDeferred
<1>11. CASE StepFailed(First)
  BY <1>11 DEF StepFailed, UpdateMasters, ApplyTaskFields, MarkFailed, UpdateParent
<1>12. CASE FinalizeTask(First)
  BY <1>12 DEF FinalizeTask
<1>13. CASE CompleteTask(First)
  BY <1>13 DEF CompleteTask, UpdateMasters, ApplyTaskFields, MarkCompleted, UpdateParent
<1>14. CASE NotifyCompletion(First)
  BY <1>14 DEF NotifyCompletion
<1>15. CASE StartExecutor(First)
  BY <1>15 DEF StartExecutor, SetWorkflowStatus
<1>16. CASE CreateInitialTasks(First)
  BY <1>16 DEF CreateInitialTasks
<1>17. CASE SaveTask(First)
  BY <1>17 DEF SaveTask, UpdateMasters, ApplyTaskFields, SetStatus
<1>18. CASE ReadTasks(First)
  BY <1>18 DEF ReadTasks
<1>19. CASE CheckRunning(First)
  BY <1>19 DEF CheckRunning
<1>20. CASE AwaitCompletion(First)
  BY <1>20 DEF AwaitCompletion
<1>21. CASE Recompile(First)
  BY <1>21 DEF Recompile, UpdateMasters
<1>22. CASE RereadTasks(First)
  BY <1>22 DEF RereadTasks
<1>23. CASE SkipRecompile(First)
  BY <1>23 DEF SkipRecompile
<1>24. CASE FinishWorkflow(First)
  BY <1>24 DEF FinishWorkflow, ExitExecutor, SetWorkflowStatus, AllDone, Exists, SomeTask
<1>25. CASE ScheduleAuto(First)
  BY <1>25 DEF ScheduleAuto
<1>26. CASE Schedule(First)
  BY <1>26 DEF Schedule, UpdateMasters, ApplyTaskFields, SetStatus
<1>27. CASE Decide(First)
  BY <1>27 DEF Decide, SomeTask, AllDone
<1>28. CASE PauseWorkflow(First)
  BY <1>28 DEF PauseWorkflow, ExitExecutor, SetWorkflowStatus, SomeTask
<1>29. CASE AwaitWake(First)
  BY <1>29 DEF AwaitWake
<1>30. CASE RunNext(First)
  BY <1>30 DEF RunNext
<1>31. CASE ExecutorError(First)
  BY <1>31 DEF ExecutorError, UpdateMasters, ApplyTaskFields, Settled, MarkFailed, MarkAwaitingTrigger, UpdateParent
<1>32. CASE Crash
  <2>1. Proc = {First} /\ Call = {}
    BY EngineAssumption DEF Proc, Worker, Thread, Call, First, ExecutorOf
  <2>2. pc[First] \notin {"off", "done"} /\ pc'[First] = "off" /\ UNCHANGED <<status, run>>
    BY <1>32, <2>1 DEF Crash
  <2>3. run \in {"Pending", "Running"}
    BY <2>2
  <2> QED  BY <2>2, <2>3
<1>33. CASE UNCHANGED vars
  BY <1>33 DEF vars, procVars, AllDone, SomeTask
<1> QED  BY SequentialStep, <1>1, <1>2, <1>3, <1>4, <1>5, <1>6, <1>7, <1>8, <1>9, <1>10, <1>11, <1>12, <1>13, <1>14, <1>15, <1>16, <1>17, <1>18, <1>19, <1>20, <1>21, <1>22, <1>23, <1>24, <1>25, <1>26, <1>27, <1>28, <1>29, <1>30, <1>31, <1>32, <1>33
  DEF UpdateMaster, ExecuteTask, ExecuteWorkflow

\* It queues and executes tasks that are no masters, and queues none before the
\* last queue is done.
QueueInv ==
    /\ queue[First] # {} => Where \in TaskPC \cup {"decide", "runNext"}
    /\ \A t \in queue[First] : ~IsMaster(t)
    /\ HasTask(First) => ~IsMaster(cur[First])

\* Before the initial tasks are saved there are no others.
SetupInv ==
    /\ pc[First] \in {"start", "create"} => status = NoTasks
    /\ Where \in {"start", "create", "save"} =>
          /\ \A t \in Exists(status) \cup todo[First] : t \in InitialTasks
          /\ lastState[First] = NoState

\* Every master is one of the initial tasks.
LEMMA MastersAreInitial == \A m \in Expanded : Master(m) \in InitialTasks
<1> SUFFICES ASSUME NEW m \in Expanded PROVE Master(m) \in InitialTasks
  OBVIOUS
<1>1. m \in Node /\ Master(m) \in StaticTasks(m)
  BY SchedulerAssumption DEF Expanded, StaticTasks
<1> QED  BY <1>1 DEF InitialTasks

\* What is queued and set up stays so, whatever the executor does.
LEMMA QueueStep ==
    ASSUME Caller = {}, TypeInv, ShowInv, QueueInv, SetupInv, [Next]_vars
    PROVE  QueueInv' /\ SetupInv'
<1>0. /\ pc \in [Proc -> PC] /\ ret \in [Proc -> PC] /\ First \in Proc /\ First \in Executor
      /\ First \in Worker /\ DOMAIN cur = Proc /\ queue \in [Executor -> SUBSET TaskId]
      /\ DOMAIN todo = Executor \cup Call /\ DOMAIN lastState = Executor
      /\ status \in Snapshot
  BY FirstType DEF TypeInv, TypeOK
<1>a. pc[First] \in MasterPC => ret[First] \in
          {"branch", "check", "failed", "notify", "runNext", "save", "reread", "decide"}
  BY DEF ShowInv, RunInv
<1> USE <1>0, <1>a DEF QueueInv, SetupInv, Where, HasTask, MasterPC, TaskPC, Goto, Exists
<1>1. CASE MasterRead(First)
  BY <1>1 DEF MasterRead
<1>2. CASE MasterWrite(First)
  <2>1. mval[First][1] \in Expanded
    BY <1>2 DEF MasterWrite, TypeInv, TypeOK, LocalsOK
  <2>2. Master(mval[First][1]) \in InitialTasks
    BY <2>1, MastersAreInitial
  <2> QED  BY <1>2, <2>2 DEF MasterWrite, SetStatus, ApplyTaskFields
<1>3. CASE BeginTask(First)
  BY <1>3 DEF BeginTask, UpdateMasters, ApplyTaskFields, MarkRunning, UpdateParent
<1>4. CASE BeginBranch(First)
  BY <1>4 DEF BeginBranch
<1>5. CASE CheckStep(First)
  BY <1>5 DEF CheckStep, AfterSteps
<1>6. CASE SkipStep(First)
  BY <1>6 DEF SkipStep
<1>7. CASE RunStep(First)
  BY <1>7 DEF RunStep
<1>8. CASE StepCanceled(First)
  BY <1>8 DEF StepCanceled
<1>9. CASE StepSucceeded(First)
  BY <1>9 DEF StepSucceeded
<1>10. CASE StepDeferred(First)
  BY <1>10 DEF StepDeferred
<1>11. CASE StepFailed(First)
  BY <1>11 DEF StepFailed, UpdateMasters, ApplyTaskFields, MarkFailed, UpdateParent
<1>12. CASE FinalizeTask(First)
  BY <1>12 DEF FinalizeTask
<1>13. CASE CompleteTask(First)
  BY <1>13 DEF CompleteTask, UpdateMasters, ApplyTaskFields, MarkCompleted, UpdateParent
<1>14. CASE NotifyCompletion(First)
  BY <1>14 DEF NotifyCompletion
<1>15. CASE StartExecutor(First)
  BY <1>15 DEF StartExecutor, SetWorkflowStatus
<1>16. CASE CreateInitialTasks(First)
  BY <1>16 DEF CreateInitialTasks, NoTasks
<1>17. CASE SaveTask(First)
  BY <1>17 DEF SaveTask, UpdateMasters, ApplyTaskFields, SetStatus
<1>18. CASE ReadTasks(First)
  BY <1>18 DEF ReadTasks
<1>19. CASE CheckRunning(First)
  BY <1>19 DEF CheckRunning
<1>20. CASE AwaitCompletion(First)
  BY <1>20 DEF AwaitCompletion
<1>21. CASE Recompile(First)
  BY <1>21 DEF Recompile, UpdateMasters
<1>22. CASE RereadTasks(First)
  BY <1>22 DEF RereadTasks
<1>23. CASE SkipRecompile(First)
  BY <1>23 DEF SkipRecompile
<1>24. CASE FinishWorkflow(First)
  BY <1>24 DEF FinishWorkflow, ExitExecutor, SetWorkflowStatus
<1>25. CASE ScheduleAuto(First)
  BY <1>25 DEF ScheduleAuto, RunnableTasks, AutoTriggered, TasksToAwaitTrigger, Candidates, IsMaster
<1>26. CASE Schedule(First)
  BY <1>26 DEF Schedule, UpdateMasters, ApplyTaskFields, SetStatus, RunnableTasks, AutoTriggered, TasksToAwaitTrigger, Candidates, IsMaster
<1>27. CASE Decide(First)
  BY <1>27 DEF Decide
<1>28. CASE PauseWorkflow(First)
  BY <1>28 DEF PauseWorkflow, ExitExecutor, SetWorkflowStatus
<1>29. CASE AwaitWake(First)
  BY <1>29 DEF AwaitWake
<1>30. CASE RunNext(First)
  BY <1>30 DEF RunNext
<1>31. CASE ExecutorError(First)
  BY <1>31 DEF ExecutorError, UpdateMasters, ApplyTaskFields, Settled, MarkFailed, MarkAwaitingTrigger, UpdateParent
<1>32. CASE Crash
  <2>1. Proc = {First} /\ Call = {}
    BY EngineAssumption DEF Proc, Worker, Thread, Call, First, ExecutorOf
  <2> QED  BY <1>32, <2>1 DEF Crash
<1>33. CASE UNCHANGED vars
  BY <1>33 DEF vars, procVars
<1> QED
  BY SequentialStep, <1>1, <1>2, <1>3, <1>4, <1>5, <1>6, <1>7, <1>8, <1>9, <1>10, <1>11, <1>12, <1>13, <1>14, <1>15, <1>16, <1>17, <1>18, <1>19, <1>20, <1>21, <1>22, <1>23, <1>24, <1>25, <1>26, <1>27, <1>28, <1>29, <1>30, <1>31, <1>32, <1>33
  DEF UpdateMaster, ExecuteTask, ExecuteWorkflow

\* A master whose children have ended shows what became of them ...
Shown(n) == AllTerminal(status, n) => status[Master(n)] = MasterStatus(status, n)
Fine(n) == status[Master(n)] = "Absent" \/ Shown(n)

\* ... unless it is about to be updated.
Dirty(n) ==
    \/ pc[First] \in MasterPC /\ n \in masters[First]
    \/ pc[First] = "masterWrite" /\ mval[First][1] = n

MastersInv ==
    /\ pc[First] = "masterWrite" => mval[First][2] = MasterStatus(status, mval[First][1])
    /\ Where # "off" => \A n \in Expanded : Fine(n) \/ Dirty(n)

\* What a master should show depends on its children only.
LEMMA ChildrenDecide ==
    ASSUME NEW n, \A t \in TaskId : t.kind = "child" /\ t.node = n => status'[t] = status[t]
    PROVE  /\ AllTerminal(status, n)' = AllTerminal(status, n)
           /\ MasterStatus(status, n)' = MasterStatus(status, n)
<1>1. Children(status, n)' = Children(status, n)
  BY DEF Children, TasksOf, Exists
<1>2. \A t \in Children(status, n) : status'[t] = status[t]
  BY DEF Children, TasksOf, Exists
<1>3. AllTerminal(status, n)' = AllTerminal(status, n)
  BY <1>1, <1>2 DEF AllTerminal
<1>4. \A s : SomeChild(status, n, s)' = SomeChild(status, n, s)
  BY <1>1, <1>2 DEF SomeChild
<1> QED  BY <1>3, <1>4 DEF MasterStatus

\* A master is as it should be if neither it nor its children change.
LEMMA FineKept ==
    ASSUME NEW n, Fine(n), status'[Master(n)] = status[Master(n)],
           \A t \in TaskId : t.kind = "child" /\ t.node = n => status'[t] = status[t]
    PROVE  Fine(n)'
  BY ChildrenDecide DEF Fine, Shown

\* The executor goes on, and updates the masters it does not know to be fine.
LEMMA MastersMove ==
    ASSUME TypeInv, MastersInv, pc[First] \notin MasterPC \cup {"off"},
           NEW M \in SUBSET Expanded, NEW l \in PC \ MasterPC, UpdateMasters(First, M, l),
           \A n \in Expanded \ M : Fine(n) => Fine(n)'
    PROVE  MastersInv'
<1>1. First \in Proc /\ pc \in [Proc -> PC] /\ DOMAIN masters = Proc
  BY FirstType DEF TypeInv, TypeOK
<1>2. \A n \in Expanded : Fine(n)
  BY DEF MastersInv, Dirty, Where, MasterPC
<1>3. CASE M = {}
  <2>1. pc'[First] \notin MasterPC
    BY <1>1, <1>3 DEF UpdateMasters, Goto
  <2> QED  BY <1>2, <1>3, <2>1 DEF MastersInv, MasterPC
<1>4. CASE M # {}
  <2>1. pc'[First] = "masterRead" /\ masters'[First] = M
    BY <1>1, <1>4 DEF UpdateMasters, Goto
  <2>2. \A n \in M : Dirty(n)'
    BY <2>1 DEF Dirty, MasterPC
  <2> QED  BY <1>2, <2>1, <2>2 DEF MastersInv
<1> QED  BY <1>3, <1>4

\* The same with one task written, of which the parent is updated.
LEMMA MastersWrite ==
    ASSUME TypeInv, MastersInv, pc[First] \notin MasterPC \cup {"off"},
           NEW t \in TaskId, ~IsMaster(t), NEW s, NEW f, ApplyTaskFields({t}, s, f),
           NEW l \in PC \ MasterPC, UpdateParent(First, t, l)
    PROVE  MastersInv'
<1>1. status' = [u \in TaskId |-> IF u = t THEN s ELSE status[u]]
  BY DEF ApplyTaskFields
<1>2. ASSUME NEW n \in Expanded \ Parent(t), Fine(n) PROVE Fine(n)'
  <2>1. Master(n) \in TaskId /\ Master(n) # t
    BY MasterType DEF IsMaster, Master
  <2>2. \A u \in TaskId : u.kind = "child" /\ u.node = n => u # t
    BY DEF Parent
  <2> QED  BY <1>1, <1>2, <2>1, <2>2, FineKept
<1>3. Parent(t) \subseteq Expanded
  BY ParentType
<1> QED  BY <1>2, <1>3, MastersMove DEF UpdateParent

\* ... or none.
LEMMA MastersStay ==
    ASSUME TypeInv, MastersInv, pc[First] \notin MasterPC \cup {"off"},
           NEW l \in PC \ MasterPC, Goto(First, l), UNCHANGED status
    PROVE  MastersInv'
<1>1. First \in Proc /\ pc \in [Proc -> PC]
  BY FirstType DEF TypeInv, TypeOK
<1>2. \A n \in Expanded : Fine(n) => Fine(n)'
  BY FineKept
<1> QED  BY <1>1, <1>2 DEF MastersInv, Dirty, Where, MasterPC, Goto

\* Whoever writes a child updates its master before it goes on, and the update
\* writes what the children are at that time, as nobody else writes them.
LEMMA MastersStep ==
    ASSUME Caller = {}, TypeInv, ShowInv, QueueInv, MastersInv, [Next]_vars
    PROVE  MastersInv'
<1>0. /\ pc \in [Proc -> PC] /\ First \in Proc /\ First \in Executor /\ First \in Worker
      /\ status \in Snapshot
  BY FirstType DEF TypeInv, TypeOK
<1>a. pc[First] \in TaskPC => cur[First] \in TaskId /\ ~IsMaster(cur[First])
  BY <1>0, TaskType DEF QueueInv, HasTask
<1>b. {"off", "loop", "create", "save", "branch", "check", "step", "after", "finalize",
       "complete", "failed", "notify", "runNext", "waitRunning", "awaitCompletion",
       "recompile", "reread", "schedule", "decide", "pause", "awaitWake", "begin"}
        \subseteq PC \ MasterPC
  BY DEF PC, MasterPC, ExecPC, TaskPC
<1> USE <1>0
<1>1. CASE MasterRead(First)
  <2>1. PICK m \in masters[First] :
          /\ masters' = [masters EXCEPT ![First] = @ \ {m}]
          /\ IF MasterWrites(status, m)
             THEN /\ mval' = [mval EXCEPT ![First] = <<m, MasterStatus(status, m)>>]
                  /\ Goto(First, "masterWrite")
             ELSE /\ Goto(First, IF masters[First] = {m} THEN ret[First] ELSE "masterRead")
                  /\ UNCHANGED mval
    BY <1>1 DEF MasterRead
  <2>2. masters'[First] = masters[First] \ {m} /\ UNCHANGED <<status, ret>>
    BY <1>1, <2>1 DEF MasterRead, TypeInv, TypeOK
  <2>3. /\ \A n \in Expanded : Fine(n) => Fine(n)'
        /\ \A n : MasterStatus(status, n)' = MasterStatus(status, n)
    BY <2>2, FineKept, ChildrenDecide
  <2>4. ret[First] \notin MasterPC
    BY ReturnType DEF TypeInv, LocalsOK
  <2>5. ret[First] # "off" /\ \A n \in Expanded : Fine(n) \/ n \in masters[First]
    BY <1>1, <2>4 DEF MasterRead, ShowInv, RunInv, MastersInv, Dirty, Where, MasterPC
  <2>6. CASE MasterWrites(status, m)
    <3>1. pc'[First] = "masterWrite" /\ mval'[First] = <<m, MasterStatus(status, m)>>
      BY <2>1, <2>6 DEF Goto, TypeInv, TypeOK
    <3> QED  BY <2>2, <2>3, <2>5, <3>1 DEF MastersInv, Dirty, MasterPC
  <2>7. CASE ~MasterWrites(status, m)
    <3>1. pc'[First] = IF masters[First] = {m} THEN ret[First] ELSE "masterRead"
      BY <2>1, <2>7 DEF Goto
    <3>2. Fine(m)'
      BY <2>2, <2>7 DEF MasterWrites, Fine, Shown
    <3> QED  BY <2>2, <2>3, <2>4, <2>5, <3>1, <3>2 DEF MastersInv, Dirty, MasterPC
  <2> QED  BY <2>6, <2>7
<1>2. CASE MasterWrite(First)
  <2>0. PICK m : m = mval[First][1]
    OBVIOUS
  <2>1. m \in Expanded /\ Master(m) \in TaskId /\ Master(m).kind = "master"
    BY <1>2, <2>0, MasterType DEF MasterWrite, TypeInv, TypeOK, LocalsOK, Master
  <2>2. status' = [t \in TaskId |-> IF t = Master(m) THEN mval[First][2] ELSE status[t]]
    BY <1>2, <2>0 DEF MasterWrite, SetStatus, ApplyTaskFields
  <2>3. mval[First][2] = MasterStatus(status, m)
    BY <1>2, <2>0 DEF MasterWrite, MastersInv
  <2>8. ret[First] # "off" /\ ret[First] \notin MasterPC
        /\ \A n \in Expanded : Fine(n) \/ n \in masters[First] \cup {m}
    <3>1. ret[First] \notin MasterPC
      BY ReturnType DEF TypeInv, LocalsOK
    <3> QED  BY <1>2, <2>0, <3>1 DEF MasterWrite, ShowInv, RunInv, MastersInv, Dirty, Where, MasterPC
  <2>9. /\ pc'[First] = IF masters[First] = {} THEN ret[First] ELSE "masterRead"
        /\ UNCHANGED <<masters, ret>>
    BY <1>2 DEF MasterWrite, Goto
  <2>4. ASSUME NEW n \in Expanded
        PROVE  \A t \in TaskId : t.kind = "child" /\ t.node = n => status'[t] = status[t]
    BY <2>1, <2>2
  <2>5. Fine(m)'
    <3>1. MasterStatus(status, m)' = MasterStatus(status, m)
      BY <2>1, <2>4, ChildrenDecide
    <3>2. status'[Master(m)] = MasterStatus(status, m)
      BY <2>1, <2>2, <2>3
    <3>3. Shown(m)'
      BY <3>1, <3>2 DEF Shown
    <3> QED  BY <3>3 DEF Fine
  <2>6. \A n \in Expanded \ {m} : Fine(n) => Fine(n)'
    <3> SUFFICES ASSUME NEW n \in Expanded \ {m}, Fine(n) PROVE Fine(n)'
      OBVIOUS
    <3>1. Master(n) \in TaskId /\ Master(n) # Master(m)
      BY MasterType DEF Master
    <3> QED  BY <2>2, <2>4, <3>1, FineKept
  <2>10. \A n \in Expanded : Fine(n)' \/ n \in masters[First]
    BY <2>5, <2>6, <2>8
  <2>11. pc'[First] # "masterWrite" /\ (pc'[First] \in MasterPC <=> masters[First] # {})
    BY <2>8, <2>9 DEF MasterPC
  <2>12. \A n \in Expanded : Fine(n)' \/ Dirty(n)'
    BY <2>9, <2>10, <2>11 DEF Dirty
  <2> QED  BY <2>11, <2>12 DEF MastersInv
<1>3. CASE BeginTask(First)
  BY <1>a, <1>b, <1>3, MastersWrite DEF BeginTask, MarkRunning, MasterPC, TaskPC
<1>4. CASE BeginBranch(First)
  BY <1>b, <1>4, MastersStay DEF BeginBranch, MasterPC
<1>5. CASE CheckStep(First)
  BY <1>b, <1>5, MastersStay DEF CheckStep, AfterSteps, MasterPC
<1>6. CASE SkipStep(First)
  BY <1>b, <1>6, MastersStay DEF SkipStep, MasterPC
<1>7. CASE RunStep(First)
  BY <1>b, <1>7, MastersStay DEF RunStep, MasterPC
<1>8. CASE StepCanceled(First)
  BY <1>b, <1>8, MastersStay DEF StepCanceled, MasterPC
<1>9. CASE StepSucceeded(First)
  BY <1>b, <1>9, MastersStay DEF StepSucceeded, MasterPC
<1>10. CASE StepDeferred(First)
  BY <1>b, <1>10, MastersStay DEF StepDeferred, MasterPC
<1>11. CASE StepFailed(First)
  BY <1>a, <1>b, <1>11, MastersWrite DEF StepFailed, MarkFailed, MasterPC, TaskPC
<1>12. CASE FinalizeTask(First)
  BY <1>b, <1>12, MastersStay DEF FinalizeTask, MasterPC
<1>13. CASE CompleteTask(First)
  BY <1>a, <1>b, <1>13, MastersWrite DEF CompleteTask, MarkCompleted, MasterPC, TaskPC
<1>14. CASE NotifyCompletion(First)
  BY <1>b, <1>14, MastersStay DEF NotifyCompletion, MasterPC
<1>15. CASE StartExecutor(First)
  BY <1>b, <1>15, MastersStay DEF StartExecutor, MasterPC
<1>16. CASE CreateInitialTasks(First)
  BY <1>b, <1>16, MastersStay DEF CreateInitialTasks, MasterPC
<1>17. CASE SaveTask(First)
  <2>1. CASE todo[First] = {} /\ Goto(First, "loop") /\ UNCHANGED status
    BY <1>b, <1>17, <2>1, MastersStay DEF SaveTask, MasterPC
  <2>2. ASSUME NEW t \in todo[First], SetStatus({t}, "Pending"),
               UpdateMasters(First, IF t.kind = "master" THEN {t.node} ELSE {}, "save")
        PROVE  MastersInv'
    <3>1. t \in TaskId
      BY <2>2 DEF TypeInv, TypeOK
    <3>2. status' = [u \in TaskId |-> IF u = t THEN "Pending" ELSE status[u]]
      BY <2>2 DEF SetStatus, ApplyTaskFields
    <3> DEFINE M == IF t.kind = "master" THEN {t.node} ELSE {}
    <3>3. M \subseteq Expanded
      BY <3>1 DEF TaskId, InitialTasks, StaticTasks, DynamicTasks, Master, Child, Single
    <3>4. ASSUME NEW n \in Expanded \ M, Fine(n) PROVE Fine(n)'
      <4>1. Master(n) \in TaskId /\ Master(n) # t
        BY MasterType DEF Master
      <4>2. CASE t.kind = "child" /\ t.node = n
        <5>1. t \in Children(status, n)' /\ status'[t] = "Pending"
          BY <3>1, <3>2, <4>2 DEF Children, TasksOf, Exists
        <5> QED  BY <5>1 DEF Fine, Shown, AllTerminal, Terminal
      <4>3. CASE ~(t.kind = "child" /\ t.node = n)
        BY <3>2, <3>4, <4>1, <4>3, FineKept
      <4> QED  BY <4>2, <4>3
    <3> QED  BY <1>b, <1>17, <2>2, <3>3, <3>4, MastersMove DEF SaveTask, MasterPC
  <2> QED  BY <1>17, <2>1, <2>2 DEF SaveTask
<1>18. CASE ReadTasks(First)
  BY <1>b, <1>18, MastersStay DEF ReadTasks, MasterPC
<1>19. CASE CheckRunning(First)
  BY <1>b, <1>19, MastersStay DEF CheckRunning, MasterPC
<1>20. CASE AwaitCompletion(First)
  BY <1>b, <1>20, MastersStay DEF AwaitCompletion, MasterPC
<1>21. CASE Recompile(First)
  <2> DEFINE new == NewTasks(snap[First], status, state)
             gone == TasksToMarkWontDo(snap[First], state)
  <2>0. ASSUME NEW t, t \in new \/ t \in gone
        PROVE  t.kind = "child" /\ t.node \in FromState
    <3>1. CASE t \in new
      <4>1. PICK n \in Recompiled(state) : t \in NewTasksOf(snap[First], status, state, n)
        BY <3>1 DEF NewTasks
      <4>2. PICK i : t \in FreshTasks(status, n, i, state[n][i])
        BY <4>1 DEF NewTasksOf
      <4>3. PICK c : t = Child(n, i, c)
        BY <4>2 DEF FreshTasks
      <4> QED  BY <4>3 DEF Recompiled, Child
    <3>2. CASE t \in gone
      <4>1. PICK n \in Recompiled(state) : t \in Children(snap[First], n)
        BY <3>2 DEF TasksToMarkWontDo
      <4> QED  BY <4>1 DEF Recompiled, Children, TasksOf
    <3> QED  BY <2>0, <3>1, <3>2
  <2>1. \A t \in new \cup gone : t.kind = "child" /\ t.node \in FromState
    BY <2>0
  <2>2. status' = [t \in TaskId |-> IF t \in new THEN "Pending"
                                    ELSE IF t \in gone THEN "WontDo" ELSE status[t]]
    BY <1>21 DEF Recompile
  <2>3. FromState \subseteq Expanded
    BY <1>21, SchedulerAssumption DEF Recompile, Expanded
  <2>4. ASSUME NEW n \in Expanded \ FromState, Fine(n) PROVE Fine(n)'
    <3>1. Master(n) \in TaskId /\ Master(n) \notin new \cup gone
      BY <2>1, MasterType DEF Master
    <3>2. \A u \in TaskId : u.node = n => u \notin new \cup gone
      BY <2>1
    <3> HIDE DEF new, gone
    <3> QED  BY <2>2, <2>4, <3>1, <3>2, FineKept
  <2> QED  BY <1>b, <1>21, <2>3, <2>4, MastersMove DEF Recompile, MasterPC
<1>22. CASE RereadTasks(First)
  BY <1>b, <1>22, MastersStay DEF RereadTasks, MasterPC
<1>23. CASE SkipRecompile(First)
  BY <1>b, <1>23, MastersStay DEF SkipRecompile, MasterPC
<1>24. CASE FinishWorkflow(First)
  BY <1>b, <1>24, MastersStay DEF FinishWorkflow, ExitExecutor, MasterPC
<1>25. CASE ScheduleAuto(First)
  BY <1>b, <1>25, MastersStay DEF ScheduleAuto, MasterPC
<1>26. CASE Schedule(First)
  <2> DEFINE waiting == TasksToAwaitTrigger(snap[First])
             M == UNION {Parent(t) : t \in waiting}
  <2>1. /\ \A t \in waiting : t \in TaskId /\ ~IsMaster(t)
        /\ status' = [t \in TaskId |-> IF t \in waiting THEN "AwaitingTrigger" ELSE status[t]]
    BY <1>26 DEF Schedule, SetStatus, ApplyTaskFields, TasksToAwaitTrigger, Candidates, Exists,
       IsMaster, Snapshot
  <2>2. M \subseteq Expanded
    BY <2>1, ParentType
  <2>3. ASSUME NEW n \in Expanded \ M, Fine(n) PROVE Fine(n)'
    <3>1. Master(n) \in TaskId /\ Master(n) \notin waiting
      BY <2>1, MasterType DEF Master, IsMaster
    <3>2. \A u \in TaskId : u.kind = "child" /\ u.node = n => u \notin waiting
      BY DEF Parent
    <3> HIDE DEF waiting
    <3> QED  BY <2>1, <2>3, <3>1, <3>2, FineKept
  <2> QED  BY <1>b, <1>26, <2>2, <2>3, MastersMove DEF Schedule, MasterPC
<1>27. CASE Decide(First)
  BY <1>b, <1>27, MastersStay DEF Decide, MasterPC
<1>28. CASE PauseWorkflow(First)
  BY <1>b, <1>28, MastersStay DEF PauseWorkflow, ExitExecutor, MasterPC
<1>29. CASE AwaitWake(First)
  BY <1>b, <1>29, MastersStay DEF AwaitWake, MasterPC
<1>30. CASE RunNext(First)
  BY <1>b, <1>30, MastersStay DEF RunNext, MasterPC
<1>31. CASE ExecutorError(First)
  <2>1. CASE Settled(cur[First])
    BY <1>b, <1>31, <2>1, MastersStay DEF ExecutorError, MasterPC
  <2>2. CASE ~Settled(cur[First])
    BY <1>a, <1>b, <1>31, <2>2, MastersWrite
    DEF ExecutorError, MarkFailed, MarkAwaitingTrigger, MasterPC, TaskPC
  <2> QED  BY <2>1, <2>2
<1>32. CASE Crash
  <2>1. pc'[First] = "off"
    BY <1>32, CallsAreNotWorkers DEF Crash
  <2> QED  BY <2>1 DEF MastersInv, Where, MasterPC
<1>33. CASE UNCHANGED vars
  BY <1>33 DEF vars, procVars, MastersInv, Where, Fine, Shown, Dirty
<1> QED
  BY SequentialStep, <1>1, <1>2, <1>3, <1>4, <1>5, <1>6, <1>7, <1>8, <1>9, <1>10, <1>11, <1>12, <1>13, <1>14, <1>15, <1>16, <1>17, <1>18, <1>19, <1>20, <1>21, <1>22, <1>23, <1>24, <1>25, <1>26, <1>27, <1>28, <1>29, <1>30, <1>31, <1>32, <1>33
  DEF UpdateMaster, ExecuteTask, ExecuteWorkflow

-----------------------------------------------------------------------------
(* The matrix tasks of such a run                                          *)

\* No step writes an array that lists an item twice.
SinglyListed ==
    \A n \in Node, w \in FromState \X StateValue :
        w \in Outputs[n] /\ w[2] # ObjectValue => \A i \in Item : w[2][i] <= 1

\* The tasks the executor is to execute, or executes.
Work == queue[First] \cup (IF HasTask(First) THEN {cur[First]} ELSE {})

\* A matrix task is called for by the state v.
Called(v, t) == t.kind = "child" /\ t.node \in Recompiled(v) => t.item \in Listed(v, t.node)

\* The matrix tasks are those that the state v calls for.
Matches(v) ==
    \A n \in Recompiled(v) :
        /\ Listed(v, n) \subseteq KnownItems(status, n)
        /\ \A t \in Children(status, n) :
              t.item \in Listed(v, n) \/ status[t] \in {"Completed", "WontDo"}

\* The matrix tasks are those of the state the executor has last recompiled for,
\* and so are the tasks it works on.
WorkInv ==
    /\ \A t \in Work : status[t] # "Absent"
    /\ \A v \in WorkflowState : lastState[First] = v =>
          Expanded # {} /\ Matches(v) /\ \A t \in Work : Called(v, t)

\* The executor schedules, and ends the run, for the state as it is.
MatrixInv ==
    /\ WorkInv
    /\ Where \in {"reread", "schedule"} => Expanded = {} \/ lastState[First] = state
    /\ \A n \in Recompiled(state), i \in Item : state[n][i] <= 1
    /\ OneTaskPerItem
    /\ FinishedMatrixMatchesState

\* A task that is written is one the state the executor has seen calls for, or
\* has ended for good.
Written(t) ==
    /\ status'[t] # "Absent"
    /\ t.kind = "child" =>
          /\ status[t] # "Absent"
          /\ \A v \in WorkflowState : lastState[First] = v =>
                Called(v, t) \/ status'[t] \in {"Completed", "WontDo"}

\* While only such tasks are written the matrix tasks stay those of that state.
LEMMA WorkKept ==
    ASSUME TypeInv, WorkInv, OneTaskPerItem,
           \A t \in TaskId : status'[t] = status[t] \/ Written(t),
           Work' \subseteq Work, lastState'[First] \in {lastState[First], NoState}
    PROVE  WorkInv' /\ OneTaskPerItem'
<1>1. queue[First] \subseteq TaskId /\ Work \subseteq TaskId
  BY FirstType, TaskType DEF TypeInv, TypeOK, LocalsOK, Work
<1>2. \A t \in Work' : status'[t] # "Absent"
  BY <1>1 DEF WorkInv, Written
<1>3. \A t \in TaskId : t.kind = "child" => (status'[t] = "Absent" <=> status[t] = "Absent")
  BY DEF Written
<1>4. OneTaskPerItem'
  BY <1>3 DEF OneTaskPerItem, Exists
<1>5. ASSUME NEW v \in WorkflowState, lastState'[First] = v
      PROVE  Expanded # {} /\ Matches(v)' /\ \A t \in Work' : Called(v, t)
  <2>1. lastState[First] = v
    BY <1>5, EngineAssumption
  <2>2. \A n : KnownItems(status, n)' = KnownItems(status, n) /\ Children(status, n)' = Children(status, n)
    BY <1>3 DEF KnownItems, Children, TasksOf, Exists
  <2>3. Matches(v) /\ Expanded # {} /\ \A t \in Work : Called(v, t)
    BY <2>1 DEF WorkInv
  <2>4. ASSUME NEW n \in Recompiled(v), NEW t \in Children(status, n)
        PROVE  t.item \in Listed(v, n) \/ status'[t] \in {"Completed", "WontDo"}
    <3>1. t \in TaskId /\ t.kind = "child" /\ t.node = n
      BY DEF Children, TasksOf, Exists
    <3> QED  BY <2>1, <2>3, <3>1 DEF Matches, Written, Called
  <2>5. Matches(v)'
    BY <2>2, <2>3, <2>4 DEF Matches
  <2> QED  BY <2>3, <2>5
<1> QED  BY <1>2, <1>4, <1>5 DEF WorkInv

\* A run that goes on has not finished.
LEMMA NotFinished ==
    ASSUME ShowInv, Where # "off", UNCHANGED run
    PROVE  FinishedMatrixMatchesState' /\ FinishedMastersAgree'
<1>1. run \in {"Pending", "Running"}
  BY DEF ShowInv, RunInv
<1> QED  BY <1>1 DEF FinishedMatrixMatchesState, FinishedMastersAgree

\* The steps that leave the state alone and write such tasks only.
LEMMA MatrixKept ==
    ASSUME TypeInv, ShowInv, MatrixInv, Where # "off", UNCHANGED <<run, state, lastState>>,
           \A t \in TaskId : status'[t] = status[t] \/ Written(t),
           Work' \subseteq Work,
           Where' \in {"reread", "schedule"} => Expanded = {} \/ lastState[First] = state
    PROVE  MatrixInv'
  BY WorkKept, NotFinished DEF MatrixInv

\* A task that no child of its item exists for is the first copy.
LEMMA FirstCopy ==
    ASSUME NEW S, NEW n, NEW i, \A c \in 1..MaxCopies : S[Child(n, i, c)] = "Absent"
    PROVE  FreshTasks(S, n, i, 1) = {Child(n, i, 1)}
<1> DEFINE free == {c \in 1..MaxCopies : S[Child(n, i, c)] = "Absent"}
<1>1. free = 1..MaxCopies /\ MaxCopies \in Nat /\ 1 \in 1..MaxCopies
  BY SchedulerAssumption
<1>2. ASSUME NEW c \in 1..MaxCopies
      PROVE  Cardinality({d \in 1..MaxCopies : d <= c}) = c
  <2>1. {d \in 1..MaxCopies : d <= c} = 1..c
    BY <1>1
  <2>2. 1 \in Int /\ c \in Int /\ ~(1 > c) /\ c - 1 + 1 = c
    BY <1>1
  <2>3. Cardinality(1..c) = IF 1 > c THEN 0 ELSE c - 1 + 1
    BY ONLY <2>2, FS_Interval
  <2> QED  BY <2>1, <2>2, <2>3
<1>3. {c \in free : Cardinality({d \in free : d <= c}) <= 1} = {1}
  <2> HIDE DEF free
  <2>1. \A c \in free : Cardinality({d \in free : d <= c}) <= 1 <=> c = 1
    BY <1>1, <1>2
  <2> QED  BY <1>1, <2>1
<1> QED  BY <1>3 DEF FreshTasks

\* The new tasks: the first copy of every item listed that has none.
LEMMA NewTasksAre ==
    ASSUME status \in Snapshot, state \in WorkflowState, FromState \subseteq Expanded,
           \A n \in Recompiled(state), i \in Item : state[n][i] <= 1
    PROVE  NewTasks(status, status, state) =
              UNION {{Child(n, i, 1) : i \in Listed(state, n) \ KnownItems(status, n)} :
                        n \in Recompiled(state)}
<1>1. ASSUME NEW n \in Recompiled(state), NEW i \in Listed(state, n) \ KnownItems(status, n)
      PROVE  FreshTasks(status, n, i, state[n][i]) = {Child(n, i, 1)}
  <2>1. n \in FromState /\ i \in Item
    BY DEF Recompiled, Listed
  <2>2. state[n] \in [Item -> 0..MaxCopies]
    BY <2>1 DEF Recompiled, WorkflowState, StateValue
  <2>3. state[n][i] = 1
    BY <2>1, <2>2, SchedulerAssumption DEF Listed
  <2>4. ASSUME NEW c \in 1..MaxCopies PROVE status[Child(n, i, c)] = "Absent"
    <3>1. Child(n, i, c) \in TaskId
      BY <2>1 DEF TaskId, DynamicTasks
    <3>2. SUFFICES ASSUME status[Child(n, i, c)] # "Absent" PROVE FALSE
      OBVIOUS
    <3>3. Child(n, i, c) \in Children(status, n) /\ Child(n, i, c).item = i
      BY <3>1, <3>2 DEF Children, TasksOf, Exists, Child
    <3> QED  BY <3>3 DEF KnownItems
  <2> QED  BY <2>3, <2>4, FirstCopy
<1>2. ASSUME NEW n \in Recompiled(state)
      PROVE  NewTasksOf(status, status, state, n)
                = {Child(n, i, 1) : i \in Listed(state, n) \ KnownItems(status, n)}
  BY <1>1 DEF NewTasksOf
<1> QED  BY <1>2 DEF NewTasks

\* After a recompilation the matrix tasks are those of the state.
LEMMA RecompileMatches ==
    ASSUME TypeInv, ShowInv, OneTaskPerItem, Recompile(First),
           \A n \in Recompiled(state), i \in Item : state[n][i] <= 1
    PROVE  Matches(state)' /\ OneTaskPerItem'
<1> DEFINE new  == NewTasks(snap[First], status, state)
           gone == TasksToMarkWontDo(snap[First], state)
<1>0. /\ status \in Snapshot /\ state \in WorkflowState /\ state' = state
      /\ snap[First] = status
      /\ FromState \subseteq Expanded /\ FromState \subseteq Node
  BY SchedulerAssumption DEF TypeInv, TypeOK, Recompile, ShowInv, DecisionInv, Expanded
<1>1. status' = [t \in TaskId |-> IF t \in new THEN "Pending"
                                  ELSE IF t \in gone THEN "WontDo" ELSE status[t]]
  BY DEF Recompile
<1>2. new = UNION {{Child(n, i, 1) : i \in Listed(state, n) \ KnownItems(status, n)} :
                        n \in Recompiled(state)}
  BY <1>0, NewTasksAre
<1>3. ASSUME NEW n \in Recompiled(state), NEW t \in Children(status, n)
      PROVE  /\ LastOfItem(status, t)
             /\ t \in gone <=> t.item \notin Listed(state, n) /\ status[t] \notin {"Completed", "WontDo"}
  <2>1. t.kind = "child" /\ t.node = n /\ t \in Exists(status)
    BY DEF Children, TasksOf
  <2>2. ASSUME NEW u \in Children(status, t.node), u.item = t.item PROVE u = t
    BY <2>1, <2>2 DEF OneTaskPerItem, Children, TasksOf
  <2>3. t.copy <= t.copy
    <3>1. t \in TaskId
      BY <2>1 DEF Exists
    <3>2. t.copy \in Nat
      BY <2>1, <3>1 DEF TaskId, InitialTasks, StaticTasks, DynamicTasks, Master, Child, Single
    <3> QED  BY <3>2
  <2>4. LastOfItem(status, t)
    BY <2>2, <2>3 DEF LastOfItem
  <2>5. \A m \in Recompiled(state) : t \in Children(status, m) => m = n
    BY <2>1 DEF Children, TasksOf
  <2> QED  BY <1>0, <2>4, <2>5 DEF TasksToMarkWontDo
<1>4. gone \subseteq Exists(status)
  BY <1>0 DEF TasksToMarkWontDo, Children, TasksOf
<1>5. ASSUME NEW n \in Recompiled(state), NEW i \in Listed(state, n) \ KnownItems(status, n)
      PROVE  /\ Child(n, i, 1) \in TaskId /\ Child(n, i, 1) \in new
             /\ Child(n, i, 1).kind = "child" /\ Child(n, i, 1).node = n
             /\ Child(n, i, 1).item = i
  <2>1. n \in FromState /\ i \in Item /\ 1 \in 1..MaxCopies
    BY SchedulerAssumption DEF Recompiled, Listed
  <2>2. Child(n, i, 1) \in TaskId
    BY <1>0, <2>1 DEF TaskId, DynamicTasks
  <2> QED  BY <1>2, <2>2 DEF Child
<1>6. ASSUME NEW t \in new
      PROVE  \E n \in Recompiled(state) : \E i \in Listed(state, n) \ KnownItems(status, n) :
                t = Child(n, i, 1)
  BY <1>2
<1> HIDE DEF new, gone
<1>7. \A t \in TaskId : status'[t] # "Absent" <=> status[t] # "Absent" \/ t \in new
  BY <1>1, <1>4 DEF Exists
<1>8. ASSUME NEW n \in Recompiled(state)
      PROVE  Listed(state, n) \subseteq KnownItems(status', n)
  <2> SUFFICES ASSUME NEW i \in Listed(state, n) PROVE i \in KnownItems(status', n)
    OBVIOUS
  <2>1. PICK t \in TaskId : status'[t] # "Absent" /\ t.kind = "child" /\ t.node = n /\ t.item = i
    <3>1. CASE i \in KnownItems(status, n)
      BY <1>7, <3>1 DEF KnownItems, Children, TasksOf, Exists
    <3>2. CASE i \notin KnownItems(status, n)
      BY <1>5, <1>7, <3>2
    <3> QED  BY <3>1, <3>2
  <2> QED  BY <2>1 DEF KnownItems, Children, TasksOf, Exists
<1>9. ASSUME NEW n \in Recompiled(state), NEW t \in Children(status', n)
      PROVE  t.item \in Listed(state, n) \/ status'[t] \in {"Completed", "WontDo"}
  <2>1. t \in TaskId /\ t.kind = "child" /\ t.node = n /\ status'[t] # "Absent"
    BY DEF Children, TasksOf, Exists
  <2>2. CASE t \in new
    BY <1>6, <2>1, <2>2 DEF Child
  <2>3. CASE t \notin new
    <3>1. t \in Children(status, n)
      BY <1>7, <2>1, <2>3 DEF Children, TasksOf, Exists
    <3> QED  BY <1>1, <1>3, <2>1, <2>3, <3>1
  <2> QED  BY <2>2, <2>3
<1>10. Matches(state)'
  BY <1>0, <1>8, <1>9 DEF Matches, Recompiled, Listed
<1>11. ASSUME NEW t \in Exists(status'), NEW u \in Exists(status'),
              t.kind = "child", u.kind = "child", t.node = u.node, t.item = u.item
       PROVE  t = u
  <2>1. t \in TaskId /\ u \in TaskId /\ status'[t] # "Absent" /\ status'[u] # "Absent"
    BY DEF Exists
  <2>2. CASE t \in new /\ u \in new
    BY <1>6, <1>11, <2>2 DEF Child
  <2>3. ASSUME NEW x \in new, NEW y \in TaskId, status[y] # "Absent", y.kind = "child",
               x.node = y.node, x.item = y.item
        PROVE  FALSE
    <3>1. PICK n \in Recompiled(state) : \E i \in Listed(state, n) \ KnownItems(status, n) : x = Child(n, i, 1)
      BY <1>6
    <3>2. PICK i \in Listed(state, n) \ KnownItems(status, n) : x = Child(n, i, 1)
      BY <1>6, <3>1
    <3>3. y \in Children(status, n) /\ y.item = i
      BY <2>3, <3>2 DEF Child, Children, TasksOf, Exists
    <3> QED  BY <3>3 DEF KnownItems
  <2>4. CASE t \notin new /\ u \notin new
    BY <1>7, <1>11, <2>1, <2>4 DEF OneTaskPerItem, Exists
  <2> QED  BY <1>7, <1>11, <2>1, <2>2, <2>3, <2>4
<1>12. OneTaskPerItem'
  BY <1>11 DEF OneTaskPerItem, Exists
<1> QED  BY <1>10, <1>12

\* The task that is executed may be written.
LEMMA WrittenTask ==
    ASSUME TypeInv, MatrixInv, pc[First] \in TaskPC, status'[cur[First]] # "Absent",
           NEW t \in TaskId, t = cur[First]
    PROVE  Written(t)
  BY DEF MatrixInv, WorkInv, Work, HasTask, Written

\* The executor changes no task, and goes on.
LEMMA MatrixStay ==
    ASSUME TypeInv, ShowInv, MatrixInv, UNCHANGED <<status, run, state, lastState, cur, queue>>,
           pc[First] \notin MasterPC \cup {"off"}, NEW l \in PC \ MasterPC, Goto(First, l),
           l # "spawned", l \in TaskPC => pc[First] \in TaskPC,
           l \in {"reread", "schedule"} => Expanded = {} \/ lastState[First] = state
    PROVE  MatrixInv'
<1>1. pc'[First] = l
  BY FirstType DEF TypeInv, TypeOK, Goto
<1>2. Work' \subseteq Work
  BY <1>1 DEF Work, HasTask, MasterPC, TaskPC
<1>3. Where' = l
  BY <1>1 DEF Where
<1> QED  BY <1>2, <1>3, MatrixKept DEF Where

\* The executor writes the task it executes.
LEMMA MatrixWrite ==
    ASSUME TypeInv, ShowInv, MatrixInv, UNCHANGED <<run, state, lastState, cur, queue>>,
           pc[First] \in TaskPC, NEW s \in TaskStatus, NEW f, ApplyTaskFields({cur[First]}, s, f),
           NEW l \in PC \ MasterPC, l \notin {"reread", "schedule"},
           UpdateParent(First, cur[First], l)
    PROVE  MatrixInv'
<1>0. /\ pc \in [Proc -> PC] /\ ret \in [Proc -> PC] /\ First \in Proc
      /\ pc[First] \notin MasterPC \cup {"off"}
  BY FirstType DEF TypeInv, TypeOK, TaskPC, MasterPC
<1>1. cur[First] \in TaskId
  BY FirstType, TaskType
<1>2. \A t \in TaskId : status'[t] = IF t = cur[First] THEN s ELSE status[t]
  BY DEF ApplyTaskFields
<1>3. \A t \in TaskId : status'[t] = status[t] \/ Written(t)
  BY <1>1, <1>2, WrittenTask DEF TaskStatus
<1>4. Work' \subseteq Work
  BY DEF Work, HasTask
<1>5. Where' = l
  BY <1>0 DEF Where, UpdateParent, UpdateMasters, Goto, MasterPC
<1> QED  BY <1>0, <1>3, <1>4, <1>5, MatrixKept DEF Where

\* A recompilation makes the tasks those of the state, and until the next one only
\* tasks that the state calls for are executed.
LEMMA MatrixStep ==
    ASSUME Caller = {}, SinglyListed, TypeInv, ShowInv, QueueInv, SetupInv, MatrixInv, [Next]_vars
    PROVE  MatrixInv'
<1>0. /\ pc \in [Proc -> PC] /\ ret \in [Proc -> PC] /\ First \in Proc /\ First \in Executor
      /\ First \in Worker /\ status \in Snapshot /\ queue \in [Executor -> SUBSET TaskId]
      /\ DOMAIN lastState = Executor /\ state \in WorkflowState
  BY FirstType DEF TypeInv, TypeOK
<1>b. {"off", "loop", "create", "save", "branch", "check", "step", "after", "finalize",
       "complete", "failed", "notify", "runNext", "waitRunning", "awaitCompletion",
       "recompile", "reread", "schedule", "decide", "pause", "awaitWake", "begin"}
        \subseteq PC \ MasterPC
  BY DEF PC, MasterPC, ExecPC, TaskPC
<1>c. {"Running", "Failed", "Completed", "AwaitingTrigger"} \subseteq TaskStatus
  BY DEF TaskStatus
<1> USE <1>0
<1>1. CASE MasterRead(First)
  <2>1. pc'[First] \in {"masterWrite", "masterRead", ret[First]} /\ UNCHANGED ret
    BY <1>1 DEF MasterRead, Goto
  <2>2. ret[First] \notin MasterPC \cup {"spawned"}
    BY ReturnType DEF TypeInv, LocalsOK
  <2>3. Where' = Where /\ (HasTask(First)' => HasTask(First))
    BY <1>1, <2>1, <2>2 DEF MasterRead, Where, HasTask, MasterPC, TaskPC
  <2>4. UNCHANGED <<status, run, state, lastState, cur, queue>>
    BY <1>1 DEF MasterRead
  <2>5. Where # "off"
    BY <1>1 DEF MasterRead, Where, MasterPC, ShowInv, RunInv
  <2> QED  BY <2>3, <2>4, <2>5, MatrixKept DEF Work, MatrixInv
<1>2. CASE MasterWrite(First)
  <2>1. pc'[First] \in {"masterRead", ret[First]} /\ UNCHANGED ret
    BY <1>2 DEF MasterWrite, Goto
  <2>2. ret[First] \notin MasterPC \cup {"spawned"}
    BY ReturnType DEF TypeInv, LocalsOK
  <2>3. Where' = Where /\ (HasTask(First)' => HasTask(First))
    BY <1>2, <2>1, <2>2 DEF MasterWrite, Where, HasTask, MasterPC, TaskPC
  <2>4. UNCHANGED <<run, state, lastState, cur, queue>>
    BY <1>2 DEF MasterWrite
  <2>5. Where # "off"
    BY <1>2 DEF MasterWrite, Where, MasterPC, ShowInv, RunInv
  <2>6. mval[First] \in Expanded \X TaskStatus
    BY <1>2 DEF MasterWrite, TypeInv, TypeOK, LocalsOK
  <2>7. \A t \in TaskId : status'[t] = IF t = Master(mval[First][1]) THEN mval[First][2] ELSE status[t]
    BY <1>2 DEF MasterWrite, SetStatus, ApplyTaskFields
  <2>8. \A t \in TaskId : status'[t] = status[t] \/ Written(t)
    BY <2>6, <2>7 DEF Written, Master, TaskStatus
  <2> QED  BY <2>3, <2>4, <2>5, <2>8, MatrixKept DEF Work, MatrixInv
<1>3. CASE BeginTask(First)
  BY <1>b, <1>c, <1>3, MatrixWrite DEF BeginTask, MarkRunning, MasterPC, TaskPC
<1>4. CASE BeginBranch(First)
  BY <1>b, <1>4, MatrixStay DEF BeginBranch, MasterPC, TaskPC
<1>5. CASE CheckStep(First)
  BY <1>b, <1>5, MatrixStay DEF CheckStep, MasterPC, TaskPC, AfterSteps
<1>6. CASE SkipStep(First)
  BY <1>b, <1>6, MatrixStay DEF SkipStep, MasterPC, TaskPC
<1>7. CASE RunStep(First)
  <2>1. UNCHANGED <<status, run, lastState, cur, queue>> /\ pc[First] = "step" /\ pc'[First] = "after"
    BY <1>7 DEF RunStep, Goto
  <2>2. Work' \subseteq Work /\ Where' = "after" /\ Where = "step"
    BY <2>1 DEF Work, HasTask, Where, TaskPC, MasterPC
  <2>3. WorkInv' /\ OneTaskPerItem'
    BY <2>1, <2>2, WorkKept DEF MatrixInv
  <2>4. \A n \in Recompiled(state'), i \in Item : state'[n][i] <= 1
    <3>1. CASE state' = state
      BY <3>1 DEF MatrixInv
    <3>2. CASE state' # state
      <4>1. cur[First].node \in Node
        BY <1>7, TaskType, SchedulerAssumption
        DEF RunStep, TaskPC, TaskId, InitialTasks, StaticTasks, DynamicTasks, Master, Child, Single
      <4>2. PICK w \in Outputs[cur[First].node] : state' = [state EXCEPT ![w[1]] = w[2]]
        BY <1>7, <3>2 DEF RunStep
      <4>3. w \in FromState \X StateValue
        BY <4>1, <4>2, EngineAssumption
      <4>4. w[2] # ObjectValue => \A i \in Item : w[2][i] <= 1
        BY <4>1, <4>2, <4>3 DEF SinglyListed
      <4>5. \A n \in FromState : state'[n] = IF n = w[1] THEN w[2] ELSE state[n]
        BY <4>2 DEF WorkflowState
      <4> QED  BY <4>4, <4>5 DEF Recompiled, MatrixInv
    <3> QED  BY <3>1, <3>2
  <2>5. FinishedMatrixMatchesState'
    BY <2>1, <2>2, NotFinished
  <2> QED  BY <2>2, <2>3, <2>4, <2>5 DEF MatrixInv
<1>8. CASE StepCanceled(First)
  BY <1>b, <1>8, MatrixStay DEF StepCanceled, MasterPC, TaskPC
<1>9. CASE StepSucceeded(First)
  BY <1>b, <1>9, MatrixStay DEF StepSucceeded, MasterPC, TaskPC
<1>10. CASE StepDeferred(First)
  BY <1>b, <1>10, MatrixStay DEF StepDeferred, MasterPC, TaskPC
<1>11. CASE StepFailed(First)
  BY <1>b, <1>c, <1>11, MatrixWrite DEF StepFailed, MarkFailed, MasterPC, TaskPC
<1>12. CASE FinalizeTask(First)
  BY <1>b, <1>12, MatrixStay DEF FinalizeTask, MasterPC, TaskPC
<1>13. CASE CompleteTask(First)
  BY <1>b, <1>c, <1>13, MatrixWrite DEF CompleteTask, MarkCompleted, MasterPC, TaskPC
<1>14. CASE NotifyCompletion(First)
  BY <1>b, <1>14, MatrixStay DEF NotifyCompletion, MasterPC, TaskPC
<1>15. CASE StartExecutor(First)
  <2>1. /\ Work' \subseteq Work /\ Where' = "create" /\ run' = "Running"
        /\ UNCHANGED <<status, state, lastState>>
    BY <1>15 DEF StartExecutor, SetWorkflowStatus, Work, HasTask, Where, Goto, TaskPC, MasterPC
  <2> QED  BY <2>1, WorkKept DEF MatrixInv, FinishedMatrixMatchesState
<1>16. CASE CreateInitialTasks(First)
  BY <1>b, <1>16, MatrixStay DEF CreateInitialTasks, MasterPC, TaskPC
<1>17. CASE SaveTask(First)
  <2>0. lastState[First] = NoState /\ UNCHANGED <<run, state, lastState, cur, queue>>
        /\ \A t \in Exists(status) \cup todo[First] : t \in InitialTasks
    BY <1>17 DEF SaveTask, SetupInv, Where, MasterPC
  <2>1. Where' \in {"loop", "save"} /\ ~HasTask(First)' /\ Where # "off"
    <3>1. \/ pc'[First] \in {"loop", "save"}
          \/ pc'[First] = "masterRead" /\ ret'[First] = "save"
      <4>1. CASE Goto(First, "loop")
        BY <4>1 DEF Goto
      <4>2. ASSUME NEW M, UpdateMasters(First, M, "save")
            PROVE  pc'[First] = "save" \/ (pc'[First] = "masterRead" /\ ret'[First] = "save")
        BY <4>2 DEF UpdateMasters, Goto
      <4> QED  BY <1>17, <4>1, <4>2 DEF SaveTask
    <3>2. pc[First] = "save"
      BY <1>17 DEF SaveTask
    <3> QED  BY <3>1, <3>2 DEF Where, HasTask, MasterPC, TaskPC
  <2>2. Work' \subseteq Work
    BY <2>0, <2>1 DEF Work
  <2>3. \A t \in TaskId : status'[t] = status[t] \/ (status'[t] = "Pending" /\ t \in todo[First])
    BY <1>17 DEF SaveTask, SetStatus, ApplyTaskFields
  <2>4. WorkInv'
    <3>1. \A t \in Work' : status'[t] # "Absent"
      <4>1. Work' \subseteq TaskId
        BY <2>0, <2>1 DEF Work
      <4> QED  BY <2>2, <2>3, <4>1 DEF MatrixInv, WorkInv
    <3>2. lastState'[First] \notin WorkflowState
      BY <2>0, EngineAssumption
    <3> QED  BY <3>1, <3>2 DEF WorkInv
  <2>5. \A t \in Exists(status') : t \in InitialTasks
    BY <2>0, <2>3 DEF Exists
  <2>6. OneTaskPerItem'
    <3>1. \A t \in InitialTasks : t.kind = "child" => t = Child(t.node, t.item, 1)
      BY DEF InitialTasks, StaticTasks, Master, Child, Single
    <3> QED  BY <2>5, <3>1 DEF OneTaskPerItem
  <2>7. FinishedMatrixMatchesState'
    BY <2>0, <2>1, NotFinished
  <2> QED  BY <2>0, <2>1, <2>4, <2>6, <2>7 DEF MatrixInv
<1>18. CASE ReadTasks(First)
  BY <1>b, <1>18, MatrixStay DEF ReadTasks, MasterPC, TaskPC
<1>19. CASE CheckRunning(First)
  BY <1>b, <1>19, MatrixStay DEF CheckRunning, MasterPC, TaskPC
<1>20. CASE AwaitCompletion(First)
  BY <1>b, <1>20, MatrixStay DEF AwaitCompletion, MasterPC, TaskPC
<1>21. CASE Recompile(First)
  <2>1. /\ UNCHANGED <<run, state, cur, queue>> /\ pc[First] = "recompile"
        /\ Expanded # {} /\ lastState'[First] = state
    BY <1>21 DEF Recompile
  <2>2. Where' = "reread" /\ ~HasTask(First)' /\ Where = "recompile"
    BY <1>21 DEF Recompile, UpdateMasters, Where, HasTask, MasterPC, TaskPC, Goto
  <2>3. Work' = {}
    BY <2>1, <2>2 DEF Work, QueueInv, TaskPC
  <2>4. Matches(state)' /\ OneTaskPerItem'
    BY <1>21, RecompileMatches DEF MatrixInv
  <2>5. WorkInv'
    BY <2>1, <2>3, <2>4 DEF WorkInv, Matches
  <2>6. FinishedMatrixMatchesState'
    BY <2>1, <2>2, NotFinished
  <2> QED  BY <2>1, <2>2, <2>4, <2>5, <2>6 DEF MatrixInv
<1>22. CASE RereadTasks(First)
  BY <1>b, <1>22, MatrixStay DEF RereadTasks, MasterPC, TaskPC, MatrixInv, Where
<1>23. CASE SkipRecompile(First)
  BY <1>b, <1>23, MatrixStay DEF SkipRecompile, MasterPC, TaskPC
<1>24. CASE FinishWorkflow(First)
  <2>1. /\ UNCHANGED <<status, state, cur, queue>> /\ pc[First] = "schedule"
        /\ lastState'[First] = NoState /\ pc'[First] = "off"
    BY <1>24 DEF FinishWorkflow, ExitExecutor, Goto
  <2>2. Work' \subseteq Work /\ Where' = "off" /\ Where = "schedule"
    BY <2>1 DEF Work, HasTask, Where, TaskPC, MasterPC
  <2>3. WorkInv' /\ OneTaskPerItem'
    BY <2>1, <2>2, WorkKept DEF MatrixInv
  <2>4. Expanded # {} => Matches(state)
    BY <2>2 DEF MatrixInv, WorkInv
  <2>5. FinishedMatrixMatchesState'
    BY <2>1, <2>4 DEF FinishedMatrixMatchesState, Matches
  <2> QED  BY <2>1, <2>2, <2>3, <2>5 DEF MatrixInv
<1>25. CASE ScheduleAuto(First)
  <2>1. /\ UNCHANGED <<run, state, lastState, cur>> /\ Where = "schedule" /\ Where' = "decide"
        /\ ~HasTask(First)'
    BY <1>25 DEF ScheduleAuto, Where, HasTask, TaskPC, MasterPC, Goto
  <2>2. snap[First] = status
    BY <1>25 DEF ScheduleAuto, ShowInv, DecisionInv
  <2>3. \A t \in queue'[First] : t \in TaskId /\ status[t] = "Pending"
    BY <1>25, <2>2 DEF ScheduleAuto, RunnableTasks, AutoTriggered, TasksToAwaitTrigger, Candidates, Exists
  <2>4. Work' = queue'[First]
    BY <2>1 DEF Work
  <2>5. ASSUME NEW v \in WorkflowState, lastState[First] = v,
               NEW t \in TaskId, status[t] = "Pending"
        PROVE  Called(v, t)
    <3> SUFFICES ASSUME t.kind = "child", t.node \in Recompiled(v) PROVE t.item \in Listed(v, t.node)
      BY DEF Called
    <3>1. t \in Children(status, t.node)
      BY <2>5 DEF Children, TasksOf, Exists
    <3> QED  BY <2>5, <3>1 DEF MatrixInv, WorkInv, Matches
  <2>6. UNCHANGED status
    BY <1>25 DEF ScheduleAuto
  <2>7. WorkInv' /\ OneTaskPerItem'
    BY <2>1, <2>3, <2>4, <2>5, <2>6 DEF MatrixInv, WorkInv, Matches, OneTaskPerItem
  <2>8. FinishedMatrixMatchesState'
    BY <2>1, NotFinished
  <2> QED  BY <2>1, <2>7, <2>8 DEF MatrixInv
<1>26. CASE Schedule(First)
  <2>1. /\ UNCHANGED <<run, state, lastState, cur>> /\ Where = "schedule" /\ Where' = "decide"
        /\ ~HasTask(First)'
    BY <1>26, ReturnType DEF Schedule, UpdateMasters, Where, HasTask, TaskPC, MasterPC, Goto
  <2>2. snap[First] = status
    BY <1>26 DEF Schedule, ShowInv, DecisionInv
  <2>3. \A t \in queue'[First] : t \in TaskId /\ status[t] = "Pending"
    BY <1>26, <2>2 DEF Schedule, RunnableTasks, AutoTriggered, TasksToAwaitTrigger, Candidates, Exists
  <2>4. Work' = queue'[First]
    BY <2>1 DEF Work
  <2>5. ASSUME NEW v \in WorkflowState, lastState[First] = v,
               NEW t \in TaskId, status[t] = "Pending"
        PROVE  Called(v, t)
    <3> SUFFICES ASSUME t.kind = "child", t.node \in Recompiled(v) PROVE t.item \in Listed(v, t.node)
      BY DEF Called
    <3>1. t \in Children(status, t.node)
      BY <2>5 DEF Children, TasksOf, Exists
    <3> QED  BY <2>5, <3>1 DEF MatrixInv, WorkInv, Matches
  <2> DEFINE waiting == TasksToAwaitTrigger(snap[First])
  <2>6. /\ \A t \in waiting : t \in TaskId /\ status[t] = "Pending" /\ t \notin queue'[First]
        /\ \A t \in TaskId : status'[t] = IF t \in waiting THEN "AwaitingTrigger" ELSE status[t]
    BY <1>26, <2>2 DEF Schedule, SetStatus, ApplyTaskFields, TasksToAwaitTrigger, RunnableTasks, Candidates, Exists
  <2> HIDE DEF waiting
  <2>7. WorkInv' /\ OneTaskPerItem'
    <3>1. \A t \in TaskId : status'[t] = status[t] \/ Written(t)
      BY <2>5, <2>6 DEF Written
    <3>2. \A t \in Work' : status'[t] # "Absent"
      BY <2>3, <2>4, <2>6
    <3>3. \A n : KnownItems(status, n)' = KnownItems(status, n) /\ Children(status, n)' = Children(status, n)
      BY <2>6 DEF KnownItems, Children, TasksOf, Exists
    <3>4. ASSUME NEW v \in WorkflowState, lastState'[First] = v
          PROVE  Expanded # {} /\ Matches(v)' /\ \A t \in Work' : Called(v, t)
      <4>1. lastState[First] = v /\ Matches(v) /\ Expanded # {}
        BY <2>1, <3>4 DEF MatrixInv, WorkInv
      <4>2. ASSUME NEW n \in Recompiled(v), NEW t \in Children(status, n)
            PROVE  t.item \in Listed(v, n) \/ status'[t] \in {"Completed", "WontDo"}
        <5>1. t \in TaskId /\ t.kind = "child" /\ t.node = n
          BY DEF Children, TasksOf, Exists
        <5> QED  BY <2>5, <2>6, <4>1, <5>1 DEF Matches, Called
      <4>3. Matches(v)'
        BY <3>3, <4>1, <4>2 DEF Matches
      <4> QED  BY <2>3, <2>4, <2>5, <4>1, <4>3
    <3>5. OneTaskPerItem'
      BY <2>6 DEF MatrixInv, OneTaskPerItem, Exists
    <3> QED  BY <3>2, <3>4, <3>5 DEF WorkInv
  <2>8. FinishedMatrixMatchesState'
    BY <2>1, NotFinished
  <2> QED  BY <2>1, <2>7, <2>8 DEF MatrixInv
<1>27. CASE Decide(First)
  BY <1>b, <1>27, MatrixStay DEF Decide, MasterPC, TaskPC
<1>28. CASE PauseWorkflow(First)
  <2>1. /\ UNCHANGED <<status, state, cur, queue>> /\ pc[First] = "pause"
        /\ lastState'[First] = NoState /\ pc'[First] = "off" /\ run' = "AwaitingTrigger"
    BY <1>28 DEF PauseWorkflow, ExitExecutor, SetWorkflowStatus, Goto
  <2>2. Work' \subseteq Work /\ Where' = "off"
    BY <2>1 DEF Work, HasTask, Where, TaskPC, MasterPC
  <2>3. WorkInv' /\ OneTaskPerItem'
    BY <2>1, <2>2, WorkKept DEF MatrixInv
  <2> QED  BY <2>1, <2>2, <2>3 DEF MatrixInv, FinishedMatrixMatchesState
<1>29. CASE AwaitWake(First)
  BY <1>b, <1>29, MatrixStay DEF AwaitWake, MasterPC, TaskPC
<1>30. CASE RunNext(First)
  <2>1. UNCHANGED <<status, run, state, lastState>> /\ Where = "runNext"
    BY <1>30 DEF RunNext, Where, MasterPC
  <2>2. Work' \subseteq queue[First] /\ Where' \in {"loop", "begin"}
    <3>1. CASE queue[First] = {} /\ pc'[First] = "loop" /\ UNCHANGED queue
      BY <3>1 DEF Work, HasTask, Where, TaskPC, MasterPC
    <3>2. ASSUME NEW t \in queue[First], cur' = [cur EXCEPT ![First] = t],
                 queue' = [queue EXCEPT ![First] = @ \ {t}], pc'[First] = "begin"
          PROVE  Work' \subseteq queue[First] /\ Where' \in {"loop", "begin"}
      <4>1. cur'[First] = t
        BY <3>2 DEF TypeInv, TypeOK
      <4> QED  BY <3>2, <4>1 DEF Work, Where, MasterPC
    <3> QED  BY <1>30, <3>1, <3>2 DEF RunNext, Goto
  <2>3. Work' \subseteq Work
    BY <2>2 DEF Work
  <2> QED  BY <2>1, <2>2, <2>3, MatrixKept
<1>31. CASE ExecutorError(First)
  <2>1. CASE Settled(cur[First])
    BY <1>b, <1>31, <2>1, MatrixStay DEF ExecutorError, MasterPC, TaskPC
  <2>2. CASE ~Settled(cur[First])
    BY <1>b, <1>c, <1>31, <2>2, MatrixWrite
    DEF ExecutorError, MarkFailed, MarkAwaitingTrigger, MasterPC, TaskPC
  <2> QED  BY <2>1, <2>2
<1>32. CASE Crash
  <2>1. Proc = {First} /\ Call = {}
    BY EngineAssumption DEF Proc, Worker, Thread, Call, First, ExecutorOf
  <2>2. /\ UNCHANGED <<status, run, state>> /\ pc[First] \notin {"off", "done"}
        /\ pc'[First] = "off" /\ queue'[First] = {} /\ lastState'[First] = NoState
    BY <1>32, <2>1 DEF Crash
  <2>3. Work' = {} /\ Where' = "off"
    BY <2>2 DEF Work, HasTask, Where, TaskPC, MasterPC
  <2>4. WorkInv' /\ OneTaskPerItem'
    BY <2>2, <2>3, WorkKept DEF MatrixInv
  <2>5. Where # "off"
    BY <2>2 DEF Where, ShowInv, RunInv
  <2> QED  BY <2>2, <2>3, <2>4, <2>5, NotFinished DEF MatrixInv
<1>33. CASE UNCHANGED vars
  <2>1. UNCHANGED <<status, run, state, lastState, pc, ret, cur, queue>>
    BY <1>33 DEF vars, procVars
  <2>2. Work' = Work /\ Where' = Where
    BY <2>1 DEF Work, HasTask, Where
  <2>3. WorkInv' /\ OneTaskPerItem'
    BY <2>1, <2>2, WorkKept DEF MatrixInv
  <2>4. FinishedMatrixMatchesState'
    BY <2>1 DEF MatrixInv, FinishedMatrixMatchesState
  <2> QED  BY <2>1, <2>2, <2>3, <2>4 DEF MatrixInv
<1> QED
  BY SequentialStep, <1>1, <1>2, <1>3, <1>4, <1>5, <1>6, <1>7, <1>8, <1>9, <1>10, <1>11, <1>12, <1>13, <1>14, <1>15, <1>16, <1>17, <1>18, <1>19, <1>20, <1>21, <1>22, <1>23, <1>24, <1>25, <1>26, <1>27, <1>28, <1>29, <1>30, <1>31, <1>32, <1>33
  DEF UpdateMaster, ExecuteTask, ExecuteWorkflow

\* Only the end of the executor's loop finishes the run.
LEMMA FinishOnly ==
    ASSUME Caller = {}, TypeInv, ShowInv, [Next]_vars, run' \in {"Completed", "Failed"}
    PROVE  FinishWorkflow(First) \/ UNCHANGED <<status, run>>
<1>0. pc[First] # "off" => run \in {"Pending", "Running"}
  BY DEF ShowInv, RunInv, Where, MasterPC
<1> USE <1>0
<1>1. CASE MasterRead(First)
  BY <1>1 DEF MasterRead, MasterPC
<1>2. CASE MasterWrite(First)
  BY <1>2 DEF MasterWrite, MasterPC
<1>3. CASE BeginTask(First)
  BY <1>3 DEF BeginTask
<1>4. CASE BeginBranch(First)
  BY <1>4 DEF BeginBranch
<1>5. CASE CheckStep(First)
  BY <1>5 DEF CheckStep
<1>6. CASE SkipStep(First)
  BY <1>6 DEF SkipStep
<1>7. CASE RunStep(First)
  BY <1>7 DEF RunStep
<1>8. CASE StepCanceled(First)
  BY <1>8 DEF StepCanceled
<1>9. CASE StepSucceeded(First)
  BY <1>9 DEF StepSucceeded
<1>10. CASE StepDeferred(First)
  BY <1>10 DEF StepDeferred
<1>11. CASE StepFailed(First)
  BY <1>11 DEF StepFailed
<1>12. CASE FinalizeTask(First)
  BY <1>12 DEF FinalizeTask
<1>13. CASE CompleteTask(First)
  BY <1>13 DEF CompleteTask
<1>14. CASE NotifyCompletion(First)
  BY <1>14 DEF NotifyCompletion
<1>15. CASE StartExecutor(First)
  BY <1>15 DEF StartExecutor, SetWorkflowStatus
<1>16. CASE CreateInitialTasks(First)
  BY <1>16 DEF CreateInitialTasks
<1>17. CASE SaveTask(First)
  BY <1>17 DEF SaveTask
<1>18. CASE ReadTasks(First)
  BY <1>18 DEF ReadTasks
<1>19. CASE CheckRunning(First)
  BY <1>19 DEF CheckRunning
<1>20. CASE AwaitCompletion(First)
  BY <1>20 DEF AwaitCompletion
<1>21. CASE Recompile(First)
  BY <1>21 DEF Recompile
<1>22. CASE RereadTasks(First)
  BY <1>22 DEF RereadTasks
<1>23. CASE SkipRecompile(First)
  BY <1>23 DEF SkipRecompile
<1>24. CASE FinishWorkflow(First)
  BY <1>24
<1>25. CASE ScheduleAuto(First)
  BY <1>25 DEF ScheduleAuto
<1>26. CASE Schedule(First)
  BY <1>26 DEF Schedule
<1>27. CASE Decide(First)
  BY <1>27 DEF Decide
<1>28. CASE PauseWorkflow(First)
  BY <1>28 DEF PauseWorkflow, SetWorkflowStatus
<1>29. CASE AwaitWake(First)
  BY <1>29 DEF AwaitWake
<1>30. CASE RunNext(First)
  BY <1>30 DEF RunNext
<1>31. CASE ExecutorError(First)
  BY <1>31 DEF ExecutorError
<1>32. CASE Crash
  <2>1. Proc = {First} /\ Call = {}
    BY EngineAssumption DEF Proc, Worker, Thread, Call, First, ExecutorOf
  <2> QED  BY <1>32, <2>1 DEF Crash
<1>33. CASE UNCHANGED vars
  BY <1>33 DEF vars, procVars
<1> QED
  BY SequentialStep, <1>1, <1>2, <1>3, <1>4, <1>5, <1>6, <1>7, <1>8, <1>9, <1>10, <1>11, <1>12, <1>13, <1>14, <1>15, <1>16, <1>17, <1>18, <1>19, <1>20, <1>21, <1>22, <1>23, <1>24, <1>25, <1>26, <1>27, <1>28, <1>29, <1>30, <1>31, <1>32, <1>33
  DEF UpdateMaster, ExecuteTask, ExecuteWorkflow

\* What a finished run shows on its masters stays as it is.
LEMMA FinishedMastersStep ==
    ASSUME Caller = {}, TypeInv, DepInv, ShowInv, MastersInv, FinishedMastersAgree, [Next]_vars
    PROVE  FinishedMastersAgree'
<1> SUFFICES ASSUME run' \in {"Completed", "Failed"}, NEW n \in Expanded
             PROVE  status'[Master(n)]
                       = IF \E t \in Children(status', n) : status'[t] = "Failed"
                         THEN "Failed" ELSE "Completed"
  BY DEF FinishedMastersAgree
<1>1. CASE UNCHANGED <<status, run>>
  BY <1>1 DEF FinishedMastersAgree
<1>2. CASE FinishWorkflow(First)
  <2>1. pc[First] = "schedule" /\ AllDone(snap[First]) /\ status' = status
    BY <1>2 DEF FinishWorkflow
  <2>2. snap[First] = status
    BY <2>1 DEF ShowInv, DecisionInv
  <2>3. AllTerminal(status, n)
    BY <2>1, <2>2 DEF AllDone, AllTerminal, Children, TasksOf
  <2>4. Saved(status)
    BY <2>1 DEF DepInv, Setup, SetupWorkers, MasterPC
  <2>5. status[Master(n)] # "Absent"
    BY <2>4, MastersAreInitial DEF Saved
  <2>6. Fine(n)
    BY <2>1 DEF MastersInv, Where, Dirty, MasterPC
  <2>7. status[Master(n)] = MasterStatus(status, n)
    BY <2>3, <2>5, <2>6 DEF Fine, Shown
  <2> QED  BY <2>1, <2>3, <2>7 DEF MasterStatus, SomeChild
<1> QED  BY <1>1, <1>2, FinishOnly

\* Before the first step.
LEMMA SequentialInit ==
    ASSUME Init
    PROVE  ShowInv /\ QueueInv /\ SetupInv /\ MastersInv /\ MatrixInv /\ FinishedMastersAgree
<1>1. /\ pc[First] = "start" /\ run = "Pending" /\ queue[First] = {} /\ status = NoTasks
      /\ todo[First] = {} /\ lastState[First] = NoState
      /\ state = [n \in FromState |-> [i \in Item |-> 0]]
  BY FirstType DEF Init, First
<1>2. Where = "start" /\ ~HasTask(First) /\ Exists(status) = {}
  BY <1>1 DEF Where, HasTask, MasterPC, TaskPC, NoTasks, Exists
<1>3. ShowInv
  BY <1>1, <1>2 DEF ShowInv, RunInv, DecisionInv, RunStatusAgrees, MasterPC
<1>4. QueueInv /\ SetupInv
  BY <1>1, <1>2 DEF QueueInv, SetupInv
<1>5. MastersInv
  <2>1. \A n \in Expanded : status[Master(n)] = "Absent"
    BY <1>1, MasterType DEF NoTasks
  <2> QED  BY <1>1, <2>1 DEF MastersInv, Fine
<1>6. WorkInv
  BY <1>1, <1>2, EngineAssumption DEF WorkInv, Work
<1>7. MatrixInv
  BY <1>1, <1>2, <1>6 DEF MatrixInv, Recompiled, OneTaskPerItem, FinishedMatrixMatchesState
<1> QED  BY <1>1, <1>3, <1>4, <1>5, <1>7 DEF FinishedMastersAgree

\* As long as no API call is made the status of a finished or paused run is the
\* one its tasks call for, even if the process dies.
THEOREM RunStatusCorrect == ASSUME Caller = {} PROVE Spec => []RunStatusAgrees
<1>1. TypeInv /\ ShowInv /\ [Next]_vars => ShowInv'
  BY ShowInvStep
<1>2. ShowInv => RunStatusAgrees
  BY DEF ShowInv
<1> QED  BY <1>1, <1>2, SequentialInit, TypeInvariant, PTL DEF Spec

\* As long as no API call is made every master of a finished run shows what
\* became of its children.
THEOREM MastersCorrect == ASSUME Caller = {} PROVE Spec => []FinishedMastersAgree
<1> DEFINE IInv == ShowInv /\ QueueInv /\ SetupInv /\ MastersInv /\ FinishedMastersAgree
<1>1. TypeInv /\ DepInv /\ IInv /\ [Next]_vars => IInv'
  BY ShowInvStep, QueueStep, MastersStep, FinishedMastersStep
<1> QED  BY <1>1, SequentialInit, DepInvInit, DepInvStep, TypeInvariant, PTL DEF Spec

\* As long as no API call is made, and no step writes an array that lists an item
\* twice, what the executor knows of the matrix tasks is right.
THEOREM MatrixInvariant == ASSUME Caller = {}, SinglyListed PROVE Spec => []MatrixInv
<1> DEFINE IInv == ShowInv /\ QueueInv /\ SetupInv /\ MatrixInv
<1>1. TypeInv /\ IInv /\ [Next]_vars => IInv'
  BY ShowInvStep, QueueStep, MatrixStep
<1> QED  BY <1>1, SequentialInit, TypeInvariant, PTL DEF Spec

\* Under these conditions the matrix tasks of a finished run are those that its
\* final state lists.
THEOREM MatrixCorrect ==
    ASSUME Caller = {}, SinglyListed PROVE Spec => []FinishedMatrixMatchesState
<1>1. MatrixInv => FinishedMatrixMatchesState
  BY DEF MatrixInv
<1> QED  BY <1>1, MatrixInvariant, PTL

\* Under these conditions no item ever gets a second task.
THEOREM ItemsCorrect ==
    ASSUME Caller = {}, SinglyListed PROVE Spec => []OneTaskPerItem
<1>1. MatrixInv => OneTaskPerItem
  BY DEF MatrixInv
<1> QED  BY <1>1, MatrixInvariant, PTL

=============================================================================
