--------------------------- MODULE WorkflowEngine ---------------------------
(***************************************************************************)
(* core/src/engine.rs: one workflow run, the threads that execute it and   *)
(* the API calls made on it, in one process.                               *)
(*                                                                         *)
(* An API call (resume_workflow, trigger_all, cancel_workflow) runs in the *)
(* caller's thread.  resume_workflow and trigger_all start one task thread *)
(* per triggered task and one more executor, whatever already runs;        *)
(* run_workflow starts the first executor.  An executor runs               *)
(* execute_workflow, a task thread runs one execute_task.                  *)
(*                                                                         *)
(* Every step below lies between two acquisitions of the state adapter's   *)
(* lock, so any other thread can run between two steps.                    *)
(***************************************************************************)
EXTENDS TaskState

CONSTANTS
    Caller,       \* API calls; each one happens at most once
    RunCall,      \* the call of run_workflow, already made
    ApiCalls,     \* [Caller -> the calls it can be: resume, triggerAll, cancel]
    MaxResumed,   \* bound: tasks named by one resume_workflow
    Outcomes,     \* [Node -> what a step of the node can do]
    NumSteps,     \* steps of a node
    Outputs,      \* [Node -> the <<key, value>> a step of the node can write]
    Managed,      \* nodes whose branch, commits and pull request are managed
    AutoTrigger,  \* the auto_trigger_manual_steps option
    MayCrash,     \* whether the process may die and be started again
    NoTask, NoState, NoWrite

ASSUME EngineAssumption ==
    /\ RunCall \notin Caller
    /\ Executor = {"executor"} \X (Caller \cup {RunCall})
    /\ ApiCalls \in [Caller -> SUBSET {"resume", "triggerAll", "cancel"}]
    /\ MaxResumed \in Nat
    /\ Outcomes \in [Node -> SUBSET {"Ok", "Fail", "Defer", "Skip"}]
    /\ NumSteps \in Nat \ {0}
    /\ \A n \in Node : Outputs[n] \subseteq FromState \X StateValue
    /\ Managed \subseteq Node
    /\ AutoTrigger \in BOOLEAN
    /\ MayCrash \in BOOLEAN
    /\ NoTask \notin TaskId
    /\ NoState \notin WorkflowState
    /\ NoWrite \notin Expanded \X TaskStatus

ExecutorOf(c)  == <<"executor", c>>
CallOf(c)      == <<"call", c>>
ThreadOf(c, t) == <<"thread", c, t>>

Call   == {CallOf(c) : c \in Caller}
Thread == {ThreadOf(c, t) : c \in Caller, t \in TaskId}
Worker == Executor \cup Thread     \* whatever runs execute_task
Proc   == Worker \cup Call

VARIABLES
    state,      \* the workflow state, as far as from_state keys go
    permit,     \* the permit stored in task_completion_notify
    notified,   \* executors whose completion future has been notified
    pc, cur,    \* where a process is, and the task it works on
    out, left,  \* how the last step ended, and the steps left
    masters, ret, mval, \* masters to update, where to go next, pending write
    snap, queue,        \* an executor's task snapshot, and its runnable tasks
    lastState,  \* the state an executor last recompiled for
    todo,       \* the tasks still to handle by a call, or to save
    batch,      \* the tasks a call has triggered
    done        \* history: tasks that have been Completed at some time

procVars == <<pc, cur, out, left>>
masterVars == <<masters, ret, mval>>
execVars == <<snap, queue, lastState>>
callVars == <<todo, batch>>
notifyVars == <<permit, notified>>
vars == <<storeVars, state, notifyVars, procVars, masterVars, execVars,
          callVars, done>>

-----------------------------------------------------------------------------
(* Control. *)

NoTasks == [t \in TaskId |-> "Absent"]

MasterPC == {"masterRead", "masterWrite"}
TaskPC   == {"begin", "branch", "check", "step", "after", "finalize",
             "complete", "notify", "failed"}
ExecPC   == {"off", "start", "create", "save", "loop", "waitRunning",
             "awaitCompletion", "recompile", "reread", "schedule", "decide",
             "pause", "runNext", "awaitWake"}
ThreadPC == {"off", "spawned", "guard"}
CallPC   == {"off", "resumeCheck", "resumeMark", "triggerMark", "triggerDone",
             "launch", "cancelRead", "cancelMark", "cancelRun", "done"}
PC == MasterPC \cup TaskPC \cup ExecPC \cup ThreadPC \cup CallPC

Goto(p, l) == pc' = [pc EXCEPT ![p] = l]

\* The locals of execute_task, and those of execute_workflow, go with it.
ForgetTask(p) ==
    /\ out' = [out EXCEPT ![p] = "Ok"]
    /\ left' = [left EXCEPT ![p] = 0]

ExitExecutor(e) ==
    /\ Goto(e, "off")
    /\ snap' = [snap EXCEPT ![e] = NoTasks]
    /\ lastState' = [lastState EXCEPT ![e] = NoState]

\* Update the master of every node in M, then go to l.
UpdateMasters(p, M, l) ==
    /\ masters' = [masters EXCEPT ![p] = M]
    /\ ret' = IF M = {} THEN ret ELSE [ret EXCEPT ![p] = l]
    /\ Goto(p, IF M = {} THEN l ELSE "masterRead")

\* update_parent_matrix_master_for_task
UpdateParent(p, t, l) == UpdateMasters(p, Parent(t), l)

\* task_completion_notify.notify_one(): one waiting future, or the permit.
CompletionWaiters ==
    {e \in Executor : pc[e] = "awaitCompletion" /\ e \notin notified}

NotifyOne ==
    \/ /\ CompletionWaiters = {}
       /\ permit' = TRUE
       /\ UNCHANGED notified
    \/ /\ \E e \in CompletionWaiters : notified' = notified \cup {e}
       /\ UNCHANGED permit

\* is_task_canceled
IsTaskCanceled(t) ==
    run = "Canceled" \/ (status[t] = "Failed" /\ err[t] = "Canceled")


(* update_matrix_master_status.  The tasks are read under the lock, the    *)
(* status is computed after it is released ...                             *)
MasterRead(p) ==
    /\ pc[p] = "masterRead"
    /\ \E m \in masters[p] :
          /\ masters' = [masters EXCEPT ![p] = @ \ {m}]
          /\ IF MasterWrites(status, m)
             THEN /\ mval' = [mval EXCEPT ![p] = <<m, MasterStatus(status, m)>>]
                  /\ Goto(p, "masterWrite")
             ELSE /\ Goto(p, IF masters[p] = {m} THEN ret[p] ELSE "masterRead")
                  /\ UNCHANGED mval
    /\ UNCHANGED <<storeVars, state, notifyVars, cur, out, left, ret, execVars,
                   callVars, done>>

(* ... and written in a critical section of its own.                       *)
MasterWrite(p) ==
    /\ pc[p] = "masterWrite"
    /\ SetStatus({Master(mval[p][1])}, mval[p][2])
    /\ mval' = [mval EXCEPT ![p] = NoWrite]
    /\ Goto(p, IF masters[p] = {} THEN ret[p] ELSE "masterRead")
    /\ UNCHANGED <<run, state, notifyVars, cur, out, left, masters, ret,
                   execVars, callVars, done>>

-----------------------------------------------------------------------------
(* execute_task, run by an executor or by a task thread.                   *)

\* Mutant: one step too many.
BeginTaskOneMore(p) ==
    /\ pc[p] = "begin"
    /\ MarkRunning(cur[p])
    /\ left' = [left EXCEPT ![p] = NumSteps + 1]
    /\ UpdateParent(p, cur[p], IF cur[p].node \in Managed THEN "branch" ELSE "check")
    /\ UNCHANGED <<run, state, notifyVars, cur, out, mval, execVars, callVars,
                   done>>

BeginTask(p) ==
    /\ pc[p] = "begin"
    /\ MarkRunning(cur[p])
    /\ left' = [left EXCEPT ![p] = NumSteps]
    /\ UpdateParent(p, cur[p], IF cur[p].node \in Managed THEN "branch" ELSE "check")
    /\ UNCHANGED <<run, state, notifyVars, cur, out, mval, execVars, callVars,
                   done>>

\* begin_task_branch
BeginBranch(p) ==
    /\ pc[p] = "branch"
    /\ \/ Goto(p, "check") /\ UNCHANGED out
       \/ Goto(p, "failed") /\ out' = [out EXCEPT ![p] = "Error"]
    /\ UNCHANGED <<storeVars, state, notifyVars, cur, left, masterVars,
                   execVars, callVars, done>>

AfterSteps(t) == IF t.node \in Managed THEN "finalize" ELSE "complete"

\* The next step, unless there is none or the task is canceled.
CheckStep(p) ==
    /\ pc[p] = "check"
    /\ \/ left[p] = 0 /\ Goto(p, AfterSteps(cur[p])) /\ UNCHANGED out
       \/ left[p] > 0 /\ ~IsTaskCanceled(cur[p]) /\ Goto(p, "step") /\ UNCHANGED out
       \/ /\ left[p] > 0 /\ IsTaskCanceled(cur[p])
          /\ Goto(p, "failed")
          /\ out' = [out EXCEPT ![p] = "Error"]
    /\ UNCHANGED <<storeVars, state, notifyVars, cur, left, masterVars,
                   execVars, callVars, done>>

\* A step whose condition does not hold.
SkipStep(p) ==
    /\ pc[p] = "step"
    /\ "Skip" \in Outcomes[cur[p].node]
    /\ left' = [left EXCEPT ![p] = @ - 1]
    /\ Goto(p, "check")
    /\ UNCHANGED <<storeVars, state, notifyVars, cur, out, masterVars,
                   execVars, callVars, done>>

\* A step runs to an outcome; a successful one may write the state.
RunStep(p) ==
    /\ pc[p] = "step"
    /\ \E o \in Outcomes[cur[p].node] \ {"Skip"} :
          /\ out' = [out EXCEPT ![p] = o]
          /\ \/ UNCHANGED <<state, woken>>
             \/ /\ o = "Ok"
                /\ \E w \in Outputs[cur[p].node] :
                      state' = [state EXCEPT ![w[1]] = w[2]]
                /\ Wake
    /\ Goto(p, "after")
    /\ UNCHANGED <<status, err, run, notifyVars, cur, left, masterVars,
                   execVars, callVars, done>>

\* Cancellation wins over the step's own result.
StepCanceled(p) ==
    /\ pc[p] = "after" /\ IsTaskCanceled(cur[p])
    /\ out' = [out EXCEPT ![p] = "Error"]
    /\ Goto(p, "failed")
    /\ UNCHANGED <<storeVars, state, notifyVars, cur, left, masterVars,
                   execVars, callVars, done>>

\* After a successful step of a managed node comes its commit checkpoint.
StepSucceeded(p) ==
    /\ pc[p] = "after" /\ ~IsTaskCanceled(cur[p]) /\ out[p] = "Ok"
    /\ \/ /\ left' = [left EXCEPT ![p] = @ - 1]
          /\ Goto(p, "check")
          /\ UNCHANGED out
       \/ /\ cur[p].node \in Managed
          /\ out' = [out EXCEPT ![p] = "Error"]
          /\ Goto(p, "failed")
          /\ UNCHANGED left
    /\ UNCHANGED <<storeVars, state, notifyVars, cur, masterVars, execVars,
                   callVars, done>>

StepDeferred(p) ==
    /\ pc[p] = "after" /\ ~IsTaskCanceled(cur[p]) /\ out[p] = "Defer"
    /\ Goto(p, "failed")
    /\ UNCHANGED <<storeVars, state, notifyVars, cur, out, left, masterVars,
                   execVars, callVars, done>>

StepFailed(p) ==
    /\ pc[p] = "after" /\ ~IsTaskCanceled(cur[p]) /\ out[p] = "Fail"
    /\ MarkFailed(cur[p])
    /\ UpdateParent(p, cur[p], "failed")
    /\ UNCHANGED <<run, state, notifyVars, cur, out, left, mval, execVars,
                   callVars, done>>

\* finalize_task: fallback commit, push and pull request.
FinalizeTask(p) ==
    /\ pc[p] = "finalize"
    /\ \/ Goto(p, "complete") /\ UNCHANGED out
       \/ Goto(p, "failed") /\ \E o \in {"Error", "Defer"} : out' = [out EXCEPT ![p] = o]
    /\ UNCHANGED <<storeVars, state, notifyVars, cur, left, masterVars,
                   execVars, callVars, done>>

CompleteTask(p) ==
    /\ pc[p] = "complete"
    /\ MarkCompleted(cur[p])
    /\ done' = done \cup {cur[p]}
    /\ UpdateParent(p, cur[p], "notify")
    /\ UNCHANGED <<run, state, notifyVars, cur, out, left, mval, execVars,
                   callVars>>

NotifyCompletion(p) ==
    /\ pc[p] = "notify"
    /\ NotifyOne
    /\ Wake
    /\ Goto(p, IF p \in Executor THEN "runNext" ELSE "off")
    /\ UNCHANGED <<status, err, run, state, cur, out, left, masterVars,
                   execVars, callVars, done>>

-----------------------------------------------------------------------------
(* spawn_task_with_handle: the thread around execute_task.                 *)

\* Mutant: a Running task counts as settled.
SettledOrRunning(t) == status[t] # "Pending"

Settled(t) == status[t] \in {"Failed", "Completed", "WontDo", "AwaitingTrigger"}

ThreadStart(p) ==
    /\ pc[p] = "spawned"
    /\ Goto(p, "begin")
    /\ UNCHANGED <<storeVars, state, notifyVars, cur, out, left, masterVars,
                   execVars, callVars, done>>

\* The worktree cannot be prepared, or execute_task takes more than 45 minutes
\* and is dropped: the task is failed, the guard notifies.
ThreadFails(p) ==
    /\ \/ pc[p] = "spawned" /\ cur[p].node \in Managed
       \/ pc[p] \in {"step", "finalize"}
    /\ MarkFailed(cur[p])
    /\ UpdateParent(p, cur[p], "guard")
    /\ ForgetTask(p)
    /\ UNCHANGED <<run, state, notifyVars, cur, mval, execVars,
                   callVars, done>>

\* A deferred task goes back to waiting; the guard is told not to notify.
ThreadDeferred(p) ==
    /\ pc[p] = "failed" /\ out[p] = "Defer"
    /\ MarkAwaitingTrigger(cur[p])
    /\ UpdateParent(p, cur[p], "off")
    /\ ForgetTask(p)
    /\ UNCHANGED <<run, state, notifyVars, cur, mval, execVars,
                   callVars, done>>

ThreadError(p) ==
    /\ pc[p] = "failed" /\ out[p] # "Defer"
    /\ \/ /\ Settled(cur[p])
          /\ Goto(p, "guard")
          /\ UNCHANGED <<status, err, woken, masters, ret>>
       \/ /\ ~Settled(cur[p])
          /\ MarkFailed(cur[p])
          /\ UpdateParent(p, cur[p], "guard")
    /\ ForgetTask(p)
    /\ UNCHANGED <<run, state, notifyVars, cur, mval, execVars,
                   callVars, done>>

\* TaskCleanupGuard::drop
CleanupGuard(p) ==
    /\ pc[p] = "guard"
    /\ NotifyOne
    /\ Goto(p, "off")
    /\ UNCHANGED <<storeVars, state, cur, out, left, masterVars, execVars,
                   callVars, done>>

-----------------------------------------------------------------------------
(* execute_workflow.                                                       *)

StartExecutor(e) ==
    /\ pc[e] = "start"
    /\ SetWorkflowStatus("Running")
    /\ Goto(e, "create")
    /\ UNCHANGED <<status, err, state, notifyVars, cur, out, left, masterVars,
                   execVars, callVars, done>>

\* create_initial_tasks, if the run has none.
CreateInitialTasks(e) ==
    /\ pc[e] = "create"
    /\ IF Exists(status) = {}
       THEN todo' = [todo EXCEPT ![e] = InitialTasks] /\ Goto(e, "save")
       ELSE Goto(e, "loop") /\ UNCHANGED todo
    /\ UNCHANGED <<storeVars, state, notifyVars, cur, out, left, masterVars,
                   execVars, batch, done>>

\* Tasks are saved one by one, a master before its children; a saved master is
\* updated at once, while it has no children yet.
SaveTask(e) ==
    /\ pc[e] = "save"
    /\ \/ \E t \in todo[e] :
             /\ \A m \in Parent(t) : Master(m) \notin todo[e]
             /\ SetStatus({t}, "Pending")
             /\ todo' = [todo EXCEPT ![e] = @ \ {t}]
             /\ UpdateMasters(e, IF t.kind = "master" THEN {t.node} ELSE {}, "save")
       \/ /\ todo[e] = {}
          /\ Goto(e, "loop")
          /\ UNCHANGED <<status, err, woken, todo, masters, ret>>
    /\ UNCHANGED <<run, state, notifyVars, cur, out, left, mval, execVars, batch,
                   done>>

\* The wake-up is registered before the tasks are read.
ReadTasks(e) ==
    /\ pc[e] = "loop"
    /\ woken' = [woken EXCEPT ![e] = FALSE]
    /\ snap' = [snap EXCEPT ![e] = status]
    /\ Goto(e, "waitRunning")
    /\ UNCHANGED <<status, err, run, state, notifyVars, cur, out, left,
                   masterVars, queue, lastState, callVars, done>>

\* Mutant: the wake-up is registered after the running tasks have ended.
CheckRunningRegisters(e) ==
    /\ pc[e] = "waitRunning"
    /\ notified' = notified \ {e}
    /\ woken' = [woken EXCEPT ![e] = FALSE]
    /\ Goto(e, IF \E t \in TaskId : status[t] = "Running"
               THEN "awaitCompletion" ELSE "recompile")
    /\ UNCHANGED <<status, err, run, state, permit, cur, out, left, masterVars,
                   execVars, callVars, done>>

\* wait_for_running_tasks_to_complete, which looks at fresh tasks but leaves
\* the caller with the snapshot it took before.
CheckRunning(e) ==
    /\ pc[e] = "waitRunning"
    /\ notified' = notified \ {e}
    /\ Goto(e, IF \E t \in TaskId : status[t] = "Running"
               THEN "awaitCompletion" ELSE "recompile")
    /\ UNCHANGED <<storeVars, state, permit, cur, out, left, masterVars,
                   execVars, callVars, done>>

AwaitCompletion(e) ==
    /\ pc[e] = "awaitCompletion"
    /\ \/ e \in notified /\ UNCHANGED permit
       \/ e \notin notified /\ permit /\ permit' = FALSE
    /\ Goto(e, "waitRunning")
    /\ UNCHANGED <<storeVars, state, notified, cur, out, left, masterVars,
                   execVars, callVars, done>>

\* The state hash depends on the order a fresh HashMap is iterated in: with
\* two keys or more it can differ although the state is the same.
StateChanged(e) ==
    lastState[e] # state \/ Cardinality(FromState) > 1

Recompile(e) ==
    /\ pc[e] = "recompile"
    /\ Expanded # {} /\ StateChanged(e)
    /\ LET new  == NewTasks(snap[e], status, state)
           gone == TasksToMarkWontDo(snap[e], state)
       IN  /\ status' = [t \in TaskId |-> IF t \in new THEN "Pending"
                                          ELSE IF t \in gone THEN "WontDo"
                                          ELSE status[t]]
           /\ IF new \cup gone = {} THEN UNCHANGED woken ELSE Wake
    /\ lastState' = [lastState EXCEPT ![e] = state]
    /\ UpdateMasters(e, FromState, "reread")
    /\ UNCHANGED <<err, run, state, notifyVars, cur, out, left, mval, snap,
                   queue, callVars, done>>

\* Tasks are read again only if they were recompiled.
RereadTasks(e) ==
    /\ pc[e] = "reread"
    /\ snap' = [snap EXCEPT ![e] = status]
    /\ Goto(e, "schedule")
    /\ UNCHANGED <<storeVars, state, notifyVars, cur, out, left, masterVars,
                   queue, lastState, callVars, done>>

\* Mutant: the tasks are recompiled once.
SkipRecompileAfterFirst(e) ==
    /\ pc[e] = "recompile"
    /\ Expanded = {} \/ lastState[e] # NoState
    /\ Goto(e, "schedule")
    /\ UNCHANGED <<storeVars, state, notifyVars, cur, out, left, masterVars,
                   execVars, callVars, done>>

SkipRecompile(e) ==
    /\ pc[e] = "recompile"
    /\ Expanded = {} \/ lastState[e] = state
    /\ Goto(e, "schedule")
    /\ UNCHANGED <<storeVars, state, notifyVars, cur, out, left, masterVars,
                   execVars, callVars, done>>

AllDone(S) == \A t \in Exists(S) : S[t] \in Terminal

\* Mutant: a failed task does not fail the run.
FinishWorkflowCompleted(e) ==
    /\ pc[e] = "schedule" /\ AllDone(snap[e])
    /\ SetWorkflowStatus("Completed")
    /\ ExitExecutor(e)
    /\ UNCHANGED <<status, err, state, notifyVars, cur, out, left, masterVars,
                   queue, callVars, done>>

FinishWorkflow(e) ==
    /\ pc[e] = "schedule" /\ AllDone(snap[e])
    /\ SetWorkflowStatus(IF \E t \in TaskId : snap[e][t] = "Failed"
                         THEN "Failed" ELSE "Completed")
    /\ ExitExecutor(e)
    /\ UNCHANGED <<status, err, state, notifyVars, cur, out, left, masterVars,
                   queue, callVars, done>>

\* Mutant: nothing is triggered.
AutoTriggeredNone(S) == {}

\* With auto_trigger_manual_steps a manual task whose dependencies are done is
\* run; here a dependency without tasks counts as done.
AutoTriggered(S) ==
    {t \in TasksToAwaitTrigger(S) :
        \A d \in DependsOn[t.node] : \A u \in TasksOf(S, d) : S[u] = "Completed"}

ScheduleAuto(e) ==
    /\ pc[e] = "schedule" /\ ~AllDone(snap[e]) /\ AutoTrigger
    /\ queue' = [queue EXCEPT ![e] = RunnableTasks(snap[e]) \cup AutoTriggered(snap[e])]
    /\ Goto(e, "decide")
    /\ UNCHANGED <<storeVars, state, notifyVars, cur, out, left, masterVars,
                   snap, lastState, callVars, done>>

Schedule(e) ==
    /\ pc[e] = "schedule" /\ ~AllDone(snap[e]) /\ ~AutoTrigger
    /\ queue' = [queue EXCEPT ![e] = RunnableTasks(snap[e])]
    /\ LET waiting == TasksToAwaitTrigger(snap[e])
       IN  /\ IF waiting = {}
              THEN UNCHANGED <<status, err, woken>>
              ELSE SetStatus(waiting, "AwaitingTrigger")
           /\ UpdateMasters(e, UNION {Parent(t) : t \in waiting}, "decide")
    /\ UNCHANGED <<run, state, notifyVars, cur, out, left, mval, snap,
                   lastState, callVars, done>>

SomeTask(s) == \E t \in TaskId : status[t] = s

\* Only a run in which nothing is runnable, Running or Pending is paused.
Decide(e) ==
    /\ pc[e] = "decide"
    /\ Goto(e, CASE queue[e] # {} -> "runNext"
                 [] queue[e] = {} /\ SomeTask("AwaitingTrigger")
                    /\ ~SomeTask("Running") /\ ~SomeTask("Pending") -> "pause"
                 [] OTHER -> "awaitWake")
    /\ UNCHANGED <<storeVars, state, notifyVars, cur, out, left, masterVars,
                   execVars, callVars, done>>

PauseWorkflow(e) ==
    /\ pc[e] = "pause"
    /\ SetWorkflowStatus("AwaitingTrigger")
    /\ ExitExecutor(e)
    /\ UNCHANGED <<status, err, state, notifyVars, cur, out, left, masterVars,
                   queue, callVars, done>>

AwaitWake(e) ==
    /\ pc[e] = "awaitWake"
    /\ woken[e]
    /\ Goto(e, "loop")
    /\ UNCHANGED <<storeVars, state, notifyVars, cur, out, left, masterVars,
                   execVars, callVars, done>>

\* Runnable tasks are executed one after the other, in the executor's thread.
RunNext(e) ==
    /\ pc[e] = "runNext"
    /\ \/ /\ queue[e] = {}
          /\ Goto(e, "loop")
          /\ UNCHANGED <<cur, queue>>
       \/ \E t \in queue[e] :
             /\ cur' = [cur EXCEPT ![e] = t]
             /\ queue' = [queue EXCEPT ![e] = @ \ {t}]
             /\ Goto(e, "begin")
    /\ UNCHANGED <<storeVars, state, notifyVars, out, left, masterVars, snap,
                   lastState, callVars, done>>

\* execute_task returned an error.
ExecutorError(e) ==
    /\ pc[e] = "failed"
    /\ \/ /\ Settled(cur[e])
          /\ Goto(e, "runNext")
          /\ UNCHANGED <<status, err, woken, masters, ret>>
       \/ /\ ~Settled(cur[e])
          /\ IF out[e] = "Defer" THEN MarkAwaitingTrigger(cur[e]) ELSE MarkFailed(cur[e])
          /\ UpdateParent(e, cur[e], "runNext")
    /\ ForgetTask(e)
    /\ UNCHANGED <<run, state, notifyVars, cur, mval, execVars,
                   callVars, done>>

-----------------------------------------------------------------------------
(* resume_workflow.  The terminal interface lists no masters.              *)

FinishCall(c) == Goto(c, "done")

Resume(c) ==
    /\ pc[c] = "off" /\ "resume" \in ApiCalls[c[2]]
    /\ \E T \in SUBSET {t \in Exists(status) : t.kind # "master"} :
          /\ T # {} /\ Cardinality(T) <= MaxResumed
          /\ todo' = [todo EXCEPT ![c] = T]
    /\ Goto(c, "resumeCheck")
    /\ UNCHANGED <<storeVars, state, notifyVars, cur, out, left, masterVars,
                   execVars, batch, done>>

Triggerable(t) == status[t] \in {"AwaitingTrigger", "Completed", "Failed"}

ParentsOf(T) == UNION {Parent(t) : t \in T}

\* The status of each task is read ...
ResumeCheck(c) ==
    /\ pc[c] = "resumeCheck"
    /\ \/ \E t \in todo[c] :
             /\ todo' = [todo EXCEPT ![c] = @ \ {t}]
             /\ IF Triggerable(t)
                THEN cur' = [cur EXCEPT ![c] = t] /\ Goto(c, "resumeMark")
                ELSE UNCHANGED <<cur, pc>>
             /\ UNCHANGED <<masters, ret>>
       \/ /\ todo[c] = {} /\ batch[c] = {}
          /\ FinishCall(c)
          /\ UNCHANGED <<todo, cur, masters, ret>>
       \/ /\ todo[c] = {} /\ batch[c] # {}
          /\ UpdateMasters(c, ParentsOf(batch[c]), "launch")
          /\ UNCHANGED <<todo, cur>>
    /\ UNCHANGED <<storeVars, state, notifyVars, out, left, mval, execVars,
                   batch, done>>

\* ... and the task is marked Running under another acquisition of the lock.
ResumeMark(c) ==
    /\ pc[c] = "resumeMark"
    /\ MarkRunning(cur[c])
    /\ batch' = [batch EXCEPT ![c] = @ \cup {cur[c]}]
    /\ cur' = [cur EXCEPT ![c] = NoTask]
    /\ Goto(c, "resumeCheck")
    /\ UNCHANGED <<run, state, notifyVars, out, left, masterVars, execVars,
                   todo, done>>

\* A thread for every triggered task, and one more executor.
Launch(c) ==
    /\ pc[CallOf(c)] = "launch"
    /\ SetWorkflowStatus("Running")
    /\ LET spawned == {ThreadOf(c, t) : t \in batch[CallOf(c)]}
       IN  /\ pc' = [p \in Proc |->
                       IF p \in spawned THEN "spawned"
                       ELSE IF p = ExecutorOf(c) THEN "start"
                       ELSE IF p = CallOf(c) THEN "done"
                       ELSE pc[p]]
           /\ cur' = [p \in Proc |-> IF p \in spawned THEN p[3] ELSE cur[p]]
    /\ batch' = [batch EXCEPT ![CallOf(c)] = {}]
    /\ UNCHANGED <<status, err, state, notifyVars, out, left, masterVars,
                   execVars, todo, done>>

-----------------------------------------------------------------------------
(* trigger_all: every waiting task of one snapshot, masters included.      *)

Active == {"Pending", "Running", "AwaitingTrigger"}

TriggerAll(c) ==
    /\ pc[c] = "off" /\ "triggerAll" \in ApiCalls[c[2]]
    /\ LET awaiting == {t \in TaskId : status[t] = "AwaitingTrigger"}
       IN  /\ todo' = [todo EXCEPT ![c] = awaiting]
           /\ Goto(c, CASE awaiting # {} -> "triggerMark"
                        [] \A t \in TaskId : status[t] \notin Active -> "triggerDone"
                        [] OTHER -> "done")
    /\ UNCHANGED <<storeVars, state, notifyVars, cur, out, left, masterVars,
                   execVars, batch, done>>

\* No task is active: the run is Completed, even if tasks have Failed.
TriggerDone(c) ==
    /\ pc[c] = "triggerDone"
    /\ SetWorkflowStatus("Completed")
    /\ FinishCall(c)
    /\ UNCHANGED <<status, err, state, notifyVars, cur, out, left, masterVars,
                   execVars, callVars, done>>

TriggerMark(c) ==
    /\ pc[c] = "triggerMark"
    /\ \/ \E t \in todo[c] :
             /\ MarkRunning(t)
             /\ todo' = [todo EXCEPT ![c] = @ \ {t}]
             /\ batch' = [batch EXCEPT ![c] = @ \cup {t}]
             /\ UNCHANGED <<pc, masters, ret>>
       \/ /\ todo[c] = {}
          /\ UpdateMasters(c, ParentsOf(batch[c]), "launch")
          /\ UNCHANGED <<status, err, woken, todo, batch>>
    /\ UNCHANGED <<run, state, notifyVars, cur, out, left, mval, execVars, done>>

-----------------------------------------------------------------------------
(* cancel_workflow.                                                        *)

Cancel(c) ==
    /\ pc[c] = "off" /\ "cancel" \in ApiCalls[c[2]]
    /\ Goto(c, IF run \in {"Running", "AwaitingTrigger"} THEN "cancelRead" ELSE "done")
    /\ UNCHANGED <<storeVars, state, notifyVars, cur, out, left, masterVars,
                   execVars, callVars, done>>

CancelRead(c) ==
    /\ pc[c] = "cancelRead"
    /\ todo' = [todo EXCEPT ![c] = {t \in TaskId : status[t] = "Running"}]
    /\ Goto(c, "cancelMark")
    /\ UNCHANGED <<storeVars, state, notifyVars, cur, out, left, masterVars,
                   execVars, batch, done>>

CancelMark(c) ==
    /\ pc[c] = "cancelMark"
    /\ \/ \E t \in todo[c] :
             /\ MarkCanceled(t)
             /\ todo' = [todo EXCEPT ![c] = @ \ {t}]
             /\ UpdateParent(c, t, "cancelMark")
       \/ /\ todo[c] = {}
          /\ Goto(c, "cancelRun")
          /\ UNCHANGED <<status, err, woken, todo, masters, ret>>
    /\ UNCHANGED <<run, state, notifyVars, cur, out, left, mval, execVars,
                   batch, done>>

CancelRun(c) ==
    /\ pc[c] = "cancelRun"
    /\ SetWorkflowStatus("Canceled")
    /\ notified' = Executor
    /\ FinishCall(c)
    /\ UNCHANGED <<status, err, state, permit, cur, out, left, masterVars,
                   execVars, callVars, done>>

-----------------------------------------------------------------------------
(* The process dies: what the state adapter has stored is all that is left *)
(* for the process that is started next.  It runs nothing until it is told *)
(* to by an API call.                                                      *)

Crash ==
    /\ MayCrash
    /\ \E p \in Proc : pc[p] \notin {"off", "done"}
    /\ pc' = [p \in Proc |-> IF p \in Call /\ pc[p] # "off" THEN "done" ELSE "off"]
    /\ woken' = [e \in Executor |-> FALSE]
    /\ permit' = FALSE
    /\ notified' = {}
    /\ cur' = [p \in Proc |-> NoTask]
    /\ out' = [p \in Worker |-> "Ok"]
    /\ left' = [p \in Worker |-> 0]
    /\ masters' = [p \in Proc |-> {}]
    /\ ret' = [p \in Proc |-> "off"]
    /\ mval' = [p \in Proc |-> NoWrite]
    /\ snap' = [e \in Executor |-> NoTasks]
    /\ queue' = [e \in Executor |-> {}]
    /\ lastState' = [e \in Executor |-> NoState]
    /\ todo' = [p \in Executor \cup Call |-> {}]
    /\ batch' = [c \in Call |-> {}]
    /\ UNCHANGED <<status, err, run, state, done>>

-----------------------------------------------------------------------------

\* The run has been saved, and its first executor is about to start.
Init ==
    /\ status = NoTasks
    /\ err = [t \in TaskId |-> "None"]
    /\ run = "Pending"
    /\ state = [n \in FromState |-> [i \in Item |-> 0]]
    /\ pc = [p \in Proc |-> IF p = ExecutorOf(RunCall) THEN "start" ELSE "off"]
    /\ woken = [e \in Executor |-> FALSE]
    /\ permit = FALSE
    /\ notified = {}
    /\ cur = [p \in Proc |-> NoTask]
    /\ out = [p \in Worker |-> "Ok"]
    /\ left = [p \in Worker |-> 0]
    /\ masters = [p \in Proc |-> {}]
    /\ ret = [p \in Proc |-> "off"]
    /\ mval = [p \in Proc |-> NoWrite]
    /\ snap = [e \in Executor |-> NoTasks]
    /\ queue = [e \in Executor |-> {}]
    /\ lastState = [e \in Executor |-> NoState]
    /\ todo = [p \in Executor \cup Call |-> {}]
    /\ batch = [c \in Call |-> {}]
    /\ done = {}

UpdateMaster(p) == MasterRead(p) \/ MasterWrite(p)

ExecuteTask(p) ==
    \/ BeginTask(p) \/ BeginBranch(p) \/ CheckStep(p) \/ SkipStep(p)
    \/ RunStep(p) \/ StepCanceled(p) \/ StepSucceeded(p) \/ StepDeferred(p)
    \/ StepFailed(p) \/ FinalizeTask(p) \/ CompleteTask(p) \/ NotifyCompletion(p)

TaskThread(p) ==
    \/ UpdateMaster(p) \/ ExecuteTask(p) \/ ThreadStart(p) \/ ThreadFails(p)
    \/ ThreadDeferred(p) \/ ThreadError(p) \/ CleanupGuard(p)

ExecuteWorkflow(e) ==
    \/ UpdateMaster(e) \/ ExecuteTask(e) \/ StartExecutor(e)
    \/ CreateInitialTasks(e) \/ SaveTask(e) \/ ReadTasks(e)
    \/ CheckRunning(e) \/ AwaitCompletion(e) \/ Recompile(e) \/ RereadTasks(e) \/ SkipRecompile(e)
    \/ FinishWorkflow(e) \/ ScheduleAuto(e) \/ Schedule(e) \/ Decide(e)
    \/ PauseWorkflow(e) \/ AwaitWake(e) \/ RunNext(e) \/ ExecutorError(e)

StartCall(c) == Resume(CallOf(c)) \/ TriggerAll(CallOf(c)) \/ Cancel(CallOf(c))

RunningCall(c) ==
    \/ UpdateMaster(CallOf(c)) \/ ResumeCheck(CallOf(c)) \/ ResumeMark(CallOf(c))
    \/ Launch(c) \/ TriggerDone(CallOf(c)) \/ TriggerMark(CallOf(c))
    \/ CancelRead(CallOf(c)) \/ CancelMark(CallOf(c)) \/ CancelRun(CallOf(c))

Next ==
    \/ \E e \in Executor : ExecuteWorkflow(e)
    \/ \E p \in Thread : TaskThread(p)
    \/ \E c \in Caller : StartCall(c) \/ RunningCall(c)
    \/ Crash

Spec == Init /\ [][Next]_vars

\* Threads are scheduled by the operating system: each one that can take a
\* step takes one.  Nobody has to call the API, but a call that was made ends.
Fairness ==
    /\ \A e \in Executor : WF_vars(ExecuteWorkflow(e))
    /\ \A p \in Thread : WF_vars(TaskThread(p))
    /\ \A c \in Caller : WF_vars(RunningCall(c))

FairSpec == Spec /\ Fairness

-----------------------------------------------------------------------------
(* Properties. *)

\* Every variable stays within its type.
TypeOK ==
    /\ status \in Snapshot
    /\ err \in [TaskId -> TaskError]
    /\ run \in RunStatus
    /\ woken \in [Executor -> BOOLEAN]
    /\ state \in WorkflowState
    /\ permit \in BOOLEAN
    /\ notified \subseteq Executor
    /\ pc \in [Proc -> PC]
    /\ cur \in [Proc -> TaskId \cup {NoTask}]
    /\ out \in [Worker -> {"Ok", "Fail", "Defer", "Error"}]
    /\ left \in [Worker -> 0..NumSteps]
    /\ masters \in [Proc -> SUBSET Expanded]
    /\ ret \in [Proc -> PC]
    /\ mval \in [Proc -> (Expanded \X TaskStatus) \cup {NoWrite}]
    /\ snap \in [Executor -> Snapshot]
    /\ queue \in [Executor -> SUBSET TaskId]
    /\ lastState \in [Executor -> WorkflowState \cup {NoState}]
    /\ todo \in [Executor \cup Call -> SUBSET TaskId]
    /\ batch \in [Call -> SUBSET TaskId]
    /\ done \subseteq TaskId

Static(n) == {t \in StaticTasks(n) : t.kind # "master"}

DependenciesDone(t) == \A d \in DependsOn[t.node] : Static(d) \subseteq done

\* An executor only ever queues and executes a task when each task that the
\* node's dependencies were created with has been Completed before, whatever
\* resumes, cancellations and other executors run at the same time.
StartsAfterDependencies ==
    \A e \in Executor :
        /\ \A t \in queue[e] : DependenciesDone(t)
        /\ cur[e] # NoTask => DependenciesDone(cur[e])

\* No wake-up is lost: an executor that sleeps, or is about to, without having
\* been notified has based its decision on the tasks as they are now.
SleepsOnCurrentTasks ==
    \A e \in Executor :
        pc[e] = "awaitWake" /\ ~woken[e] => snap[e] = status

\* A worker, or a call that is about to start one, that will bring task t to an
\* end.
Ending == {"spawned", "begin", "branch", "check", "step", "after", "finalize",
           "complete", "failed"}

WorksOn(p, t) ==
    cur[p] = t /\ (pc[p] \in Ending \/ (pc[p] \in MasterPC /\ ret[p] \in Ending))

\* No task is left Running by everybody: whatever fails, is deferred, canceled
\* or triggered twice, and as long as the process lives, somebody has yet to
\* write how a Running task ended.
RunningHasOwner ==
    \/ MayCrash
    \/ \A t \in TaskId : status[t] = "Running" /\ t.kind # "master" =>
          \/ \E p \in Worker : WorksOn(p, t)
          \/ \E c \in Call : t \in batch[c]

\* The status a finished or paused run shows is the one its tasks call for.
RunStatusAgrees ==
    /\ run \in {"Completed", "Failed"} => AllDone(status)
    /\ run = "Completed" => ~SomeTask("Failed")
    /\ run = "Failed" => SomeTask("Failed")
    /\ run = "AwaitingTrigger" =>
          SomeTask("AwaitingTrigger") /\ ~SomeTask("Pending") /\ ~SomeTask("Running")

\* When a run has finished every master shows what became of its children:
\* Failed if one of them failed, else Completed.
FinishedMastersAgree ==
    run \in {"Completed", "Failed"} =>
        \A n \in Expanded :
            status[Master(n)] = IF \E t \in Children(status, n) : status[t] = "Failed"
                                THEN "Failed" ELSE "Completed"

\* When a run has finished, its matrix tasks are those of the final state: each
\* item listed there has had a task, and no other is left to do or to retry.
FinishedMatrixMatchesState ==
    run \in {"Completed", "Failed"} /\ Expanded # {} =>
        \A n \in Recompiled(state) :
            /\ Listed(state, n) \subseteq KnownItems(status, n)
            /\ \A t \in Children(status, n) :
                  t.item \in Listed(state, n) \/ status[t] \in {"Completed", "WontDo"}

\* An item that the state lists once never gets a second task.
OneTaskPerItem ==
    \A t, u \in Exists(status) :
        t.kind = "child" /\ u.kind = "child" /\ t.node = u.node /\ t.item = u.item => t = u

IsMaster(t) == t.kind = "master"

\* A task does not stay Running for ever: some thread brings it to an end.
RunningTasksEnd ==
    \A t \in TaskId \ {Master(n) : n \in Expanded} :
        status[t] = "Running" ~> status[t] # "Running"

\* A run that waits for nobody and of which no task fails completes.
RunCompletes == <>[](run = "Completed" \/ \E t \in TaskId : status[t] = "Failed")

-----------------------------------------------------------------------------
(* Statements of the documentation, of comments and of tests that the code *)
(* does not keep.                                                          *)

\* "Upstream node IDs that must complete before this node runs", and so what
\* those wait for in their turn.
UpstreamCompletesFirst ==
    \A t \in TaskId : status[t] = "Running" /\ ~IsMaster(t) =>
        \A d \in DependsOn[t.node] : \A c \in DependsOn[d], u \in TaskId :
            u.node = c /\ ~IsMaster(u) => status[u] \in {"Completed", "Absent"}

\* A canceled run is not turned into a failed or completed one.
CanceledIsFinal == [][run = "Canceled" => run' \in {"Canceled", "Running"}]_vars

\* The notification of a task's end reaches the executors that wait for it: no
\* executor waits for ever while nothing is Running.
CompletionIsNotified ==
    \A e \in Executor :
        pc[e] = "awaitCompletion" /\ ~SomeTask("Running")
            ~> pc[e] # "awaitCompletion" \/ SomeTask("Running")

\* "A manually resumed task may already be Running by the time the workflow
\* loop wakes back up. Do not overwrite that progress by re-marking it as
\* AwaitingTrigger."
ProgressIsNotOverwritten ==
    [][\A e \in Executor, t \in TaskId :
          pc[e] = "schedule" /\ pc'[e] # "schedule" /\ status[t] = "Running"
              => status'[t] # "AwaitingTrigger"]_vars

=============================================================================
