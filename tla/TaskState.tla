----------------------------- MODULE TaskState -----------------------------
(***************************************************************************)
(* core/src/task_state_service.rs: the only writer of task and run         *)
(* statuses.  Each operation below is one critical section of the state    *)
(* adapter's lock followed by notify_waiters on the scheduler's wake-up.   *)
(* No operation looks at the status it overwrites.                         *)
(***************************************************************************)
EXTENDS Scheduler

CONSTANT Executor   \* the threads that can run execute_workflow

VARIABLES
    status,     \* the stored tasks: a Snapshot
    err,        \* the task's error field
    run,        \* the run's status
    woken       \* executors whose scheduler_wake future has been notified

storeVars == <<status, err, run, woken>>

RunStatus == {"Pending", "Running", "AwaitingTrigger", "Completed", "Failed",
              "Canceled"}
TaskError == {"None", "Canceled", "Other"}

\* scheduler_wake_notify.notify_waiters(): every future created before it.
Wake == woken' = [e \in Executor |-> TRUE]

-----------------------------------------------------------------------------
(* Statuses of several tasks T at once, for the loops that write the same  *)
(* fields to each of them; a single task is the case T = {t}.              *)

ApplyTaskFields(T, s, error) ==
    /\ status' = [t \in TaskId |-> IF t \in T THEN s ELSE status[t]]
    /\ err' = [t \in TaskId |-> IF t \in T THEN error[t] ELSE err[t]]
    /\ Wake

ErrorFields(e) == [t \in TaskId |-> e]

MarkRunning(t)         == ApplyTaskFields({t}, "Running", ErrorFields("None"))
MarkAwaitingTrigger(t) == ApplyTaskFields({t}, "AwaitingTrigger", ErrorFields("None"))
MarkCanceled(t)        == ApplyTaskFields({t}, "Failed", ErrorFields("Canceled"))
MarkFailed(t)          == ApplyTaskFields({t}, "Failed", ErrorFields("Other"))

\* Only the status and ended_at: an error left by another writer stays.
MarkCompleted(t) == ApplyTaskFields({t}, "Completed", err)

SetStatus(T, s) == ApplyTaskFields(T, s, err)

SetWorkflowStatus(s) == run' = s /\ Wake

-----------------------------------------------------------------------------
(* update_matrix_master_status: the status computed from the children, and *)
(* whether the computation is followed by a write.                         *)

SomeChild(S, n, s) == \E t \in Children(S, n) : S[t] = s

AllTerminal(S, n) == \A t \in Children(S, n) : S[t] \in Terminal

\* Mutant: what has ended counts as completed.
MasterStatusEnded(S, n) ==
    IF AllTerminal(S, n)
    THEN "Completed"
    ELSE CASE SomeChild(S, n, "Failed") -> "Failed"
           [] ~SomeChild(S, n, "Failed") /\ SomeChild(S, n, "AwaitingTrigger")
                 -> "AwaitingTrigger"
           [] ~SomeChild(S, n, "Failed") /\ ~SomeChild(S, n, "AwaitingTrigger")
              /\ SomeChild(S, n, "Running") -> "Running"
           [] OTHER -> "Pending"

MasterStatus(S, n) ==
    IF AllTerminal(S, n)
    THEN IF SomeChild(S, n, "Failed") THEN "Failed" ELSE "Completed"
    ELSE CASE SomeChild(S, n, "Failed") -> "Failed"
           [] ~SomeChild(S, n, "Failed") /\ SomeChild(S, n, "AwaitingTrigger")
                 -> "AwaitingTrigger"
           [] ~SomeChild(S, n, "Failed") /\ ~SomeChild(S, n, "AwaitingTrigger")
              /\ SomeChild(S, n, "Running") -> "Running"
           [] OTHER -> "Pending"

\* An unchanged status is not written - unless all children are terminal.
MasterWrites(S, n) ==
    AllTerminal(S, n) \/ MasterStatus(S, n) # S[Master(n)]

=============================================================================
