----------------------------- MODULE Scheduler -----------------------------
(***************************************************************************)
(* The pure part of the workflow engine: crates/scheduler.  Every function *)
(* of that crate takes a snapshot of the task list (and of the workflow    *)
(* state) and returns what should change; none of them writes anything.    *)
(*                                                                         *)
(* A snapshot maps every task the run can ever have to its status, or to   *)
(* "Absent" while no such task has been saved.  A task's identity is what  *)
(* the code never changes after Task::new: its node, whether it is a       *)
(* master, its matrix item, and a copy number, which stands for the fresh  *)
(* UUID that tells two tasks of one matrix item apart.                     *)
(***************************************************************************)
EXTENDS Integers, FiniteSets

CONSTANTS
    Node,         \* the workflow's node ids
    DependsOn,    \* [Node -> SUBSET Node], node.depends_on
    Manual,       \* nodes of type manual, or with a manual trigger
    Matrix,       \* nodes with a matrix strategy
    FromState,    \* matrix nodes that declare from_state
    Item,         \* the matrix items that can occur
    Values,       \* [Node -> SUBSET Item], the strategy's static values
    Flatten,      \* the flatten_matrix_tasks option
    MaxCopies,    \* bound: tasks that can exist for one matrix item
    NoItem,       \* the item of a task that is not a matrix child
    ObjectValue   \* a from_state key that holds an object, not an array

ASSUME SchedulerAssumption ==
    /\ DependsOn \in [Node -> SUBSET Node]
    /\ Manual \subseteq Node
    /\ Matrix \subseteq Node
    /\ FromState \subseteq Matrix
    /\ Values \in [Node -> SUBSET Item]
    /\ \A n \in Node \ Matrix : Values[n] = {}
    /\ Flatten \in BOOLEAN
    /\ MaxCopies \in Nat \ {0}
    /\ NoItem \notin Item

-----------------------------------------------------------------------------
(* Tasks. *)

Expanded == IF Flatten THEN {} ELSE Matrix

Single(n) == [node |-> n, kind |-> "single", item |-> NoItem, copy |-> 0]
Master(n) == [node |-> n, kind |-> "master", item |-> NoItem, copy |-> 0]
Child(n, i, c) == [node |-> n, kind |-> "child", item |-> i, copy |-> c]

StaticTasks(n) ==
    IF n \in Expanded
    THEN {Master(n)} \cup {Child(n, i, 1) : i \in Values[n]}
    ELSE {Single(n)}

InitialTasks == UNION {StaticTasks(n) : n \in Node}

DynamicTasks(n) == {Child(n, i, c) : i \in Item, c \in 1..MaxCopies}

TaskId == InitialTasks
            \cup UNION {DynamicTasks(n) : n \in FromState \cap Expanded}

\* The only parents are the masters: a child's master_task_id.
Parent(t) == IF t.kind = "child" THEN {t.node} ELSE {}

TaskStatus == {"Pending", "Running", "Completed", "Failed",
               "AwaitingTrigger", "WontDo"}
Terminal   == {"Completed", "Failed", "WontDo"}
Snapshot   == [TaskId -> TaskStatus \cup {"Absent"}]

Exists(S)      == {t \in TaskId : S[t] # "Absent"}
TasksOf(S, n)  == {t \in Exists(S) : t.node = n}
Children(S, n) == {t \in TasksOf(S, n) : t.kind = "child"}

-----------------------------------------------------------------------------
(* find_runnable_tasks. *)

\* Mutant: any end of a dependency will do.
DepsEnded(S, n) ==
    \A d \in DependsOn[n] :
        /\ TasksOf(S, d) # {}
        /\ \A u \in TasksOf(S, d) : S[u] \in Terminal

\* Every dependency has a task, and all of its tasks - master and children
\* alike - are Completed; WontDo and Failed do not satisfy it.
DepsCompleted(S, n) ==
    \A d \in DependsOn[n] :
        /\ TasksOf(S, d) # {}
        /\ \A u \in TasksOf(S, d) : S[u] = "Completed"

Candidates(S) == {t \in Exists(S) : S[t] = "Pending" /\ t.kind # "master"}

\* Manual tasks are collected before their dependencies are looked at.
TasksToAwaitTrigger(S) == {t \in Candidates(S) : t.node \in Manual}

RunnableTasks(S) ==
    {t \in Candidates(S) : t.node \notin Manual /\ DepsCompleted(S, t.node)}

-----------------------------------------------------------------------------
(* calculate_matrix_task_changes.  The value of a from_state key is the    *)
(* object marker, or the number of times each item occurs in the array     *)
(* (none when the key is missing or holds a scalar).                       *)

StateValue == [Item -> 0..MaxCopies] \cup {ObjectValue}
WorkflowState == [FromState -> StateValue]

Recompiled(v) == {n \in FromState : v[n] # ObjectValue}

Listed(v, n) == {i \in Item : v[n][i] > 0}

\* Mutant: only the items of tasks that have not ended are known.
ActiveItems(S, n) == {t.item : t \in {u \in Children(S, n) : S[u] \notin Terminal}}

KnownItems(S, n) == {t.item : t \in Children(S, n)}

\* The k first task ids of item i that the store does not hold yet.
FreshTasks(store, n, i, k) ==
    LET free == {c \in 1..MaxCopies : store[Child(n, i, c)] = "Absent"}
    IN  {Child(n, i, c) :
            c \in {c \in free : Cardinality({d \in free : d <= c}) <= k}}

NewTasksOf(S, store, v, n) ==
    UNION {FreshTasks(store, n, i, v[n][i]) :
               i \in Listed(v, n) \ KnownItems(S, n)}

\* An item of the array with no child in the snapshot gets a task for every
\* occurrence: the set of known hashes is not extended on the way.
NewTasks(S, store, v) ==
    UNION {NewTasksOf(S, store, v, n) : n \in Recompiled(v)}

\* Children are collected into a map keyed by item: of several children of one
\* item only the last is seen.
LastOfItem(S, t) ==
    \A u \in Children(S, t.node) : u.item = t.item => u.copy <= t.copy

TasksToMarkWontDo(S, v) ==
    UNION {{t \in Children(S, n) :
                /\ LastOfItem(S, t)
                /\ t.item \notin Listed(v, n)
                /\ S[t] \notin {"Completed", "WontDo"}} :
               n \in Recompiled(v)}

=============================================================================
