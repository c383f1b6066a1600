# TLA+ models of codemod

codemod runs *workflows*: graphs of nodes whose steps rewrite a code base. This
directory holds TLA+ models of the parts of the program that decide **what runs
when, with whose consent, and what is left behind**:

- the scheduler, the task state service and the workflow engine (`crates/scheduler`,
  `crates/core`);
- the session that asks the user for approvals, with the event loop of the terminal
  interface (`crates/core`, `crates/cli/src/tui`);
- the adapter that keeps runs in files (`crates/state`);
- a js-ast-grep step: its batch of files, and the state its scripts share
  (`crates/core`, `crates/codemod-sandbox`);
- worktrees, branches and pull requests (`crates/core`);
- the shards a target is divided into (`crates/core`), the packages that are fetched
  and kept for it, and the workflows that run within each other;
- the updates of the components installed into AI harnesses (`crates/cli`).

TLC checks them on small instances, TLAPS proves theorems for instances of any size.

    tlc -workers 2 -config seq.cfg MCWorkflowEngine.tla     # one run
    tlapm EngineProof.tla                                   # one set of proofs

## 1. Inventory

| Component | State it keeps | Operations | What is hard |
|---|---|---|---|
| Scheduler (`scheduler/src/lib.rs`) | none | initial tasks, matrix recompilation, runnable tasks | works on snapshots that are old when its answer is used |
| Task state service (`core/src/task_state_service.rs`) | none of its own; writes task and run status through the state adapter | mark a task or the run, update a matrix master | writes without looking at what they overwrite; a master is read and written under two acquisitions of the lock |
| Engine (`core/src/engine.rs`) | two `Notify` objects, cancel signals; per thread: snapshots, queues | `run_workflow`, `resume_workflow`, `trigger_all`, `cancel_workflow`; the executor loop; task threads | every resume adds an executor and threads to whatever already runs; timeouts, deferred steps, panics, cancellation, restarts |
| Local state adapter (`state/src/local_adapter.rs`) | a file for the run, for each task and for the state; a cache of the first two | save, diff, read | cache against disk, a crash between or within two writes, a second process on the same files |
| Workflow session (`core/src/workflow_runtime.rs`) | pending approvals, event channels | commands, events, approvals that block a step's thread | the answer and a new request racing; requests that are merged |
| JSSG step (`core/src/jssg_execution_service.rs`, `execution.rs`, `file_ops.rs`) | cancel flag, idle flag, wakers, counts, deferred deletions, the target's files | a batch of files over worker threads | an idle watchdog against late results, which failure wins, renames in a target that is walked at the same time |
| Shared state (`codemod-sandbox/src/workflow_global`) | entries, removals, per-key locks | get, set, unset, `acquireLock`, release | locks that scripts forget or release twice, cancellation while waiting |
| Managed git (`core/src/managed_git_service.rs`, `git_ops.rs`) | worktrees, branches, a process-wide lock, cleanup slots | prepare, commit, push, pull request, clean up, publish later | a timeout between an effect and its record; attempts that meet what earlier ones have left, or still do |
| Managed components (`cli/src/commands/ai`, `harness_adapter.rs`) | the installed files, the record of them, two lock files | `ai`, `ai update`: install, reconcile, staged update, roll-back, record | processes that overlap, stale lock files, a write that fails half-way |
| Terminal interface (`cli/src/tui`) | the prompt shown, the queue of prompts, a receiver | show, answer, leave, catch up after a lag | events lost before it subscribes, while it lags, after it has left |
| Sharding (`core/src/shard.rs`, the shard step of `engine.rs`) | the array of shards in the workflow state | evaluate, for the first time or again; the scheduler makes a task of each shard | files come, go and change groups between evaluations, while tasks have been made of the earlier ones |
| Package cache (`core/src/registry.rs`) | directories on disk with a marker; a map of weak references to locks | resolve: look up, lock, download, clear, copy, mark | locks that are pruned while they are asked for; copies that are broken off; cancellation |
| Package information (`core/src/registry.rs`) | a bounded map of cells, each written once | ask for a version | requests that are shared, fail and are canceled; eviction |
| Nested codemods (`core/src/nested_codemod_service.rs`, the codemod step of `engine.rs`) | the chain of packages | validate, run | packages that depend on each other |
| JS engine, language crates, AI, MCP, the rest of the CLI, reports | caches, UI state | | see section 6 |

**How they interact.** The CLI calls the engine's API. `run_workflow` stores the
run and starts an *executor* thread with `execute_workflow`. The executor loops:
read all tasks, wait until none is Running, recompile the matrix tasks if the
state changed, ask the scheduler what is runnable, execute those tasks one after
the other in its own thread, or pause, finish or sleep. `resume_workflow` and
`trigger_all` mark tasks Running, start a *task thread* for each and **one more
executor**. `cancel_workflow` fails the Running tasks and marks the run Canceled.
All threads share the state adapter behind one asynchronous mutex, which is
released between any two accesses, and two `tokio::sync::Notify` objects:
`scheduler_wake_notify` (`notify_waiters` after every write) and
`task_completion_notify` (`notify_one` at the end of a task).

A step that needs an approval calls back into the workflow session from its own
thread. The session stores a one-slot channel under a new request id, sends an
event on a broadcast channel and blocks the thread on the one-slot channel. The
terminal interface queues a prompt for each event; a key sends a command to the
session's command task, which looks the request up and answers it. Requests for
runtime capabilities go through one mutex: modules approved once stay approved,
and threads that want the same modules wait for the same request.

A js-ast-grep step runs in the thread of its task. It starts worker threads that walk the
target, run the step's script on each file they come to and write what it changed; the
scripts share a map of entries, saved through the state adapter when the step is
over. A task of a node with managed git runs in a worktree of its own; the worktrees
of a process are made and removed under one lock, and every task's commits, push and
pull request are calls to `git` and `gh`. `codemod ai` and `codemod ai update` are
processes of their own that meet in the harness's directories.

A shard step writes an array of shards to the workflow state; a matrix over it gets a
task for each, made once and found again by the shard's name. A codemod step resolves a
package through the registry client that all tasks of the process share, and runs its
workflow in the thread of the step, with a chain of the packages it is nested in.

**What makes it correct.**

- Scheduler: a task is runnable only when the tasks of its dependencies are
  Completed; a matrix node has one task for each item the state lists.
- Task state service: a master shows what its children show; a write wakes the
  executors.
- Engine: tasks start in dependency order whoever starts them; every Running task
  has somebody who will end it; no executor sleeps on an old decision; a finished
  run's status agrees with its tasks; runs end, or wait for the user and say so.
- State adapter: what was saved is read, also after a crash; the run's index names
  what exists.
- Session: a step is told what the user has said, of the modules it will run with;
  one prompt is shown for the same modules; who asks is answered.
- JSSG step: Ok means that every file was handled; a file's text is never lost; what
  was running when the user canceled writes nothing; the step ends.
- Shared state: a locked entry changes through its holder only; the step saves what
  its scripts left.
- Managed git: no worktree outlives its attempt unnoticed; branches and pull requests
  hold the work; an attempt does not wait for ever.
- Managed components: one process at a time works under a lock; a report is true; the
  record agrees with the files; a command ends.
- Sharding: the shards are a partition of the eligible files; a file stays in its shard;
  the files of a shard are files of its task.
- Packages: one task at a time writes a directory; what a resolution returns is the
  package as it was sent; the same version is asked for once at a time; who asks gets an
  answer.
- Nested codemods: a run ends, whatever the packages run.

The places where this is hard to test are listed as `hazards` in `PROJECT.json`,
each at its line.

## 2. Modules

| Module | Models |
|---|---|
| `Scheduler` | `crates/scheduler`: tasks, snapshots, `InitialTasks`, `NewTasks`, `TasksToMarkWontDo`, `RunnableTasks`, `TasksToAwaitTrigger` as operators on a snapshot |
| `TaskState` | `task_state_service.rs`: the stored `status`, `err` and `run`; one operator for each write, the wake-up, and `MasterStatus` |
| `WorkflowEngine` | `engine.rs`: one run, its executors, task threads and API calls, each a process with a program counter; the properties |
| `StateStore` | what a state adapter promises: a map in which a key is in doubt while it is written |
| `LocalStateAdapter` | `local_adapter.rs`: files, caches, the two writes of a save, crashes, several processes; implements `StateStore` |
| `ApprovalSession` | `workflow_runtime.rs` and the interface's event loop: requests, announcements, prompts, commands |
| `SharedState` | `workflow_global/mod.rs`: what the scripts of a step share |
| `JssgExecution` | `jssg_execution_service.rs`: one step over a target whose files it rewrites, composed with `SharedState` |
| `ManagedGit` | `managed_git_service.rs`, `git_ops.rs`: attempts at tasks in worktrees, each task triggered any number of times |
| `ManagedUpdate` | `commands/ai`, `harness_adapter.rs`: commands on the managed components |
| `Sharding` | `shard.rs`, the shard step: evaluations, and the tasks made of the shards |
| `PackageCache` | `registry.rs`: resolutions of packages to directories of the cache |
| `PackageInfoCache` | `registry.rs`: what is kept of the registry's answers |
| `NestedCodemods` | `nested_codemod_service.rs`, the codemod step: workflows within workflows |
| `MC...` | the instances TLC runs |
| `EngineProof` | proofs about the engine |
| `ApprovalProof`, `StoreProof`, `JssgProof`, `GitProof`, `UpdateProof`, `ShardingProof`, `CacheProof` | proofs about the others |

`WorkflowEngine` extends `TaskState`, which extends `Scheduler`; `JssgExecution`
extends `SharedState`; `LocalStateAdapter` instantiates `StateStore`. The others stand
alone, and meet in the engine's model as follows: the engine takes a call of the
adapter as one step, which `LocalStateAdapter` shows it may for a process that is
alone on its run; a whole js-ast-grep step, a shard step, a nested workflow, the wait for
an approval and a call to managed git are a step, or part of one, with an outcome.
`Sharding` has the part of the scheduler that it needs, the tasks of one matrix.

### The engine: state

`status` maps every task the run can ever have to its status, or to `Absent`. A
task is a record of what the code never changes: node, kind (single, master or
child), matrix item, and a copy number that stands for the UUID that tells two
tasks of one item apart. `err` is the task's `error` field as far as anybody reads
it: none, "Canceled by user", or another. `run` is the run's status and `state` the
part of the workflow state that `from_state` matrices read: how often the array
lists each item, or `ObjectValue` for an object, which recompilation skips.

`woken`, `permit` and `notified` are the two `Notify` objects. `woken[e]` says
whether the future that executor `e` created at the top of its loop has been
notified; `notified` holds the executors whose completion future has been, and
`permit` is the permit `notify_one` leaves when nobody waits.

Every process has a label `pc` and the locals its function keeps across an await:
`cur` the task it works on, `out` and `left` the last outcome and the steps left,
`snap` the executor's `current_tasks`, `queue` its `runnable_tasks`, `lastState` its
`last_state_hash`, `todo` and `batch` the tasks a call (or the creation of the
initial tasks) has still to handle and has triggered. `masters`, `ret` and `mval`
are the stack frame of `update_matrix_master_status`: the masters still to update,
the label to return to, and the status that has been computed but not written.
`done` is a history variable: the tasks that have been Completed at some time.

### The engine: actions

One action is what a thread does from one acquisition of the adapter's lock to
the next. `BeginTask ... NotifyCompletion` are `execute_task`; `ThreadStart`,
`ThreadFails`, `ThreadDeferred`, `ThreadError` and `CleanupGuard` are
`spawn_task_with_handle` around it; `StartExecutor ... ExecutorError` are
`execute_workflow`; `Resume ... Launch`, `TriggerAll ... TriggerMark` and
`Cancel ... CancelRun` are the three API calls; `MasterRead` and `MasterWrite` the two
critical sections of `update_matrix_master_status`, wherever it is called. `Crash`
is the end of the process: all locals are lost, the store is kept, and the next
process does nothing until an API call is made on the run.

### The engine: what an action abstracts

- A status write and the `notify_waiters` that follows it are one step. A thread
  that runs in between could only be woken once more than it is here.
- The loops that write the same status to several tasks at once (recompilation,
  tasks that await a trigger) are one step; the loops whose interleaving matters
  (creating tasks, resuming, triggering, cancelling) are not.
- `should_recompile` and `recompile_matrix_tasks` read the state separately; here
  once. The reads of the error handlers are merged with the write they lead to.
- A step has an outcome: Ok, Fail, Defer or Skip, chosen freely from
  `Outcomes[node]`, and may write one of `Outputs[node]`.
- The 45-minute timeout is modelled where it can really strike, while a step or
  the finalisation runs, not between two database accesses.
- A panic outside a step (the join thread's handler) is not modelled; inside a
  step it is caught and is a failure. Errors of the state adapter are in
  `LocalStateAdapter` only.
- `Blocked` is never assigned by the code and is left out, as is the reset to
  Pending, whose list is always empty.
- `resume_workflow` is called with tasks that are not masters, which is what the
  terminal interface offers.

### The approval session

A request is named after the thread that makes it; each thread asks once. `loc` is
where the thread is, `joined` the request it waits for, `answer` its one-slot
channel and `want` the modules of a request. `approved`, `listeners` and `inFlight`
are the fields of `CapabilityApprovalState` (a request is pending while it has
listeners), `poisoned` whether a thread has panicked with its mutex locked, and
`single` the maps of the other kinds of request, which work alike. `channel`,
`prompts` and `commands` are an announcement's way to the user and the answer's way
back; `commands` is a set because the interface sends each from a task of its own.
`task` and `held` say how far the command task is with an answer. `accepted`,
`rejected` and `missed` are history variables.

`AskAllowed`, `AskNew`, `AskJoin` and `AskPanics` are the outcomes of the critical
section of `capabilities_callback`; `AskSingle` is the first half of the other
callbacks; `Announce` and `Answered` are the halves after it. `Subscribe`, `Receive`,
`AnswerPrompt`, `Lag` and `Leave` are the interface, `RespondSingle` and
`TakeCapabilities`, `CloseCapabilities`, `TellListeners` the command task: the answer
to a capability request takes the mutex twice and answers outside of it.
`CommandTaskPanics` is the command task at the poisoned mutex.

Left out: what is asked and selected beyond yes and no (an agent's or selection's
value is a yes, its cancellation a no; the engine's model has what follows); the
other events on the channel, whose number only matters for when it lags; a task's
timeout, which abandons the thread but leaves it blocked and registered.

### The state adapter

`file` holds the files of one run by key (the run, each task, the state), `cache` the two
maps each process keeps, `job` what a process is writing and, in `saves`, the task
whose save the write belongs to. `fs::write` truncates and then writes, so `BeginWrite`
leaves a file that does not parse, and `EndWrite` the content, in the file and then in
the cache. `SaveTask` and `DiffTask` write the task's file, `IndexTask` the run's, if the
index lacks the task. `FailWrite` is an error after the truncation, `Crash` the end of a
process and its restart with an empty cache. When two processes write one file at the
same time it may hold the tail of the longer content, and is then torn. `acked` is a
history variable. `live` says at the start how many processes there are.

`Legacy` are the tasks of a run stored before runs had an index, which `get_tasks`
looks up in the directory only as long as the index is empty.

`Store` is `StateStore` under the mapping that gives each key what the process reads,
with a key in doubt while its file does not parse. The refinement holds for one
process; two are promised the index's soundness only.

### The shared state and the JSSG step

`data`, `removals` and `holder` are the maps of `SharedStateContext`; `guard` the release
functions that a script has got, each of which may be called again; `call` the call a
script is in. A call is made by `Begin` and ends by `Return` when it can - the code
polls every 25 ms, so it misses neither a release nor a cancel. `seen` is a history
variable: the entry as the holder of its lock last saw or left it.

`phase` is where `execute_runtime` is. Each thread takes a file (`TakeFile`), reads it
(`LoadFile`), registers its waker (`Enable`), looks at the idle flag (`CheckFlag`), runs the
script (`UseState`, `EndExecution`, or `Abort` by the watchdog) and settles the result: a
canceled step drops it, a failed hook cancels the step. The walk is live: it comes to every
file of the target, and may come to one that the step itself has written, such as a file
under its new name, but never twice to one path (`taken`). `Change` says what the script does
on a file: a sequence of changes, in place or to a new path, of that file or of another one.
The threads share one file writer, which does one write at a time: `BeginWrite` truncates the
file, or fails, and `EndWrite` writes the text or fails half-way; in between others may read
the file. `DeleteOriginals` comes at the end, and each deletion may fail. A text is abstracted
to whose text it was and whose edits it has. `Expire` and `NotifyWaiters` are the watchdog,
`EndWalk`, `StopWatchdog` and `Decide` what follows the walk, in the code's order of
precedence. `skipped`, `late`, `applied` and `damaged` are history variables; the last one holds
the files whose text an unfinished write in place replaces.

### Managed git

One process per attempt at a task, with a label; the attempts at a task are numbered in the
order in which they are made. A task can be triggered when it waits, has failed, was
canceled or has been completed (`Triggerable`, as in `resume_workflow`), so that an attempt may
begin while an earlier one, of a task that was canceled, is still under way. `lock` is the
lock around worktree operations, `worktree` the tasks whose worktree is there, `slot` the
attempts whose cleanup knows of it: a task has one worktree path and one branch for all its
attempts. `Timeout` ends the wait for a worktree at any point, and leaves the git command
running (`orphan`), which may still make the worktree and move the branch (`OrphanEnds`), at
any time of a later attempt or after it. `Cancel` marks the task; the attempt looks at it
after each step. `TakesTooLong` is the end of the 45 minutes, or a panic. `branch` and `remote`
are the last commits of the task's branch here and on the remote, `commits` (history) those
made for the task, `checkpoint` the flag `had_commit_checkpoint`. `Push` may fail with the remote
updated; `Verify` accepts a branch of that name, and `assumed` remembers it. `PublishLater` is
the publication the user asks for after the task. Two more histories are `leaked`, the
worktrees nobody will remove, and `setback`, the branches that a left-over git command has
moved since the last commit or the making of the worktree. The texts of git's messages are
abstracted to what the code does on them.

### Managed components

`content` is the content of every file of the components, as a version or torn;
`recorded` the record (`managed_install_state`), as far as it is the fingerprint of each
component's main file; `lock` the two lock files with the command that made them, `stale`
those older than ten minutes. A command installs (`ai` only), looks up the published
version, updates under the update lock if there is a newer one, and records under the
record lock. `Create` is an exclusive creation; `Find` and `Recover` are the two steps in which a
stale lock file is found and removed - whichever it is by then (`raced`). `GiveUp` is the
timeout of the wait. `Install` writes the components that are not skills, as far as they are
not as bundled; what cannot be written is only warned of, and may be torn. `WriteFile`, `FailToWrite`, `Restore` and `Applied` are the staged
update with its roll-back; `staged` are the places in `Writes` still to be written, `backups`
the old content of those that have been. A `Crash` leaves the lock files, and a file that is being
written torn. `before`, `over`, `raced` and `lost` are history variables.

### Sharding

A file is a number, in the order of its path; `GroupOf` is the directory or the owner it
belongs to, and `Sanitized` the name a group gets. `eligible` are the files that the scan
finds, `shards` the array in the state: sets of files with a group, an index and, by
both, an identity. `scanned` says whether the last scan is still current, `evaluations`
counts the steps. `Evaluate` is the step as a whole: it reads the array, divides the files
for the first time (`Fresh`) or keeps every shard's files that are still eligible and packs
the new ones into new shards (`Incremental`), by groups, at most `MaxFiles` to a shard and
without small rests (`Chunk`). `Recompile` makes a task of every shard without one: `task` is
what each task works on, `compiled` whether the tasks have been made since the last
evaluation. `Work` runs a task, `Change` changes the target. `dropped` (history) are the
identities that have been in the array and are not.

Custom shard functions, which may divide as they like, the scan and the syntax of
CODEOWNERS files are left out.

### The packages

`PackageCache` has the resolutions of one process, one for each of its tasks at a time:
`pc`, the `key` that is resolved, the lock it has a reference to (`arc`). `locks` is the map
of weak references: an entry is alive as long as a task has a reference to it (`Live`),
which is what upgrading it tells, and `FindLock` prunes the others. A lock is named for
the task that made it, so a name can be used again, as an address can. `dir` is what is
on the disk, file by file: absent, torn or whole. `Lock` takes the package as it is, if the
two required files are there, or goes on to download; `Clear`, `CopyFile` and `Finish` remove
the directory, copy and mark it. `GiveUp` is a cancellation or a failed download, `Fail` a file
that cannot be removed or written, `Crash` the end of the process; the last two leave what
is there. `kind` and `broken` are history variables: whether what is cached was sent for
dry runs only, and where the last copy was broken off.

`PackageInfoCache` has the map of cells. A cell is numbered when it is made; a task that
asks for a version gets the cell in the map or a new one, which is put in if there is
room or something fetched to evict. The first of those that wait for an empty cell
fetches; when it fails or is canceled the next one tries (`tokio::sync::OnceCell`).

### Nested codemods

`workflow` gives each package and the root a sequence of steps, and stays the same: the
initial states are all of them. `stack` are the workflows under way, with the parameters
each was given. `Start` validates; `Enter` checks the chain, which does not have the root,
and goes into a package. Nested validations find errors, but only log them, so that
`Validates` looks at one level. The search for packages that are for dry runs only and the
observer of nested runs are left out.

## 3. Runs

The runs that pass, each with the question it asks. The properties are listed in
`PROJECT.json`; each is broken by a mutant of a definition that models code.

| Run | Question | Instance and bounds |
|---|---|---|
| `seq` | Does one unattended executor bring a run with failing steps to an end that agrees with its tasks and its state? | *fan*: 4 nodes, 3 items, 2 copies of a task, 1 step, manual steps triggered automatically |
| `calls` | Has every Running task an owner who ends it, when a resume or `trigger_all` races a cancel and branches, commits, pull requests and steps fail? | *gate*: 1 node with 2 steps and managed git, 2 calls, up to 3 executors, steps that are skipped, fail or defer |
| `grow` | Do dependencies and wake-ups survive recompilation, API calls and the death of the process at any point? | *grow*: 1 item, 2 copies, 1 call of any kind |
| `approvals` | Is each step told what the user has said, with one prompt for the same modules, and told at all? | 3 requesters of capabilities, two for the same module and one for a module more, and 1 of another kind; the interface may lag and be left |
| `store` | Does the adapter keep what a store promises, and its index sound? | 2 tasks, 2 values, arrays of 1 item; one process with crashes and errors, or two |
| `jssg` | Do outcome, disk and saved state agree with what the scripts did, and does the step end? | 2 threads, 1 key, 1 value, 2 files: one is renamed, and changed in place when the walk comes to it again, one is changed in place |
| `git` | Do branches and pull requests hold the work, are worktrees removed, do attempts end? | 2 tasks, one with 2 attempts, 2 commits and a question before it publishes, the other with 1 attempt and nothing to commit; 2 pushes |
| `update` | Are locks exclusive, reports true, the record current, and do commands end? | a process that runs `ai update` twice, one that runs `ai`; a skill of 2 files and a guide; 1 published version, 2 faults |
| `shards` | Are the shards a partition that keeps its assignments, and are a shard's files those of its task? | 5 files in 2 directories, at most 2 to a shard, 3 evaluations |
| `packages` | Does one task at a time work in a directory, is a package returned as it was sent, do resolutions end? | 2 tasks, 3 resolutions, a free and a pro package of 2 files, one of them required; 1 fault |
| `info` | Is a version asked for once at a time, and does who asks get an answer? | 3 tasks, 3 versions, room for 2, 5 requests |
| `nested` | Do runs end, whichever packages run each other? | all graphs of 2 packages and a root, of up to 2 steps each |

The workflows of the engine's runs are the smallest with what they are to show.
*fan*: `scan` writes the items of the dynamic matrix `fan`, `pair` is a static matrix,
`join` depends on it and `fan` on `scan` and `join`; three items tell "one", "some" and
"all". *gate*: a manual node, which is handed to the user, resumed and canceled.
*grow*: a node that writes the items of a matrix that waits for it.

Why the bounds are enough:

- `MaxCopies` bounds the tasks of one matrix item: a third would need a third
  recompilation from the same old snapshot. `MaxResumed` bounds the tasks named by one
  resume. Each call is made at most once; two calls give three executors, enough for two
  of them to race and one to be overlooked.
- Three requesters are enough for two to share a prompt while the third overlaps with
  it and comes before, between or after; the fourth, of another kind, has its
  announcement refused when nobody listens.
- In `store` a second task is one the index may have or lack while the other is
  written; a second value tells old from new. Two processes write one value, since only
  the index is compared.
- In `jssg` each of two threads can hold the key while the other waits, ends, is
  aborted or cancels; a third would do what one of them does. The files need not
  outnumber the threads: a thread takes the second one if the other is slow.
  The new path of the renamed file is the third one the walk can come to. The key has
  an entry when the step begins (`StoredSpec`), so that it can be changed and unset; scripts
  that find none are left out of the instance, not of the proofs.
- In `git` the second attempt comes after the first has failed, was deferred, canceled or
  completed. It meets what that one has left (a worktree, a branch, a branch on the remote, a
  git command that outlived its timeout and ends before, in or after it) or still does,
  while another task wants the lock. Two commits tell the last from one before.
- In `update` three commands overlap, one of which repeats what another process has
  done; two faults are a crash and a failure, or a write and its roll-back. Three files
  give a component with two, so that a roll-back has more than one thing to restore.
- In `shards` a group has more files than a shard and the other one less; with three
  evaluations a shard can lose files, be dropped, and its files come back to others.
- In `packages` a third resolution meets what the second has left while the first is
  under way, or comes when both have ended and the lock is gone. Of two files one is
  required and one is not, so that a package can look whole and not be.
- In `info` one version more than there is room for makes an eviction, and of three
  tasks one can fetch, one wait and one ask for something else; five requests let an
  entry be fetched, evicted and asked for again.
- In `nested` two packages run themselves or each other, and a root that runs both can
  run one of them twice, in and beside the other.

Deadlock is checked in `store`, whose processes always can do something. Everywhere
else the system really stops: a run ends, is paused or its executor sleeps, a session
is silent, a step returns, tasks have had their attempts, commands have been run.

Where TLAPS proves the type invariant (section 4) a run does not check it again; the one
of the engine is also in `seq`. Those of `JssgExecution`, `ManagedUpdate`, `PackageInfoCache` and
`NestedCodemods` are for the reader, and hold in the instances above.

### Seen while modelling

The models contain behaviours that contradict a comment, a test or a document, or that a
reader may not expect. For some the contradicted statement is a property of the module.
None of the runs above checks it: TLC finds it violated in the instance named here, a
configuration of its own (`.cfg`) or one of the runs' with the property added.

| Property | What happens | Instance |
|---|---|---|
| `WorkflowEngine!CanceledIsFinal` | the executor that is woken by a cancel finds every task terminal and marks the run Failed or Completed (`engine.rs:2157`); `core/tests/engine_tests.rs:1842` asserts that it is Canceled | `cancel.cfg` |
| `JssgExecution!ChangesOnDisk` | a step renames a.ts to b.ts and b.ts to c.ts, and what it wrote to b.ts is deleted (`jssg_execution_service.rs:1234`); `docs/community/jssg/reference.mdx:628` calls the changes of a file atomic | `renames.cfg` |
| `JssgExecution!ChangesOnDisk` | the walk, which is live (`execution.rs:181`), comes to a renamed file under its new name; its script renames it again, and at the end what was written under the first new name is deleted (`jssg_execution_service.rs:1234`), though `reference.mdx:565` has a renamed file where `rename()` put it | `revisit.cfg` |
| `ManagedUpdate!PeriodicChecksRun` | the command that the harness runs from time to time ends before its update check, once an update has changed the skill (`harness_adapter.rs:3611`); `docs/community/cli.mdx:129` describes the check | `periodic.cfg` |
| `Sharding!NewFilesGetNewTasks` | the identity of a shard that was dropped is given to new files (`shard.rs:160`), whose task was completed before they came; `docs/community/workflows/sharding.mdx:250` says new files go to new shards | `reuse.cfg` |
| `PackageCache!ExtractedFilesStay` | a pro package is downloaded by every resolution, and removed while another task runs its workflow (`registry.rs:700`); the comment at `:261` says downloads cannot remove each other's files | `removed.cfg` |
| `PackageCache!CachedIsValid` | a copy that was broken off after codemod.yaml and workflow.yaml is taken for the package from then on (`registry.rs:851`); the comment at `:268` says "cached and valid" | `halfcached.cfg` |
| `PackageInfoCache!UncachedOnlyIfBusy` | versions that could not be fetched fill the map (`registry.rs:410`), and no other is kept although nothing is being fetched, as the comment at `:408` has it | `failures.cfg` |
| `NestedCodemods!CyclesAreRefused` | a workflow that runs a package which runs itself is started (`nested_codemod_service.rs:112`); the comment at `engine.rs:1955` says all dependencies are checked | `cycle.cfg` |
| `NestedCodemods!ArgumentsArePassed` | a nested workflow gets the parameters of the one above and not the arguments of its step (`engine.rs:3634`), which `docs/community/workflows/reference.mdx:512` describes | `args.cfg` |
| `WorkflowEngine!UpstreamCompletesFirst` | the master of a matrix without items is Completed at once (`task_state_service.rs:176`), so that a node runs before what its dependency waits for | *grow* with a third node that depends on `grow` |
| `WorkflowEngine!CompletionIsNotified` | an executor waits for a completion that nobody announces (`engine.rs:1381`, `1595`) | `calls` |
| `WorkflowEngine!ProgressIsNotOverwritten` | an executor hands a task that has just been resumed back to the user (`engine.rs:2223`) | *grow* with a manual matrix and two resumes |
| `ApprovalSession!InFlightRequestExists` | a step that asks while the answer to the same request is handled panics (`workflow_runtime.rs:300`), and with it the command task | `approvals` |
| `LocalStateAdapter!AcknowledgedTasksListed` | a run from before the index, whose tasks `get_tasks` finds in the directory (`local_adapter.rs:309`), hides them as soon as one task is saved and indexed (`:276`) | `store` with `Legacy = {t1}` |
| `ManagedGit!RetriesProceed` | `create_worktree` removes a leftover worktree through a function that takes the lock it holds (`git_ops.rs:251`), so that a retry waits for its timeout, though a comment calls retries idempotent (`:320`) | `git` |
| `ManagedGit!CompletedWorkStays` | a `git worktree add -B` that outlived its timeout (`managed_git_service.rs:278`, `git_ops.rs:254`) resets the branch of the task, which has been triggered again, was completed and deferred since: "use create-pr to continue later" (`managed_git_service.rs:496`) finds the base | `orphan.cfg` |
| `ManagedGit!NoChangesMeansNone` | a fallback commit that fails ends in "No changes detected", and the worktree with the changes is removed (`managed_git_service.rs:437`) | `git` |
| `JssgExecution!StepEnds` | two scripts that take two locks in opposite order block their threads where the watchdog does not reach them; `docs/community/jssg/advanced.mdx:526` calls it a backstop for silent hangs | `jssg` with two keys, and without values and changes to make it small |

In the engine, besides: a static matrix's master is Completed until one of its tasks
changes (`engine.rs:1628`); of two concurrent updates of one master the older can win
(`task_state_service.rs:169`); a Failed matrix task whose item disappears becomes
WontDo (`scheduler/src/lib.rs:456`); a run in which a task is Pending is not paused
(`engine.rs:2260`); `trigger_all` executes masters (`engine.rs:1776`) and completes failed
runs (`engine.rs:1789`); a task that was Running when the process died is not accepted by
`resume_workflow` (`engine.rs:1705`); two executors can execute one task at once
(`engine.rs:2440`) or create two tasks for one item (`engine.rs:2116`); the state changes
of a task that fails stay (`engine.rs:4286`).

In the session: a request announced before the interface subscribes (the session is
started at `cli/src/workflow_runner.rs:63`, bound to the interface afterwards), while it
lags or after it has been left blocks its thread without a prompt; the liveness
property of `approvals` excludes just these cases (`missed`).

In a step: scripts that throw fail the task only if all of them do
(`jssg_execution_service.rs:1200`; `advanced.mdx:525` reads otherwise); a file whose
write fails in place stays torn; a file that is being written may be read half-written, by the
walk or by another file's script (`file_ops.rs:34`); a cancel that comes before the signal is registered is
lost on the step (`:560`); the whole persisted state is saved again at the end, over what
a parallel task has stored (`:1256`).

In the packages: two processes share the cache without a lock; a nested workflow's nodes
run in the order of the file, whatever they depend on.

In managed git and the managed components: a push that fails is taken for a success if
a branch of that name is on the remote (`git_ops.rs:589`; `assumed`); a worktree whose
creation outlives its timeout stays (`managed_git_service.rs:278`; `leaked`), and the command may
move the branch under a later attempt, before its commit, its push or after both (`setback`);
a guide that an install tears is only warned of (`ai/mod.rs:786`); a file whose
write fails in an update is not restored, only those before it (`auto_safe.rs:510`); an
older manifest may be applied over a newer one; the version in the record is the
bundled one, so that the same update is applied again by each command
(`reconcile.rs:11`); the second of two processes that find a lock stale removes the lock of
the first (`harness_adapter.rs:1966`; `raced`).

### Fairness

- The engine (`FairSpec`, in `seq` and `calls`): every executor, task thread and call that
  has been made is weakly fair: each is a thread of the operating system, which runs
  whatever can run. The API is not fair: nobody has to call it. A step is assumed to
  end, which for task threads the timeout guarantees; for tasks that an executor runs in
  its own thread there is no timeout, and a step that hangs is a run that hangs.
- `approvals` (`FairSpec`): threads and the command task are scheduled, the interface polls
  its channel, and the user answers the prompt that is shown. Nobody has to ask, to lag or
  to leave, and which answer is given is free.
- `jssg`: the step's and the threads' own code is scheduled, the idle timer expires, and
  a call of the shared state that can return does. Scripts are not fair: they need never
  end, release a lock or make a call. Only `Abort` is strongly fair: a script that uses
  the shared state again and again can be aborted again and again in between, and one
  that waits can be aborted all the time. A script that computes for ever cannot be
  aborted, and a step with it does not end.
- `git`: the thread of an attempt is scheduled, git commands end, the timer of a creation
  expires and so do a task's 45 minutes, which end its steps and its publication (weak
  fairness of `Thread`, `Timeout` and `TakesTooLong` together: one of them happens).
  Nobody has to trigger a task, to cancel it or to end its steps. The lock is strongly fair: `tokio::sync::Mutex` serves in order.
- `update`: a process that is not dead goes on, and gives up waiting for a lock at its
  timeout. Nothing is assumed of crashes, faults and the age of locks.

- `packages` and `info`: tasks are polled; downloads and requests end, with an answer or an
  error. A task that waits for a lock gets it in its turn. Nobody has to ask, to fail or to
  cancel.
- `nested`: steps end.

## 4. Proofs

TLAPS checks the following for every value of the constants. The assumptions
(`SchedulerAssumption`, `EngineAssumption`, `ApprovalAssumption`, `KeyAssumption`,
`LegacyAssumption`, `UnreadableAssumption`, `SentinelAssumption`, `EntryAssumption`,
`CallAssumption`, `ChangeAssumption`, `PathAssumption`, `GitAssumption`, `UpdateAssumption`,
`ShardingAssumption`, `CacheAssumption`) give the constants their types and keep the markers apart from the values; besides,
a step that asks for capabilities asks for some, a task may be pushed at least once, and
each component has a file, each file one component.

**The engine**, for every workflow, every number of callers and every bound, crashes
included:

- `EngineProof!TypeCorrect`: `Spec => []TypeOK`. `TypeOK` is not inductive: a step
  that writes `status[cur[p]]` must know that `cur[p]` is a task, one that returns to
  `ret[p]` that this is a label of that process, and one that writes a pending
  master status that there is one. `TypeInv` adds these facts about what a process
  holds at each label (`Fits`). Most actions are instances of a few patterns, and the
  lemmas `MoveType`, `UpdateMastersType`, `MasterMoveType`, `ForgetType`, `ExitType` and
  `ToLaunchType` treat the patterns once; one lemma for each action follows, and
  `TypeStep` combines them.
- `EngineProof!NoLostWakeup`: `Spec => []SleepsOnCurrentTasks`. The inductive
  invariant `LoopInv` says of every label between the top of the loop and the sleep
  that an executor whose wake-up has not been notified holds a snapshot equal to
  the store; it holds because every action that changes `status` notifies every
  executor, and because the wake-up is registered before the read.
- `EngineProof!DependenciesCorrect`: `Spec => []StartsAfterDependencies`. An executor
  queues what its snapshot makes runnable, and `DepInv` says what a snapshot shows.
  Completed tasks (but for masters) have been completed (`Completions`), because only
  `CompleteTask` writes that status; and no initial task is missing (`Saved`), without
  which a dependency half of whose tasks are saved would look complete. The second half
  needs `Setup`: as long as a task is missing nobody but the saving executor runs, no
  task waits for a trigger, and so no call has anything to resume or trigger. A process
  that dies in between stays there for ever.
- `EngineProof!OwnerCorrect`: `Spec => []RunningHasOwner`, in a process that does not die.
  What the code must get right is that nobody leaves a task behind that is still Running,
  by whatever of its many exits. The threads of a call are off until it is done
  (`NothingStarted`), so a launch takes no task from anybody. That a call has a task in
  its batch is of use only if the call launches it, which is `BatchesCorrect`: it does not
  end or go elsewhere before.

Four properties of the engine are about a run on which no API call is made, and are proved
under `Caller = {}`, as the runs check them, for every workflow, outcome and state, the end
of the process included. Calls really break them: a second executor may write between the
first one's read and its decision (see "Seen while modelling"). Then one executor is all
there is, but it still reads, decides and writes under separate acquisitions of the lock:

- `EngineProof!RunStatusCorrect`: `[]RunStatusAgrees`. `RunInv` and `DecisionInv` say that the
  run shows Running while it is executed, and that the snapshot that the executor ends or
  pauses it on is the store.
- `EngineProof!MastersCorrect`: `[]FinishedMastersAgree`. `MastersInv` says that a master
  whose children have ended is right or *dirty*: still in the list of masters to update,
  or about to be written with a status that has been computed from the children as they
  are. `MasterStatus` looks at the children only (`ChildrenDecide`), and each change of a
  child puts its master in the list before the executor goes on.
- `EngineProof!MatrixCorrect` and `ItemsCorrect`: `[]FinishedMatrixMatchesState` and
  `[]OneTaskPerItem`, both from `MatrixInv`: what the executor has last recompiled for is the
  state when it schedules, the matrix tasks are those this state calls for, and so are the
  tasks it has queued. They assume besides that no step writes an array with an item twice
  (`SinglyListed`): of such an array the code makes a task for each occurrence.

**The approval session**, for any number of requesters and modules:

- `ApprovalProof!ApprovalTypeCorrect`: `Spec => []TypeOK`, inductive by itself.
- `ApprovalProof!VerdictCorrect`: `Spec => []VerdictIsTheUsers`. `VerdictInv` follows an
  answer back to the user: who is registered with a request waits for it, a request
  in flight under a key is about the key's modules, what a thread wants is approved
  already or part of the request it has joined, and every command, held answer and
  filled channel carries the user's verdict on that request.
- `ApprovalProof!OnePromptCorrect`: `Spec => []OnePromptPerModules`. `PromptInv` says that a
  request is in one place at a time (its thread, the channel, the prompts, the
  commands, the command task), and that until it is closed it is the one in flight
  for its modules. Two prompts for the same modules would both be that one. A step's
  panic is part of the model: it strands requests, but neither shows a prompt twice nor
  gives a wrong verdict.

**The state adapter**, for any number of processes, tasks, contents and crashes:

- `StoreProof!StoreTypeCorrect`: `Spec => []TypeOK`.
- `StoreProof!IndexCorrect`: `Spec => []IndexNamesTasks`. `WrittenInv` says it of the files,
  of every cache and of every write under way, which is where the next index comes from.
- `StoreProof!AcknowledgedCorrect`: `[]AcknowledgedTasksListed` in a store without
  `Legacy` tasks.
- `StoreProof!StoreImplemented`: `Spec => ImplementsStore`, the refinement. Its invariant
  says that the one process has cached what the files hold, except where it writes, so
  that each action is a step of `StateStore` or changes nothing there.

**The JSSG step**, for any number of threads, files, keys and changes:

- `JssgProof!LockCorrect`: `Spec => []LockedEntryIsStable`. `LockInv` ties locks to release
  functions: a lock is held exactly by the thread with an unreleased one, and while it is
  nobody else's access is enabled.
- `JssgProof!SaveCorrect`: `Spec => []SavesWhatScriptsLeft`. `SaveInv` says which stored keys
  still have an entry or are to be removed, for as long as the step runs.
- `JssgProof!CancelCorrect`: `Spec => []CanceledFilesUntouched`. Files are taken once
  (`TakenInv`), and one that was executing when the step was canceled never gets to apply.
- `JssgProof!OkCorrect`: `Spec => []OkMeansComplete`. `OutcomeInv` relates what was left out to
  the flags that `Decide` looks at, through every order in which they are set.
- `JssgProof!TextCorrect`: `[]TextSurvives`, and `JssgProof!ChangesCorrect`:
  `[]ChangesOnDisk`. These are promises a step cannot keep for every script: one that writes
  over another file of the target, or renames a file twice, loses text or changes. What is
  assumed of the scripts, on the files the walk may come to again as on those it finds, is
  that their changes do not collide: each path is written by at most one renaming and one
  change in place (`WrittenOnce`), the name of a file of the target by no renaming
  (`NamesKept`), and what is renamed by nothing at all (`RenamesFinal`). The changes of `jssg`
  satisfy all three; those of `renames.cfg` violate the last two and those of `revisit.cfg` the
  last one, and show that they are needed. The invariant `FilesInv` has
  a part for each place a change passes. `AheadInv`: until the script of a file hands over
  its changes, the path it renames the file to is empty, and the walk has not come there.
  `ReadInv`: what a running script was given has every edit applied to its file so far.
  `PendingInv`: so has the text of a change in place that a thread has still to write (`Own`),
  while a renaming brings a whole text to a path where nothing has been, and nobody else
  will write there until it has (`Arrives`). `KeptInv`: what is on disk has every edit applied
  there, and nothing that was written will be deleted. `TextInv`: a text is still somewhere
  on disk that the deletions will leave. What is hard in it is the second visit: a file may
  be taken under its new name as soon as its new text is there, while its thread has
  other changes to write and its original is still to be deleted.

**Managed git**, for any number of tasks, attempts at each, commits and failed pushes:
`GitProof!GitTypeCorrect`, `WorktreesCorrect`, `BranchCorrect` and `PublicationCorrect` prove
`TypeOK` and the three invariants of `git`. Attempts at one task share its path, its branch
and its status, and overlap. What keeps them apart is the worktree: only one attempt can
have made the one that is there (`TreeInv`: of two attempts at a task one at most is at a
label where it owns the worktree, and none makes it meanwhile), since `git worktree add` fails
where it is and the removal is under the lock. So the branch is moved by the attempt that
owns the worktree, or by a left-over command, which `setback` remembers. `Works` says of an
attempt, from its first commit to its pull request, where its branch and its remote branch
are; `Stays` says the same of a task whose attempt was completed, until the next one has
made the worktree anew. Steps of other tasks leave both alone (lemmas `...Frame`), those of
other attempts at the task are `WorksOtherStep` and `StaysStep`.

**The managed components**, for any number of processes, commands, files, versions and
faults: `UpdateProof!HolderCorrect` (`OneHolder`), `RecordCorrect` (`RecordIsCurrent`) and
`ReportCorrect` (`ReportIsTrue`). A command passes each lock once, so a lock file whose command is past
the lock has no holder for good (`Dead`). Only such a file is ever found stale - this
rests on the guard of `Age`, that a process that lives is done with a lock long before
ten minutes - and so it may be removed, unless another has taken its place. `Progress` follows each file of an
update: until it is written it is as it was when the update began, then of the new
version, and after the roll-back as before again, unless its component is reported failed;
what no other command has written over (`over`) only the holder of the update lock changes,
so the invariant rests on `OneHolder`.

**Sharding**, for any files, groups, sizes (at least one file to a shard) and number of evaluations: `ShardingTypeCorrect`,
`PartitionCorrect` (`ShardsArePartition`), `TasksCorrect` (`FilesHaveTheirTask`) and
`AssignmentsCorrect` (`AssignmentsAreKept`). The invariant says that the shards are finitely
many, disjoint and not empty; that who has a task is in the array or has been dropped; and
that the files of a shard whose identity was never dropped are among those of its task.
It rests on new indices being larger than all in the array (`NextIndexAbove`), of which
there must be a largest.

**The package cache**, for any number of tasks, packages, files, resolutions and faults:
`CacheTypeCorrect`, `WriterCorrect` (`OneWriter`) and `ReturnCorrect` (`ReturnsThePackage`).
`LockInv` says that all references to the lock of a package are to the one in the map,
which is what makes a name that is used again harmless. `DirInv` follows a directory file by
file while it is copied, and says that otherwise it is whole and marked as it was sent, or
has nothing, unless the copy was broken off. That some file is required is needed: otherwise
a directory without files would be taken for the package.

**The package information**, for any number of tasks, versions, requests and any capacity:
`CacheProof!RequestCorrect` (`SingleRequest`), for the calls that use the cache; `CacheProof` extends
both modules. `CellInv` says that a cell somebody waits for is in the map unless it is full or the
map had no room for it, so that who asks for the version gets that cell.

Only model-checked: the liveness properties (`RunningTasksEnd`, `RunCompletes`,
`EveryRequestIsAnswered`, `StepEnds`, `AttemptsEnd`, `CommandsEnd`, `ResolutionsEnd`, `RequestsEnd`,
`RunEnds`; the prover does not reason about fairness). Every safety property of the runs is
stated by a theorem, for every value of the constants or, where it says so, for those that
satisfy its hypotheses.

## 5. Plan

The engine and the approvals came first because everything the program does to a
code base is started by the one and permitted by the other; what they leave behind on
disk, in git and in the harness's directories followed, and then what steps work on:
shards, packages and other workflows. What is left, in this order:

| Module | Models | Properties |
|---|---|---|
| `DependencyOrder` | what the engine promises, in terms of nodes and tasks only: a task starts after its dependencies, a run ends when its tasks have | refined by `WorkflowEngine` under a mapping that forgets processes |
| composition of the caches and `NestedCodemods` | a codemod step asks, resolves and runs | what runs is what was resolved, for as long as it runs (which `ExtractedFilesStay` shows not to hold today) |

## 6. Not modelled

In the components that are modelled in part:

- Engine: the kinds of steps and what they do to the workflow's files, but for js-ast-grep,
  shard and codemod steps; events, logs and statistics; errors of the state adapter during a run.
- JSSG step: the set-up (resolver, selector, semantic index), dry runs and steps that skip
  the state's writes, explicit file lists (which one thread goes through in order) and globs, a
  walk that cannot begin, progress and
  metrics.
- Shared state: step outputs and metrics, maps that are only written under a mutex.
- Managed git: runs without worktrees, which check a branch out in place; a `git push` that
  outlives its task's 45 minutes; the status of the run, which a cancel sets too. An attempt
  that is canceled while its worktree is made goes on, as in the code (`execute_task` marks the
  task as Running again).
- Managed components: the discovery of harnesses and scopes, the formats of their files, the
  signatures and archives of what is downloaded, updates that are only proposed, `--force`. An
  install writes its files in one step, some of which may fail: another command that runs in
  between sees all of them or none.
- Sharding: custom shard functions, the scan, the syntax of CODEOWNERS files; a maximal size of
  0, for which `bin_pack_files` makes no shards and drops the files (`shard.rs:515`;
  `ShardingAssumption` has at least 1).
- Packages: specifications, versions, packages in local directories, authentication;
  other processes on the same cache; calls of `get_package_info` that bypass the cache or name no
  exact version (`registry.rs:364`), each of which makes a request of its own.
- Nested codemods: the search for packages that are for dry runs only, the observer.
- Session and interface: log and status events, rendering, keys, lists of runs.

Components that are left out, with the reason:

- The JavaScript engine, ast-grep and the language crates: third-party engines over syntax
  trees, whose state no finite model tells apart usefully.
- Cloud adapter, telemetry, AI providers and agents: one request
  after the other against services whose behaviour is not in the repository. A deferred
  step, an agent's failure and a failing fetch are outcomes where a model calls them.
- Runners (direct, docker, podman): start a process and wait for it; an outcome.
- Templates, conditions, schemas, parameters, packaging, `init`, `publish`, MCP handlers,
  reports: sequential functions on strings and files without state between calls.
