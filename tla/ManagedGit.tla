----------------------------- MODULE ManagedGit ------------------------------
(***************************************************************************)
(* core/src/managed_git_service.rs and git_ops.rs, with the task thread of *)
(* engine.rs that calls them: every attempt at a task works in a worktree  *)
(* on the task's branch, and what it committed is pushed and proposed as a *)
(* pull request.                                                           *)
(*                                                                         *)
(* The creation of a worktree has a timeout; the git command that runs     *)
(* when it expires is not killed.  A task that has ended, or was canceled, *)
(* can be triggered again, whatever its earlier attempts still do: all of  *)
(* them use one path and one branch.                                       *)
(***************************************************************************)
EXTENDS Naturals, FiniteSets

CONSTANTS
    Task,
    Attempt,        \* the attempts that are made at the tasks, each by a thread
    TaskOf,         \* (bound: how often each task is triggered)
    Asks,           \* the tasks whose publication the user is asked about
    MaxCommits,     \* bound: commits on each task's branch
    MaxPushes,      \* max_retries of push_branch
    NoAttempt, NoBranch

ASSUME GitAssumption ==
    /\ Asks \subseteq Task /\ Attempt \subseteq Nat /\ NoAttempt \notin Nat
    /\ TaskOf \in [Attempt -> Task]
    /\ MaxCommits \in [Task -> Nat] /\ MaxPushes \in Nat \ {0}
    /\ NoBranch \notin Nat

VARIABLES
    pc,         \* of the attempt's thread
    status,     \* of the task; "canceled" is Failed with "Canceled by user"
    lock,       \* who holds worktree_operation_lock
    worktree,   \* the tasks whose worktree path exists
    orphan,     \* the attempts with a git worktree add that outlived its timeout
    slot,       \* the attempts whose cleanup slot is filled
    dirty,      \* the worktree has changes that are not committed
    checkpoint, \* had_commit_checkpoint of the attempt
    branch,     \* the last commit of the task's branch, 0 at the base
    remote,     \* ... and of the branch on the remote
    pushes,     \* failed attempts of the current push
    pulls,      \* the tasks with a pull request
    report,     \* what the task's log says last of its publication
    assumed,    \* history: the last push failed and was taken for successful
    leaked,     \* history: worktrees whose creation timed out or whose removal failed
    setback,    \* history: branches that a left-over command has moved since
                \* the task's worktree was made or its last commit
    commits     \* history: commits made for the task so far

vars == <<pc, status, lock, worktree, orphan, slot, dirty, checkpoint, branch,
          remote, pushes, pulls, report, assumed, leaked, setback, commits>>
tree  == <<lock, worktree, orphan, slot, leaked>>
work  == <<dirty, checkpoint, branch, setback, commits>>
publication == <<remote, pushes, pulls, report, assumed>>

Label == {"idle", "lock", "relock", "add", "ready", "steps", "finalize", "approve",
          "push", "verify", "pull", "cleanup", "unlock", "remove", "over"}
Status == {"waiting", "running", "failed", "canceled", "completed"}

TypeOK ==
    /\ pc \in [Attempt -> Label]
    /\ status \in [Task -> Status]
    /\ lock \in Attempt \cup {NoAttempt}
    /\ worktree \subseteq Task /\ orphan \subseteq Attempt /\ slot \subseteq Attempt
    /\ dirty \in [Task -> BOOLEAN] /\ checkpoint \in [Attempt -> BOOLEAN]
    /\ commits \in [Task -> Nat]
    /\ branch \in [Task -> Nat \cup {NoBranch}]
    /\ remote \in [Task -> Nat \cup {NoBranch}]
    /\ \A t \in Task : commits[t] <= MaxCommits[t]
    /\ pushes \in [Attempt -> 0 .. MaxPushes - 1]
    /\ pulls \subseteq Task /\ assumed \subseteq Task
    /\ leaked \subseteq Task /\ setback \subseteq Task
    /\ report \in [Task -> {"none", "no changes", "deferred", "published"}]

Init ==
    /\ pc = [a \in Attempt |-> "idle"]
    /\ status = [t \in Task |-> "waiting"]
    /\ lock = NoAttempt
    /\ worktree = {} /\ orphan = {} /\ slot = {}
    /\ dirty = [t \in Task |-> FALSE]
    /\ checkpoint = [a \in Attempt |-> FALSE]
    /\ branch = [t \in Task |-> NoBranch]
    /\ remote = [t \in Task |-> NoBranch]
    /\ pushes = [a \in Attempt |-> 0]
    /\ pulls = {} /\ assumed = {} /\ leaked = {} /\ setback = {}
    /\ report = [t \in Task |-> "none"]
    /\ commits = [t \in Task |-> 0]

Goto(a, l) == pc' = [pc EXCEPT ![a] = l]
Becomes(t, s) == status' = [status EXCEPT ![t] = s]

-----------------------------------------------------------------------------
(* The task                                                                *)

Triggerable(t) == status[t] \in {"waiting", "failed", "canceled", "completed"}

\* A task is triggered, for the first time or again (its attempts are numbered in
\* that order); the root of the repository is found, or is not in time.
Start(a) ==
    /\ pc[a] = "idle" /\ Triggerable(TaskOf[a])
    /\ \A b \in Attempt : b < a /\ TaskOf[b] = TaskOf[a] => pc[b] # "idle"
    /\ \/ Goto(a, "lock") /\ Becomes(TaskOf[a], "running")
       \/ Goto(a, "over") /\ Becomes(TaskOf[a], "failed")
    /\ UNCHANGED <<tree, work, publication>>

\* The user cancels the run.  The attempt finds out between its steps.
Cancel(t) ==
    /\ status[t] = "running"
    /\ Becomes(t, "canceled")
    /\ UNCHANGED <<pc, tree, work, publication>>

-----------------------------------------------------------------------------
(* The worktree                                                            *)

\* Mutant: the path is not looked at.
TakeLockOnly(a) ==
    /\ pc[a] \in {"lock", "relock", "unlock"}
    /\ lock = NoAttempt
    /\ lock' = a
    /\ Goto(a, IF pc[a] = "lock" THEN "add" ELSE "remove")
    /\ UNCHANGED <<status, worktree, orphan, slot, leaked, work, publication>>

\* Who takes the lock goes on to the git command.  create_worktree calls
\* remove_worktree when the path is there, which wants the same lock again.
TakeLock(a) ==
    /\ pc[a] \in {"lock", "relock", "unlock"}
    /\ lock = NoAttempt
    /\ lock' = a
    /\ Goto(a, CASE pc[a] = "lock" /\ TaskOf[a] \in worktree -> "relock"
                 [] pc[a] = "lock" /\ TaskOf[a] \notin worktree -> "add"
                 [] OTHER -> "remove")
    /\ UNCHANGED <<status, worktree, orphan, slot, leaked, work, publication>>

\* git worktree add -B, when it succeeds: the worktree is new, and at the base
\* like the branch.
AddsWorktree(t) ==
    /\ t \notin worktree
    /\ worktree' = worktree \cup {t}
    /\ branch' = [branch EXCEPT ![t] = 0]

\* ... and when it fails: the branch may have been moved.
FailsToAdd(t) ==
    /\ branch' \in {branch, [branch EXCEPT ![t] = 0]}
    /\ UNCHANGED worktree

Add(a) ==
    /\ pc[a] = "add"
    /\ lock' = NoAttempt
    /\ \/ /\ AddsWorktree(TaskOf[a])
          /\ setback' = setback \ {TaskOf[a]}
          /\ Goto(a, "ready")
          /\ UNCHANGED status
       \/ /\ FailsToAdd(TaskOf[a])
          /\ Goto(a, "over") /\ Becomes(TaskOf[a], "failed")
          /\ UNCHANGED setback
    /\ UNCHANGED <<orphan, slot, leaked, dirty, checkpoint, commits, publication>>

Creating == {"lock", "relock", "add"}

\* Mutant: waiting for the lock does not count.
TimeoutOfGitOnly(a) ==
    /\ pc[a] = "add"
    /\ lock' = NoAttempt
    /\ Goto(a, "over") /\ Becomes(TaskOf[a], "failed")
    /\ orphan' = orphan \cup {a}
    /\ leaked' = leaked \cup {TaskOf[a]}
    /\ UNCHANGED <<worktree, slot, work, publication>>

\* The timeout expires: the task fails and its thread returns without cleanup.
Timeout(a) ==
    /\ pc[a] \in Creating
    /\ lock' = IF lock = a THEN NoAttempt ELSE lock
    /\ Goto(a, "over") /\ Becomes(TaskOf[a], "failed")
    /\ orphan' = IF pc[a] = "add" THEN orphan \cup {a} ELSE orphan
    /\ leaked' = IF pc[a] = "add" THEN leaked \cup {TaskOf[a]} ELSE leaked
    /\ UNCHANGED <<worktree, slot, work, publication>>

\* The git command that was left alone comes to its end.
OrphanEnds(a) ==
    /\ a \in orphan
    /\ orphan' = orphan \ {a}
    /\ AddsWorktree(TaskOf[a]) \/ FailsToAdd(TaskOf[a])
    /\ setback' = IF branch' = branch THEN setback ELSE setback \cup {TaskOf[a]}
    /\ UNCHANGED <<pc, status, lock, slot, leaked, dirty, checkpoint, commits, publication>>

\* The slot is filled; execute_task marks the task as running.
Ready(a) ==
    /\ pc[a] = "ready"
    /\ slot' = slot \cup {a}
    /\ Goto(a, "steps") /\ Becomes(TaskOf[a], "running")
    /\ UNCHANGED <<lock, worktree, orphan, leaked, work, publication>>

\* cleanup_worktree: whatever became of the attempt (its flag is gone), a worktree
\* in the slot is removed, under the lock.
Cleanup(a) ==
    /\ pc[a] = "cleanup"
    /\ slot' = slot \ {a}
    /\ checkpoint' = [checkpoint EXCEPT ![a] = FALSE]
    /\ Goto(a, IF a \in slot THEN "unlock" ELSE "over")
    /\ UNCHANGED <<status, lock, worktree, orphan, leaked, dirty, branch, setback,
                   commits, publication>>

Remove(a) ==
    /\ pc[a] = "remove"
    /\ lock' = NoAttempt
    /\ Goto(a, "over")
    /\ \/ /\ worktree' = worktree \ {TaskOf[a]}
          /\ dirty' = [dirty EXCEPT ![TaskOf[a]] = FALSE]
          /\ leaked' = IF \E o \in orphan : TaskOf[o] = TaskOf[a] THEN leaked
                       ELSE leaked \ {TaskOf[a]}
       \/ /\ leaked' = leaked \cup {TaskOf[a]}
          /\ UNCHANGED <<worktree, dirty>>
    /\ UNCHANGED <<status, orphan, slot, checkpoint, branch, setback, commits, publication>>

-----------------------------------------------------------------------------
(* The steps                                                               *)

Edit(a) ==
    /\ pc[a] = "steps"
    /\ dirty' = [dirty EXCEPT ![TaskOf[a]] = TRUE]
    /\ UNCHANGED <<pc, status, tree, checkpoint, branch, setback, commits, publication>>

\* git add and commit; the configured paths may leave something out.
Commits(a, rest) ==
    LET t == TaskOf[a]
    IN  /\ dirty[t] /\ commits[t] < MaxCommits[t]
        /\ commits' = [commits EXCEPT ![t] = @ + 1]
        /\ branch' = [branch EXCEPT ![t] = commits[t] + 1]
        /\ setback' = setback \ {t}
        /\ checkpoint' = [checkpoint EXCEPT ![a] = TRUE]
        /\ dirty' = [dirty EXCEPT ![t] = rest]

Checkpoint(a) ==
    /\ pc[a] = "steps"
    /\ \E rest \in BOOLEAN : Commits(a, rest)
    /\ UNCHANGED <<pc, status, tree, publication>>

\* Mutant: only an attempt that ends well is cleaned up.
StepsFailDirectly(a) ==
    /\ pc[a] = "steps"
    /\ \/ Becomes(TaskOf[a], "failed") /\ Goto(a, "over")
       \/ Becomes(TaskOf[a], "waiting") /\ Goto(a, "cleanup")
    /\ UNCHANGED <<tree, work, publication>>

\* A step or a checkpoint fails, or finds the task canceled; or a step defers
\* the task, which waits to be triggered again.
StepsFail(a) ==
    /\ pc[a] = "steps"
    /\ Becomes(TaskOf[a], "failed") \/ Becomes(TaskOf[a], "waiting")
    /\ Goto(a, "cleanup")
    /\ UNCHANGED <<tree, work, publication>>

\* After the last step as after each one the task must not be canceled.
StepsEnd(a) ==
    /\ pc[a] = "steps"
    /\ status[TaskOf[a]] # "canceled"
    /\ Goto(a, "finalize")
    /\ UNCHANGED <<status, tree, work, publication>>

\* The 45 minutes of the task are over, or its thread panics.
TakesTooLong(a) ==
    /\ pc[a] \in {"steps", "finalize", "push", "verify", "pull"}
    /\ Becomes(TaskOf[a], "failed")
    /\ Goto(a, "cleanup")
    /\ UNCHANGED <<tree, work, publication>>

-----------------------------------------------------------------------------
(* The publication                                                         *)

\* The attempt has ended, with what its log says.
Ends(a, s, r) ==
    /\ Becomes(TaskOf[a], s)
    /\ report' = [report EXCEPT ![TaskOf[a]] = r]
    /\ Goto(a, "cleanup")

\* finalize_task: without a checkpoint the changes are committed.  A commit that
\* fails, like changes that cannot be looked for, ends as if there were none.
Finalize(a) ==
    /\ pc[a] = "finalize"
    /\ \/ /\ checkpoint[a]
          /\ Goto(a, "approve")
          /\ UNCHANGED <<status, report, work>>
       \/ /\ ~checkpoint[a]
          /\ Commits(a, FALSE)
          /\ Goto(a, "approve")
          /\ UNCHANGED <<status, report>>
       \/ /\ ~checkpoint[a]
          /\ Ends(a, "completed", "no changes")
          /\ UNCHANGED work
    /\ UNCHANGED <<tree, remote, pushes, pulls, assumed>>

\* The user may defer the publication; asking may fail.
Approve(a) ==
    /\ pc[a] = "approve"
    /\ \/ /\ Goto(a, "push")
          /\ UNCHANGED <<status, report>>
       \/ /\ TaskOf[a] \in Asks
          /\ Ends(a, "completed", "deferred")
       \/ /\ TaskOf[a] \in Asks
          /\ Ends(a, "failed", report[TaskOf[a]])
    /\ UNCHANGED <<tree, work, remote, pushes, pulls, assumed>>

\* One attempt to push.  One that fails may have reached the remote.
Push(a) ==
    LET t == TaskOf[a]
    IN  /\ pc[a] = "push"
        /\ \/ /\ remote' = [remote EXCEPT ![t] = branch[t]]
              /\ assumed' = assumed \ {t}
              /\ pushes' = [pushes EXCEPT ![a] = 0]
              /\ Goto(a, "pull")
           \/ /\ remote' \in {remote, [remote EXCEPT ![t] = branch[t]]}
              /\ IF pushes[a] + 1 = MaxPushes
                 THEN Goto(a, "verify") /\ pushes' = [pushes EXCEPT ![a] = 0]
                 ELSE UNCHANGED pc /\ pushes' = [pushes EXCEPT ![a] = @ + 1]
              /\ UNCHANGED assumed
        /\ UNCHANGED <<status, tree, work, pulls, report>>

\* Mutant: a branch that could not be pushed is not looked for.
VerifyNothing(a) ==
    /\ pc[a] = "verify"
    /\ Goto(a, "pull")
    /\ assumed' = IF remote[TaskOf[a]] = NoBranch THEN assumed
                  ELSE assumed \cup {TaskOf[a]}
    /\ UNCHANGED <<status, tree, work, remote, pushes, pulls, report>>

\* The last push has failed: a branch of that name on the remote will do.
Verify(a) ==
    /\ pc[a] = "verify"
    /\ \/ /\ remote[TaskOf[a]] # NoBranch
          /\ Goto(a, "pull")
          /\ assumed' = assumed \cup {TaskOf[a]}
          /\ UNCHANGED <<status, report>>
       \/ /\ Ends(a, "failed", report[TaskOf[a]])
          /\ UNCHANGED assumed
    /\ UNCHANGED <<tree, work, remote, pushes, pulls>>

\* create_pull_request; an attempt that fails may have created it.
CreatePullRequest(a) ==
    /\ pc[a] = "pull"
    /\ \/ pulls' = pulls \cup {TaskOf[a]} /\ Ends(a, "completed", "published")
       \/ /\ pulls' \in {pulls, pulls \cup {TaskOf[a]}}
          /\ Ends(a, "failed", report[TaskOf[a]])
    /\ UNCHANGED <<tree, work, remote, pushes, assumed>>

\* create_pull_request_for_task.  The interface offers it for a completed task
\* whose log tells of no pull request, and the answer may come when the task has
\* been triggered again: the branch is pushed, or was there, and proposed.
\* Errors are only logged.
PublishLater(t) ==
    /\ report[t] = "deferred"
    /\ remote' \in {remote, [remote EXCEPT ![t] = branch[t]]}
    /\ \/ UNCHANGED pulls
       \/ remote'[t] # NoBranch /\ pulls' = pulls \cup {t}
    /\ UNCHANGED <<pc, status, tree, work, pushes, report, assumed>>

Thread(a) ==
    \/ TakeLock(a) \/ Add(a) \/ Ready(a) \/ Cleanup(a) \/ Remove(a)
    \/ Finalize(a) \/ Approve(a) \/ Push(a) \/ Verify(a) \/ CreatePullRequest(a)

Steps(a) == Edit(a) \/ Checkpoint(a) \/ StepsFail(a) \/ StepsEnd(a) \/ TakesTooLong(a)

Next ==
    \/ \E a \in Attempt :
          Start(a) \/ Steps(a) \/ Thread(a) \/ Timeout(a) \/ OrphanEnds(a)
    \/ \E t \in Task : Cancel(t) \/ PublishLater(t)

\* Fairness: threads are scheduled, git commands end, the timer of a creation
\* expires and so do the 45 minutes of a task; the lock is given in order.
Fairness ==
    \A a \in Attempt :
        /\ WF_vars(Thread(a) \/ TakesTooLong(a) \/ Timeout(a))
        /\ SF_vars(TakeLock(a))

Spec == Init /\ [][Next]_vars /\ Fairness

-----------------------------------------------------------------------------
(* Properties                                                              *)

\* No attempt at the task is under way.
Rests(t) == \A a \in Attempt : TaskOf[a] = t => pc[a] \in {"idle", "over"}

\* Between attempts a task has a worktree only if its creation outlived the
\* timeout or its removal failed: failed, deferred, canceled and panicked
\* attempts leave none behind, also when they overlap with the next one.
WorktreesAreRemoved == \A t \in worktree : Rests(t) => t \in leaked

\* The branch of a task that was completed with something to publish is at the
\* last commit that was made for it, whatever attempts, cancels and timeouts
\* came before: what a deferred publication can push later is the work.  But a
\* git command that was left alone may have moved the branch since.
CompletedBranchIsTheWork ==
    \A t \in Task :
        /\ Rests(t) /\ t \notin setback
        /\ status[t] = "completed" /\ report[t] \in {"deferred", "published"}
        => branch[t] = commits[t]

\* A pull request is for a branch on the remote; that of a task that was
\* completed as published proposes the task's last commit, unless the push
\* failed and the branch was found there, or a git command that was left alone
\* has moved the branch since the commit.
PublishedBranchIsTheWork ==
    \A t \in Task :
        /\ t \in pulls => remote[t] # NoBranch
        /\ Rests(t) /\ t \notin assumed \cup setback
           /\ status[t] = "completed" /\ report[t] = "published"
           => remote[t] = commits[t]

\* Every attempt ends: it does not wait for ever for a worktree or its removal,
\* though another attempt, or a call within the same one, holds the lock.
AttemptsEnd == <>[](\A t \in Task : Rests(t))

-----------------------------------------------------------------------------
(* Statements that the code does not keep                                  *)

\* A task that finds its worktree there removes it and makes it again ("making
\* retries idempotent").
RetriesProceed == \A a \in Attempt : pc[a] = "relock" => lock # a

\* "No changes detected; no PR created": a task that says so had none.
NoChangesMeansNone ==
    \A a \in Attempt :
        LET t == TaskOf[a]
        IN  pc[a] = "cleanup" /\ status[t] = "completed" /\ report[t] = "no changes"
                => ~dirty[t]

\* "Use create-pr to continue later": what is on the branch of a task that was
\* completed is its work.
CompletedWorkStays ==
    \A t \in Task :
        Rests(t) /\ status[t] = "completed" /\ report[t] = "deferred"
            => branch[t] = commits[t]

=============================================================================
