------------------------------- MODULE GitProof -------------------------------
(***************************************************************************)
(* For any number of tasks, attempts, commits and failed pushes: worktrees *)
(* are removed, and branches and pull requests hold the work.              *)
(*                                                                         *)
(* Attempts at one task overlap, as a task can be triggered while earlier  *)
(* ones still end.  What keeps them apart is the worktree itself: the one  *)
(* that has made it is the only one past its creation (TreeInv), for as    *)
(* long as it is there nobody makes it again.                              *)
(***************************************************************************)
EXTENDS ManagedGit, TLAPS

-----------------------------------------------------------------------------
(* The inductive invariant                                                 *)

Publishing == {"approve", "push", "verify", "pull"}

\* Attempts that work on the task, whose worktree is in the slot, and whose
\* worktree is there.
Working == {"steps", "finalize"} \cup Publishing
Filled  == Working \cup {"cleanup"}
Owning  == Filled \cup {"ready", "unlock", "remove"}

\* TypeOK by groups of variables: an action disturbs few of them.
ThreadType == pc \in [Attempt -> Label] /\ pushes \in [Attempt -> 0 .. MaxPushes - 1]
StatusType ==
    /\ status \in [Task -> Status]
    /\ report \in [Task -> {"none", "no changes", "deferred", "published"}]
TreeType ==
    /\ lock \in Attempt \cup {NoAttempt}
    /\ worktree \subseteq Task /\ orphan \subseteq Attempt /\ slot \subseteq Attempt
    /\ leaked \subseteq Task
WorkType ==
    /\ dirty \in [Task -> BOOLEAN] /\ checkpoint \in [Attempt -> BOOLEAN]
    /\ branch \in [Task -> Nat \cup {NoBranch}] /\ commits \in [Task -> Nat]
    /\ \A t \in Task : commits[t] <= MaxCommits[t]
    /\ setback \subseteq Task
RemoteType ==
    /\ remote \in [Task -> Nat \cup {NoBranch}]
    /\ pulls \subseteq Task /\ assumed \subseteq Task

TypeInv == ThreadType /\ StatusType /\ TreeType /\ WorkType /\ RemoteType

\* A worktree that is there is that of one attempt, which has it in the slot until
\* it removes it, or was left behind.  While one makes it there is no other.
TreeInv ==
    /\ \A o \in orphan : TaskOf[o] \in leaked
    /\ \A a \in Attempt :
          /\ pc[a] \in Filled => a \in slot
          /\ pc[a] \in Owning => TaskOf[a] \in worktree
          /\ pc[a] \in {"relock", "add", "remove"} => lock = a
    /\ \A a, b \in Attempt :
          pc[a] \in Owning \cup {"add"} /\ pc[b] \in Owning /\ TaskOf[a] = TaskOf[b]
              => a = b
    /\ \A t \in worktree \ leaked : \E a \in Attempt : TaskOf[a] = t /\ pc[a] \in Owning

\* An attempt that has committed finds its last commit on the branch, and one that
\* publishes has committed; what it has pushed is on the remote.
Works(a) ==
    LET t == TaskOf[a]
    IN  /\ pc[a] \in Working => status[t] # "completed"
        /\ checkpoint[a] => pc[a] \in Filled
        /\ checkpoint[a] /\ t \notin setback => branch[t] = commits[t]
        /\ pc[a] \in Publishing => checkpoint[a]
        /\ pc[a] \in Owning => branch[t] # NoBranch
        /\ pc[a] = "pull" => remote[t] # NoBranch
        /\ pc[a] = "pull" /\ t \notin assumed \cup setback => remote[t] = commits[t]

\* What an attempt has completed stays, until another one has made the worktree
\* anew (and is about to mark the task as running again).
NoneReady(t) == \A a \in Attempt : TaskOf[a] = t => pc[a] # "ready"

Stays(t) ==
    /\ report[t] # "none" => branch[t] # NoBranch
    /\ t \in pulls => remote[t] # NoBranch
    /\ status[t] = "completed" /\ NoneReady(t) /\ t \notin setback =>
          /\ report[t] \in {"deferred", "published"} => branch[t] = commits[t]
          /\ report[t] = "published" /\ t \notin assumed => remote[t] = commits[t]

Inv ==
    /\ TypeInv /\ TreeInv
    /\ \A a \in Attempt : Works(a)
    /\ \A t \in Task : Stays(t)

-----------------------------------------------------------------------------
(* Types                                                                   *)

LEMMA ThreadTypeStep == ThreadType /\ [Next]_vars => ThreadType'
<1> SUFFICES ASSUME ThreadType, [Next]_vars PROVE ThreadType'
  OBVIOUS
<1> USE DEF ThreadType, Goto, Label
<1>1. CASE UNCHANGED <<pc, pushes>>
  BY <1>1
<1>2. ASSUME NEW a \in Attempt,
             Start(a) \/ TakeLock(a) \/ Add(a) \/ Timeout(a)
      PROVE  ThreadType'
  BY <1>2, GitAssumption
     DEF Start, TakeLock, Add, AddsWorktree, FailsToAdd, Timeout, publication
<1>3. ASSUME NEW a \in Attempt,
             Ready(a) \/ Cleanup(a) \/ Remove(a) \/ StepsFail(a)
      PROVE  ThreadType'
  BY <1>3, GitAssumption
     DEF Ready, Cleanup, Remove, StepsFail, publication
<1>4. ASSUME NEW a \in Attempt,
             StepsEnd(a) \/ TakesTooLong(a) \/ Finalize(a) \/ Approve(a)
      PROVE  ThreadType'
  BY <1>4, GitAssumption
     DEF StepsEnd, TakesTooLong, Finalize, Commits, Ends, Approve, publication
<1>5. ASSUME NEW a \in Attempt,
             Verify(a) \/ CreatePullRequest(a)
      PROVE  ThreadType'
  BY <1>5, GitAssumption
     DEF Verify, Ends, CreatePullRequest
<1>6. ASSUME NEW a \in Attempt, Push(a) PROVE ThreadType'
  <2>1. /\ MaxPushes \in Nat /\ pushes[a] \in 0 .. MaxPushes - 1
        /\ 0 \in 0 .. MaxPushes - 1
        /\ pushes[a] + 1 # MaxPushes => pushes[a] + 1 \in 0 .. MaxPushes - 1
    BY GitAssumption
  <2>2. CASE pushes' = [pushes EXCEPT ![a] = 0] /\ \E l \in Label : Goto(a, l)
    BY <2>1, <2>2
  <2>3. CASE /\ pushes' = [pushes EXCEPT ![a] = pushes[a] + 1] /\ UNCHANGED pc
             /\ pushes[a] + 1 # MaxPushes
    BY <2>1, <2>3
  <2> QED  BY <1>6, <2>2, <2>3 DEF Push
<1> QED
  BY <1>1, <1>2, <1>3, <1>4, <1>5, <1>6
     DEF Next, Thread, Steps, vars, tree, work, publication, OrphanEnds,
         AddsWorktree, FailsToAdd, Edit, Checkpoint, Commits, Cancel,
         PublishLater

LEMMA StatusTypeStep == StatusType /\ [Next]_vars => StatusType'
<1> SUFFICES ASSUME StatusType, [Next]_vars PROVE StatusType'
  OBVIOUS
<1> USE DEF StatusType, Becomes, Status
<1>1. CASE UNCHANGED <<status, report>>
  BY <1>1
<1>2. ASSUME NEW a \in Attempt,
             Start(a) \/ Add(a) \/ Timeout(a) \/ Ready(a)
      PROVE  StatusType'
  BY <1>2, GitAssumption
     DEF Start, Add, AddsWorktree, FailsToAdd, Timeout, Ready, publication
<1>3. ASSUME NEW a \in Attempt,
             StepsFail(a) \/ TakesTooLong(a) \/ Finalize(a) \/ Approve(a)
      PROVE  StatusType'
  BY <1>3, GitAssumption
     DEF StepsFail, TakesTooLong, Finalize, Commits, Ends, Approve, publication
<1>4. ASSUME NEW a \in Attempt,
             Verify(a) \/ CreatePullRequest(a)
      PROVE  StatusType'
  BY <1>4, GitAssumption
     DEF Verify, Ends, CreatePullRequest
<1>5. ASSUME NEW t \in Task, Cancel(t) PROVE StatusType'
  BY <1>5 DEF Cancel, publication
<1> QED
  BY <1>1, <1>2, <1>3, <1>4, <1>5
     DEF Next, Thread, Steps, vars, tree, work, publication, TakeLock,
         OrphanEnds, AddsWorktree, FailsToAdd, Cleanup, Remove, Edit,
         Checkpoint, Commits, StepsEnd, Push, PublishLater

LEMMA TreeTypeStep == TreeType /\ [Next]_vars => TreeType'
<1> SUFFICES ASSUME TreeType, [Next]_vars PROVE TreeType'
  OBVIOUS
<1> USE DEF TreeType
<1>1. CASE UNCHANGED <<lock, worktree, orphan, slot, leaked>>
  BY <1>1
<1>2. ASSUME NEW a \in Attempt,
             TakeLock(a) \/ Add(a) \/ Timeout(a) \/ OrphanEnds(a)
      PROVE  TreeType'
  BY <1>2, GitAssumption
     DEF TakeLock, Add, AddsWorktree, FailsToAdd, Timeout, OrphanEnds
<1>3. ASSUME NEW a \in Attempt,
             Ready(a) \/ Cleanup(a) \/ Remove(a)
      PROVE  TreeType'
  BY <1>3, GitAssumption
     DEF Ready, Cleanup, Remove
<1> QED
  BY <1>1, <1>2, <1>3
     DEF Next, Thread, Steps, vars, tree, work, publication, Start, Edit,
         Checkpoint, Commits, StepsFail, StepsEnd, TakesTooLong, Finalize, Ends,
         Approve, Push, Verify, CreatePullRequest, Cancel, PublishLater

LEMMA WorkTypeStep == WorkType /\ [Next]_vars => WorkType'
<1> SUFFICES ASSUME WorkType, [Next]_vars PROVE WorkType'
  OBVIOUS
<1> USE DEF WorkType
<1>1. CASE UNCHANGED <<dirty, checkpoint, branch, setback, commits>>
  BY <1>1
<1>2. ASSUME NEW a \in Attempt, Cleanup(a) \/ Remove(a) \/ Edit(a) PROVE WorkType'
  BY <1>2, GitAssumption
     DEF Cleanup, Remove, Edit
<1>3. ASSUME NEW t \in Task, AddsWorktree(t) \/ FailsToAdd(t) PROVE
             branch' \in [Task -> Nat \cup {NoBranch}]
  BY <1>3 DEF AddsWorktree, FailsToAdd
<1>4. ASSUME NEW a \in Attempt, Add(a) \/ OrphanEnds(a) PROVE WorkType'
  <2>1. TaskOf[a] \in Task
    BY GitAssumption
  <2> QED  BY <1>3, <1>4, <2>1 DEF Add, OrphanEnds
<1>5. ASSUME NEW a \in Attempt,
             NEW rest \in BOOLEAN, Commits(a, rest)
      PROVE  WorkType'
  <2> DEFINE t == TaskOf[a]
  <2>1. /\ t \in Task /\ commits[t] \in Nat /\ MaxCommits[t] \in Nat
        /\ commits[t] < MaxCommits[t]
    BY <1>5, GitAssumption DEF Commits
  <2>2. commits[t] + 1 \in Nat /\ commits[t] + 1 <= MaxCommits[t]
    BY <2>1
  <2> HIDE DEF t
  <2>3. /\ commits' = [commits EXCEPT ![t] = commits[t] + 1]
        /\ branch' = [branch EXCEPT ![t] = commits[t] + 1]
        /\ setback' = setback \ {t}
        /\ checkpoint' = [checkpoint EXCEPT ![a] = TRUE]
        /\ dirty' = [dirty EXCEPT ![t] = rest]
    BY <1>5 DEF Commits, t
  <2> QED  BY <2>1, <2>2, <2>3
<1>6. ASSUME NEW a \in Attempt, Checkpoint(a) \/ Finalize(a) PROVE WorkType'
  BY <1>1, <1>5, <1>6 DEF Checkpoint, Finalize, work
<1> QED
  BY <1>1, <1>2, <1>4, <1>6
     DEF Next, Thread, Steps, vars, tree, work, publication, Start, TakeLock,
         Timeout, Ready, StepsFail, StepsEnd, TakesTooLong, Approve, Ends, Push,
         Verify, CreatePullRequest, Cancel, PublishLater

LEMMA RemoteTypeStep == WorkType /\ RemoteType /\ [Next]_vars => RemoteType'
<1> SUFFICES ASSUME WorkType, RemoteType, [Next]_vars PROVE RemoteType'
  OBVIOUS
<1> USE DEF WorkType, RemoteType
<1>1. CASE UNCHANGED <<remote, pulls, assumed>>
  BY <1>1
<1>2. \A a \in Attempt : TaskOf[a] \in Task
  BY GitAssumption
<1>3. ASSUME NEW a \in Attempt, Push(a) PROVE RemoteType'
  BY <1>2, <1>3 DEF Push
<1>4. ASSUME NEW a \in Attempt,
             Verify(a) \/ CreatePullRequest(a)
      PROVE  RemoteType'
  BY <1>2, <1>4 DEF Verify, CreatePullRequest
<1>5. ASSUME NEW t \in Task, PublishLater(t) PROVE RemoteType'
  BY <1>5 DEF PublishLater
<1> QED
  BY <1>1, <1>3, <1>4, <1>5
     DEF Next, Thread, Steps, vars, tree, work, publication, Start, TakeLock,
         Add, AddsWorktree, FailsToAdd, Timeout, OrphanEnds, Ready, Cleanup,
         Remove, Edit, Checkpoint, Commits, StepsFail, StepsEnd, TakesTooLong,
         Finalize, Ends, Approve, Cancel

-----------------------------------------------------------------------------
(* What a step of one attempt leaves alone                                 *)

StepOf(a) == Start(a) \/ Steps(a) \/ Thread(a) \/ Timeout(a) \/ OrphanEnds(a)

LEMMA ThreadFrame ==
    ASSUME ThreadType, WorkType, NEW a \in Attempt, StepOf(a), NEW b \in Attempt \ {a}
    PROVE  pc'[b] = pc[b] /\ checkpoint'[b] = checkpoint[b]
<1> USE DEF ThreadType, WorkType, Goto, Ends
<1>1. CASE Start(a) \/ TakeLock(a) \/ Add(a)
  BY <1>1 DEF Start, TakeLock, Add, work
<1>2. CASE Timeout(a) \/ OrphanEnds(a) \/ Ready(a)
  BY <1>2 DEF Timeout, OrphanEnds, Ready, work
<1>3. CASE Cleanup(a) \/ Remove(a) \/ Edit(a)
  BY <1>3 DEF Cleanup, Remove, Edit
<1>4. CASE Checkpoint(a) \/ Finalize(a)
  BY <1>4 DEF Checkpoint, Finalize, Commits, work
<1>5. CASE StepsFail(a) \/ StepsEnd(a) \/ TakesTooLong(a)
  BY <1>5 DEF StepsFail, StepsEnd, TakesTooLong, work
<1>6. CASE Approve(a) \/ Push(a) \/ Verify(a) \/ CreatePullRequest(a)
  BY <1>6 DEF Approve, Push, Verify, CreatePullRequest, work
<1> QED
  BY <1>1, <1>2, <1>3, <1>4, <1>5, <1>6 DEF StepOf, Steps, Thread

LEMMA WorkFrame ==
    ASSUME WorkType, NEW a \in Attempt, StepOf(a), NEW u \in Task \ {TaskOf[a]}
    PROVE  /\ branch'[u] = branch[u] /\ commits'[u] = commits[u]
           /\ u \in setback' <=> u \in setback
<1> USE DEF WorkType
<1>1. CASE UNCHANGED <<branch, commits, setback>>
  BY <1>1
<1>2. CASE Add(a) \/ OrphanEnds(a)
  <2>1. branch'[u] = branch[u]
    BY <1>2 DEF Add, OrphanEnds, AddsWorktree, FailsToAdd
  <2> QED  BY <1>2, <2>1 DEF Add, OrphanEnds
<1>3. ASSUME NEW rest \in BOOLEAN, Commits(a, rest)
      PROVE  /\ branch'[u] = branch[u] /\ commits'[u] = commits[u]
             /\ u \in setback' <=> u \in setback
  BY <1>3 DEF Commits
<1> QED
  BY <1>1, <1>2, <1>3
     DEF StepOf, Steps, Thread, work, Start, TakeLock, Ready, Cleanup, Remove,
         Edit, Checkpoint, StepsFail, StepsEnd, TakesTooLong, Finalize, Approve,
         Push, Verify, CreatePullRequest, Timeout

LEMMA ReportFrame ==
    ASSUME StatusType, NEW a \in Attempt, StepOf(a), NEW u \in Task \ {TaskOf[a]}
    PROVE  status'[u] = status[u] /\ report'[u] = report[u]
<1> USE DEF StatusType, Becomes, Ends
<1>1. CASE Start(a) \/ TakeLock(a) \/ Add(a) \/ Timeout(a) \/ Ready(a)
  BY <1>1 DEF Start, TakeLock, Add, Timeout, Ready, publication
<1>2. CASE OrphanEnds(a) \/ Cleanup(a) \/ Remove(a)
  BY <1>2 DEF OrphanEnds, Cleanup, Remove, publication
<1>3. CASE Steps(a)
  BY <1>3 DEF Steps, Edit, Checkpoint, StepsFail, StepsEnd, TakesTooLong, publication
<1>4. CASE Finalize(a) \/ Approve(a)
  BY <1>4 DEF Finalize, Approve
<1>5. CASE Push(a) \/ Verify(a) \/ CreatePullRequest(a)
  BY <1>5 DEF Push, Verify, CreatePullRequest
<1> QED
  BY <1>1, <1>2, <1>3, <1>4, <1>5 DEF StepOf, Thread

LEMMA RemoteFrame ==
    ASSUME RemoteType, NEW a \in Attempt, StepOf(a), NEW u \in Task \ {TaskOf[a]}
    PROVE  /\ remote'[u] = remote[u]
           /\ u \in pulls' <=> u \in pulls
           /\ u \in assumed' <=> u \in assumed
<1> USE DEF RemoteType
<1>1. CASE UNCHANGED <<remote, pulls, assumed>>
  BY <1>1
<1>2. CASE Push(a) \/ Verify(a) \/ CreatePullRequest(a)
  BY <1>2 DEF Push, Verify, CreatePullRequest
<1> QED
  BY <1>1, <1>2
     DEF StepOf, Steps, Thread, publication, Start, TakeLock, Add, Ready,
         Cleanup, Remove, Edit, Checkpoint, StepsFail, StepsEnd, TakesTooLong,
         Finalize, Approve, Timeout, OrphanEnds

-----------------------------------------------------------------------------
(* What a step does to the branch of its own task                          *)

LEMMA CommitsMoves ==
    ASSUME WorkType, NEW a \in Attempt, NEW t \in Task, t = TaskOf[a],
           NEW rest \in BOOLEAN, Commits(a, rest)
    PROVE  /\ branch'[t] = commits'[t] /\ branch'[t] \in Nat
           /\ checkpoint'[a] /\ t \notin setback'
<1>1. commits[t] + 1 \in Nat
  BY DEF WorkType
<1> QED
  BY <1>1 DEF WorkType, Commits

LEMMA AddMoves ==
    ASSUME WorkType, NEW a \in Attempt, NEW t \in Task, t = TaskOf[a], Add(a)
    PROVE  \/ Goto(a, "ready") /\ branch'[t] = 0
           \/ /\ Goto(a, "over") /\ Becomes(t, "failed")
              /\ branch'[t] \in {branch[t], 0} /\ UNCHANGED setback
  BY DEF WorkType, Add, AddsWorktree, FailsToAdd

LEMMA OrphanMoves ==
    ASSUME WorkType, NEW a \in Attempt, NEW t \in Task, t = TaskOf[a], OrphanEnds(a)
    PROVE  UNCHANGED <<branch, setback>> \/ (t \in setback' /\ branch'[t] = 0)
  BY DEF WorkType, OrphanEnds, AddsWorktree, FailsToAdd

-----------------------------------------------------------------------------
(* The worktrees                                                           *)

LEMMA TreeStep ==
    ASSUME ThreadType, TreeType, TreeInv, [Next]_vars
    PROVE  TreeInv'
<1>1. CASE UNCHANGED <<pc, tree>>
  BY <1>1 DEF TreeInv, tree
<1>2. ASSUME NEW a \in Attempt, NEW l \in Filled, pc[a] \in Working, Goto(a, l),
             UNCHANGED tree
      PROVE  TreeInv'
  <2>1. \A b \in Attempt : pc'[b] = pc[b] \/ (b = a /\ pc'[b] = l)
    BY <1>2 DEF ThreadType, Goto
  <2>2. /\ pc[a] \in Filled /\ Filled \subseteq Owning
        /\ Filled \cap {"relock", "add", "remove"} = {}
    BY <1>2 DEF Owning, Filled, Working, Publishing
  <2>3. \A b \in Attempt : /\ pc'[b] \in Filled <=> pc[b] \in Filled
                           /\ pc'[b] \in Owning <=> pc[b] \in Owning
                           /\ pc'[b] \in {"relock", "add", "remove"} => pc'[b] = pc[b]
    BY <2>1, <2>2
  <2>4. \A b \in Attempt : pc'[b] \in Owning \cup {"add"} => pc[b] \in Owning \cup {"add"}
    BY <2>1, <2>2
  <2> QED  BY <1>2, <2>3, <2>4 DEF TreeInv, tree
<1>3. Working \cup {"cleanup"} \subseteq Filled
  BY DEF Filled
<1>4. ASSUME NEW a \in Attempt, StepsFail(a) \/ StepsEnd(a) \/ TakesTooLong(a)
       PROVE  TreeInv'
  BY <1>2, <1>3, <1>4 DEF StepsFail, StepsEnd, TakesTooLong, Working, Publishing
<1>5. ASSUME NEW a \in Attempt, Finalize(a) \/ Approve(a) PROVE TreeInv'
  BY <1>2, <1>3, <1>5 DEF Finalize, Approve, Ends, Working, Publishing
<1>6. ASSUME NEW a \in Attempt, Push(a) \/ Verify(a) \/ CreatePullRequest(a)
       PROVE  TreeInv'
  BY <1>1, <1>2, <1>3, <1>6
     DEF Push, Verify, CreatePullRequest, Ends, Working, Publishing
<1> USE GitAssumption DEF TreeInv, ThreadType, TreeType, Owning, Filled, Working,
                          Publishing, Goto
<1>7. ASSUME NEW a \in Attempt, Start(a) PROVE TreeInv'
  BY <1>7 DEF Start, tree
<1>8. ASSUME NEW a \in Attempt, TakeLock(a) PROVE TreeInv'
  BY <1>8 DEF TakeLock
<1>9. ASSUME NEW a \in Attempt, Add(a) PROVE TreeInv'
  BY <1>9 DEF Add, AddsWorktree, FailsToAdd
<1>10. ASSUME NEW a \in Attempt, Timeout(a) PROVE TreeInv'
  BY <1>10 DEF Timeout, Creating
<1>11. ASSUME NEW a \in Attempt, OrphanEnds(a) PROVE TreeInv'
  BY <1>11 DEF OrphanEnds, AddsWorktree, FailsToAdd
<1>12. ASSUME NEW a \in Attempt, Ready(a) PROVE TreeInv'
  BY <1>12 DEF Ready
<1>13. ASSUME NEW a \in Attempt, Cleanup(a) PROVE TreeInv'
  BY <1>13 DEF Cleanup
<1>14. ASSUME NEW a \in Attempt, Remove(a) PROVE TreeInv'
  BY <1>14 DEF Remove
<1> HIDE DEF TreeInv, ThreadType, TreeType, Owning, Filled, Working, Publishing, Goto
<1> QED
  BY <1>1, <1>4, <1>5, <1>6, <1>7, <1>8, <1>9, <1>10, <1>11, <1>12, <1>13, <1>14
     DEF Next, vars, tree, Thread, Steps, Edit, Checkpoint, Cancel, PublishLater

-----------------------------------------------------------------------------
(* The attempts                                                            *)

LEMMA WorksOwnStep ==
    ASSUME ThreadType, StatusType, WorkType, RemoteType, TreeInv,
           NEW a \in Attempt, NEW t, t = TaskOf[a], Works(a), StepOf(a)
    PROVE  Works(a)'
<1>1. t \in Task /\ \A n \in Nat : n # NoBranch
  BY GitAssumption
<1>2. CASE Start(a)
  <2>1. pc[a] = "idle" /\ pc'[a] \in {"lock", "over"} /\ UNCHANGED checkpoint
    BY <1>2 DEF Start, work, ThreadType, Goto
  <2> QED
    BY <2>1 DEF Works, Owning, Filled, Working, Publishing
<1>3. CASE TakeLock(a)
  <2>1. pc[a] = "lock" \/ pc[a] = "unlock"
    BY <1>3, GitAssumption DEF TakeLock, TreeInv
  <2>2. \/ pc[a] = "lock" /\ pc'[a] \in {"relock", "add"}
        \/ pc[a] = "unlock" /\ pc'[a] = "remove"
    BY <1>3, <2>1 DEF TakeLock, ThreadType, Goto
  <2>3. UNCHANGED <<status, branch, commits, checkpoint, setback, remote, assumed>>
    BY <1>3 DEF TakeLock, work, publication
  <2> QED
    BY <2>2, <2>3 DEF Works, Owning, Filled, Working, Publishing
<1>4. Add(a) =>
        \/ Goto(a, "ready") /\ branch'[t] = 0
        \/ /\ Goto(a, "over") /\ Becomes(t, "failed")
           /\ branch'[t] \in {branch[t], 0} /\ UNCHANGED setback
  BY <1>1, AddMoves
<1>5. OrphanEnds(a) => UNCHANGED <<branch, setback>> \/ (t \in setback' /\ branch'[t] = 0)
  BY <1>1, OrphanMoves
<1>6. ASSUME NEW rest \in BOOLEAN, Commits(a, rest)
     PROVE  /\ branch'[t] = commits'[t] /\ branch'[t] \in Nat
            /\ checkpoint'[a] /\ t \notin setback'
  BY <1>1, <1>6, CommitsMoves
<1> USE <1>1 DEF ThreadType, StatusType, WorkType, RemoteType, Works, Owning,
        Filled, Working, Publishing, Goto, Becomes
<1>7. CASE Add(a)
  <2>1. pc[a] = "add" /\ UNCHANGED <<checkpoint, commits, remote, assumed>>
    BY <1>7 DEF Add, publication
  <2>2. (pc'[a] = "ready" /\ branch'[t] = 0) \/ pc'[a] = "over"
    BY <1>4, <1>7
  <2>3. ~checkpoint[a] /\ ~checkpoint'[a]
    BY <2>1
  <2> QED  BY <2>2, <2>3
<1>8. CASE Timeout(a)
  BY <1>8 DEF Timeout, Creating, work, publication
<1>9. CASE OrphanEnds(a)
  <2>1. UNCHANGED <<pc, status, checkpoint, commits, remote, assumed>>
    BY <1>9 DEF OrphanEnds, publication
  <2> QED  BY <1>5, <1>9, <2>1
<1>10. CASE Ready(a)
  BY <1>10 DEF Ready, work, publication
<1>11. CASE Cleanup(a) \/ Remove(a)
  BY <1>11 DEF Cleanup, Remove, publication
<1>12. CASE Edit(a)
  BY <1>12 DEF Edit, publication
<1>13. CASE Checkpoint(a)
  BY <1>6, <1>13 DEF Checkpoint, publication
<1>14. CASE StepsFail(a) \/ StepsEnd(a) \/ TakesTooLong(a)
  BY <1>14 DEF StepsFail, StepsEnd, TakesTooLong, work, publication
<1>15. CASE Finalize(a)
  BY <1>6, <1>15 DEF Finalize, Ends, work
<1>16. CASE Approve(a)
  BY <1>16 DEF Approve, Ends, work
<1>17. CASE Push(a)
  BY <1>17 DEF Push, work
<1>18. CASE Verify(a)
  BY <1>18 DEF Verify, Ends, work
<1>19. CASE CreatePullRequest(a)
  BY <1>19 DEF CreatePullRequest, Ends, work
<1> QED
  BY <1>2, <1>3, <1>7, <1>8, <1>9, <1>10, <1>11, <1>12, <1>13, <1>14, <1>15, <1>16,
     <1>17, <1>18, <1>19 DEF StepOf, Steps, Thread

\* While one attempt owns the worktree, others at the task are only triggered, wait
\* for the lock, or end the git command they have left.
LEMMA WorksOtherStep ==
    ASSUME TypeInv, TreeInv, NEW a \in Attempt, StepOf(a),
           NEW b \in Attempt \ {a}, Works(b)
    PROVE  Works(b)'
<1> DEFINE t == TaskOf[b]
<1>1. t \in Task /\ TaskOf[a] \in Task /\ NoBranch \notin Nat
  BY GitAssumption
<1>2. pc'[b] = pc[b] /\ checkpoint'[b] = checkpoint[b]
  BY ThreadFrame DEF TypeInv
<1>3. CASE TaskOf[a] # t
  BY <1>1, <1>2, <1>3, WorkFrame, ReportFrame, RemoteFrame DEF TypeInv, Works
<1>4. CASE pc[b] \notin Owning
  BY <1>2, <1>4 DEF Works, Owning, Filled, Working, Publishing
<1>5. CASE TaskOf[a] = t /\ pc[b] \in Owning
  <2>1. pc[a] \in {"idle", "over", "lock", "relock"}
    BY <1>5, GitAssumption
       DEF TreeInv, TypeInv, ThreadType, Label, Owning, Filled, Working, Publishing
  <2>2. Start(a) \/ TakeLock(a) \/ Timeout(a) \/ OrphanEnds(a)
    BY <2>1
       DEF StepOf, Steps, Thread, Add, Ready, Cleanup, Remove, Edit, Checkpoint,
           StepsFail, StepsEnd, TakesTooLong, Finalize, Approve, Push, Verify,
           CreatePullRequest
  <2>3. /\ UNCHANGED <<commits, remote, assumed>>
        /\ status' = status \/ status'[t] # "completed"
    BY <1>1, <1>5, <2>2
       DEF Start, TakeLock, Timeout, OrphanEnds, work, publication, TypeInv,
           StatusType, Becomes
  <2>4. UNCHANGED <<branch, setback>> \/ (t \in setback' /\ branch'[t] = 0)
    BY <1>1, <1>5, <2>2
       DEF Start, TakeLock, Timeout, OrphanEnds, AddsWorktree, FailsToAdd, work,
           TypeInv, WorkType
  <2> QED
    BY <1>1, <1>2, <2>3, <2>4 DEF Works
<1> QED  BY <1>3, <1>4, <1>5

LEMMA WorksStep ==
    ASSUME TypeInv, TreeInv, NEW b \in Attempt, Works(b), [Next]_vars
    PROVE  Works(b)'
<1> USE GitAssumption
<1>1. CASE UNCHANGED vars
  BY <1>1 DEF vars, Works
<1>2. ASSUME NEW a \in Attempt, StepOf(a) PROVE Works(b)'
  BY <1>2, WorksOwnStep, WorksOtherStep DEF TypeInv
<1>3. ASSUME NEW t \in Task, Cancel(t) PROVE Works(b)'
  BY <1>3 DEF Cancel, work, publication, Works, TypeInv, StatusType, Becomes
<1>4. ASSUME NEW t \in Task, PublishLater(t) PROVE Works(b)'
  <2>1. /\ UNCHANGED <<pc, status, checkpoint, commits, branch, setback, assumed>>
        /\ remote' \in {remote, [remote EXCEPT ![t] = branch[t]]}
    BY <1>4 DEF PublishLater, work
  <2>2. remote'[TaskOf[b]] \in {remote[TaskOf[b]], branch[TaskOf[b]]}
    BY <2>1 DEF TypeInv, RemoteType
  <2> QED
    BY <2>1, <2>2 DEF Works, Owning, Filled, Working, Publishing
<1> QED
  BY <1>1, <1>2, <1>3, <1>4 DEF Next, StepOf

-----------------------------------------------------------------------------
(* The tasks                                                               *)

\* A step of one attempt, for its own task.
LEMMA StaysOwnStep ==
    ASSUME TypeInv, NEW a \in Attempt, Works(a), NEW t, t = TaskOf[a], Stays(t), StepOf(a)
    PROVE  Stays(t)'
<1>1. t \in Task /\ 0 # NoBranch /\ \A n \in Nat : n # NoBranch
  BY GitAssumption
<1>2. /\ pc[a] # "ready" /\ NoneReady(t)' => NoneReady(t)
      /\ pc'[a] = "ready" => ~NoneReady(t)'
  BY ThreadFrame DEF TypeInv, NoneReady
<1>3. CASE Ready(a)
  BY <1>1, <1>3 DEF Ready, Becomes, Stays, TypeInv, StatusType, work, publication
<1>4. pc[a] \in Working =>
         /\ status[t] # "completed" /\ branch[t] # NoBranch
         /\ pc[a] \in Publishing /\ t \notin setback => branch[t] = commits[t]
         /\ pc[a] = "pull" => remote[t] # NoBranch
         /\ pc[a] = "pull" /\ t \notin assumed \cup setback => remote[t] = commits[t]
  BY DEF Works, Owning, Filled
<1>5. Add(a) =>
        \/ Goto(a, "ready") /\ branch'[t] = 0
        \/ /\ Goto(a, "over") /\ Becomes(t, "failed")
           /\ branch'[t] \in {branch[t], 0} /\ UNCHANGED setback
  BY <1>1, AddMoves DEF TypeInv
<1>6. OrphanEnds(a) => UNCHANGED <<branch, setback>> \/ (t \in setback' /\ branch'[t] = 0)
  BY <1>1, OrphanMoves DEF TypeInv
<1>7. ASSUME NEW rest \in BOOLEAN, Commits(a, rest)
     PROVE  /\ branch'[t] = commits'[t] /\ branch'[t] \in Nat
            /\ checkpoint'[a] /\ t \notin setback'
  BY <1>1, <1>7, CommitsMoves DEF TypeInv
<1> USE <1>1, <1>2, <1>4
    DEF Stays, Working, Publishing, TypeInv, ThreadType, StatusType, WorkType,
        RemoteType, Goto, Becomes
<1>8. CASE Start(a) \/ Timeout(a)
  BY <1>8 DEF Start, Timeout, Creating, work, publication
<1>9. CASE TakeLock(a)
  BY <1>9 DEF TakeLock, work, publication
<1>10. CASE Add(a)
  <2>1. UNCHANGED <<remote, pulls, report>>
    BY <1>10 DEF Add, publication
  <2>2. CASE Goto(a, "ready") /\ branch'[t] = 0
    <3>1. pc'[a] = "ready"
      BY <2>2 DEF Label
    <3>2. branch'[t] # NoBranch
      BY <2>2
    <3> QED  BY <2>1, <3>1, <3>2
  <2>3. CASE Becomes(t, "failed") /\ branch'[t] \in {branch[t], 0}
    <3>1. status'[t] # "completed" /\ (branch[t] # NoBranch => branch'[t] # NoBranch)
      BY <2>3
    <3> QED  BY <2>1, <3>1
  <2> QED  BY <1>5, <1>10, <2>2, <2>3
<1>11. CASE OrphanEnds(a)
  <2>1. UNCHANGED <<pc, status, commits, remote, assumed, pulls, report>>
    BY <1>11 DEF OrphanEnds, publication
  <2>2. NoneReady(t)' <=> NoneReady(t)
    BY <2>1 DEF NoneReady
  <2> QED  BY <1>6, <1>11, <2>1, <2>2
<1>12. CASE Cleanup(a) \/ Remove(a)
  BY <1>12 DEF Cleanup, Remove, publication
<1>13. CASE Edit(a) \/ StepsFail(a) \/ StepsEnd(a) \/ TakesTooLong(a)
  BY <1>13 DEF Edit, StepsFail, StepsEnd, TakesTooLong, work, publication
<1>14. CASE Checkpoint(a)
  BY <1>7, <1>14 DEF Checkpoint, publication
<1>15. CASE Finalize(a)
  BY <1>7, <1>15 DEF Finalize, Ends, work
<1>16. CASE Approve(a)
  BY <1>16 DEF Approve, Ends, work
<1>17. CASE Push(a)
  BY <1>17 DEF Push, work
<1>18. CASE Verify(a)
  BY <1>18 DEF Verify, Ends, work
<1>19. CASE CreatePullRequest(a)
  BY <1>19 DEF CreatePullRequest, Ends, work
<1> QED
  BY <1>3, <1>8, <1>9, <1>10, <1>11, <1>12, <1>13, <1>14, <1>15, <1>16, <1>17, <1>18,
     <1>19 DEF StepOf, Steps, Thread

LEMMA StaysStep ==
    ASSUME TypeInv, \A a \in Attempt : Works(a), NEW t \in Task, Stays(t), [Next]_vars
    PROVE  Stays(t)'
<1> USE GitAssumption
<1>1. CASE UNCHANGED vars
  BY <1>1 DEF vars, Stays, NoneReady
<1>2. ASSUME NEW a \in Attempt, StepOf(a) PROVE Stays(t)'
  <2>1. CASE TaskOf[a] = t
    BY <1>2, <2>1, StaysOwnStep
  <2>2. CASE TaskOf[a] # t
    <3>1. NoneReady(t)' => NoneReady(t)
      BY <1>2, <2>2, ThreadFrame DEF TypeInv, NoneReady
    <3> QED
      BY <1>2, <2>2, <3>1, WorkFrame, ReportFrame, RemoteFrame DEF TypeInv, Stays
  <2> QED  BY <2>1, <2>2
<1>3. ASSUME NEW u \in Task, Cancel(u) PROVE Stays(t)'
  BY <1>3 DEF Cancel, work, publication, Stays, NoneReady, TypeInv, StatusType, Becomes
<1>4. ASSUME NEW u \in Task, PublishLater(u) PROVE Stays(t)'
  <2>1. /\ UNCHANGED <<pc, status, branch, commits, setback, assumed, report>>
        /\ remote' \in {remote, [remote EXCEPT ![u] = branch[u]]}
        /\ report[u] = "deferred"
        /\ pulls' = pulls \/ (remote'[u] # NoBranch /\ pulls' = pulls \cup {u})
    BY <1>4 DEF PublishLater, work
  <2>2. \/ remote'[t] = remote[t]
        \/ remote'[t] = branch[t] /\ report[t] = "deferred"
    BY <2>1 DEF TypeInv, RemoteType
  <2>3. NoneReady(t)' = NoneReady(t)
    BY <2>1 DEF NoneReady
  <2> QED
    BY <2>1, <2>2, <2>3 DEF Stays
<1> QED
  BY <1>1, <1>2, <1>3, <1>4 DEF Next, StepOf

LEMMA InvCorrect == Spec => []Inv
<1>1. Init => TypeInv
  BY GitAssumption
     DEF Init, TypeInv, ThreadType, StatusType, TreeType, WorkType, RemoteType,
         Label, Status
<1>2. Init => TreeInv
  BY DEF Init, TreeInv, Owning, Filled, Working, Publishing
<1>3. Init => \A a \in Attempt : Works(a)
  BY DEF Init, Works, Owning, Filled, Working, Publishing
<1>4. Init => \A t \in Task : Stays(t)
  BY DEF Init, Stays
<1>5. Inv /\ [Next]_vars => Inv'
  <2> SUFFICES ASSUME Inv, [Next]_vars PROVE Inv'
    OBVIOUS
  <2>1. TypeInv'
    BY ThreadTypeStep, StatusTypeStep, TreeTypeStep, WorkTypeStep, RemoteTypeStep
       DEF Inv, TypeInv
  <2>2. TreeInv'
    BY TreeStep DEF Inv, TypeInv
  <2>3. (\A a \in Attempt : Works(a))'
    BY WorksStep DEF Inv
  <2>4. (\A t \in Task : Stays(t))'
    BY StaysStep DEF Inv
  <2> QED  BY <2>1, <2>2, <2>3, <2>4 DEF Inv
<1> QED  BY <1>1, <1>2, <1>3, <1>4, <1>5, PTL DEF Spec, Inv

-----------------------------------------------------------------------------
(* The theorems.                                                           *)

\* Every variable stays within its type; in particular no push is tried more
\* often than MaxPushes times.
THEOREM GitTypeCorrect == Spec => []TypeOK
<1>1. Inv => TypeOK
  BY DEF Inv, TypeInv, TypeOK, ThreadType, StatusType, TreeType, WorkType,
     RemoteType
<1> QED  BY <1>1, InvCorrect, PTL

\* However the attempts at a task overlap, those that fail, are deferred, panic,
\* time out or are canceled leave no worktree behind that git has made in time
\* and can remove.
THEOREM WorktreesCorrect == Spec => []WorktreesAreRemoved
<1>1. Inv => WorktreesAreRemoved
  BY DEF Inv, TreeInv, WorktreesAreRemoved, Rests, Owning, Filled, Working,
     Publishing
<1> QED  BY <1>1, InvCorrect, PTL

\* The branch of a completed task is at the last commit any attempt has made for
\* it, unless a git command left alone has moved it since.
THEOREM BranchCorrect == Spec => []CompletedBranchIsTheWork
<1>1. Inv => CompletedBranchIsTheWork
  BY DEF Inv, Stays, NoneReady, CompletedBranchIsTheWork, Rests
<1> QED  BY <1>1, InvCorrect, PTL

\* A pull request has a branch; that of a task completed as published proposes
\* its last commit, unless the branch found on the remote was taken for it or a
\* git command left alone has moved the branch.
THEOREM PublicationCorrect == Spec => []PublishedBranchIsTheWork
<1>1. Inv => PublishedBranchIsTheWork
  BY DEF Inv, Stays, NoneReady, PublishedBranchIsTheWork, Rests
<1> QED  BY <1>1, InvCorrect, PTL

=============================================================================
