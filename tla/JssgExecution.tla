---------------------------- MODULE JssgExecution ----------------------------
(***************************************************************************)
(* core/src/jssg_execution_service.rs, execute_runtime: one js-ast-grep    *)
(* step.  Threads walk the target, run the step's script on each file they *)
(* come to and write what it changed; the walk may come to a file that the *)
(* step itself has written.  A watchdog ends the executions when nothing   *)
(* makes progress, a cancel stops the taking of files, and the outcome is  *)
(* decided when every thread is done.                                      *)
(*                                                                         *)
(* A script is asynchronous: outside a call of the shared state it may be  *)
(* waiting for something that never comes, and can be aborted there.       *)
(***************************************************************************)
EXTENDS SharedState, Naturals, Sequences, FiniteSets

CONSTANTS
    File,       \* the files that are in the target at first, by path
    NewPath,    \* the other paths of the target
    Change,     \* what the script does on a file: a sequence of [from, to]
    NoFile, Missing, Torn

Path == File \cup NewPath

ASSUME ChangeAssumption == Change \in [Path -> Seq([from : Path, to : Path])]
\* A file's text: whose text it was, and the executions whose edit it has.
Text == [of : File, edits : SUBSET Path]

ASSUME PathAssumption == NoFile \notin Path /\ Missing # Torn /\ {Missing, Torn} \cap Text = {}

VARIABLES
    phase,      \* of execute_runtime
    outcome,    \* what it returned
    taken,      \* the paths the walk has come to
    pc, file,   \* of each thread, and the file it has taken
    content,    \* the text of that file, as read
    result,     \* how the execution ended
    writes,     \* the changes the thread has still to apply
    wakers,     \* the threads registered with idle_notify
    signaled,   \* ... and notified
    idle,       \* idle_timed_out
    watchdog,   \* the watchdog task
    attempted, failed, succeeded,                       \* numbers of files
    runtimeMsg, execMsg,                                \* a message is kept
    deletions,  \* deferred_deletions
    disk,       \* the target
    skipped,    \* history: files no script was run on
    late,       \* history: files that were executing when the step was canceled
    applied,    \* history: the changes that were written, with their author
    damaged     \* history: files whose text an unfinished write replaces

batchVars == <<phase, outcome, taken, pc, file, content, result, writes, wakers,
               signaled, idle, watchdog, attempted, failed, succeeded,
               runtimeMsg, execMsg, deletions, disk, skipped, late, applied,
               damaged>>
vars == <<sharedVars, batchVars>>

\* What one thread does to its file, without the counts and the watchdog.
progress == <<phase, outcome, taken, idle, watchdog, deletions, disk, skipped,
              late, applied, damaged>>
counts == <<attempted, failed, succeeded, runtimeMsg, execMsg>>

\* A change with the text it writes.
Written == [from : Path, to : Path, text : Text \cup {Torn}]

Result == {"none", "changes", "unmodified", "error", "hook", "init", "aborted"}
Outcome == {"none", "ok", "idle", "hook", "failed", "canceled", "unsaved"}
Count == 0 .. Cardinality(Path)

TypeOK ==
    /\ SharedTypeOK
    /\ phase \in {"starting", "running", "stopping", "deciding", "deleting", "saving", "ended"}
    /\ outcome \in Outcome
    /\ taken \subseteq Path
    /\ pc \in [Thread -> {"free", "load", "enable", "check", "execute", "settle",
                           "apply", "write"}]
    /\ file \in [Thread -> Path \cup {NoFile}]
    /\ content \in [Thread -> Text \cup {Missing, Torn}]
    /\ result \in [Thread -> Result]
    /\ writes \in [Thread -> Seq(Written)]
    /\ wakers \subseteq Thread /\ signaled \subseteq Thread
    /\ idle \in BOOLEAN
    /\ watchdog \in {"armed", "notify", "fired", "off"}
    /\ attempted \in Count /\ failed \in Count /\ succeeded \in Count
    /\ runtimeMsg \in BOOLEAN /\ execMsg \in BOOLEAN
    /\ deletions \subseteq Path
    /\ disk \in [Path -> Text \cup {Missing, Torn}]
    /\ skipped \subseteq Path /\ late \subseteq Path
    /\ applied \subseteq [by : Path, to : Path, text : Text \cup {Torn}]
    /\ damaged \subseteq File

Init ==
    /\ SharedInit
    /\ phase = "starting"
    /\ outcome = "none"
    /\ taken = {}
    /\ pc = [w \in Thread |-> "free"]
    /\ file = [w \in Thread |-> NoFile]
    /\ content = [w \in Thread |-> Missing]
    /\ result = [w \in Thread |-> "none"]
    /\ writes = [w \in Thread |-> <<>>]
    /\ wakers = {} /\ signaled = {}
    /\ idle = FALSE
    /\ watchdog = "armed"
    /\ attempted = 0 /\ failed = 0 /\ succeeded = 0
    /\ runtimeMsg = FALSE /\ execMsg = FALSE
    /\ deletions = {}
    /\ disk = [p \in Path |-> IF p \in File THEN [of |-> p, edits |-> {}] ELSE Missing]
    /\ skipped = {} /\ late = {} /\ applied = {} /\ damaged = {}

-----------------------------------------------------------------------------
(* The step                                                                *)

\* The watchdog runs; the cancel signal is registered, and the walk begins.
Register ==
    /\ phase = "starting"
    /\ phase' = "running"
    /\ UNCHANGED <<sharedVars, outcome, taken, pc, file, content, result, writes,
                   wakers, signaled, idle, watchdog, counts, deletions, disk,
                   skipped, late, applied, damaged>>

Executing == {w \in Thread : pc[w] \in {"enable", "check", "execute"}}

\* cancel_workflow flips the signal of a step that is registered; a cancel
\* that comes earlier is lost on the step.
UserCancel ==
    /\ phase = "running"
    /\ ~canceled
    /\ Cancel
    /\ late' = {file[w] : w \in Executing}
    /\ UNCHANGED <<phase, outcome, taken, pc, file, content, result, writes,
                   wakers, signaled, idle, watchdog, counts, deletions, disk,
                   skipped, applied, damaged>>

\* The idle timeout expires: the flag and the message ...
Expire ==
    /\ phase \in {"starting", "running"}
    /\ watchdog = "armed"
    /\ idle' = TRUE
    /\ watchdog' = "notify"
    /\ UNCHANGED <<sharedVars, phase, outcome, taken, pc, file, content, result,
                   writes, wakers, signaled, counts, deletions, disk, skipped,
                   late, applied, damaged>>

\* ... and then the executions that are registered are woken.
NotifyWaiters ==
    /\ watchdog = "notify"
    /\ signaled' = signaled \cup wakers
    /\ watchdog' = "fired"
    /\ UNCHANGED <<sharedVars, phase, outcome, taken, pc, file, content, result,
                   writes, wakers, idle, counts, deletions, disk, skipped,
                   late, applied, damaged>>

-----------------------------------------------------------------------------
(* A thread and its file                                                   *)

\* The walk is live: it comes to every file that was there, and it may come to
\* one the step has written since, never to a path twice.  The file is not run
\* when the step is canceled or timed out, nor when it is no longer there.
TakeFile(w) ==
    /\ phase = "running"
    /\ pc[w] = "free"
    /\ \E f \in Path \ taken :
          /\ f \in File \/ disk[f] # Missing
          /\ taken' = taken \cup {f}
          /\ IF canceled \/ idle \/ disk[f] = Missing
             THEN /\ skipped' = skipped \cup {f}
                  /\ UNCHANGED <<pc, file, attempted>>
             ELSE /\ pc' = [pc EXCEPT ![w] = "load"]
                  /\ file' = [file EXCEPT ![w] = f]
                  /\ attempted' = attempted + 1
                  /\ UNCHANGED skipped
    /\ UNCHANGED <<sharedVars, phase, outcome, content, result, writes, wakers,
                   signaled, idle, watchdog, failed, succeeded, runtimeMsg,
                   execMsg, deletions, disk, late, applied, damaged>>

\* A thread is done with its file.
Free(w) ==
    /\ pc' = [pc EXCEPT ![w] = "free"]
    /\ file' = [file EXCEPT ![w] = NoFile]

\* The file is read, as it is at that moment, or cannot be.
LoadFile(w) ==
    /\ pc[w] = "load"
    /\ \/ /\ disk[file[w]] # Missing
          /\ content' = [content EXCEPT ![w] = disk[file[w]]]
          /\ pc' = [pc EXCEPT ![w] = "enable"]
          /\ UNCHANGED <<failed, execMsg, file>>
       \/ /\ failed' = failed + 1
          /\ execMsg' = TRUE
          /\ Free(w)
          /\ UNCHANGED content
    /\ UNCHANGED <<sharedVars, progress, result, writes, wakers, signaled,
                   attempted, succeeded, runtimeMsg>>

\* await_js_ast_grep_execution_task: the waker is registered, then the flag is
\* looked at; the script starts when the thread waits for either.
Enable(w) ==
    /\ pc[w] = "enable"
    /\ wakers' = wakers \cup {w}
    /\ pc' = [pc EXCEPT ![w] = "check"]
    /\ UNCHANGED <<sharedVars, progress, counts, file, content, result, writes, signaled>>

Ends(w, r) ==
    /\ result' = [result EXCEPT ![w] = r]
    /\ wakers' = wakers \ {w}
    /\ signaled' = signaled \ {w}
    /\ content' = [content EXCEPT ![w] = Missing]
    /\ pc' = [pc EXCEPT ![w] = "settle"]

\* Mutant: the flag is not looked at once the waker is registered.
CheckNothing(w) ==
    /\ pc[w] = "check"
    /\ pc' = [pc EXCEPT ![w] = "execute"]
    /\ UNCHANGED <<sharedVars, progress, counts, file, content, result, writes,
                   wakers, signaled>>

CheckFlag(w) ==
    /\ pc[w] = "check"
    /\ IF idle
       THEN Ends(w, "aborted")
       ELSE /\ pc' = [pc EXCEPT ![w] = "execute"]
            /\ UNCHANGED <<content, result, wakers, signaled>>
    /\ UNCHANGED <<sharedVars, progress, counts, file, writes>>

\* The script uses the shared state.
UseState(w) ==
    /\ pc[w] = "execute"
    /\ Script(w) \/ Return(w)
    /\ UNCHANGED batchVars

\* The text a change starts from: the script has its own file's, and reads the
\* others'.
Before(w, c) == IF c.from = file[w] THEN content[w] ELSE disk[c.from]

\* What is made of the text of a half-written file is no file's text.
Edited(w, c) ==
    [from |-> c.from, to |-> c.to,
     text |-> IF Before(w, c) = Torn THEN Torn
              ELSE [of |-> Before(w, c).of, edits |-> Before(w, c).edits \cup {file[w]}]]

NewTexts(w) == [i \in DOMAIN Change[file[w]] |-> Edited(w, Change[file[w]][i])]

\* The script ends: with changes, if it could read all it changes, without, or
\* with an error.
EndExecution(w) ==
    /\ pc[w] = "execute"
    /\ DropGuards(w)
    /\ \/ /\ \A i \in DOMAIN Change[file[w]] : Before(w, Change[file[w]][i]) # Missing
          /\ Ends(w, "changes")
          /\ writes' = [writes EXCEPT ![w] = NewTexts(w)]
       \/ /\ \E r \in Result \ {"none", "aborted", "changes"} : Ends(w, r)
          /\ writes' = [writes EXCEPT ![w] = <<>>]
    /\ UNCHANGED <<progress, counts, file>>

\* The watchdog's signal wins: the execution is aborted where it waits.
Abort(w) ==
    /\ pc[w] = "execute"
    /\ w \in signaled
    /\ DropGuards(w)
    /\ Ends(w, "aborted")
    /\ UNCHANGED <<progress, counts, file, writes>>

\* The thread applies the changes of its execution, if there are any.
GoOn(w) ==
    IF writes[w] = <<>> THEN Free(w)
    ELSE pc' = [pc EXCEPT ![w] = "apply"] /\ UNCHANGED file

Counted(w) ==
    LET r  == result[w]
        ok == r \in {"changes", "unmodified"}
    IN  /\ succeeded' = IF ok THEN succeeded + 1 ELSE succeeded
        /\ failed' = IF ok THEN failed ELSE failed + 1
        /\ execMsg' = (execMsg \/ ~ok)
        /\ runtimeMsg' = (runtimeMsg \/ r = "hook")
        /\ canceled' = (canceled \/ r \in {"hook", "init"})

Settles(w) ==
    /\ result' = [result EXCEPT ![w] = "none"]
    /\ late' = IF canceled' /\ ~canceled THEN {file[v] : v \in Executing} ELSE late
    /\ UNCHANGED <<data, removals, holder, guard, call, seen, stored, phase,
                   outcome, taken, content, wakers, signaled, idle, watchdog,
                   attempted, deletions, disk, skipped, applied, damaged>>

\* Mutant: the changes of a canceled execution are written.
SettleAnyway(w) ==
    /\ pc[w] = "settle"
    /\ Counted(w) /\ GoOn(w) /\ UNCHANGED writes
    /\ Settles(w)

\* A canceled step drops the result.  A failed hook, and a script that cannot
\* start, cancel the step.
Settle(w) ==
    /\ pc[w] = "settle"
    /\ IF canceled
       THEN /\ Free(w)
            /\ writes' = [writes EXCEPT ![w] = <<>>]
            /\ UNCHANGED <<canceled, failed, succeeded, execMsg, runtimeMsg>>
       ELSE Counted(w) /\ GoOn(w) /\ UNCHANGED writes
    /\ Settles(w)

\* Each change of an execution is applied in turn.
NextChange(w) ==
    /\ writes' = [writes EXCEPT ![w] = Tail(@)]
    /\ IF Len(writes[w]) = 1 THEN Free(w)
       ELSE pc' = [pc EXCEPT ![w] = "apply"] /\ UNCHANGED file

InPlace(c) == c.to = c.from

\* apply_change: the threads share one file writer, which does one write after
\* the other.  A write truncates the file first, or fails there; the error is
\* only counted.
BeginWrite(w) ==
    LET c   == Head(writes[w])
        old == disk[c.to]
    IN  /\ pc[w] = "apply"
        /\ \A v \in Thread : pc[v] # "write"
        /\ \/ /\ pc' = [pc EXCEPT ![w] = "write"]
              /\ disk' = [disk EXCEPT ![c.to] = Torn]
              /\ damaged' = IF InPlace(c) /\ old \in Text THEN damaged \cup {old.of}
                            ELSE damaged
              /\ UNCHANGED <<file, writes>>
           \/ NextChange(w) /\ UNCHANGED <<disk, damaged>>
        /\ UNCHANGED <<sharedVars, counts, phase, outcome, taken, content, result,
                       wakers, signaled, idle, watchdog, deletions, skipped,
                       late, applied>>

WriteEnds(w) ==
    /\ pc[w] = "write"
    /\ NextChange(w)
    /\ UNCHANGED <<sharedVars, counts, phase, outcome, taken, content, result,
                   wakers, signaled, idle, watchdog, skipped, late>>

\* The new text is on disk.
WriteDone(w) ==
    LET c == Head(writes[w])
    IN  /\ disk' = [disk EXCEPT ![c.to] = c.text]
        /\ applied' = applied \cup {[by |-> file[w], to |-> c.to, text |-> c.text]}
        /\ damaged' = IF InPlace(c) /\ c.text \in Text THEN damaged \ {c.text.of}
                      ELSE damaged

\* Mutant: the original of a renamed file is deleted whether or not the file
\* was written under its new name.
EndWriteBlindly(w) ==
    LET c == Head(writes[w])
    IN  /\ WriteEnds(w)
        /\ WriteDone(w) \/ UNCHANGED <<disk, applied, damaged>>
        /\ deletions' = IF InPlace(c) THEN deletions ELSE deletions \cup {c.from}

\* Mutant: a file that keeps its name counts as renamed.
EndWriteAsRename(w) ==
    /\ WriteEnds(w)
    /\ \/ /\ WriteDone(w)
          /\ deletions' = deletions \cup {Head(writes[w]).from}
       \/ UNCHANGED <<disk, applied, damaged, deletions>>

\* The original of a file that was written under a new name will be deleted.
\* The error of a write that fails half-way is only counted.
EndWrite(w) ==
    LET c == Head(writes[w])
    IN  /\ WriteEnds(w)
        /\ \/ /\ WriteDone(w)
              /\ deletions' = IF InPlace(c) THEN deletions ELSE deletions \cup {c.from}
           \/ UNCHANGED <<disk, applied, damaged, deletions>>

-----------------------------------------------------------------------------
(* The outcome                                                             *)

ThreadsFree == \A w \in Thread : pc[w] = "free"

\* The walk is over; the cancel signal is unregistered.
EndWalk ==
    /\ phase = "running"
    /\ File \subseteq taken /\ ThreadsFree
    /\ phase' = "stopping"
    /\ UNCHANGED <<sharedVars, outcome, taken, pc, file, content, result, writes,
                   wakers, signaled, idle, watchdog, counts, deletions, disk,
                   skipped, late, applied, damaged>>

\* The watchdog is aborted, between two of its waits, and awaited.
StopWatchdog ==
    /\ phase = "stopping"
    /\ watchdog # "notify"
    /\ watchdog' = "off"
    /\ phase' = "deciding"
    /\ UNCHANGED <<sharedVars, outcome, taken, pc, file, content, result, writes,
                   wakers, signaled, idle, counts, deletions, disk, skipped,
                   late, applied, damaged>>

AllFailed == attempted > 0 /\ failed = attempted /\ succeeded = 0 /\ execMsg

\* Mutant: a canceled step is not told from one that ran to its end.
VerdictIgnoringCancel ==
    IF idle THEN "idle" ELSE IF runtimeMsg THEN "hook"
    ELSE IF AllFailed THEN "failed" ELSE "ok"

Verdict ==
    IF idle THEN "idle" ELSE IF runtimeMsg THEN "hook"
    ELSE IF AllFailed \/ (canceled /\ execMsg) THEN "failed"
    ELSE IF canceled THEN "canceled" ELSE "ok"

Decide ==
    /\ phase = "deciding"
    /\ IF Verdict = "ok"
       THEN phase' = "deleting" /\ UNCHANGED outcome
       ELSE phase' = "ended" /\ outcome' = Verdict
    /\ UNCHANGED <<sharedVars, taken, pc, file, content, result, writes, wakers,
                   signaled, idle, watchdog, counts, deletions, disk, skipped,
                   late, applied, damaged>>

\* The originals of the renamed files are deleted, one after the other; an
\* error is only logged.
DeleteOriginals ==
    /\ phase = "deleting"
    /\ \E D \in SUBSET deletions :
          disk' = [p \in Path |-> IF p \in D THEN Missing ELSE disk[p]]
    /\ phase' = "saving"
    /\ UNCHANGED <<sharedVars, outcome, taken, pc, file, content, result, writes,
                   wakers, signaled, idle, watchdog, counts, deletions, skipped,
                   late, applied, damaged>>

\* The shared state is saved; the state adapter may fail.
SaveState ==
    /\ phase = "saving"
    /\ \/ Save /\ outcome' = "ok"
       \/ UNCHANGED sharedVars /\ outcome' = "unsaved"
    /\ phase' = "ended"
    /\ UNCHANGED <<taken, pc, file, content, result, writes, wakers, signaled,
                   idle, watchdog, counts, deletions, disk, skipped, late,
                   applied, damaged>>

Thread1(w) ==
    \/ TakeFile(w) \/ LoadFile(w) \/ Enable(w) \/ CheckFlag(w)
    \/ Abort(w) \/ Settle(w) \/ BeginWrite(w) \/ EndWrite(w)

Step ==
    \/ Register \/ NotifyWaiters \/ EndWalk \/ StopWatchdog \/ Decide
    \/ DeleteOriginals \/ SaveState

Next ==
    \/ Step \/ UserCancel \/ Expire
    \/ \E w \in Thread : Thread1(w) \/ UseState(w) \/ EndExecution(w)

\* Fairness: the threads and the step are scheduled and the timer expires; a
\* call of the shared state that can return does.  No script need ever end, but
\* each waits for something again and again (nothing interrupts a script that
\* computes or calls for ever), so that it can be aborted.
Fairness ==
    /\ WF_vars(Step)
    /\ WF_vars(Expire)
    /\ \A w \in Thread :
          /\ WF_vars(Thread1(w))
          /\ SF_vars(Abort(w))
          /\ WF_vars(pc[w] = "execute" /\ Return(w) /\ UNCHANGED batchVars)

Spec == Init /\ [][Next]_vars /\ Fairness

-----------------------------------------------------------------------------
(* Properties                                                              *)

\* A step that returns Ok has run its script on every file: nothing was left
\* out because of a cancel, a timeout or a failed hook, whenever they came.  In
\* particular the watchdog does not fire on a step that has already succeeded.
OkMeansComplete ==
    phase \in {"deleting", "saving"} \/ outcome = "ok"
        => ~idle /\ ~canceled /\ ~runtimeMsg /\ skipped = {}

\* The text of every file is somewhere on disk at every moment, under its own
\* name or a new one, though renames write first and delete at the end: only a
\* write over it may lose it, one that is under way, has failed, or writes what
\* a script made of a half-written file.
TextSurvives ==
    \A f \in File \ damaged : \E p \in Path : disk[p] \in Text /\ disk[p].of = f

\* When the step returns Ok, every change that was written is on disk, unless a
\* later write failed there: no later write or deletion of the step has undone
\* it.
ChangesOnDisk ==
    outcome = "ok" =>
        \A c \in applied :
            \/ disk[c.to] = Torn
            \/ /\ disk[c.to] \in Text /\ c.text \in Text
               /\ disk[c.to].of = c.text.of /\ c.by \in disk[c.to].edits

\* A file whose script was still running when the step was canceled is not
\* touched, however the execution ends.
CanceledFilesUntouched == \A c \in applied : c.by \notin late

\* A step ends although scripts wait for ever, alone or with the lock of a key
\* others wait for: the watchdog ends the first and so releases the others.
StepEnds == <>(phase = "ended")

=============================================================================
