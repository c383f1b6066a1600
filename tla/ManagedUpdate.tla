---------------------------- MODULE ManagedUpdate ----------------------------
(***************************************************************************)
(* cli/src/commands/ai/mod.rs, ai/update/auto_safe.rs and                  *)
(* harness_adapter.rs: `codemod ai`, which the harness also runs from time *)
(* to time, and `codemod ai update` bring the managed components of one    *)
(* harness to the published version and record their state.                *)
(*                                                                         *)
(* The processes share the components' files and two lock files: one for   *)
(* the update, one for the record.  A lock file that is older than ten     *)
(* minutes is taken for one a dead process has left.                       *)
(***************************************************************************)
EXTENDS Naturals, Sequences

CONSTANTS
    Proc,
    Updaters,       \* the processes that run `ai update`; the others run `ai`
    Component,
    Skills,         \* the components an install does not overwrite
    Writes,         \* the files of the components, in the order of an update
    MaxVersion,     \* bound: versions that are published
    MaxRuns,        \* bound: commands each process runs
    MaxFaults,      \* bound: failures of all kinds
    NoLock, Torn

File == {Writes[i].file : i \in DOMAIN Writes}
Bundled == 0                        \* the version that comes with the CLI
Version == Bundled .. MaxVersion
Lock == {"update", "record"}
LockFile == [by : Proc, run : Nat]
\* What files were, by their place in Writes.
Backup == UNION {[I -> Version \cup {Torn}] : I \in SUBSET DOMAIN Writes}

ASSUME UpdateAssumption ==
    /\ Updaters \subseteq Proc /\ Skills \subseteq Component
    /\ Writes \in Seq([file : STRING, of : Component])
    /\ \A c \in Component : \E i \in DOMAIN Writes : Writes[i].of = c
    /\ \A i, j \in DOMAIN Writes : Writes[i].file = Writes[j].file => i = j
    /\ MaxVersion \in Nat /\ MaxRuns \in [Proc -> Nat] /\ MaxFaults \in Nat
    /\ NoLock \notin LockFile /\ Torn \notin Nat

VARIABLES
    remote,     \* the published version
    content,    \* of every file
    recorded,   \* the managed install state: the content of each main file
    lock,       \* the lock files
    stale,      \* those that are too old
    pc, runs,   \* of each process
    manifest,   \* the version a process has been told of
    found,      \* the lock file it has found stale
    staged,     \* what it has still to write: places in Writes
    backups,    \* what it has overwritten
    report,     \* what it says of each component
    snapshot,   \* the record it has built
    refused,    \* the processes whose last install was refused
    before,     \* history: the files when the process took the update lock
    over,       \* history: files an install was to write since
    raced,      \* history: locks removed by others than who held or found them
    lost,       \* history: processes that ended without recording
    faults      \* failures so far

vars == <<remote, content, recorded, lock, stale, pc, runs, manifest, found,
          staged, backups, report, snapshot, refused, before, over, raced, lost,
          faults>>
locks == <<lock, stale, raced>>
locals == <<manifest, found, staged, backups, report, snapshot, before>>

Label == {"idle", "install", "lock update", "recover update", "fetch", "apply",
          "restore", "unlock update", "lock record", "recover record", "build",
          "save", "unlock record"}
Report == {"none", "applied", "failed", "rolled back"}

TypeOK ==
    /\ remote \in Version
    /\ content \in [File -> Version \cup {Torn}]
    /\ recorded \in [Component -> Version \cup {Torn}]
    /\ lock \in [Lock -> LockFile \cup {NoLock}]
    /\ stale \subseteq Lock /\ raced \subseteq Lock
    /\ pc \in [Proc -> Label]
    /\ runs \in [Proc -> Nat] /\ \A p \in Proc : runs[p] <= MaxRuns[p]
    /\ manifest \in [Proc -> Version]
    /\ found \in [Proc -> LockFile \cup {NoLock}]
    /\ staged \in [Proc -> SUBSET DOMAIN Writes]
    /\ backups \in [Proc -> Backup]
    /\ report \in [Proc -> [Component -> Report]]
    /\ snapshot \in [Proc -> [Component -> Version \cup {Torn}]]
    /\ refused \subseteq Proc /\ lost \subseteq Proc
    /\ before \in [Proc -> [File -> Version \cup {Torn}]]
    /\ over \subseteq File
    /\ faults \in 0 .. MaxFaults

\* The file whose fingerprint is recorded.
Main(c) ==
    LET i == CHOOSE j \in DOMAIN Writes :
                Writes[j].of = c /\ \A k \in 1 .. j - 1 : Writes[k].of # c
    IN  Writes[i].file
Current == [c \in Component |-> content[Main(c)]]
Nothing == [c \in Component |-> "none"]
NoBackup == [i \in {} |-> Bundled]

Init ==
    /\ remote = Bundled
    /\ content = [f \in File |-> Bundled]
    /\ recorded = Current
    /\ lock = [l \in Lock |-> NoLock]
    /\ stale = {} /\ raced = {}
    /\ pc = [p \in Proc |-> "idle"]
    /\ runs = [p \in Proc |-> 0]
    /\ manifest = [p \in Proc |-> Bundled]
    /\ found = [p \in Proc |-> NoLock]
    /\ staged = [p \in Proc |-> {}]
    /\ backups = [p \in Proc |-> NoBackup]
    /\ report = [p \in Proc |-> Nothing]
    /\ snapshot = [p \in Proc |-> [c \in Component |-> Bundled]]
    /\ refused = {} /\ lost = {}
    /\ before = [p \in Proc |-> [f \in File |-> Bundled]]
    /\ over = {}
    /\ faults = 0

Goto(p, l) == pc' = [pc EXCEPT ![p] = l]

\* Something fails.
Fault == faults < MaxFaults /\ faults' = faults + 1

\* What the process knew is of no use any more.
Forget(p) ==
    /\ manifest' = [manifest EXCEPT ![p] = Bundled]
    /\ found' = [found EXCEPT ![p] = NoLock]
    /\ staged' = [staged EXCEPT ![p] = {}]
    /\ backups' = [backups EXCEPT ![p] = NoBackup]
    /\ report' = [report EXCEPT ![p] = Nothing]
    /\ snapshot' = [snapshot EXCEPT ![p] = [c \in Component |-> Bundled]]
    /\ before' = [before EXCEPT ![p] = [f \in File |-> Bundled]]

-----------------------------------------------------------------------------
(* The command                                                             *)

Publish ==
    /\ remote < MaxVersion
    /\ remote' = remote + 1
    /\ UNCHANGED <<content, recorded, pc, runs, refused, over, lost, locks,
                   locals, faults>>

\* A component is recorded with the version it was installed with, so there is
\* an update for it as soon as a version is published.
Reconciled(v) == IF v > Bundled THEN "lock update" ELSE "lock record"

\* The manifest is looked up, or cannot be; an update reads the record.
Start(p) ==
    /\ pc[p] = "idle" /\ runs[p] < MaxRuns[p]
    /\ runs' = [runs EXCEPT ![p] = @ + 1]
    /\ \E v \in {remote, Bundled} :
          /\ manifest' = [manifest EXCEPT ![p] = v]
          /\ Goto(p, IF p \in Updaters THEN Reconciled(v) ELSE "install")
    /\ UNCHANGED <<remote, content, recorded, found, staged, backups, report,
                   snapshot, refused, before, over, lost, locks, faults>>

SkillsAreBundled == \A c \in Skills : content[Main(c)] = Bundled

\* The other components' files, as far as an install has to write them.
ToInstall == {f \in {Main(c) : c \in Component \ Skills} : content[f] # Bundled}

\* run_install_flow, without --force: a skill that is not as bundled ends the
\* command.  What cannot be written of the other components is only warned of, as
\* it was or torn.
Install(p) ==
    /\ pc[p] = "install"
    /\ \/ /\ ~SkillsAreBundled
          /\ Goto(p, "idle")
          /\ refused' = refused \cup {p}
          /\ Forget(p)
          /\ UNCHANGED <<content, over, faults>>
       \/ /\ SkillsAreBundled
          /\ \E failed \in SUBSET ToInstall : \E torn \in SUBSET failed :
                /\ content' = [f \in File |-> IF f \in torn THEN Torn
                                             ELSE IF f \in ToInstall \ failed THEN Bundled
                                             ELSE content[f]]
                /\ IF failed = {} THEN UNCHANGED faults ELSE Fault
          /\ over' = over \cup ToInstall
          /\ Goto(p, Reconciled(manifest[p]))
          /\ refused' = refused \ {p}
          /\ UNCHANGED locals
    /\ UNCHANGED <<remote, recorded, runs, lost, locks>>

-----------------------------------------------------------------------------
(* The lock files                                                          *)

Locking(l)    == IF l = "update" THEN "lock update" ELSE "lock record"
Recovering(l) == IF l = "update" THEN "recover update" ELSE "recover record"
Unlocking(l)  == IF l = "update" THEN "unlock update" ELSE "unlock record"
Locked(l)     == IF l = "update" THEN "fetch" ELSE "build"
Afterwards(l) == IF l = "update" THEN "lock record" ELSE "idle"

Holds(p, l) ==
    pc[p] \in (IF l = "update" THEN {"fetch", "apply", "restore", "unlock update"}
               ELSE {"build", "save", "unlock record"})

Mine(p) == [by |-> p, run |-> runs[p]]

\* create_new succeeds for one.
Create(p, l) ==
    /\ pc[p] = Locking(l)
    /\ lock[l] = NoLock
    /\ lock' = [lock EXCEPT ![l] = Mine(p)]
    /\ Goto(p, Locked(l))
    /\ IF l = "update"
       THEN before' = [before EXCEPT ![p] = content] /\ over' = {}
       ELSE UNCHANGED <<before, over>>
    /\ UNCHANGED <<remote, content, recorded, stale, runs, manifest, found,
                   staged, backups, report, snapshot, refused, raced, lost, faults>>

\* Mutant: the age of a lock is not looked at.
FindAny(p, l) ==
    /\ pc[p] = Locking(l)
    /\ lock[l] # NoLock
    /\ found' = [found EXCEPT ![p] = lock[l]]
    /\ Goto(p, Recovering(l))
    /\ UNCHANGED <<remote, content, recorded, runs, manifest, staged, backups,
                   report, snapshot, refused, before, over, lost, locks, faults>>

\* The lock file is read and found stale ...
Find(p, l) ==
    /\ pc[p] = Locking(l)
    /\ lock[l] # NoLock /\ l \in stale
    /\ found' = [found EXCEPT ![p] = lock[l]]
    /\ Goto(p, Recovering(l))
    /\ UNCHANGED <<remote, content, recorded, runs, manifest, staged, backups,
                   report, snapshot, refused, before, over, lost, locks, faults>>

\* ... and the lock file is removed, whichever it is by now.
Recover(p, l) ==
    /\ pc[p] = Recovering(l)
    /\ lock[l] # NoLock
    /\ lock' = [lock EXCEPT ![l] = NoLock]
    /\ stale' = stale \ {l}
    /\ raced' = IF lock[l] = found[p] THEN raced ELSE raced \cup {l}
    /\ found' = [found EXCEPT ![p] = NoLock]
    /\ Goto(p, Locking(l))
    /\ UNCHANGED <<remote, content, recorded, runs, manifest, staged, backups,
                   report, snapshot, refused, before, over, lost, faults>>

\* Mutant: nobody looks at the time.
GiveUpIfGone(p, l) ==
    /\ pc[p] = Recovering(l) /\ lock[l] = NoLock
    /\ Goto(p, Afterwards(l))
    /\ lost' = IF l = "record" THEN lost \cup {p} ELSE lost
    /\ Forget(p)
    /\ UNCHANGED <<remote, content, recorded, runs, refused, over, locks, faults>>

\* The lock is not to be had in time, or it disappears between two calls: the
\* process goes on without what it wanted it for.
GiveUp(p, l) ==
    /\ \/ pc[p] = Locking(l)
       \/ pc[p] = Recovering(l) /\ lock[l] = NoLock
    /\ Goto(p, Afterwards(l))
    /\ lost' = IF l = "record" THEN lost \cup {p} ELSE lost
    /\ Forget(p)
    /\ UNCHANGED <<remote, content, recorded, runs, refused, over, locks, faults>>

\* Whatever lock file is there is removed; an error is only a warning.
Unlock(p, l) ==
    /\ pc[p] = Unlocking(l)
    /\ Goto(p, Afterwards(l))
    /\ \/ /\ lock' = [lock EXCEPT ![l] = NoLock]
          /\ stale' = stale \ {l}
          /\ raced' = IF lock[l] \in {Mine(p), NoLock} THEN raced ELSE raced \cup {l}
          /\ UNCHANGED faults
       \/ Fault /\ UNCHANGED <<lock, stale, raced>>
    /\ Forget(p)
    /\ UNCHANGED <<remote, content, recorded, runs, refused, over, lost>>

\* A process that lives is done with a lock long before ten minutes.
Age(l) ==
    /\ lock[l] # NoLock
    /\ ~(Holds(lock[l].by, l) /\ runs[lock[l].by] = lock[l].run)
    /\ stale' = stale \cup {l}
    /\ UNCHANGED <<remote, content, recorded, lock, pc, runs, refused, over,
                   raced, lost, locals, faults>>

-----------------------------------------------------------------------------
(* The update                                                              *)

\* Components that cannot be fetched have failed; the others are staged.
Fetch(p) ==
    /\ pc[p] = "fetch"
    /\ \E S \in SUBSET Component :
          /\ IF S = Component THEN UNCHANGED faults ELSE Fault
          /\ staged' = [staged EXCEPT ![p] = {i \in DOMAIN Writes : Writes[i].of \in S}]
          /\ report' = [report EXCEPT ![p] =
                [c \in Component |-> IF c \in S THEN "none" ELSE "failed"]]
    /\ Goto(p, "apply")
    /\ UNCHANGED <<remote, content, recorded, runs, manifest, found, backups,
                   snapshot, refused, before, over, lost, locks>>

\* Files are written in the order of Writes, and restored in the reverse one.
NextWrite(p)   == {i \in staged[p] : \A j \in staged[p] : i <= j}
NextRestore(p) == {i \in DOMAIN backups[p] : \A j \in DOMAIN backups[p] : j <= i}

\* A component is applied with its last file.
WriteFile(p) ==
    /\ pc[p] = "apply"
    /\ \E i \in NextWrite(p) :
          /\ content' = [content EXCEPT ![Writes[i].file] = manifest[p]]
          /\ backups' = [backups EXCEPT ![p] =
                [j \in DOMAIN @ \cup {i} |-> IF j = i THEN content[Writes[i].file] ELSE @[j]]]
          /\ staged' = [staged EXCEPT ![p] = @ \ {i}]
          /\ report' = IF \E j \in staged[p] \ {i} : Writes[j].of = Writes[i].of
                       THEN report
                       ELSE [report EXCEPT ![p][Writes[i].of] = "applied"]
    /\ UNCHANGED <<remote, recorded, pc, runs, manifest, found, snapshot,
                   refused, before, over, lost, locks, faults>>

\* A file that cannot be read or written ends the update: what was written
\* before it is rolled back.
FailToWrite(p) ==
    /\ pc[p] = "apply"
    /\ Fault
    /\ \E i \in NextWrite(p) :
          /\ \E v \in {content[Writes[i].file], Torn} :
                content' = [content EXCEPT ![Writes[i].file] = v]
          /\ report' = [report EXCEPT ![p][Writes[i].of] = "failed"]
    /\ Goto(p, "restore")
    /\ UNCHANGED <<remote, recorded, runs, manifest, found, staged, backups,
                   snapshot, refused, before, over, lost, locks>>

\* Mutant: a file that cannot be restored goes unnoticed.
RestoreOrNot(p) ==
    /\ pc[p] = "restore"
    /\ \E i \in NextRestore(p) :
          /\ \/ /\ content' = [content EXCEPT ![Writes[i].file] = backups[p][i]]
                /\ UNCHANGED <<report, faults>>
             \/ /\ Fault
                /\ \E v \in {content[Writes[i].file], Torn} :
                      content' = [content EXCEPT ![Writes[i].file] = v]
                /\ UNCHANGED report
          /\ backups' = [backups EXCEPT ![p] = [j \in DOMAIN @ \ {i} |-> @[j]]]
    /\ UNCHANGED <<remote, recorded, pc, runs, manifest, found, staged,
                   snapshot, refused, before, over, lost, locks>>

\* rollback_component_writes, from the last write back to the first.
Restore(p) ==
    /\ pc[p] = "restore"
    /\ \E i \in NextRestore(p) :
          /\ \/ /\ content' = [content EXCEPT ![Writes[i].file] = backups[p][i]]
                /\ UNCHANGED <<report, faults>>
             \/ /\ Fault
                /\ \E v \in {content[Writes[i].file], Torn} :
                      content' = [content EXCEPT ![Writes[i].file] = v]
                /\ report' = [report EXCEPT ![p][Writes[i].of] = "failed"]
          /\ backups' = [backups EXCEPT ![p] = [j \in DOMAIN @ \ {i} |-> @[j]]]
    /\ UNCHANGED <<remote, recorded, pc, runs, manifest, found, staged,
                   snapshot, refused, before, over, lost, locks>>

RolledBack(r) == IF r = "applied" THEN "rolled back" ELSE r

Applied(p) ==
    /\ \/ /\ pc[p] = "apply" /\ staged[p] = {}
          /\ UNCHANGED report
       \/ /\ pc[p] = "restore" /\ DOMAIN backups[p] = {}
          /\ report' = [report EXCEPT ![p] =
                [c \in Component |-> RolledBack(report[p][c])]]
    /\ Goto(p, "unlock update")
    /\ UNCHANGED <<remote, content, recorded, runs, manifest, found, staged,
                   backups, snapshot, refused, before, over, lost, locks, faults>>

-----------------------------------------------------------------------------
(* The record                                                              *)

\* Mutant: the lock is let go of at once.
BuildUnlocked(p) ==
    /\ pc[p] = "build"
    /\ snapshot' = [snapshot EXCEPT ![p] = Current]
    /\ Goto(p, "save")
    /\ lock' = [lock EXCEPT !["record"] = NoLock]
    /\ stale' = stale \ {"record"}
    /\ UNCHANGED <<remote, content, recorded, runs, manifest, found, staged,
                   backups, report, refused, before, over, lost, raced, faults>>

\* build_managed_install_state: the components and what they are now.
Build(p) ==
    /\ pc[p] = "build"
    /\ snapshot' = [snapshot EXCEPT ![p] = Current]
    /\ Goto(p, "save")
    /\ UNCHANGED <<remote, content, recorded, runs, manifest, found, staged,
                   backups, report, refused, before, over, lost, locks, faults>>

\* write_atomic: the record is written beside and renamed, or is as it was.
Save(p) ==
    /\ pc[p] = "save"
    /\ \/ recorded' = snapshot[p] /\ UNCHANGED <<lost, faults>>
       \/ Fault /\ UNCHANGED recorded /\ lost' = lost \cup {p}
    /\ Goto(p, "unlock record")
    /\ UNCHANGED <<remote, content, runs, refused, over, locks, locals>>

-----------------------------------------------------------------------------
(* Crashes                                                                 *)

Writing(p) ==
    CASE pc[p] = "apply"   -> {Writes[i].file : i \in NextWrite(p)}
      [] pc[p] = "restore" -> {Writes[i].file : i \in NextRestore(p)}
      [] pc[p] = "install" /\ SkillsAreBundled -> ToInstall
      [] OTHER -> {}

\* The process dies, its lock files stay, and a file it was writing is torn.
Crash(p) ==
    /\ pc[p] # "idle"
    /\ Fault
    /\ \E D \in SUBSET Writing(p) :
          content' = [f \in File |-> IF f \in D THEN Torn ELSE content[f]]
    /\ over' = IF pc[p] = "install" THEN over \cup Writing(p) ELSE over
    /\ Goto(p, "idle")
    /\ lost' = lost \cup {p}
    /\ Forget(p)
    /\ UNCHANGED <<remote, recorded, runs, refused, locks>>

Command(p) ==
    \/ Install(p) \/ Fetch(p) \/ WriteFile(p) \/ Restore(p) \/ Applied(p)
    \/ Build(p) \/ Save(p)
    \/ \E l \in Lock : Create(p, l) \/ Find(p, l) \/ Recover(p, l) \/ Unlock(p, l)

Next ==
    \/ Publish
    \/ \E l \in Lock : Age(l)
    \/ \E p \in Proc :
          Start(p) \/ Command(p) \/ FailToWrite(p) \/ Crash(p) \/ \E l \in Lock : GiveUp(p, l)

\* Fairness: a process that runs goes on, and does not wait for a lock longer
\* than its timeout.
Fairness ==
    \A p \in Proc :
        /\ WF_vars(Command(p))
        /\ WF_vars(\E l \in Lock : GiveUp(p, l))

Spec == Init /\ [][Next]_vars /\ Fairness

-----------------------------------------------------------------------------
(* Properties                                                              *)

\* Two processes are at work under the same lock only when one of them, or one
\* before, removed a lock file that was not the one it had found stale: a
\* crash, a slow start and one recovery are not enough.
OneHolder ==
    \A l \in Lock \ raced : \A p, q \in Proc : Holds(p, l) /\ Holds(q, l) => p = q

\* What an update says it did is so when it lets go of the lock: the files of an
\* applied component are all of the version it was told of, and those of one
\* that was rolled back are as they were, whatever failed or died before and
\* whoever else tried.  (An install writes its files without the lock.)
ReportIsTrue ==
    \A p \in Proc, i \in DOMAIN Writes :
        LET f == Writes[i].file
            r == report[p][Writes[i].of]
        IN  pc[p] = "unlock update" /\ "update" \notin raced /\ f \notin over =>
                /\ r = "applied" => content[f] = manifest[p]
                /\ r = "rolled back" => content[f] = before[p][f]

\* The record is of the files as they are, unless somebody who may have changed
\* them has still to record it or ended without: updates and records of several
\* processes interleave, under two locks.
RecordIsCurrent ==
    \/ recorded = Current
    \/ lost # {} \/ raced # {}
    \/ \E p \in Proc : pc[p] \notin {"idle", "install", "unlock record"}

\* A command comes to its end, whoever holds the locks or has left them behind.
CommandsEnd == \A p \in Proc : pc[p] # "idle" ~> pc[p] = "idle"

-----------------------------------------------------------------------------
(* Statements that the code does not keep                                  *)

\* "a periodic, cooldown-protected update check": the command that the harness
\* runs gets to its update check, though no user has touched a file.
PeriodicChecksRun == refused = {}

=============================================================================
