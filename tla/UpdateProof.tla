------------------------------ MODULE UpdateProof ------------------------------
(***************************************************************************)
(* For any number of processes, commands, components, versions and faults: *)
(* what the lock files are worth, and the record they protect.             *)
(*                                                                         *)
(* A command passes each of the two locks once, so a lock file is for good *)
(* without a holder as soon as its command is past the lock (Dead).  Only  *)
(* such a file is found stale, and nobody else's is removed unless the one *)
(* that was found has been replaced in between, which raced remembers.     *)
(*                                                                         *)
(* What the holder of the update lock reports is true because nobody else  *)
(* updates files meanwhile.  Progress says of every file how far it is:    *)
(* while files are written it has its old content or the new one, as it is *)
(* in the backups or not, and the backup is the old content; while they    *)
(* are restored it has its old content unless it is still in the backups   *)
(* or its component is reported to have failed.                            *)
(***************************************************************************)
EXTENDS ManagedUpdate, TLAPS

-----------------------------------------------------------------------------
(* The inductive invariant                                                 *)

\* Where a command has a lock, and where it is past it.
Held(l) == IF l = "update" THEN {"fetch", "apply", "restore", "unlock update"}
           ELSE {"build", "save", "unlock record"}
Past(l) == IF l = "update"
           THEN {"lock record", "recover record", "build", "save", "unlock record", "idle"}
           ELSE {"idle"}

ProcType ==
    /\ pc \in [Proc -> Label]
    /\ runs \in [Proc -> Nat]
    /\ found \in [Proc -> LockFile \cup {NoLock}]
    /\ snapshot = [p \in Proc |-> snapshot[p]]
LockType == lock \in [Lock -> LockFile \cup {NoLock}]

\* The command of lock file m is past l.
Dead(m, l) ==
    /\ m # NoLock
    /\ m.run < runs[m.by] \/ (m.run = runs[m.by] /\ pc[m.by] \in Past(l))

\* A lock file is that of a command which has the lock or is past it; one that is
\* too old, or was found so, is dead.
Owned(l) ==
    /\ lock[l] # NoLock =>
          Dead(lock[l], l)
             \/ (lock[l].run = runs[lock[l].by] /\ pc[lock[l].by] \in Held(l))
    /\ l \in stale => lock[l] # NoLock /\ Dead(lock[l], l)
    /\ \A p \in Proc : pc[p] = Recovering(l) => found[p] # NoLock /\ Dead(found[p], l)
    /\ l \notin raced => \A p \in Proc : pc[p] \in Held(l) => lock[l] = Mine(p)

\* A command that may have changed what has still to be recorded, and one of
\* those that has still to look at it.
Unrecorded == Label \ {"idle", "install", "unlock record"}
Waiting == Unrecorded \ {"build", "save"}

\* The record is to be brought up to date, and what is about to be saved is of
\* the files as they are, unless somebody is still to come.
Recorded ==
    raced = {} /\ lost = {} =>
        /\ recorded = Current \/ \E p \in Proc : pc[p] \in Unrecorded
        /\ \A p \in Proc : pc[p] = "save" =>
              snapshot[p] = Current \/ \E u \in Proc : pc[u] \in Waiting

Inv ==
    /\ ProcType /\ LockType
    /\ \A l \in Lock : Owned(l)
    /\ Recorded

ProcStep(p) ==
    \/ Start(p) \/ Command(p) \/ FailToWrite(p) \/ Crash(p)
    \/ \E l \in Lock : GiveUp(p, l)

-----------------------------------------------------------------------------
(* Types                                                                   *)

LEMMA ProcTypeStep == ProcType /\ LockType /\ [Next]_vars => ProcType' /\ LockType'
<1> SUFFICES ASSUME ProcType, LockType, [Next]_vars PROVE ProcType' /\ LockType'
  OBVIOUS
<1> USE DEF ProcType, LockType, Goto, locks, locals
<1>1. CASE UNCHANGED vars \/ Publish \/ \E l \in Lock : Age(l)
  BY <1>1 DEF vars, Publish, Age
<1>2. ASSUME NEW p \in Proc, Start(p) PROVE ProcType' /\ LockType'
  <2>1. runs' = [runs EXCEPT ![p] = runs[p] + 1] /\ runs[p] + 1 \in Nat
    BY <1>2 DEF Start
  <2>2. runs' \in [Proc -> Nat]
    BY <2>1
  <2>3. PICK l \in Label : pc' = [pc EXCEPT ![p] = l]
    BY <1>2 DEF Start, Label, Reconciled
  <2> QED  BY <1>2, <2>2, <2>3 DEF Start
<1>3. ASSUME NEW p \in Proc, Install(p) \/ Crash(p) PROVE ProcType' /\ LockType'
  BY <1>3 DEF Install, Crash, Forget, Label, Reconciled
<1>4. ASSUME NEW p \in Proc, NEW l \in Lock, Create(p, l) PROVE ProcType' /\ LockType'
  BY <1>4 DEF Create, Mine, LockFile, Label, Lock, Locked
<1>5. ASSUME NEW p \in Proc, NEW l \in Lock, Find(p, l) \/ Recover(p, l)
      PROVE  ProcType' /\ LockType'
  BY <1>5 DEF Find, Recover, Label, Lock, Recovering, Locking
<1>6. ASSUME NEW p \in Proc, NEW l \in Lock, Unlock(p, l) \/ GiveUp(p, l)
      PROVE  ProcType' /\ LockType'
  <2>1. /\ pc' = [pc EXCEPT ![p] = Afterwards(l)] /\ Afterwards(l) \in Label
        /\ found' = [found EXCEPT ![p] = NoLock] /\ UNCHANGED runs
        /\ \E s : snapshot' = [snapshot EXCEPT ![p] = s]
    BY <1>6 DEF Unlock, GiveUp, Forget, Label, Lock, Afterwards
  <2>2. lock' = lock \/ lock' = [lock EXCEPT ![l] = NoLock]
    BY <1>6 DEF Unlock, GiveUp
  <2> QED  BY <2>1, <2>2
<1>7. ASSUME NEW p \in Proc, Fetch(p) \/ WriteFile(p) \/ FailToWrite(p) \/ Restore(p) \/ Applied(p)
      PROVE  ProcType' /\ LockType'
  BY <1>7 DEF Fetch, WriteFile, FailToWrite, Restore, Applied, Label
<1>8. ASSUME NEW p \in Proc, Build(p) \/ Save(p) PROVE ProcType' /\ LockType'
  BY <1>8 DEF Build, Save, Label
<1> QED
  BY <1>1, <1>2, <1>3, <1>4, <1>5, <1>6, <1>7, <1>8 DEF Next, Command

-----------------------------------------------------------------------------
(* What a step of a process does                                           *)

\* It leaves the other processes alone ...
LEMMA Frame ==
    ASSUME ProcType, NEW p \in Proc, ProcStep(p), NEW u \in Proc \ {p}
    PROVE  /\ pc'[u] = pc[u] /\ runs'[u] = runs[u]
           /\ found'[u] = found[u] /\ snapshot'[u] = snapshot[u]
<1> USE DEF ProcType, Goto, locks, locals
<1>2. CASE Start(p)
  BY <1>2 DEF Start
<1>3. CASE Install(p) \/ Crash(p)
  BY <1>3 DEF Install, Crash, Forget
<1>4. ASSUME NEW l \in Lock, Create(p, l) \/ Find(p, l) \/ Recover(p, l) \/ Unlock(p, l) \/ GiveUp(p, l)
      PROVE  /\ pc'[u] = pc[u] /\ runs'[u] = runs[u]
             /\ found'[u] = found[u] /\ snapshot'[u] = snapshot[u]
  BY <1>4 DEF Create, Find, Recover, Unlock, GiveUp, Forget
<1>7. CASE Fetch(p) \/ WriteFile(p) \/ FailToWrite(p) \/ Restore(p) \/ Applied(p)
  BY <1>7 DEF Fetch, WriteFile, FailToWrite, Restore, Applied
<1>8. CASE Build(p) \/ Save(p)
  BY <1>8 DEF Build, Save
<1> QED
  BY <1>2, <1>3, <1>4, <1>7, <1>8 DEF ProcStep, Command

\* ... and of its own it goes past a lock but never back to it, except with the
\* next command.
Goes(p) ==
    /\ \/ /\ pc[p] = "idle" /\ runs'[p] = runs[p] + 1
          /\ pc'[p] \in {"install", "lock update", "lock record"}
       \/ /\ runs'[p] = runs[p]
          /\ \A l \in Lock :
                /\ pc[p] \in Past(l) => pc'[p] \in Past(l)
                /\ pc[p] \in Held(l) => pc'[p] \in Held(l) \cup Past(l)
    /\ \A l \in Lock :
          /\ pc'[p] \in Held(l) => pc[p] \in Held(l) \/ Create(p, l)
          /\ pc'[p] = Recovering(l) => Find(p, l)

LEMMA Control ==
    ASSUME ProcType, NEW p \in Proc, ProcStep(p)
    PROVE  Goes(p)
<1> USE DEF ProcType, Goto, locks, locals, Goes, Held, Past, Recovering, Lock
<1>2. CASE Start(p)
  BY <1>2 DEF Start, Reconciled
<1>3. CASE Install(p) \/ Crash(p)
  BY <1>3 DEF Install, Crash, Forget, Reconciled
<1>4. ASSUME NEW l \in Lock, Create(p, l) PROVE Goes(p)
  BY <1>4 DEF Create, Locking, Locked
<1>5. ASSUME NEW l \in Lock, Find(p, l) PROVE Goes(p)
  <2>1. pc[p] = Locking(l) /\ pc' = [pc EXCEPT ![p] = Recovering(l)] /\ UNCHANGED runs
    BY <1>5 DEF Find
  <2>2. \A k \in Lock : pc'[p] = Recovering(k) => Find(p, k)
    BY <1>5, <2>1
  <2> QED  BY <2>1, <2>2 DEF Locking
<1>6. ASSUME NEW l \in Lock, Recover(p, l) PROVE Goes(p)
  BY <1>6 DEF Recover, Locking
<1>7. ASSUME NEW l \in Lock, Unlock(p, l) \/ GiveUp(p, l) PROVE Goes(p)
  BY <1>7 DEF Unlock, GiveUp, Forget, Unlocking, Afterwards, Locking
<1>8. CASE Fetch(p) \/ WriteFile(p) \/ FailToWrite(p) \/ Restore(p) \/ Applied(p)
  BY <1>8 DEF Fetch, WriteFile, FailToWrite, Restore, Applied
<1>9. CASE Build(p) \/ Save(p)
  BY <1>9 DEF Build, Save
<1> QED
  BY <1>2, <1>3, <1>4, <1>5, <1>6, <1>7, <1>8, <1>9 DEF ProcStep, Command
-----------------------------------------------------------------------------
(* The locks                                                               *)

LEMMA DeadStays ==
    ASSUME ProcType, [Next]_vars, NEW l \in Lock, NEW m \in LockFile, Dead(m, l)
    PROVE  Dead(m, l)'
<1>0. m.by \in Proc /\ m.run \in Nat /\ runs[m.by] \in Nat
  BY DEF LockFile, ProcType
<1>1. CASE UNCHANGED <<pc, runs>>
  BY <1>1 DEF Dead
<1>2. ASSUME NEW p \in Proc, ProcStep(p) PROVE Dead(m, l)'
  <2>1. CASE m.by # p
    <3>1. pc'[m.by] = pc[m.by] /\ runs'[m.by] = runs[m.by]
      BY <1>0, <1>2, <2>1, Frame
    <3> QED  BY <3>1 DEF Dead
  <2>2. CASE m.by = p
    <3>1. Goes(p)
      BY <1>2, Control
    <3>2. CASE runs'[p] = runs[p] + 1
      <4>1. m.run < runs[p] \/ m.run = runs[p]
        BY <2>2 DEF Dead
      <4>2. m.run < runs[p] + 1
        BY <1>0, <2>2, <4>1
      <4>3. m # NoLock
        BY DEF Dead
      <4>4. m.run < runs'[m.by]
        BY <2>2, <3>2, <4>2
      <4> QED  BY <4>3, <4>4 DEF Dead
    <3>3. CASE runs'[p] = runs[p] /\ (pc[p] \in Past(l) => pc'[p] \in Past(l))
      BY <2>2, <3>3 DEF Dead
    <3> QED  BY <3>1, <3>2, <3>3 DEF Goes
  <2> QED  BY <2>1, <2>2
<1> QED
  BY <1>1, <1>2 DEF Next, ProcStep, vars, Publish, Age

LEMMA MineNotDead ==
    ASSUME ProcType, NEW l \in Lock, NEW p \in Proc, pc[p] \in Held(l)
    PROVE  Mine(p) \in LockFile /\ Mine(p) # NoLock /\ ~Dead(Mine(p), l)
<1>1. Mine(p) \in LockFile /\ Mine(p).by = p /\ Mine(p).run = runs[p]
  BY DEF ProcType, Mine, LockFile
<1>2. Mine(p) # NoLock
  BY <1>1, UpdateAssumption
<1>3. runs[p] \in Nat /\ ~(runs[p] < runs[p])
  BY DEF ProcType
<1>4. pc[p] \notin Past(l)
  BY DEF Held, Past
<1> QED  BY <1>1, <1>2, <1>3, <1>4 DEF Dead
LEMMA HolderEnds ==
    ASSUME ProcType, NEW p \in Proc, ProcStep(p), NEW l \in Lock, NEW m \in LockFile,
           m # NoLock, m.run = runs[m.by], pc[m.by] \in Held(l)
    PROVE  Dead(m, l)' \/ (m.run = runs[m.by] /\ pc[m.by] \in Held(l))'
<1>1. CASE m.by # p
  BY <1>1, Frame DEF LockFile
<1>2. CASE m.by = p
  <2>1. Goes(p)
    BY Control
  <2>2. pc[p] # "idle"
    BY <1>2 DEF Held
  <2>3. runs'[p] = runs[p] /\ pc'[p] \in Held(l) \cup Past(l)
    BY <1>2, <2>1, <2>2 DEF Goes
  <2> QED  BY <1>2, <2>3 DEF Dead
<1> QED  BY <1>1, <1>2

LEMMA LockFrame ==
    ASSUME LockType, NEW p \in Proc, ProcStep(p), NEW l \in Lock
    PROVE  \/ Create(p, l) \/ Recover(p, l) \/ Unlock(p, l)
           \/ /\ lock'[l] = lock[l]
              /\ l \in stale' <=> l \in stale
              /\ l \in raced' <=> l \in raced
<1> USE DEF locks
<1>1. CASE UNCHANGED locks
  BY <1>1
<1>2. ASSUME NEW k \in Lock, k # l, Create(p, k) \/ Recover(p, k) \/ Unlock(p, k)
      PROVE  /\ lock'[l] = lock[l]
             /\ l \in stale' <=> l \in stale
             /\ l \in raced' <=> l \in raced
  BY <1>2 DEF LockType, Create, Recover, Unlock
<1>3. ASSUME NEW k \in Lock, Find(p, k) \/ GiveUp(p, k) PROVE UNCHANGED locks
  BY <1>3 DEF Find, GiveUp
<1> QED
  BY <1>1, <1>2, <1>3
     DEF ProcStep, Command, Start, Install, Fetch, WriteFile, FailToWrite,
         Restore, Applied, Build, Save, Crash

LEMMA OwnedStep ==
    ASSUME ProcType, LockType, [Next]_vars, NEW l \in Lock, Owned(l)
    PROVE  Owned(l)'
<1>1. CASE UNCHANGED <<pc, runs, found, lock, stale, raced>>
  BY <1>1 DEF Owned, Dead, Mine
<1>2. ASSUME NEW k \in Lock, Age(k) PROVE Owned(l)'
  <2>1. UNCHANGED <<pc, runs, found, lock, raced>>
    BY <1>2 DEF Age, locals
  <2>2. CASE k = l
    BY <1>2, <2>1, <2>2 DEF Owned, Age, Dead, Mine, Holds, Held
  <2>3. CASE k # l
    BY <1>2, <2>1, <2>3 DEF Owned, Age, Dead, Mine
  <2> QED  BY <2>2, <2>3
<1>3. ASSUME NEW p \in Proc, ProcStep(p) PROVE Owned(l)'
  <2>0. Goes(p)
    BY <1>3, Control
  <2>1. ASSUME NEW m \in LockFile, Dead(m, l) PROVE Dead(m, l)'
    BY <2>1, DeadStays, <1>3 DEF Next, ProcStep
  <2>2. ASSUME NEW m \in LockFile, m # NoLock, m.run = runs[m.by], pc[m.by] \in Held(l)
        PROVE  Dead(m, l)' \/ (m.run = runs[m.by] /\ pc[m.by] \in Held(l))'
    BY <2>2, HolderEnds, <1>3
  <2>3. ASSUME NEW u \in Proc, pc'[u] = Recovering(l)
        PROVE  found'[u] # NoLock /\ Dead(found[u], l)'
    <3>1. CASE u = p
      <4>1. Find(p, l)
        BY <2>0, <2>3, <3>1 DEF Goes
      <4>2. found'[p] = lock[l] /\ lock[l] \in LockFile /\ Dead(lock[l], l) /\ UNCHANGED lock
        BY <4>1 DEF Find, Owned, ProcType, LockType, locks
      <4>3. Dead(lock[l], l)'
        BY <2>1, <4>2
      <4> QED  BY <3>1, <4>2, <4>3 DEF Dead
    <3>2. CASE u # p
      <4>1. found'[u] = found[u] /\ pc'[u] = pc[u]
        BY <1>3, <3>2, Frame
      <4>2. found[u] \in LockFile /\ Dead(found[u], l)
        BY <2>3, <4>1 DEF Owned, ProcType
      <4>3. Dead(found[u], l)'
        BY <2>1, <4>1, <4>2 DEF Dead
      <4> QED  BY <4>3 DEF Dead
    <3> QED  BY <3>1, <3>2
  <2>4. ASSUME NEW u \in Proc, pc'[u] \in Held(l), ~Create(p, l)
        PROVE  pc[u] \in Held(l) /\ Mine(u)' = Mine(u)
    BY <1>3, <2>0, <2>4, Frame DEF Goes, Mine, Held
  <2>5. ASSUME NEW m \in LockFile, m = lock[l], m # NoLock
        PROVE  Dead(m, l)' \/ (m.run = runs[m.by] /\ pc[m.by] \in Held(l))'
    BY <2>1, <2>2, <2>5 DEF Owned
  <2>6. CASE /\ lock'[l] = lock[l] /\ (l \in stale' <=> l \in stale)
             /\ (l \in raced' <=> l \in raced) /\ ~Create(p, l)
    <3>1. lock[l] \in LockFile \cup {NoLock}
      BY DEF LockType
    <3>2. lock'[l] # NoLock =>
             Dead(lock[l], l)'
                \/ (lock'[l].run = runs'[lock'[l].by] /\ pc'[lock'[l].by] \in Held(l))
      BY <2>5, <2>6, <3>1
    <3>3. l \in stale' => lock'[l] # NoLock /\ Dead(lock[l], l)'
      BY <2>1, <2>6, <3>1 DEF Owned, Dead
    <3>4. l \notin raced' => \A u \in Proc : pc'[u] \in Held(l) => lock'[l] = Mine(u)'
      BY <2>4, <2>6 DEF Owned
    <3> QED  BY <2>3, <3>2, <3>3, <3>4 DEF Owned
  <2>7. CASE Create(p, l)
    <3>1. /\ lock[l] = NoLock /\ lock'[l] = Mine(p) /\ pc'[p] \in Held(l)
          /\ UNCHANGED <<runs, stale, raced>>
      BY <2>7 DEF Create, LockType, ProcType, Goto, Locked, Held
    <3>2. Mine(p)' = Mine(p) /\ Mine(p).by = p /\ Mine(p).run = runs[p]
      BY <3>1 DEF Mine
    <3>3. lock'[l].run = runs'[lock'[l].by] /\ pc'[lock'[l].by] \in Held(l)
      BY <3>1, <3>2
    <3>4. l \notin stale'
      BY <3>1 DEF Owned
    <3>5. l \notin raced' => \A u \in Proc : pc'[u] \in Held(l) => lock'[l] = Mine(u)'
      <4> SUFFICES ASSUME l \notin raced', NEW u \in Proc, pc'[u] \in Held(l), u # p
                   PROVE  FALSE
        BY <3>1, <3>2
      <4>1. pc[u] \in Held(l)
        BY <1>3, Frame
      <4>2. lock[l] = Mine(u)
        BY <3>1, <4>1 DEF Owned
      <4> QED  BY <3>1, <4>1, <4>2, MineNotDead
    <3> QED  BY <2>3, <3>3, <3>4, <3>5 DEF Owned
  <2>8. CASE Recover(p, l) \/ (Unlock(p, l) /\ lock'[l] # lock[l])
    <3>1. lock'[l] = NoLock /\ l \notin stale'
      BY <2>8 DEF Recover, Unlock, LockType
    <3>2. ASSUME l \notin raced', NEW u \in Proc, pc'[u] \in Held(l)
          PROVE  FALSE
      <4>1. ~Create(p, l) /\ l \notin raced
        BY <2>8, <3>2
           DEF Create, Recover, Unlock, Recovering, Locking, Unlocking, Lock
      <4>2. pc[u] \in Held(l) /\ lock[l] = Mine(u)
        BY <2>4, <3>2, <4>1 DEF Owned
      <4>3. Mine(u) # NoLock /\ ~Dead(Mine(u), l)
        BY <4>2, MineNotDead
      <4>4. CASE Recover(p, l)
        <5>1. lock[l] = found[p] /\ Dead(found[p], l)
          BY <3>2, <4>1, <4>4 DEF Recover, Owned
        <5> QED  BY <4>2, <4>3, <5>1
      <4>5. CASE Unlock(p, l)
        <5>1. lock[l] = Mine(p) \/ lock[l] = NoLock
          BY <2>8, <3>2, <4>1, <4>5, <3>1 DEF Unlock
        <5>2. u = p
          BY <4>2, <4>3, <5>1 DEF Mine
        <5>3. pc'[p] \notin Held(l)
          BY <4>5 DEF Unlock, Goto, Afterwards, Held, ProcType, Lock
        <5> QED  BY <3>2, <5>2, <5>3
      <4> QED  BY <2>8, <4>4, <4>5
    <3> QED  BY <2>3, <3>1, <3>2 DEF Owned
  <2>9. CASE Unlock(p, l) /\ lock'[l] = lock[l]
    <3>1. ~Create(p, l)
      BY <2>9 DEF Create, Unlock, Unlocking, Locking, Lock
    <3>2. CASE UNCHANGED <<lock, stale, raced>>
      BY <2>6, <3>1, <3>2
    <3>3. CASE /\ lock' = [lock EXCEPT ![l] = NoLock] /\ stale' = stale \ {l}
               /\ raced' = IF lock[l] \in {Mine(p), NoLock} THEN raced ELSE raced \cup {l}
      <4>1. lock[l] = NoLock
        BY <2>9, <3>3 DEF LockType
      <4>2. l \notin stale
        BY <4>1 DEF Owned
      <4> QED  BY <2>6, <2>9, <3>1, <3>3, <4>1, <4>2
    <3> QED  BY <2>9, <3>2, <3>3 DEF Unlock
  <2> QED
    BY <1>3, <2>6, <2>7, <2>8, <2>9, LockFrame
<1> QED
  BY <1>1, <1>2, <1>3 DEF Next, ProcStep, vars, Publish, locks, locals
-----------------------------------------------------------------------------
(* The record                                                              *)

LEMMA MineInjective ==
    ASSUME NEW p \in Proc, NEW q \in Proc, Mine(p) = Mine(q)
    PROVE  p = q
<1>1. Mine(p).by = p /\ Mine(q).by = q
  BY DEF Mine
<1> QED  BY <1>1

LEMMA HistoryGrows ==
    ASSUME NEW p \in Proc, ProcStep(p)
    PROVE  raced \subseteq raced' /\ lost \subseteq lost'
<1> USE DEF locks
<1>1. ASSUME NEW l \in Lock, Recover(p, l) \/ Unlock(p, l) \/ GiveUp(p, l)
      PROVE  raced \subseteq raced' /\ lost \subseteq lost'
  BY <1>1 DEF Recover, Unlock, GiveUp
<1>2. CASE Save(p) \/ Crash(p)
  BY <1>2 DEF Save, Crash
<1>3. CASE UNCHANGED <<raced, lost>>
  BY <1>3
<1> QED
  BY <1>1, <1>2, <1>3
     DEF ProcStep, Command, Start, Install, Fetch, WriteFile, FailToWrite,
         Restore, Applied, Build, Create, Find

\* What a step that ends nothing early means for the record.
RecordEffect(p) ==
    \/ pc'[p] \in Waiting
    \/ Create(p, "record") \/ Build(p) \/ Save(p)
    \/ /\ pc[p] \notin Unrecorded /\ pc'[p] \notin Unrecorded
       /\ UNCHANGED <<content, recorded>>

LEMMA RecordEffects ==
    ASSUME ProcType, NEW p \in Proc, ProcStep(p), lost' = {}
    PROVE  RecordEffect(p)
<1> USE DEF RecordEffect, Waiting, Unrecorded, ProcType, Label, Goto
<1>1. CASE Start(p)
  BY <1>1 DEF Start, Reconciled
<1>2. CASE Install(p)
  BY <1>2 DEF Install, Reconciled
<1>3. CASE Fetch(p) \/ WriteFile(p) \/ FailToWrite(p) \/ Restore(p) \/ Applied(p)
  BY <1>3 DEF Fetch, WriteFile, FailToWrite, Restore, Applied
<1>4. ASSUME NEW l \in Lock, Create(p, l) PROVE RecordEffect(p)
  BY <1>4 DEF Create, Lock, Locked
<1>5. ASSUME NEW l \in Lock, Find(p, l) \/ Recover(p, l) PROVE RecordEffect(p)
  BY <1>5 DEF Find, Recover, Lock, Locking, Recovering
<1>6. ASSUME NEW l \in Lock, Unlock(p, l) PROVE RecordEffect(p)
  BY <1>6 DEF Unlock, Lock, Unlocking, Afterwards
<1>7. ASSUME NEW l \in Lock, GiveUp(p, l) PROVE RecordEffect(p)
  BY <1>7 DEF GiveUp, Lock, Afterwards
<1>8. CASE Crash(p)
  BY <1>8 DEF Crash
<1> QED
  BY <1>1, <1>2, <1>3, <1>4, <1>5, <1>6, <1>7, <1>8 DEF ProcStep, Command

LEMMA RecordStep ==
    ASSUME ProcType, LockType, Owned("record"), [Next]_vars, Recorded
    PROVE  Recorded'
<1>1. CASE UNCHANGED <<pc, content, recorded, snapshot, raced, lost>>
  <2>1. Current' = Current
    BY <1>1 DEF Current, Main
  <2> QED  BY <1>1, <2>1 DEF Recorded
<1>2. ASSUME NEW p \in Proc, ProcStep(p), raced' = {}, lost' = {}
      PROVE  /\ recorded' = Current' \/ \E u \in Proc : pc'[u] \in Unrecorded
             /\ \A s \in Proc : pc'[s] = "save" =>
                   snapshot'[s] = Current' \/ \E u \in Proc : pc'[u] \in Waiting
  <2>1. raced = {} /\ lost = {} /\ "record" \in Lock
    BY <1>2, HistoryGrows DEF Lock
  <2>2. /\ recorded = Current \/ \E u \in Proc : pc[u] \in Unrecorded
        /\ \A s \in Proc : pc[s] = "save" =>
              snapshot[s] = Current \/ \E u \in Proc : pc[u] \in Waiting
    BY <2>1 DEF Recorded
  <2>3. \A u \in Proc : pc[u] \in Held("record") =>
           lock["record"] = Mine(u) /\ lock["record"] # NoLock
    BY <2>1, MineNotDead DEF Owned
  <2>4. \A u, v \in Proc : pc[u] \in Held("record") /\ pc[v] \in Held("record") => u = v
    BY <2>3, MineInjective
  <2>5. \A u \in Proc \ {p} : pc'[u] = pc[u] /\ snapshot'[u] = snapshot[u]
    BY <1>2, Frame
  <2>6. content' = content => Current' = Current
    BY DEF Current, Main
  <2>7. CASE pc'[p] \in Waiting
    BY <2>7 DEF Waiting, Unrecorded
  <2>8. CASE Create(p, "record")
    <3>1. pc'[p] = "build" /\ lock["record"] = NoLock
      BY <2>8 DEF Create, Goto, Locked, ProcType
    <3>2. ASSUME NEW s \in Proc, pc'[s] = "save" PROVE FALSE
      BY <2>3, <2>5, <3>1, <3>2 DEF Held
    <3> QED  BY <3>1, <3>2 DEF Unrecorded, Label
  <2>9. CASE Build(p)
    <3>1. /\ pc[p] = "build" /\ pc'[p] = "save" /\ snapshot'[p] = Current
          /\ UNCHANGED content
      BY <2>9 DEF Build, Goto, ProcType
    <3>2. ASSUME NEW s \in Proc, pc'[s] = "save" PROVE s = p
      BY <2>4, <2>5, <3>1, <3>2 DEF Held
    <3> QED  BY <2>6, <3>1, <3>2 DEF Unrecorded, Label
  <2>10. CASE Save(p)
    <3>1. /\ pc[p] = "save" /\ pc'[p] = "unlock record" /\ recorded' = snapshot[p]
          /\ UNCHANGED content
      BY <1>2, <2>10 DEF Save, Goto, ProcType
    <3>2. ASSUME NEW s \in Proc, pc'[s] = "save" PROVE FALSE
      BY <2>4, <2>5, <3>1, <3>2 DEF Held
    <3>3. ASSUME NEW u \in Proc, pc[u] \in Waiting PROVE pc'[u] \in Unrecorded
      BY <2>5, <3>1, <3>3 DEF Waiting
    <3> QED  BY <2>2, <2>6, <3>1, <3>2, <3>3
  <2>11. CASE /\ pc[p] \notin Unrecorded /\ pc'[p] \notin Unrecorded
              /\ UNCHANGED <<content, recorded>>
    <3>1. \A u \in Proc : pc[u] \in Unrecorded => pc'[u] = pc[u]
      BY <2>5, <2>11
    <3>2. \A u \in Proc : pc'[u] = "save" => pc[u] = "save" /\ snapshot'[u] = snapshot[u]
      BY <2>5, <2>11 DEF Unrecorded, Label
    <3> QED  BY <2>2, <2>6, <2>11, <3>1, <3>2 DEF Waiting
  <2> QED
    BY <1>2, <2>7, <2>8, <2>9, <2>10, <2>11, RecordEffects DEF RecordEffect
<1> QED
  BY <1>1, <1>2 DEF Recorded, Next, ProcStep, vars, Publish, Age, locals, locks

-----------------------------------------------------------------------------
(* The reports                                                             *)

\* The files, and what a process knows of them, are what they are for the model.
UpdateType ==
    /\ content = [f \in File |-> content[f]]
    /\ manifest = [p \in Proc |-> manifest[p]]
    /\ staged \in [Proc -> SUBSET DOMAIN Writes]
    /\ backups = [p \in Proc |-> backups[p]]
    /\ \A p \in Proc : DOMAIN backups[p] \subseteq DOMAIN Writes
    /\ report \in [Proc -> [Component -> Report]]
    /\ before = [p \in Proc |-> before[p]]

\* How far the update of file i by process p is.
Progress(p, i) ==
    LET f == Writes[i].file
        r == report[p][Writes[i].of]
    IN  /\ pc[p] = "fetch" /\ f \notin over => content[f] = before[p][f]
        /\ pc[p] = "apply" =>
              /\ r # "rolled back"
              /\ i \in staged[p] => r = "none" /\ i \notin DOMAIN backups[p]
              /\ r # "failed" => i \in staged[p] \cup DOMAIN backups[p]
              /\ f \notin over =>
                    content[f] = IF i \in DOMAIN backups[p] THEN manifest[p] ELSE before[p][f]
        /\ pc[p] = "restore" =>
              /\ r # "rolled back"
              /\ f \notin over /\ i \notin DOMAIN backups[p] /\ r # "failed" =>
                    content[f] = before[p][f]
        /\ pc[p] \in {"apply", "restore"} /\ f \notin over /\ i \in DOMAIN backups[p] =>
              backups[p][i] = before[p][f]
        /\ pc[p] = "unlock update" /\ f \notin over =>
              /\ r = "applied" => content[f] = manifest[p]
              /\ r = "rolled back" => content[f] = before[p][f]

\* Nothing has been overwritten before the files are written.
NothingKept(p) == pc[p] \notin {"apply", "restore", "unlock update"} => DOMAIN backups[p] = {}

Reports ==
    \A p \in Proc :
        /\ NothingKept(p)
        /\ "update" \notin raced => \A i \in DOMAIN Writes : Progress(p, i)

\* A file is that of one component, and no other entry of Writes is that file.
LEMMA FilesType ==
    ASSUME NEW i \in DOMAIN Writes
    PROVE  /\ Writes[i].file \in File /\ Writes[i].of \in Component
           /\ \A j \in DOMAIN Writes : Writes[j].file = Writes[i].file => i = j
<1>1. /\ Writes \in Seq([file : STRING, of : Component])
      /\ \A j, k \in DOMAIN Writes : Writes[j].file = Writes[k].file => j = k
  BY UpdateAssumption
<1>2. Writes[i] \in [file : STRING, of : Component]
  <2>1. \A S, w : w \in Seq(S) => \A j \in DOMAIN w : w[j] \in S
    OBVIOUS
  <2> QED  BY <1>1, <2>1
<1>3. Writes[i].of \in Component
  BY <1>2
<1>4. Writes[i].file \in File
  BY DEF File
<1> QED  BY <1>1, <1>3, <1>4

\* The command of a process that ends forgets what it knew of the files.
LEMMA ForgetType ==
    ASSUME UpdateType, NEW p \in Proc, Forget(p)
    PROVE  /\ manifest' = [u \in Proc |-> manifest'[u]]
           /\ staged' \in [Proc -> SUBSET DOMAIN Writes]
           /\ backups' = [u \in Proc |-> backups'[u]]
           /\ \A u \in Proc : DOMAIN backups'[u] \subseteq DOMAIN Writes
           /\ report' \in [Proc -> [Component -> Report]]
           /\ before' = [u \in Proc |-> before'[u]]
           /\ DOMAIN backups'[p] = {}
<1>1. Nothing \in [Component -> Report] /\ DOMAIN NoBackup = {}
  BY DEF Nothing, NoBackup, Report
<1> QED  BY <1>1 DEF Forget, UpdateType

\* What a process does to a file it writes or restores.
LEMMA WriteStep ==
    ASSUME UpdateType, NEW p \in Proc, WriteFile(p)
    PROVE  \E i \in NextWrite(p) :
              /\ content' = [content EXCEPT ![Writes[i].file] = manifest[p]]
              /\ backups' = [u \in Proc |-> backups'[u]]
              /\ DOMAIN backups'[p] = DOMAIN backups[p] \cup {i}
              /\ \A j \in DOMAIN backups[p] \ {i} : backups'[p][j] = backups[p][j]
              /\ backups'[p][i] = content[Writes[i].file]
              /\ \A u \in Proc \ {p} : backups'[u] = backups[u]
              /\ staged' = [staged EXCEPT ![p] = @ \ {i}]
              /\ report' = IF \E j \in staged[p] \ {i} : Writes[j].of = Writes[i].of
                           THEN report
                           ELSE [report EXCEPT ![p][Writes[i].of] = "applied"]
<1>1. PICK i \in NextWrite(p) :
          /\ content' = [content EXCEPT ![Writes[i].file] = manifest[p]]
          /\ backups' = [backups EXCEPT ![p] =
                [j \in DOMAIN backups[p] \cup {i} |->
                    IF j = i THEN content[Writes[i].file] ELSE backups[p][j]]]
          /\ staged' = [staged EXCEPT ![p] = @ \ {i}]
          /\ report' = IF \E j \in staged[p] \ {i} : Writes[j].of = Writes[i].of
                       THEN report
                       ELSE [report EXCEPT ![p][Writes[i].of] = "applied"]
  BY DEF WriteFile, UpdateType
<1>2. /\ backups' = [u \in Proc |-> backups'[u]]
      /\ \A u \in Proc \ {p} : backups'[u] = backups[u]
      /\ backups'[p] = [j \in DOMAIN backups[p] \cup {i} |->
                          IF j = i THEN content[Writes[i].file] ELSE backups[p][j]]
  BY <1>1 DEF UpdateType
<1> QED  BY <1>1, <1>2

LEMMA RestoreStep ==
    ASSUME UpdateType, NEW p \in Proc, Restore(p)
    PROVE  \E i \in NextRestore(p) :
              /\ \/ /\ content' = [content EXCEPT ![Writes[i].file] = backups[p][i]]
                    /\ report' = report
                 \/ /\ \E v : content' = [content EXCEPT ![Writes[i].file] = v]
                    /\ report' = [report EXCEPT ![p][Writes[i].of] = "failed"]
              /\ backups' = [u \in Proc |-> backups'[u]]
              /\ DOMAIN backups'[p] = DOMAIN backups[p] \ {i}
              /\ \A j \in DOMAIN backups[p] \ {i} : backups'[p][j] = backups[p][j]
              /\ \A u \in Proc \ {p} : backups'[u] = backups[u]
<1>1. PICK i \in NextRestore(p) :
          /\ \/ /\ content' = [content EXCEPT ![Writes[i].file] = backups[p][i]]
                /\ report' = report
             \/ /\ \E v : content' = [content EXCEPT ![Writes[i].file] = v]
                /\ report' = [report EXCEPT ![p][Writes[i].of] = "failed"]
          /\ backups' = [backups EXCEPT ![p] =
                [j \in DOMAIN backups[p] \ {i} |-> backups[p][j]]]
  <2>1. PICK i \in NextRestore(p) :
          /\ \/ /\ content' = [content EXCEPT ![Writes[i].file] = backups[p][i]]
                /\ UNCHANGED <<report, faults>>
             \/ /\ Fault
                /\ \E v \in {content[Writes[i].file], Torn} :
                      content' = [content EXCEPT ![Writes[i].file] = v]
                /\ report' = [report EXCEPT ![p][Writes[i].of] = "failed"]
          /\ backups' = [backups EXCEPT ![p] =
                [j \in DOMAIN backups[p] \ {i} |-> backups[p][j]]]
    BY DEF Restore, UpdateType
  <2> QED  BY <2>1
<1>2. /\ backups' = [u \in Proc |-> backups'[u]]
      /\ \A u \in Proc \ {p} : backups'[u] = backups[u]
      /\ backups'[p] = [j \in DOMAIN backups[p] \ {i} |-> backups[p][j]]
  BY <1>1 DEF UpdateType
<1> QED  BY <1>1, <1>2

\* The report of one component changes.
LEMMA ReportType ==
    ASSUME UpdateType, NEW p \in Proc, NEW c, NEW r \in Report,
           report' = report \/ report' = [report EXCEPT ![p][c] = r]
    PROVE  report' \in [Proc -> [Component -> Report]]
<1>1. report \in [Proc -> [Component -> Report]]
  BY DEF UpdateType
<1>2. CASE report' = [report EXCEPT ![p][c] = r]
  <2>1. report[p] \in [Component -> Report]
    BY <1>1
  <2>2. [report[p] EXCEPT ![c] = r] \in [Component -> Report]
    BY <2>1
  <2>3. report' = [report EXCEPT ![p] = [report[p] EXCEPT ![c] = r]]
    BY <1>1, <1>2
  <2> QED  BY <1>1, <2>2, <2>3
<1> QED  BY <1>1, <1>2

LEMMA UpdateTypeStep == ASSUME UpdateType, [Next]_vars PROVE UpdateType'
<1>1. CASE UNCHANGED vars \/ Publish \/ \E l \in Lock : Age(l)
  BY <1>1 DEF vars, Publish, Age, locals, UpdateType
<1>2. ASSUME NEW p \in Proc, Start(p) PROVE UpdateType'
  BY <1>2 DEF Start, UpdateType
<1>3. ASSUME NEW p \in Proc, Install(p) \/ Crash(p) PROVE UpdateType'
  <2>1. content' = [f \in File |-> content'[f]]
    BY <1>3 DEF Install, Crash, UpdateType
  <2>2. Forget(p) \/ UNCHANGED locals
    BY <1>3 DEF Install, Crash
  <2> QED  BY <2>1, <2>2, ForgetType DEF UpdateType, locals
<1>4. ASSUME NEW p \in Proc, NEW l \in Lock, Create(p, l) \/ Find(p, l) \/ Recover(p, l)
      PROVE  UpdateType'
  BY <1>4 DEF Create, Find, Recover, UpdateType
<1>5. ASSUME NEW p \in Proc, NEW l \in Lock, Unlock(p, l) \/ GiveUp(p, l) PROVE UpdateType'
  BY <1>5, ForgetType DEF Unlock, GiveUp, UpdateType
<1>6. ASSUME NEW p \in Proc, Fetch(p) PROVE UpdateType'
  <2>1. PICK S \in SUBSET Component :
          /\ staged' = [staged EXCEPT ![p] = {i \in DOMAIN Writes : Writes[i].of \in S}]
          /\ report' = [report EXCEPT ![p] = [c \in Component |-> IF c \in S THEN "none" ELSE "failed"]]
    BY <1>6 DEF Fetch
  <2>2. [c \in Component |-> IF c \in S THEN "none" ELSE "failed"] \in [Component -> Report]
    BY DEF Report
  <2> QED  BY <1>6, <2>1, <2>2 DEF Fetch, UpdateType
<1>7. ASSUME NEW p \in Proc, WriteFile(p) PROVE UpdateType'
  <2>1. PICK i \in NextWrite(p) :
          /\ content' = [content EXCEPT ![Writes[i].file] = manifest[p]]
          /\ backups' = [u \in Proc |-> backups'[u]]
          /\ DOMAIN backups'[p] = DOMAIN backups[p] \cup {i}
          /\ \A u \in Proc \ {p} : backups'[u] = backups[u]
          /\ staged' = [staged EXCEPT ![p] = @ \ {i}]
          /\ report' = report \/ report' = [report EXCEPT ![p][Writes[i].of] = "applied"]
    BY <1>7, WriteStep
  <2>2. i \in DOMAIN Writes
    BY DEF NextWrite, UpdateType
  <2>3. report' \in [Proc -> [Component -> Report]]
    BY <2>1, ReportType DEF Report
  <2>4. /\ content' = [f \in File |-> content'[f]]
        /\ staged' \in [Proc -> SUBSET DOMAIN Writes]
        /\ \A u \in Proc : DOMAIN backups'[u] \subseteq DOMAIN Writes
    BY <2>1, <2>2 DEF UpdateType
  <2> QED  BY <1>7, <2>1, <2>3, <2>4 DEF WriteFile, UpdateType
<1>8. ASSUME NEW p \in Proc, FailToWrite(p) PROVE UpdateType'
  <2>1. PICK i \in NextWrite(p) :
          /\ \E v \in {content[Writes[i].file], Torn} :
                content' = [content EXCEPT ![Writes[i].file] = v]
          /\ report' = [report EXCEPT ![p][Writes[i].of] = "failed"]
    BY <1>8 DEF FailToWrite
  <2>2. report' \in [Proc -> [Component -> Report]]
    BY <2>1, ReportType DEF Report
  <2>3. content' = [f \in File |-> content'[f]]
    BY <2>1 DEF UpdateType
  <2> QED  BY <1>8, <2>2, <2>3 DEF FailToWrite, UpdateType
<1>11. ASSUME NEW p \in Proc, Restore(p) PROVE UpdateType'
  <2>1. PICK i \in NextRestore(p) :
          /\ \E v : content' = [content EXCEPT ![Writes[i].file] = v]
          /\ report' = report \/ report' = [report EXCEPT ![p][Writes[i].of] = "failed"]
          /\ backups' = [u \in Proc |-> backups'[u]]
          /\ DOMAIN backups'[p] = DOMAIN backups[p] \ {i}
          /\ \A u \in Proc \ {p} : backups'[u] = backups[u]
    BY <1>11, RestoreStep
  <2>2. report' \in [Proc -> [Component -> Report]]
    BY <2>1, ReportType DEF Report
  <2>3. /\ content' = [f \in File |-> content'[f]]
        /\ \A u \in Proc : DOMAIN backups'[u] \subseteq DOMAIN Writes
    BY <2>1 DEF UpdateType
  <2> QED  BY <1>11, <2>1, <2>2, <2>3 DEF Restore, UpdateType
<1>9. ASSUME NEW p \in Proc, Applied(p) PROVE UpdateType'
  <2>1. \A r \in Report : RolledBack(r) \in Report
    BY DEF RolledBack, Report
  <2>2. CASE report' = [report EXCEPT ![p] = [c \in Component |-> RolledBack(report[p][c])]]
    <3>1. report[p] \in [Component -> Report]
      BY DEF UpdateType
    <3>2. [c \in Component |-> RolledBack(report[p][c])] \in [Component -> Report]
      BY <2>1, <3>1
    <3>3. report' \in [Proc -> [Component -> Report]]
      BY <2>2, <3>2 DEF UpdateType
    <3> QED  BY <1>9, <3>3 DEF Applied, UpdateType
  <2>3. CASE report' = report
    BY <1>9, <2>3 DEF Applied, UpdateType
  <2> QED  BY <1>9, <2>2, <2>3 DEF Applied
<1>10. ASSUME NEW p \in Proc, Build(p) \/ Save(p) PROVE UpdateType'
  BY <1>10 DEF Build, Save, UpdateType, locals
<1> QED
  BY <1>1, <1>2, <1>3, <1>4, <1>5, <1>6, <1>7, <1>8, <1>9, <1>10, <1>11 DEF Next, Command

\* A process leaves what the others know of the files alone.
LEMMA UpdateFrame ==
    ASSUME UpdateType, NEW u \in Proc, ProcStep(u), NEW p \in Proc \ {u}
    PROVE  /\ manifest'[p] = manifest[p] /\ staged'[p] = staged[p]
           /\ backups'[p] = backups[p] /\ report'[p] = report[p] /\ before'[p] = before[p]
<1> USE DEF UpdateType
<1>1. CASE Start(u)
  BY <1>1 DEF Start
<1>2. ASSUME Forget(u) \/ UNCHANGED locals
      PROVE  /\ manifest'[p] = manifest[p] /\ staged'[p] = staged[p]
             /\ backups'[p] = backups[p] /\ report'[p] = report[p] /\ before'[p] = before[p]
  BY <1>2 DEF Forget, locals
<1>3. ASSUME NEW l \in Lock, Create(u, l) \/ Find(u, l) \/ Recover(u, l)
      PROVE  /\ manifest'[p] = manifest[p] /\ staged'[p] = staged[p]
             /\ backups'[p] = backups[p] /\ report'[p] = report[p] /\ before'[p] = before[p]
  BY <1>3 DEF Create, Find, Recover
<1>4. CASE Fetch(u) \/ Applied(u)
  BY <1>4 DEF Fetch, Applied
<1>7. CASE WriteFile(u)
  <2>1. PICK i \in NextWrite(u) :
          /\ \A v \in Proc \ {u} : backups'[v] = backups[v]
          /\ staged' = [staged EXCEPT ![u] = @ \ {i}]
          /\ report' = report \/ report' = [report EXCEPT ![u][Writes[i].of] = "applied"]
    BY <1>7, WriteStep
  <2> QED  BY <1>7, <2>1 DEF WriteFile
<1>8. CASE FailToWrite(u)
  BY <1>8 DEF FailToWrite
<1>9. CASE Restore(u)
  <2>1. PICK i \in NextRestore(u) :
          /\ \A v \in Proc \ {u} : backups'[v] = backups[v]
          /\ report' = report \/ report' = [report EXCEPT ![u][Writes[i].of] = "failed"]
    BY <1>9, RestoreStep
  <2> QED  BY <1>9, <2>1 DEF Restore
<1>5. CASE Build(u) \/ Save(u)
  BY <1>5 DEF Build, Save, locals
<1>6. CASE Install(u) \/ Crash(u) \/ \E l \in Lock : Unlock(u, l) \/ GiveUp(u, l)
  BY <1>2, <1>6 DEF Install, Crash, Unlock, GiveUp
<1> QED
  BY <1>1, <1>3, <1>4, <1>5, <1>6, <1>7, <1>8, <1>9 DEF ProcStep, Command

\* While a process holds the update lock the others only install.
LEMMA ForeignStep ==
    ASSUME Inv, UpdateType, NEW p \in Proc, pc[p] \in Held("update"), "update" \notin raced,
           NEW u \in Proc \ {p}, ProcStep(u)
    PROVE  \A f \in File : f \notin over' => f \notin over /\ content'[f] = content[f]
<1>1. lock["update"] = Mine(p) /\ pc[u] \notin Held("update") /\ lock["update"] # NoLock
  <2>1. "update" \in Lock /\ \A v \in Proc : pc[v] \in Held("update") => lock["update"] = Mine(v)
    BY DEF Inv, Owned, Lock
  <2> QED  BY <2>1, MineInjective, MineNotDead DEF Inv
<1>2. CASE Install(u)
  <2>1. over \subseteq over' /\ (SkillsAreBundled => ToInstall \subseteq over')
    BY <1>2 DEF Install
  <2>2. \A f \in File : content'[f] # content[f] => SkillsAreBundled /\ f \in ToInstall
    BY <1>2 DEF Install, UpdateType
  <2> QED  BY <2>1, <2>2
<1>3. CASE Crash(u)
  <2>1. over \subseteq over' /\ (pc[u] = "install" => Writing(u) \subseteq over')
    BY <1>3 DEF Crash
  <2>2. pc[u] # "install" => Writing(u) = {}
    BY <1>1 DEF Writing, Held
  <2>3. \A f \in File : content'[f] # content[f] => f \in Writing(u)
    BY <1>3 DEF Crash, UpdateType
  <2> QED  BY <2>1, <2>2, <2>3
<1>4. CASE Fetch(u) \/ WriteFile(u) \/ FailToWrite(u) \/ Restore(u) \/ Applied(u)
  BY <1>1, <1>4 DEF Fetch, WriteFile, FailToWrite, Restore, Applied, Held
<1>5. ASSUME NEW l \in Lock, Create(u, l) PROVE UNCHANGED <<content, over>>
  BY <1>1, <1>5 DEF Create, Lock
<1>6. CASE \/ Start(u) \/ Build(u) \/ Save(u)
           \/ \E l \in Lock : Find(u, l) \/ Recover(u, l) \/ Unlock(u, l) \/ GiveUp(u, l)
  BY <1>6 DEF Start, Build, Save, Find, Recover, Unlock, GiveUp
<1> QED
  BY <1>2, <1>3, <1>4, <1>5, <1>6 DEF ProcStep, Command

LEMMA ReportsInit == ASSUME Init PROVE UpdateType /\ Reports
<1>1. UpdateType
  BY DEF Init, UpdateType, Nothing, NoBackup, Report
<1>2. \A p \in Proc : pc[p] = "idle" /\ DOMAIN backups[p] = {}
  BY DEF Init, NoBackup
<1> QED  BY <1>1, <1>2 DEF Reports, NothingKept, Progress

\* Away from the update lock there is nothing to say.
LEMMA Elsewhere ==
    ASSUME NEW p \in Proc, pc'[p] \notin Held("update"), DOMAIN backups'[p] = {}
    PROVE  NothingKept(p)' /\ \A i \in DOMAIN Writes : Progress(p, i)'
  BY DEF NothingKept, Progress, Held

LEMMA WriteReports ==
    ASSUME ProcType, UpdateType, NEW p \in Proc, WriteFile(p), NEW i \in DOMAIN Writes,
           \A j \in DOMAIN Writes : Progress(p, j)
    PROVE  Progress(p, i)'
<1>1. PICK k \in NextWrite(p) :
          /\ content' = [content EXCEPT ![Writes[k].file] = manifest[p]]
          /\ DOMAIN backups'[p] = DOMAIN backups[p] \cup {k}
          /\ \A j \in DOMAIN backups[p] \ {k} : backups'[p][j] = backups[p][j]
          /\ backups'[p][k] = content[Writes[k].file]
          /\ staged' = [staged EXCEPT ![p] = @ \ {k}]
          /\ report' = IF \E j \in staged[p] \ {k} : Writes[j].of = Writes[k].of
                       THEN report
                       ELSE [report EXCEPT ![p][Writes[k].of] = "applied"]
  BY WriteStep
<1>2. /\ k \in DOMAIN Writes /\ k \in staged[p] /\ staged'[p] = staged[p] \ {k}
      /\ Progress(p, k) /\ Progress(p, i)
  BY <1>1 DEF NextWrite, UpdateType
<1>3. pc[p] = "apply" /\ pc' = pc /\ manifest' = manifest /\ over' = over /\ before' = before
  BY DEF WriteFile, locks
<1>4. /\ report[p][Writes[k].of] = "none" /\ k \notin DOMAIN backups[p]
      /\ Writes[k].file \notin over => content[Writes[k].file] = before[p][Writes[k].file]
  BY <1>2, <1>3 DEF Progress
<1>5. /\ Writes[k].of \in Component /\ Writes[k].file \in File
      /\ Writes[i].of \in Component /\ Writes[i].file \in File
  BY <1>2, FilesType
<1>6. content'[Writes[k].file] = manifest[p]
  BY <1>1, <1>5 DEF UpdateType
<1>7. \A c \in Component : report'[p][c] = report[p][c] \/ (c = Writes[k].of /\ report'[p][c] = "applied")
  BY <1>1, <1>5 DEF UpdateType
<1>8. CASE i = k
  <2>1. report'[p][Writes[i].of] \in {"none", "applied"}
    BY <1>4, <1>5, <1>7, <1>8
  <2> QED  BY <1>1, <1>2, <1>3, <1>4, <1>6, <1>8, <2>1 DEF Progress
<1>9. CASE i # k
  <2>1. content'[Writes[i].file] = content[Writes[i].file]
    <3>1. Writes[i].file # Writes[k].file
      BY <1>2, <1>9, FilesType
    <3> QED  BY <1>1, <1>5, <3>1 DEF UpdateType
  <2>2. /\ i \in staged'[p] <=> i \in staged[p]
        /\ i \in DOMAIN backups'[p] <=> i \in DOMAIN backups[p]
        /\ i \in DOMAIN backups[p] => backups'[p][i] = backups[p][i]
    BY <1>1, <1>2, <1>9
  <2>3. \/ report'[p][Writes[i].of] = report[p][Writes[i].of]
        \/ /\ report'[p][Writes[i].of] = "applied" /\ report[p][Writes[i].of] = "none"
           /\ i \notin staged[p]
    <3>1. CASE \E j \in staged[p] \ {k} : Writes[j].of = Writes[k].of
      BY <1>1, <3>1
    <3>2. CASE ~\E j \in staged[p] \ {k} : Writes[j].of = Writes[k].of
      <4>1. Writes[i].of = Writes[k].of => i \notin staged[p]
        BY <1>9, <3>2
      <4> QED  BY <1>4, <1>5, <1>7, <4>1
    <3> QED  BY <3>1, <3>2
  <2> QED  BY <1>2, <1>3, <2>1, <2>2, <2>3 DEF Progress
<1> QED  BY <1>8, <1>9

LEMMA FailReports ==
    ASSUME ProcType, UpdateType, NEW p \in Proc, FailToWrite(p), NEW i \in DOMAIN Writes,
           Progress(p, i)
    PROVE  Progress(p, i)'
<1>1. PICK k \in NextWrite(p) :
          /\ \E v \in {content[Writes[k].file], Torn} :
                content' = [content EXCEPT ![Writes[k].file] = v]
          /\ report' = [report EXCEPT ![p][Writes[k].of] = "failed"]
  BY DEF FailToWrite
<1>2. k \in DOMAIN Writes
  BY DEF NextWrite, UpdateType
<1>3. /\ pc[p] = "apply" /\ pc'[p] = "restore"
      /\ backups' = backups /\ over' = over /\ before' = before
  BY DEF FailToWrite, ProcType, Goto
<1>4. /\ Writes[k].of \in Component /\ Writes[k].file \in File
      /\ Writes[i].of \in Component /\ Writes[i].file \in File
  BY <1>2, FilesType
<1>5. CASE Writes[i].of = Writes[k].of
  <2>1. report'[p][Writes[i].of] = "failed"
    BY <1>1, <1>4, <1>5 DEF UpdateType
  <2> QED  BY <1>3, <2>1 DEF Progress
<1>6. CASE Writes[i].of # Writes[k].of
  <2>1. report'[p][Writes[i].of] = report[p][Writes[i].of]
    BY <1>1, <1>4, <1>6 DEF UpdateType
  <2>2. Writes[i].file # Writes[k].file
    BY <1>2, <1>6, FilesType
  <2>3. content'[Writes[i].file] = content[Writes[i].file]
    BY <1>1, <1>4, <2>2 DEF UpdateType
  <2> QED  BY <1>3, <2>1, <2>3 DEF Progress
<1> QED  BY <1>5, <1>6

LEMMA RestoreReports ==
    ASSUME ProcType, UpdateType, NEW p \in Proc, Restore(p), NEW i \in DOMAIN Writes,
           \A j \in DOMAIN Writes : Progress(p, j)
    PROVE  Progress(p, i)'
<1>1. PICK k \in NextRestore(p) :
          /\ \/ /\ content' = [content EXCEPT ![Writes[k].file] = backups[p][k]]
                /\ report' = report
             \/ /\ \E v : content' = [content EXCEPT ![Writes[k].file] = v]
                /\ report' = [report EXCEPT ![p][Writes[k].of] = "failed"]
          /\ DOMAIN backups'[p] = DOMAIN backups[p] \ {k}
          /\ \A j \in DOMAIN backups[p] \ {k} : backups'[p][j] = backups[p][j]
  BY RestoreStep
<1>2. k \in DOMAIN Writes /\ k \in DOMAIN backups[p] /\ Progress(p, k) /\ Progress(p, i)
  BY <1>1 DEF NextRestore, UpdateType
<1>3. pc[p] = "restore" /\ pc' = pc /\ over' = over /\ before' = before
  BY DEF Restore, locks
<1>4. /\ Writes[k].of \in Component /\ Writes[k].file \in File
      /\ Writes[i].of \in Component /\ Writes[i].file \in File
  BY <1>2, FilesType
<1>5. \A c \in Component : report'[p][c] = report[p][c] \/ report'[p][c] = "failed"
  BY <1>1, <1>4 DEF UpdateType
<1>6. CASE i = k
  <2>1. \/ content'[Writes[k].file] = backups[p][k]
        \/ report'[p][Writes[k].of] = "failed"
    BY <1>1, <1>4 DEF UpdateType
  <2>2. Writes[k].file \notin over => backups[p][k] = before[p][Writes[k].file]
    BY <1>2, <1>3 DEF Progress
  <2>3. i \notin DOMAIN backups'[p] /\ report[p][Writes[i].of] # "rolled back"
    BY <1>1, <1>2, <1>3, <1>6 DEF Progress
  <2> QED  BY <1>3, <1>4, <1>5, <1>6, <2>1, <2>2, <2>3 DEF Progress
<1>7. CASE i # k
  <2>1. Writes[i].file # Writes[k].file
    BY <1>2, <1>7, FilesType
  <2>2. content'[Writes[i].file] = content[Writes[i].file]
    BY <1>1, <1>4, <2>1 DEF UpdateType
  <2>3. /\ i \in DOMAIN backups'[p] <=> i \in DOMAIN backups[p]
        /\ i \in DOMAIN backups[p] => backups'[p][i] = backups[p][i]
    BY <1>1, <1>7
  <2> QED  BY <1>2, <1>3, <1>4, <1>5, <2>2, <2>3 DEF Progress
<1> QED  BY <1>6, <1>7

\* The step that ends the update makes its reports final.
LEMMA AppliedReports ==
    ASSUME ProcType, UpdateType, NEW p \in Proc, Applied(p), NEW i \in DOMAIN Writes,
           Progress(p, i)
    PROVE  Progress(p, i)'
<1>1. /\ pc'[p] = "unlock update" /\ content' = content /\ manifest' = manifest
      /\ over' = over /\ before' = before
  BY DEF Applied, ProcType, Goto, locks
<1>2. CASE pc[p] = "apply" /\ staged[p] = {} /\ report' = report
  BY <1>1, <1>2 DEF Progress
<1>3. CASE /\ pc[p] = "restore" /\ DOMAIN backups[p] = {}
           /\ report' = [report EXCEPT ![p] = [c \in Component |-> RolledBack(report[p][c])]]
  <2>1. report'[p][Writes[i].of] = RolledBack(report[p][Writes[i].of])
    BY <1>3, FilesType DEF UpdateType
  <2> QED  BY <1>1, <1>3, <2>1 DEF Progress, RolledBack
<1> QED  BY <1>2, <1>3 DEF Applied

\* A step of a process keeps its own reports true.
LEMMA OwnReports ==
    ASSUME ProcType, UpdateType, Reports, NEW p \in Proc, ProcStep(p)
    PROVE  NothingKept(p)' /\ ("update" \notin raced' => \A i \in DOMAIN Writes : Progress(p, i)')
<1> USE DEF ProcType, Goto
<1>0. /\ NothingKept(p)
      /\ "update" \notin raced' => \A i \in DOMAIN Writes : Progress(p, i)
  BY HistoryGrows DEF Reports
<1>1. CASE Start(p)
  <2>1. pc'[p] \notin Held("update") /\ backups' = backups /\ DOMAIN backups[p] = {}
    BY <1>0, <1>1 DEF Start, Held, Reconciled, NothingKept
  <2> QED  BY <2>1, Elsewhere
<1>2. CASE Install(p)
  <2>1. pc'[p] \notin Held("update") /\ pc[p] = "install" /\ (Forget(p) \/ UNCHANGED locals)
    BY <1>2 DEF Install, Held, Reconciled
  <2>2. DOMAIN backups'[p] = {}
    BY <1>0, <2>1, ForgetType DEF NothingKept, locals
  <2> QED  BY <2>1, <2>2, Elsewhere
<1>3. CASE Crash(p) \/ \E l \in Lock : Unlock(p, l) \/ GiveUp(p, l)
  <2>1. pc'[p] \notin Held("update") /\ Forget(p)
    BY <1>3 DEF Crash, Unlock, GiveUp, Held, Afterwards
  <2> QED  BY <2>1, ForgetType, Elsewhere
<1>4. ASSUME NEW l \in Lock, Find(p, l) \/ Recover(p, l)
      PROVE  NothingKept(p)' /\ \A i \in DOMAIN Writes : Progress(p, i)'
  <2>1. /\ pc'[p] \notin Held("update") /\ backups' = backups
        /\ pc[p] \notin {"apply", "restore", "unlock update"}
    BY <1>4 DEF Find, Recover, Held, Locking, Recovering
  <2> QED  BY <1>0, <2>1, Elsewhere DEF NothingKept
<1>5. ASSUME NEW l \in Lock, Create(p, l)
      PROVE  NothingKept(p)' /\ \A i \in DOMAIN Writes : Progress(p, i)'
  <2>1. backups' = backups /\ pc[p] \notin {"apply", "restore", "unlock update"} /\ DOMAIN backups[p] = {}
    BY <1>0, <1>5 DEF Create, Locking, NothingKept
  <2>2. CASE l = "update"
    <3>1. pc'[p] = "fetch" /\ content' = content /\ before'[p] = content
      BY <1>5, <2>2 DEF Create, Locked, UpdateType
    <3> QED  BY <2>1, <3>1 DEF NothingKept, Progress
  <2>3. CASE l # "update"
    <3>1. pc'[p] \notin Held("update")
      BY <1>5, <2>3 DEF Create, Locked, Held
    <3> QED  BY <2>1, <3>1, Elsewhere
  <2> QED  BY <2>2, <2>3
<1>6. CASE Fetch(p)
  <2>1. PICK S \in SUBSET Component :
          /\ staged'[p] = {i \in DOMAIN Writes : Writes[i].of \in S}
          /\ report'[p] = [c \in Component |-> IF c \in S THEN "none" ELSE "failed"]
    BY <1>6 DEF Fetch, UpdateType
  <2>2. /\ pc[p] = "fetch" /\ pc'[p] = "apply" /\ content' = content /\ backups' = backups
        /\ before' = before /\ over' = over /\ DOMAIN backups[p] = {}
    BY <1>0, <1>6 DEF Fetch, NothingKept
  <2>3. ASSUME NEW i \in DOMAIN Writes, Progress(p, i) PROVE Progress(p, i)'
    <3>1. report'[p][Writes[i].of] = IF Writes[i].of \in S THEN "none" ELSE "failed"
      BY <2>1, FilesType
    <3>2. i \in staged'[p] <=> Writes[i].of \in S
      BY <2>1
    <3> QED  BY <2>2, <2>3, <3>1, <3>2 DEF Progress
  <2> QED  BY <1>0, <2>2, <2>3 DEF NothingKept
<1>7. CASE WriteFile(p)
  <2>1. NothingKept(p)'
    BY <1>7 DEF WriteFile, NothingKept
  <2> QED  BY <1>0, <1>7, <2>1, WriteReports
<1>8. CASE FailToWrite(p)
  <2>1. NothingKept(p)'
    BY <1>8 DEF FailToWrite, NothingKept
  <2> QED  BY <1>0, <1>8, <2>1, FailReports
<1>9. CASE Restore(p)
  <2>1. NothingKept(p)'
    BY <1>9 DEF Restore, NothingKept
  <2> QED  BY <1>0, <1>9, <2>1, RestoreReports
<1>10. CASE Applied(p)
  <2>1. NothingKept(p)'
    BY <1>10 DEF Applied, NothingKept
  <2> QED  BY <1>0, <1>10, <2>1, AppliedReports
<1>11. CASE Build(p) \/ Save(p)
  <2>1. /\ pc'[p] \notin Held("update") /\ backups' = backups
        /\ pc[p] \notin {"apply", "restore", "unlock update"}
    BY <1>11 DEF Build, Save, Held, locals
  <2> QED  BY <1>0, <2>1, Elsewhere DEF NothingKept
<1> QED
  BY <1>1, <1>2, <1>3, <1>4, <1>5, <1>6, <1>7, <1>8, <1>9, <1>10, <1>11 DEF ProcStep, Command

\* A step of another process leaves them true.
LEMMA OtherReports ==
    ASSUME Inv, UpdateType, Reports, NEW u \in Proc, ProcStep(u), NEW p \in Proc \ {u}
    PROVE  NothingKept(p)' /\ ("update" \notin raced' => \A i \in DOMAIN Writes : Progress(p, i)')
<1>1. /\ pc'[p] = pc[p] /\ manifest'[p] = manifest[p] /\ staged'[p] = staged[p]
      /\ backups'[p] = backups[p] /\ report'[p] = report[p] /\ before'[p] = before[p]
  BY Frame, UpdateFrame DEF Inv
<1>2. NothingKept(p)'
  BY <1>1 DEF Reports, NothingKept
<1>3. ASSUME "update" \notin raced', NEW i \in DOMAIN Writes PROVE Progress(p, i)'
  <2>1. "update" \notin raced /\ Progress(p, i)
    BY <1>3, HistoryGrows DEF Reports
  <2>2. CASE pc[p] \notin Held("update")
    BY <1>1, <2>2 DEF Progress, Held
  <2>3. CASE pc[p] \in Held("update")
    <3>1. Writes[i].file \notin over' =>
             Writes[i].file \notin over /\ content'[Writes[i].file] = content[Writes[i].file]
      BY <2>1, <2>3, ForeignStep, FilesType
    <3> QED  BY <1>1, <2>1, <3>1 DEF Progress
  <2> QED  BY <2>2, <2>3
<1> QED  BY <1>2, <1>3

LEMMA ReportsStep == ASSUME Inv, UpdateType, Reports, [Next]_vars PROVE Reports'
<1>1. CASE UNCHANGED vars \/ Publish \/ \E l \in Lock : Age(l)
  <2>1. /\ pc' = pc /\ content' = content /\ over' = over /\ raced' = raced
        /\ UNCHANGED <<manifest, staged, backups, report, before>>
    BY <1>1 DEF vars, Publish, Age, locals, locks
  <2>2. ASSUME NEW p \in Proc PROVE NothingKept(p)'
    BY <2>1 DEF Reports, NothingKept
  <2>3. ASSUME NEW p \in Proc, "update" \notin raced', NEW i \in DOMAIN Writes
        PROVE  Progress(p, i)'
    <3>1. Progress(p, i)
      BY <2>1, <2>3 DEF Reports
    <3> QED  BY <2>1, <3>1 DEF Progress
  <2> QED  BY <2>2, <2>3 DEF Reports
<1>2. ASSUME NEW u \in Proc, ProcStep(u) PROVE Reports'
  <2>1. ASSUME NEW p \in Proc
        PROVE  NothingKept(p)' /\ ("update" \notin raced' => \A i \in DOMAIN Writes : Progress(p, i)')
    <3>1. CASE p = u
      BY <1>2, <3>1, OwnReports DEF Inv
    <3>2. CASE p # u
      BY <1>2, <3>2, OtherReports
    <3> QED  BY <3>1, <3>2
  <2> QED  BY <2>1 DEF Reports
<1> QED  BY <1>1, <1>2 DEF Next, ProcStep

LEMMA InvCorrect == Spec => []Inv
<1>1. Init => Inv
  <2> SUFFICES ASSUME Init PROVE Inv
    OBVIOUS
  <2>1. ProcType /\ LockType
    BY DEF Init, ProcType, LockType, Label
  <2>2. \A l \in Lock : Owned(l)
    BY DEF Init, Owned, Recovering, Held
  <2>3. Recorded
    BY DEF Init, Recorded
  <2> QED  BY <2>1, <2>2, <2>3 DEF Inv
<1>2. Inv /\ [Next]_vars => Inv'
  <2> SUFFICES ASSUME Inv, [Next]_vars PROVE Inv'
    OBVIOUS
  <2>1. ProcType' /\ LockType'
    BY ProcTypeStep DEF Inv
  <2>2. \A l \in Lock : Owned(l)'
    BY OwnedStep DEF Inv
  <2>3. Recorded'
    BY RecordStep DEF Inv, Lock
  <2> QED  BY <2>1, <2>2, <2>3 DEF Inv, Lock
<1> QED  BY <1>1, <1>2, PTL DEF Spec

-----------------------------------------------------------------------------
(* The theorems                                                            *)

\* Of any number of processes at most one is at work under a lock file, whatever
\* crashes and recoveries of stale files came before, as long as only files that
\* were found stale are removed by others than their owners.
THEOREM HolderCorrect == Spec => []OneHolder
<1>1. Inv => OneHolder
  <2> SUFFICES ASSUME Inv, NEW l \in Lock \ raced, NEW p \in Proc, NEW q \in Proc,
                      Holds(p, l), Holds(q, l)
               PROVE  p = q
    BY DEF OneHolder
  <2>1. lock[l] = Mine(p) /\ lock[l] = Mine(q)
    BY DEF Inv, Owned, Holds, Held
  <2> QED  BY <2>1, MineInjective
<1> QED  BY <1>1, InvCorrect, PTL

\* The managed install state is of the files as they are whenever no command has
\* still to record its changes, unless one ended without recording.
THEOREM RecordCorrect == Spec => []RecordIsCurrent
<1>1. Inv => RecordIsCurrent
  BY DEF Inv, Recorded, RecordIsCurrent, Unrecorded
<1> QED  BY <1>1, InvCorrect, PTL

\* What an update reports when it lets go of the lock is so, for any number of
\* processes, components and files, whatever fails or dies: an applied component
\* has the version the process was told of, one that was rolled back is as it was.
THEOREM ReportCorrect == Spec => []ReportIsTrue
<1>1. UpdateType /\ Inv /\ Reports => ReportIsTrue
  <2> SUFFICES ASSUME UpdateType, Reports, NEW p \in Proc, NEW i \in DOMAIN Writes,
                      pc[p] = "unlock update", "update" \notin raced, Writes[i].file \notin over
               PROVE  /\ report[p][Writes[i].of] = "applied" => content[Writes[i].file] = manifest[p]
                      /\ report[p][Writes[i].of] = "rolled back" =>
                            content[Writes[i].file] = before[p][Writes[i].file]
    BY DEF ReportIsTrue
  <2> QED  BY DEF Reports, Progress
<1>2. Init => UpdateType /\ Reports
  BY ReportsInit
<1>3. UpdateType /\ Inv /\ Reports /\ [Next]_vars => (UpdateType /\ Reports)'
  BY ReportsStep, UpdateTypeStep
<1> QED  BY <1>1, <1>2, <1>3, InvCorrect, PTL DEF Spec

===============================================================================
