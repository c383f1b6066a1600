------------------------------ MODULE JssgProof ------------------------------
(***************************************************************************)
(* For any number of threads, files and keys: locked entries are stable, a *)
(* step saves what its scripts left, a canceled file is not touched, Ok    *)
(* means that no file was left out, and if the changes of the scripts do   *)
(* not collide no text is lost and what was written stays.                 *)
(***************************************************************************)
EXTENDS JssgExecution, SequenceTheorems, TLAPS

-----------------------------------------------------------------------------
(* What a step does to the shared state.                                   *)

\* The shared state changes by a call, a release, the end of a script or the
\* save; everything else at most sets the cancellation flag.
SharedStep ==
    \/ \E t \in Thread : Script(t) \/ Return(t) \/ DropGuards(t)
    \/ Save
    \/ canceled' \in BOOLEAN /\ UNCHANGED <<data, removals, holder, guard, call, seen, stored>>

LEMMA StepsShare ==
    ASSUME SharedTypeOK, [Next]_vars
    PROVE  SharedStep
<1>1. canceled \in BOOLEAN
  BY DEF SharedTypeOK
<1>2. ASSUME UNCHANGED sharedVars PROVE SharedStep
  BY <1>1, <1>2 DEF SharedStep, sharedVars
<1>3. CASE UNCHANGED vars
  BY <1>2, <1>3 DEF vars
<1>4. CASE Step
  <2>1. CASE SaveState
    BY <2>1, <1>2 DEF SaveState, SharedStep
  <2>2. CASE Step /\ ~SaveState
    BY <2>2, <1>2 DEF Step, Register, NotifyWaiters, EndWalk, StopWatchdog, Decide,
                      DeleteOriginals
  <2> QED  BY <1>4, <2>1, <2>2
<1>5. CASE UserCancel
  BY <1>5 DEF UserCancel, Cancel, SharedStep
<1>6. CASE Expire
  BY <1>6, <1>2 DEF Expire
<1>7. ASSUME NEW w \in Thread, Thread1(w) PROVE SharedStep
  <2>1. CASE Abort(w)
    BY <2>1 DEF Abort, SharedStep
  <2>2. CASE Settle(w)
    <3>1. canceled' = canceled \/ canceled' = (canceled \/ result[w] \in {"hook", "init"})
      BY <2>2, Zenon DEF Settle, Counted
    <3>2. (canceled \/ result[w] \in {"hook", "init"}) \in BOOLEAN
      BY <1>1, SMT
    <3>3. canceled' \in BOOLEAN
      BY <1>1, <3>1, <3>2
    <3>4. UNCHANGED <<data, removals, holder, guard, call, seen, stored>>
      BY <2>2, Zenon DEF Settle, Settles
    <3> QED  BY <3>3, <3>4 DEF SharedStep
  <2>3. CASE TakeFile(w) \/ LoadFile(w) \/ Enable(w) \/ CheckFlag(w)
    BY <2>3, <1>2 DEF TakeFile, LoadFile, Enable, CheckFlag
  <2>4. CASE BeginWrite(w) \/ EndWrite(w)
    BY <2>4, <1>2 DEF BeginWrite, EndWrite, WriteEnds
  <2> QED  BY <1>7, <2>1, <2>2, <2>3, <2>4 DEF Thread1
<1>8. ASSUME NEW w \in Thread, UseState(w) \/ EndExecution(w) PROVE SharedStep
  BY <1>8 DEF UseState, EndExecution, SharedStep
<1> QED
  BY <1>3, <1>4, <1>5, <1>6, <1>7, <1>8 DEF Next

-----------------------------------------------------------------------------
(* Types of the shared state.                                              *)

LEMMA SharedTypeStep ==
    ASSUME SharedTypeOK, SharedStep
    PROVE  SharedTypeOK'
<1> USE SentinelAssumption DEF SharedTypeOK
<1>1. ASSUME NEW t \in Thread, NEW k \in StateKey, NEW op,
             data' \in [StateKey -> Entry \cup {Absent}], removals' \subseteq StateKey,
             Access(t, op, k)
      PROVE  SharedTypeOK'
  <2>1. data'[k] \in Entry \cup {Absent}
    BY <1>1
  <2>2. seen' \in [Thread -> [StateKey -> Entry \cup {Absent, Unseen}]]
    <3>1. seen'[t] \in [StateKey -> Entry \cup {Absent, Unseen}]
      BY <1>1, <2>1 DEF Access
    <3> QED  BY <1>1, <3>1 DEF Access
  <2>3. call' \in [Thread -> Call \cup {NoCall}]
    BY <1>1 DEF Access
  <2> QED  BY <1>1, <2>2, <2>3 DEF Access
<1>2. ASSUME NEW t \in Thread, NEW k \in StateKey, Get(t, k) \/ Set(t, k) \/ Unset(t, k)
      PROVE  SharedTypeOK'
  <2>1. data' \in [StateKey -> Entry \cup {Absent}] /\ removals' \subseteq StateKey
    BY <1>2 DEF Get, Set, Unset
  <2> QED  BY <1>1, <1>2, <2>1 DEF Get, Set, Unset
<1>3. ASSUME NEW t \in Thread, NEW k \in StateKey, Acquire(t, k) \/ AcquireAgain(t, k)
      PROVE  SharedTypeOK'
  <2>1. guard' \in [Thread -> SUBSET Guard]
    <3>1. [key |-> k, released |-> TRUE] \in Guard /\ [key |-> k, released |-> FALSE] \in Guard
      BY DEF Guard
    <3>2. CASE Acquire(t, k)
      BY <3>1, <3>2 DEF Acquire
    <3>3. CASE AcquireAgain(t, k)
      BY <3>1, <3>3 DEF AcquireAgain
    <3> QED  BY <1>3, <3>2, <3>3
  <2>2. /\ call' \in [Thread -> Call \cup {NoCall}]
        /\ holder' \in [StateKey -> Thread \cup {NoThread}]
    <3>1. CASE Acquire(t, k)
      BY <3>1 DEF Acquire
    <3>2. CASE AcquireAgain(t, k)
      BY <3>2 DEF AcquireAgain
    <3> QED  BY <1>3, <3>1, <3>2
  <2>3. seen' \in [Thread -> [StateKey -> Entry \cup {Absent, Unseen}]]
    <3>1. CASE Acquire(t, k)
      <4>1. seen'[t] \in [StateKey -> Entry \cup {Absent, Unseen}]
        BY <3>1 DEF Acquire
      <4> QED  BY <3>1, <4>1 DEF Acquire
    <3> QED  BY <1>3, <3>1 DEF AcquireAgain
  <2> QED  BY <1>3, <2>1, <2>2, <2>3 DEF Acquire, AcquireAgain
<1>4. ASSUME NEW t \in Thread, CancelCall(t) PROVE SharedTypeOK'
  BY <1>4 DEF CancelCall
<1>5. ASSUME NEW t \in Thread, NEW c \in Call, Begin(t, c) PROVE SharedTypeOK'
  BY <1>5 DEF Begin
<1>6. ASSUME NEW t \in Thread, NEW g \in guard[t], Release(t, g) PROVE SharedTypeOK'
  <2>1. g \in Guard /\ g.key \in StateKey /\ [g EXCEPT !.released = TRUE] \in Guard
    <3>1. g \in Guard
      OBVIOUS
    <3> QED  BY <3>1, Zenon DEF Guard
  <2>2. guard' \in [Thread -> SUBSET Guard]
    BY <1>6, <2>1 DEF Release
  <2>3. seen' \in [Thread -> [StateKey -> Entry \cup {Absent, Unseen}]]
    <3>1. seen'[t] \in [StateKey -> Entry \cup {Absent, Unseen}]
      BY <1>6, <2>1 DEF Release
    <3> QED  BY <1>6, <3>1 DEF Release
  <2> QED  BY <1>6, <2>1, <2>2, <2>3 DEF Release
<1>7. ASSUME NEW t \in Thread, DropGuards(t) PROVE SharedTypeOK'
  <2>1. seen' \in [Thread -> [StateKey -> Entry \cup {Absent, Unseen}]]
    BY <1>7 DEF DropGuards
  <2>2. guard' \in [Thread -> SUBSET Guard]
    BY <1>7 DEF DropGuards
  <2> QED  BY <1>7, <2>1, <2>2 DEF DropGuards
<1>8. CASE Save
  <2>1. \A k \in StateKey : Diffed(k) \in Value \cup {Absent}
    BY DEF Diffed, Entry
  <2> QED  BY <1>8, <2>1 DEF Save
<1>9. CASE canceled' \in BOOLEAN /\ UNCHANGED <<data, removals, holder, guard, call, seen, stored>>
  BY <1>9
<1> QED
  BY <1>2, <1>3, <1>4, <1>5, <1>6, <1>7, <1>8, <1>9 DEF SharedStep, Script, Return

LEMMA SharedTypeCorrect == Spec => []SharedTypeOK
<1>1. Init => SharedTypeOK
  <2> SUFFICES ASSUME Init PROVE SharedTypeOK
    OBVIOUS
  <2>1. data \in [StateKey -> Entry \cup {Absent}]
    <3>1. \A v \in Value : [value |-> v, persist |-> TRUE] \in Entry
      BY DEF Entry
    <3> QED  BY <3>1 DEF Init, SharedInit
  <2> QED  BY <2>1 DEF Init, SharedInit, SharedTypeOK
<1>2. SharedTypeOK /\ [Next]_vars => SharedTypeOK'
  BY StepsShare, SharedTypeStep
<1> QED  BY <1>1, <1>2, PTL DEF Spec

-----------------------------------------------------------------------------
(* Locks.                                                                  *)

\* Who has a release function that was not called holds the lock, and so does
\* who has seen an entry under it; what was seen is there.
LockInv ==
    /\ \A t \in Thread, k \in StateKey :
          [key |-> k, released |-> FALSE] \in guard[t] => holder[k] = t
    /\ \A t \in Thread, k \in StateKey :
          seen[t][k] # Unseen => holder[k] = t /\ data[k] = seen[t][k]

LEMMA LockStep ==
    ASSUME SharedTypeOK, LockInv, SharedStep
    PROVE  LockInv'
<1> USE SentinelAssumption DEF SharedTypeOK, LockInv
<1>1. ASSUME NEW t \in Thread, NEW k \in StateKey, NEW op,
             data' \in [StateKey -> Entry \cup {Absent}],
             \A j \in StateKey \ {k} : data'[j] = data[j],
             Access(t, op, k)
      PROVE  LockInv'
  <2>1. /\ holder[k] \in {NoThread, t} /\ guard' = guard /\ holder' = holder
        /\ seen' = [seen EXCEPT ![t][k] = IF holder[k] = t THEN data'[k] ELSE Unseen]
    BY <1>1 DEF Access
  <2>2. ASSUME NEW u \in Thread, NEW j \in StateKey, seen'[u][j] # Unseen
        PROVE  holder'[j] = u /\ data'[j] = seen'[u][j]
    <3>1. CASE u = t /\ j = k
      BY <2>1, <2>2, <3>1
    <3>2. CASE u # t /\ j = k
      BY <2>1, <2>2, <3>2
    <3>3. CASE j # k
      BY <1>1, <2>1, <2>2, <3>3
    <3> QED  BY <3>1, <3>2, <3>3
  <2> QED  BY <2>1, <2>2
<1>2. ASSUME NEW t \in Thread, NEW k \in StateKey, Get(t, k) \/ Set(t, k) \/ Unset(t, k)
      PROVE  LockInv'
  <2>1. /\ data' \in [StateKey -> Entry \cup {Absent}]
        /\ \A j \in StateKey \ {k} : data'[j] = data[j]
    <3>1. CASE Get(t, k)
      BY <3>1 DEF Get
    <3>2. CASE Set(t, k)
      BY <3>2 DEF Set
    <3>3. CASE Unset(t, k)
      BY <3>3 DEF Unset
    <3> QED  BY <1>2, <3>1, <3>2, <3>3
  <2> QED  BY <1>1, <1>2, <2>1 DEF Get, Set, Unset
<1>3. ASSUME NEW t \in Thread, NEW k \in StateKey, Acquire(t, k)
      PROVE  LockInv'
  <2>1. ASSUME NEW u \in Thread, NEW j \in StateKey,
               [key |-> j, released |-> FALSE] \in guard'[u]
        PROVE  holder'[j] = u
    <3>1. CASE u = t /\ j = k
      BY <1>3, <3>1 DEF Acquire
    <3>2. CASE ~(u = t /\ j = k)
      <4>1. [key |-> j, released |-> FALSE] \in guard[u]
        BY <1>3, <2>1, <3>2 DEF Acquire
      <4> QED  BY <1>3, <4>1 DEF Acquire
    <3> QED  BY <3>1, <3>2
  <2>2. ASSUME NEW u \in Thread, NEW j \in StateKey, seen'[u][j] # Unseen
        PROVE  holder'[j] = u /\ data'[j] = seen'[u][j]
    <3>1. j # k \/ u # t
      BY <1>3, <2>2 DEF Acquire
    <3>2. seen'[u][j] = seen[u][j]
      BY <1>3, <3>1 DEF Acquire
    <3> QED  BY <1>3, <2>2, <3>2 DEF Acquire
  <2> QED  BY <2>1, <2>2
<1>4. ASSUME NEW t \in Thread, NEW k \in StateKey, AcquireAgain(t, k)
      PROVE  LockInv'
  BY <1>4 DEF AcquireAgain
<1>5. ASSUME NEW t \in Thread, CancelCall(t) \/ \E c \in Call : Begin(t, c) PROVE LockInv'
  BY <1>5 DEF CancelCall, Begin
<1>6. ASSUME NEW t \in Thread, NEW g \in guard[t], Release(t, g) PROVE LockInv'
  <2>1. g = [key |-> g.key, released |-> FALSE] /\ g.key \in StateKey
    BY <1>6 DEF Release, Guard
  <2>2. holder[g.key] = t
    BY <2>1
  <2>3. ASSUME NEW u \in Thread, NEW j \in StateKey,
               [key |-> j, released |-> FALSE] \in guard'[u]
        PROVE  holder'[j] = u
    <3>1. CASE u # t
      <4>1. [key |-> j, released |-> FALSE] \in guard[u]
        BY <1>6, <2>3, <3>1 DEF Release
      <4>2. j # g.key
        BY <2>2, <3>1, <4>1
      <4> QED  BY <1>6, <4>1, <4>2 DEF Release
    <3>2. CASE u = t
      <4>1. guard'[t] = (guard[t] \ {g}) \cup {[g EXCEPT !.released = TRUE]}
        BY <1>6 DEF Release
      <4>2. [g EXCEPT !.released = TRUE] # [key |-> j, released |-> FALSE]
        BY DEF Guard
      <4>3. [key |-> j, released |-> FALSE] \in guard[t] \ {g}
        BY <2>3, <3>2, <4>1, <4>2
      <4>4. j # g.key
        BY <2>1, <4>3
      <4> QED  BY <1>6, <3>2, <4>3, <4>4 DEF Release
    <3> QED  BY <3>1, <3>2
  <2>4. ASSUME NEW u \in Thread, NEW j \in StateKey, seen'[u][j] # Unseen
        PROVE  holder'[j] = u /\ data'[j] = seen'[u][j]
    <3>1. u # t \/ j # g.key
      BY <1>6, <2>1, <2>4 DEF Release
    <3>2. seen'[u][j] = seen[u][j]
      BY <1>6, <2>1, <3>1 DEF Release
    <3> QED  BY <1>6, <2>2, <2>4, <3>1, <3>2 DEF Release
  <2> QED  BY <2>3, <2>4
<1>7. ASSUME NEW t \in Thread, DropGuards(t) PROVE LockInv'
  <2>1. \A k \in StateKey : k \in Locked(t) => holder[k] = t
    <3> SUFFICES ASSUME NEW k \in StateKey, NEW g \in guard[t], ~g.released, g.key = k
                 PROVE  holder[k] = t
      BY DEF Locked
    <3>1. g = [key |-> k, released |-> FALSE]
      BY DEF Guard
    <3> QED  BY <3>1
  <2>2. ASSUME NEW u \in Thread, NEW j \in StateKey,
               [key |-> j, released |-> FALSE] \in guard'[u] \/ seen'[u][j] # Unseen
        PROVE  u # t /\ guard'[u] = guard[u] /\ seen'[u] = seen[u]
    BY <1>7, <2>2 DEF DropGuards
  <2>3. \A k \in StateKey : holder[k] # t => holder'[k] = holder[k]
    BY <1>7, <2>1 DEF DropGuards
  <2>4. data' = data
    BY <1>7 DEF DropGuards
  <2>5. ASSUME NEW u \in Thread, NEW j \in StateKey,
               [key |-> j, released |-> FALSE] \in guard'[u]
        PROVE  holder'[j] = u
    <3>1. holder[j] = u /\ u # t
      BY <2>2, <2>5
    <3> QED  BY <2>3, <3>1
  <2>6. ASSUME NEW u \in Thread, NEW j \in StateKey, seen'[u][j] # Unseen
        PROVE  holder'[j] = u /\ data'[j] = seen'[u][j]
    <3>1. u # t /\ seen'[u] = seen[u]
      BY <2>2, <2>6
    <3>2. holder[j] = u /\ data[j] = seen[u][j]
      BY <2>6, <3>1
    <3> QED  BY <2>3, <2>4, <3>1, <3>2
  <2> QED  BY <2>5, <2>6
<1>8. CASE Save
  BY <1>8 DEF Save
<1>9. CASE UNCHANGED <<data, removals, holder, guard, call, seen, stored>>
  BY <1>9
<1> QED
  BY <1>2, <1>3, <1>4, <1>5, <1>6, <1>7, <1>8, <1>9 DEF SharedStep, Script, Return

\* A locked read-modify-write is atomic, whatever the other threads, release
\* functions that are called again and the ends of scripts do.
THEOREM LockCorrect == Spec => []LockedEntryIsStable
<1>1. Init => LockInv
  BY DEF Init, SharedInit, LockInv
<1>2. SharedTypeOK /\ LockInv /\ [Next]_vars => LockInv'
  BY StepsShare, LockStep
<1>3. LockInv => LockedEntryIsStable
  BY DEF LockInv, LockedEntryIsStable
<1> QED  BY <1>1, <1>2, <1>3, SharedTypeCorrect, PTL DEF Spec

-----------------------------------------------------------------------------
(* What is saved.                                                          *)

\* A key is without an entry exactly if it was unset, or has been absent from
\* the stored state all along.
SaveInv ==
    /\ \A k \in removals : data[k] = Absent
    /\ \A k \in StateKey : data[k] = Absent => k \in removals \/ stored[k] = Absent

LEMMA SaveInvSaves == SaveInv => SavesWhatScriptsLeft
  BY DEF SaveInv, SavesWhatScriptsLeft, Diffed

LEMMA SaveStep ==
    ASSUME SharedTypeOK, SaveInv, SharedStep
    PROVE  SaveInv'
<1> USE DEF SaveInv
<1>1. ASSUME NEW t \in Thread, NEW k \in StateKey, Get(t, k) PROVE SaveInv'
  BY <1>1 DEF Get, Access
<1>2. ASSUME NEW t \in Thread, NEW k \in StateKey, Set(t, k) PROVE SaveInv'
  BY <1>2, EntryAssumption DEF Set, Access, SharedTypeOK
<1>3. ASSUME NEW t \in Thread, NEW k \in StateKey, Unset(t, k) PROVE SaveInv'
  BY <1>3 DEF Unset, Access, SharedTypeOK
<1>4. ASSUME NEW t \in Thread, NEW k \in StateKey, Acquire(t, k) \/ AcquireAgain(t, k)
      PROVE  SaveInv'
  BY <1>4 DEF Acquire, AcquireAgain
<1>5. ASSUME NEW t \in Thread, CancelCall(t) \/ Script(t) \/ DropGuards(t) PROVE SaveInv'
  BY <1>5 DEF CancelCall, Script, Begin, Release, DropGuards
<1>6. CASE Save
  <2>1. \A k \in StateKey : data[k] = Absent => stored'[k] = Absent
    BY <1>6, SaveInvSaves DEF Save, SavesWhatScriptsLeft
  <2> QED  BY <1>6, <2>1 DEF Save
<1>7. CASE UNCHANGED <<data, removals, holder, guard, call, seen, stored>>
  BY <1>7
<1> QED
  BY <1>1, <1>2, <1>3, <1>4, <1>5, <1>6, <1>7 DEF SharedStep, Return

\* A key that scripts unset is removed from the stored state and one that they
\* set again is stored, in whatever order they do it.
THEOREM SaveCorrect == Spec => []SavesWhatScriptsLeft
<1>1. Init => SaveInv
  <2> SUFFICES ASSUME Init PROVE SaveInv
    OBVIOUS
  <2>1. \A v \in Value : [value |-> v, persist |-> TRUE] # Absent
    <3>1. \A v \in Value : [value |-> v, persist |-> TRUE] \in Entry
      BY DEF Entry
    <3> QED  BY <3>1, EntryAssumption
  <2> QED  BY <2>1 DEF Init, SharedInit, SaveInv
<1>2. SharedTypeOK /\ SaveInv /\ [Next]_vars => SaveInv'
  BY StepsShare, SaveStep
<1> QED  BY <1>1, <1>2, SaveInvSaves, SharedTypeCorrect, PTL DEF Spec

-----------------------------------------------------------------------------
(* Canceled files.                                                         *)

Busy(w) == pc[w] # "free"
BeforeApply == {"load", "enable", "check", "execute", "settle"}
Applying == {"apply", "write"}

\* Every path is taken by one thread, once.
TakenInv ==
    /\ pc \in [Thread -> BeforeApply \cup Applying \cup {"free"}]
    /\ file \in [Thread -> Path \cup {NoFile}]
    /\ taken \subseteq Path
    /\ \A w \in Thread : Busy(w) => file[w] \in taken
    /\ \A v, w \in Thread : Busy(v) /\ Busy(w) /\ file[v] = file[w] => v = w

\* A change is applied after its thread has settled, and then with a file that
\* was not executing when the step was canceled.
CancelInv ==
    /\ \A c \in applied : c.by \in taken /\ c.by \notin late
    /\ \A c \in applied, w \in Thread : pc[w] \in BeforeApply => c.by # file[w]
    /\ ~canceled => late = {}
    /\ \A w \in Thread : pc[w] \in Applying => file[w] \notin late

\* Thread w goes from one of the places in From to place l, and forgets its file
\* when it is done with it.
Moves(w, From, l) ==
    /\ pc[w] \in From /\ pc' = [pc EXCEPT ![w] = l]
    /\ \/ l # "free" /\ file' = file
       \/ l = "free" /\ file' = [file EXCEPT ![w] = NoFile]

\* What a thread does with the file it has.
Work(w) ==
    \/ LoadFile(w) \/ Enable(w) \/ CheckFlag(w) \/ Abort(w) \/ EndExecution(w)
    \/ Settle(w) \/ BeginWrite(w) \/ EndWrite(w)

LEMMA WorkMoves ==
    ASSUME NEW w \in Thread
    PROVE  /\ LoadFile(w) => Moves(w, {"load"}, "enable") \/ Moves(w, {"load"}, "free")
           /\ Enable(w) => Moves(w, {"enable"}, "check")
           /\ CheckFlag(w) => Moves(w, {"check"}, "execute") \/ Moves(w, {"check"}, "settle")
           /\ Abort(w) \/ EndExecution(w) => Moves(w, {"execute"}, "settle")
           /\ Settle(w) => Moves(w, {"settle"}, "free") \/ (~canceled /\ Moves(w, {"settle"}, "apply"))
           /\ BeginWrite(w) => \E l \in {"free", "apply", "write"} : Moves(w, {"apply"}, l)
           /\ EndWrite(w) => \E l \in {"free", "apply"} : Moves(w, {"write"}, l)
           /\ Work(w) => UNCHANGED taken
<1> USE DEF Moves, Free
<1>1. LoadFile(w) => UNCHANGED taken /\ (Moves(w, {"load"}, "enable") \/ Moves(w, {"load"}, "free"))
  BY DEF LoadFile, progress
<1>2. Enable(w) => UNCHANGED taken /\ Moves(w, {"enable"}, "check")
  BY DEF Enable, progress
<1>3. CheckFlag(w) =>
        UNCHANGED taken /\ (Moves(w, {"check"}, "execute") \/ Moves(w, {"check"}, "settle"))
  BY DEF CheckFlag, Ends, progress
<1>4. Abort(w) \/ EndExecution(w) => UNCHANGED taken /\ Moves(w, {"execute"}, "settle")
  BY DEF Abort, EndExecution, Ends, progress
<1>5. Settle(w) =>
        /\ UNCHANGED taken
        /\ Moves(w, {"settle"}, "free") \/ (~canceled /\ Moves(w, {"settle"}, "apply"))
  <2> SUFFICES ASSUME Settle(w)
               PROVE  /\ UNCHANGED taken
                      /\ Moves(w, {"settle"}, "free") \/ (~canceled /\ Moves(w, {"settle"}, "apply"))
    OBVIOUS
  <2>1. UNCHANGED taken /\ pc[w] = "settle"
    BY DEF Settle, Settles
  <2>2. Free(w) \/ (~canceled /\ GoOn(w))
    BY DEF Settle
  <2> QED  BY <2>1, <2>2 DEF GoOn
<1>6. NextChange(w) => \E l \in {"free", "apply"} :
        pc' = [pc EXCEPT ![w] = l] /\ \/ l # "free" /\ file' = file
                                      \/ l = "free" /\ file' = [file EXCEPT ![w] = NoFile]
  BY DEF NextChange
<1>7. BeginWrite(w) =>
        UNCHANGED taken /\ \E l \in {"free", "apply", "write"} : Moves(w, {"apply"}, l)
  BY <1>6 DEF BeginWrite
<1>8. EndWrite(w) => UNCHANGED taken /\ \E l \in {"free", "apply"} : Moves(w, {"write"}, l)
  BY <1>6 DEF EndWrite, WriteEnds
<1> HIDE DEF Moves
<1> QED
  BY <1>1, <1>2, <1>3, <1>4, <1>5, <1>7, <1>8 DEF Work

LEMMA TakenStep ==
    ASSUME TakenInv, [Next]_vars
    PROVE  TakenInv'
<1> USE DEF TakenInv, Busy
<1>1. ASSUME UNCHANGED <<pc, file, taken>> PROVE TakenInv'
  BY <1>1
<1>2. CASE UNCHANGED vars
  BY <1>1, <1>2 DEF vars, batchVars
<1>3. CASE Step
  BY <1>1, <1>3 DEF Step, Register, NotifyWaiters, EndWalk, StopWatchdog, Decide,
                    DeleteOriginals, SaveState
<1>4. CASE UserCancel \/ Expire
  BY <1>1, <1>4 DEF UserCancel, Expire
<1>5. ASSUME NEW w \in Thread, TakeFile(w) PROVE TakenInv'
  <2>1. PICK f \in Path \ taken :
          /\ taken' = taken \cup {f}
          /\ \/ UNCHANGED <<pc, file>>
             \/ pc' = [pc EXCEPT ![w] = "load"] /\ file' = [file EXCEPT ![w] = f]
    BY <1>5 DEF TakeFile
  <2>2. CASE UNCHANGED <<pc, file>>
    BY <2>1, <2>2
  <2>3. CASE pc' = [pc EXCEPT ![w] = "load"] /\ file' = [file EXCEPT ![w] = f]
    BY <2>1, <2>3 DEF BeforeApply
  <2> QED  BY <2>1, <2>2, <2>3
<1>6. ASSUME NEW w \in Thread, UseState(w) PROVE TakenInv'
  BY <1>1, <1>6 DEF UseState, batchVars
<1>7. ASSUME NEW w \in Thread, Work(w) PROVE TakenInv'
  <2>1. PICK l \in BeforeApply \cup Applying \cup {"free"} :
          Moves(w, BeforeApply \cup Applying, l) /\ taken' = taken
    BY <1>7, WorkMoves DEF Work, Moves, BeforeApply, Applying
  <2>2. "free" \notin BeforeApply \cup Applying
    BY DEF BeforeApply, Applying
  <2> QED  BY <2>1, <2>2 DEF Moves
<1> QED
  BY <1>2, <1>3, <1>4, <1>5, <1>6, <1>7 DEF Next, Thread1, Work

LEMMA CancelStep ==
    ASSUME TakenInv, CancelInv, [Next]_vars
    PROVE  CancelInv'
<1> USE DEF CancelInv
<1>1. ASSUME UNCHANGED <<pc, file, taken, applied, late, canceled>> PROVE CancelInv'
  BY <1>1
<1>2. CASE UNCHANGED vars
  BY <1>1, <1>2 DEF vars, batchVars, sharedVars
<1>3. CASE Step
  <2>1. UNCHANGED <<pc, file, taken, applied, late>>
    BY <1>3 DEF Step, Register, NotifyWaiters, EndWalk, StopWatchdog, Decide,
                DeleteOriginals, SaveState
  <2>2. canceled' = canceled
    BY <1>3 DEF Step, Register, NotifyWaiters, EndWalk, StopWatchdog, Decide,
                DeleteOriginals, SaveState, Save, sharedVars
  <2> QED  BY <1>1, <2>1, <2>2
<1>4. CASE UserCancel
  <2>1. UNCHANGED <<pc, file, taken, applied>> /\ canceled' = TRUE
    BY <1>4 DEF UserCancel, Cancel
  <2>2. late' = {file[w] : w \in Executing}
    BY <1>4 DEF UserCancel
  <2>3. \A w \in Executing : w \in Thread /\ pc[w] \in BeforeApply /\ Busy(w)
    BY DEF Executing, BeforeApply, Busy
  <2>4. \A c \in applied : c.by \notin late'
    BY <2>2, <2>3
  <2>5. \A w \in Thread : pc[w] \in Applying => file[w] \notin late'
    BY <2>2, <2>3 DEF TakenInv, Busy, BeforeApply, Applying
  <2> QED  BY <2>1, <2>4, <2>5
<1>5. CASE Expire
  BY <1>1, <1>5 DEF Expire, sharedVars
<1>6. ASSUME NEW w \in Thread, TakeFile(w) PROVE CancelInv'
  <2>1. PICK f \in Path \ taken :
          /\ taken' = taken \cup {f}
          /\ \/ UNCHANGED <<pc, file>>
             \/ /\ pc' = [pc EXCEPT ![w] = "load"]
                /\ file' = [file EXCEPT ![w] = f]
    BY <1>6 DEF TakeFile
  <2>2. UNCHANGED <<applied, late, canceled>>
    BY <1>6 DEF TakeFile, sharedVars
  <2>3. CASE UNCHANGED <<pc, file>>
    BY <2>1, <2>2, <2>3
  <2>4. CASE pc' = [pc EXCEPT ![w] = "load"] /\ file' = [file EXCEPT ![w] = f]
    <3>1. \A v \in Thread : /\ pc'[v] = IF v = w THEN "load" ELSE pc[v]
                            /\ file'[v] = IF v = w THEN f ELSE file[v]
      BY <2>4 DEF TakenInv
    <3>2. "load" \notin Applying
      BY DEF Applying
    <3> QED  BY <2>1, <2>2, <3>1, <3>2
  <2> QED  BY <2>1, <2>3, <2>4
<1>7. ASSUME NEW w \in Thread,
             LoadFile(w) \/ Enable(w) \/ CheckFlag(w) \/ Abort(w) \/ EndExecution(w)
      PROVE  CancelInv'
  <2>1. PICK l \in BeforeApply \cup {"free"} : Moves(w, BeforeApply, l)
    BY <1>7, WorkMoves DEF Moves, BeforeApply
  <2>2. UNCHANGED <<taken, applied, late>>
    BY <1>7 DEF LoadFile, Enable, CheckFlag, Abort, EndExecution, progress
  <2>3. canceled' = canceled
    BY <1>7 DEF LoadFile, Enable, CheckFlag, Abort, EndExecution, DropGuards, sharedVars
  <2>4. \A v \in Thread : /\ pc'[v] = IF v = w THEN l ELSE pc[v]
                          /\ v # w \/ l # "free" => file'[v] = file[v]
    BY <2>1 DEF Moves, TakenInv
  <2>5. l \notin Applying /\ pc[w] \in BeforeApply /\ "free" \notin BeforeApply
    BY <2>1 DEF Moves, BeforeApply, Applying
  <2> QED  BY <2>1, <2>2, <2>3, <2>4, <2>5
<1>8. ASSUME NEW w \in Thread, UseState(w) PROVE CancelInv'
  <2>1. canceled' = canceled
    BY <1>8 DEF UseState, Script, Return, Begin, Release, Get, Set, Unset, Access, Acquire,
                AcquireAgain, CancelCall
  <2> QED  BY <1>1, <1>8, <2>1 DEF UseState, batchVars
<1>9. ASSUME NEW w \in Thread, Settle(w) PROVE CancelInv'
  <2>1. UNCHANGED <<taken, applied>> /\ pc[w] = "settle"
    BY <1>9 DEF Settle, Settles
  <2>2. PICK l \in {"free", "apply"} : Moves(w, {"settle"}, l) /\ (l = "free" \/ ~canceled)
    BY <1>9, WorkMoves
  <2>3. canceled => canceled' = canceled
    BY <1>9 DEF Settle
  <2>4. late' = IF canceled' /\ ~canceled THEN {file[v] : v \in Executing} ELSE late
    BY <1>9, Zenon DEF Settle, Settles
  <2>5. \A v \in Executing : v \in Thread /\ pc[v] \in BeforeApply /\ Busy(v) /\ v # w
    BY <2>1 DEF Executing, BeforeApply, Busy
  <2>6. \A v \in Thread : /\ pc'[v] = IF v = w THEN l ELSE pc[v]
                          /\ v # w \/ l # "free" => file'[v] = file[v]
    BY <2>2 DEF Moves, TakenInv
  <2>7. \A c \in applied : c.by \notin late'
    BY <2>4, <2>5
  <2>8. ASSUME NEW v \in Thread, pc'[v] \in Applying PROVE file'[v] \notin late'
    <3>1. file'[v] = file[v] /\ Busy(v) /\ v \notin Executing
      BY <2>1, <2>6, <2>8 DEF Applying, Busy, Executing
    <3>2. CASE canceled' /\ ~canceled
      BY <2>4, <2>5, <3>1, <3>2 DEF TakenInv
    <3>3. CASE ~(canceled' /\ ~canceled)
      <4>1. late' = late
        BY <2>4, <3>3
      <4>2. CASE v = w
        <5>1. l = "apply"
          BY <2>6, <2>8, <4>2 DEF Applying
        <5>2. late = {}
          BY <2>2, <5>1
        <5> QED  BY <4>1, <5>2
      <4>3. CASE v # w
        BY <2>6, <2>8, <3>1, <4>1, <4>3
      <4> QED  BY <4>2, <4>3
    <3> QED  BY <3>2, <3>3
  <2>9. ~canceled' => late' = {}
    BY <2>3, <2>4
  <2>10. \A c \in applied, v \in Thread : pc'[v] \in BeforeApply => c.by # file'[v]
    BY <2>6 DEF BeforeApply
  <2> QED  BY <2>1, <2>7, <2>8, <2>9, <2>10
<1>10. ASSUME NEW w \in Thread, BeginWrite(w) \/ EndWrite(w) PROVE CancelInv'
  <2>1. PICK l \in Applying \cup {"free"} : Moves(w, Applying, l)
    BY <1>10, WorkMoves DEF Moves, Applying
  <2>2. UNCHANGED <<taken, late>>
    BY <1>10 DEF BeginWrite, EndWrite, WriteEnds
  <2>3. canceled' = canceled
    BY <1>10 DEF BeginWrite, EndWrite, WriteEnds, sharedVars
  <2>4. \A c \in applied' : c \in applied \/ c.by = file[w]
    <3>1. BeginWrite(w) => applied' = applied
      BY DEF BeginWrite
    <3>2. EndWrite(w) => applied' = applied \/ \E x, t : applied' = applied \cup {[by |-> file[w], to |-> x, text |-> t]}
      BY DEF EndWrite, WriteDone
    <3> QED  BY <1>10, <3>1, <3>2
  <2>5. \A v \in Thread : /\ pc'[v] = IF v = w THEN l ELSE pc[v]
                          /\ v # w \/ l # "free" => file'[v] = file[v]
    BY <2>1 DEF Moves, TakenInv
  <2>6. Busy(w) /\ pc[w] \in Applying /\ file[w] \in taken /\ file[w] \notin late
    BY <2>1 DEF Moves, TakenInv, Busy, Applying
  <2>7. Applying \cap BeforeApply = {} /\ "free" \notin BeforeApply \cup Applying
    BY DEF Applying, BeforeApply
  <2>8. \A v \in Thread : pc[v] \in BeforeApply => file[v] # file[w]
    BY <2>6, <2>7 DEF TakenInv, Busy
  <2>9. \A c \in applied' : c.by \in taken' /\ c.by \notin late'
    BY <2>2, <2>4, <2>6
  <2>10. \A c \in applied', v \in Thread : pc'[v] \in BeforeApply => c.by # file'[v]
    BY <2>4, <2>5, <2>7, <2>8
  <2>11. \A v \in Thread : pc'[v] \in Applying => file'[v] \notin late'
    BY <2>2, <2>5, <2>6, <2>7
  <2> QED  BY <2>2, <2>3, <2>9, <2>10, <2>11
<1> QED
  BY <1>2, <1>3, <1>4, <1>5, <1>6, <1>7, <1>8, <1>9, <1>10 DEF Next, Thread1

LEMMA TakenCorrect == Spec => []TakenInv
<1>1. Init => TakenInv
  BY DEF Init, TakenInv, Busy
<1> QED  BY <1>1, TakenStep, PTL DEF Spec

\* Whoever cancels the step, and however many threads are anywhere in their
\* work: a file whose script was still running is not touched.
THEOREM CancelCorrect == Spec => []CanceledFilesUntouched
<1>1. Init => CancelInv
  BY DEF Init, CancelInv
<1>2. TakenInv /\ CancelInv /\ [Next]_vars => CancelInv'
  BY CancelStep
<1>3. CancelInv => CanceledFilesUntouched
  BY DEF CancelInv, CanceledFilesUntouched
<1> QED  BY <1>1, <1>2, <1>3, TakenCorrect, PTL DEF Spec

-----------------------------------------------------------------------------
(* The outcome.                                                            *)

\* During the walk the files of the target are there, for what is written is a
\* text, and the originals are deleted afterwards.
DiskInv ==
    /\ disk \in [Path -> Text \cup {Missing, Torn}]
    /\ content \in [Thread -> Text \cup {Missing, Torn}]
    /\ writes \in [Thread -> Seq(Written)]
    /\ \A w \in Thread : pc[w] \in Applying => writes[w] # <<>>
    /\ \A v, w \in Thread : pc[v] = "write" /\ pc[w] = "write" => v = w
    /\ phase \in {"starting", "running"} \/ ThreadsFree
    /\ phase \in {"starting", "running"} => \A f \in File : disk[f] # Missing

\* A file is left out only by a cancel or a timeout, and the step does not go on
\* after its walk unless there was neither.
OutcomeInv ==
    /\ skipped # {} => canceled \/ idle
    /\ phase \in {"deleting", "saving"} \/ outcome = "ok" => ~idle /\ ~canceled /\ ~runtimeMsg
    /\ outcome # "none" => phase = "ended"

LEMMA ChangeType ==
    ASSUME NEW f \in Path, NEW i \in DOMAIN Change[f]
    PROVE  Change[f][i].from \in Path /\ Change[f][i].to \in Path
<1> DEFINE S == [from : Path, to : Path]
<1> DEFINE C == Change[f]
<1>1. C \in Seq(S)
  BY ChangeAssumption
<1>2. i \in 1 .. Len(C)
  BY <1>1
<1>3. C[i] \in S
  <2> HIDE DEF S, C
  <2> QED  BY <1>1, <1>2, ElementOfSeq
<1> QED  BY <1>3

\* The changes a script hands over have texts.
LEMMA NewTextsType ==
    ASSUME DiskInv, NEW w \in Thread, file[w] \in Path,
           \A i \in DOMAIN Change[file[w]] : Before(w, Change[file[w]][i]) # Missing
    PROVE  NewTexts(w) \in Seq(Written)
<1> DEFINE C == Change[file[w]]
<1>1. C \in Seq([from : Path, to : Path])
  BY ChangeAssumption
<1>2. Len(C) \in Nat /\ DOMAIN C = 1 .. Len(C)
  BY <1>1
<1>3. ASSUME NEW i \in DOMAIN C PROVE Edited(w, C[i]) \in Written
  <2>1. C[i].from \in Path /\ C[i].to \in Path
    BY <1>3, ChangeType
  <2>2. Before(w, C[i]) \in Text \cup {Torn}
    <3>1. Before(w, C[i]) \in Text \cup {Missing, Torn}
      BY <2>1 DEF Before, DiskInv
    <3> QED  BY <3>1
  <2>3. ASSUME Before(w, C[i]) \in Text
        PROVE  [of |-> Before(w, C[i]).of, edits |-> Before(w, C[i]).edits \cup {file[w]}] \in Text
    BY <2>3 DEF Text
  <2> QED  BY <2>1, <2>2, <2>3 DEF Edited, Written
<1>4. NewTexts(w) \in [1 .. Len(C) -> Written]
  BY <1>2, <1>3 DEF NewTexts
<1> QED  BY <1>2, <1>4

\* The first change is taken from a thread's list.
LEMMA NextChangeIs ==
    ASSUME TakenInv, DiskInv, NEW w \in Thread, pc[w] \in Applying
    PROVE  /\ writes[w] \in Seq(Written) /\ writes[w] # <<>>
           /\ 1 \in DOMAIN writes[w] /\ Head(writes[w]) = writes[w][1]
           /\ Head(writes[w]) \in Written
           /\ NextChange(w) =>
                 /\ \A v \in Thread : writes'[v] = IF v = w THEN Tail(writes[w]) ELSE writes[v]
                 /\ \A v \in Thread \ {w} : pc'[v] = pc[v]
                 /\ pc'[w] \in {"free", "apply"}
                 /\ pc'[w] = "free" <=> writes'[w] = <<>>
                 /\ writes' \in [Thread -> Seq(Written)]
<1>1. writes[w] \in Seq(Written) /\ writes[w] # <<>>
  BY DEF DiskInv
<1>2. Head(writes[w]) \in Written /\ Tail(writes[w]) \in Seq(Written) /\ 1 \in DOMAIN writes[w]
  BY <1>1
<1>3. Head(writes[w]) = writes[w][1]
  BY <1>1
<1>4. Len(writes[w]) = 1 <=> Tail(writes[w]) = <<>>
  <2>1. Len(writes[w]) \in Nat \ {0} /\ Len(Tail(writes[w])) = Len(writes[w]) - 1
    BY <1>1, EmptySeq, HeadTailProperties
  <2>2. ASSUME Tail(writes[w]) = <<>> PROVE Len(Tail(writes[w])) = 0
    <3>1. Len(<<>>) = 0
      BY EmptySeq
    <3> QED  BY ONLY <2>2, <3>1, Zenon
  <2>3. Len(Tail(writes[w])) = 0 => Tail(writes[w]) = <<>>
    BY <1>2, EmptySeq
  <2> QED  BY <2>1, <2>2, <2>3
<1>5. ASSUME NextChange(w)
      PROVE  /\ \A v \in Thread : writes'[v] = IF v = w THEN Tail(writes[w]) ELSE writes[v]
             /\ \A v \in Thread \ {w} : pc'[v] = pc[v]
             /\ pc'[w] = IF Len(writes[w]) = 1 THEN "free" ELSE "apply"
             /\ writes' \in [Thread -> Seq(Written)]
  <2>1. /\ writes' = [writes EXCEPT ![w] = Tail(@)]
        /\ pc' = [pc EXCEPT ![w] = IF Len(writes[w]) = 1 THEN "free" ELSE "apply"]
    BY <1>5 DEF NextChange, Free
  <2> QED  BY <1>2, <2>1 DEF DiskInv, TakenInv
<1>6. ASSUME NextChange(w) PROVE pc'[w] = "free" <=> writes'[w] = <<>>
  <2>1. writes'[w] = Tail(writes[w])
    BY <1>5, <1>6
  <2> QED  BY <1>4, <1>5, <1>6, <2>1
<1> QED  BY <1>1, <1>2, <1>3, <1>5, <1>6

LEMMA DiskStep ==
    ASSUME TakenInv, DiskInv, [Next]_vars
    PROVE  DiskInv'
<1> USE DEF DiskInv, ThreadsFree
<1>1. ASSUME UNCHANGED <<disk, content, writes, pc>>, phase' = phase PROVE DiskInv'
  BY <1>1
<1>2. CASE UNCHANGED vars
  BY <1>1, <1>2 DEF vars, batchVars
<1>3. CASE Register \/ EndWalk \/ StopWatchdog \/ Decide \/ SaveState
  BY <1>3 DEF Register, EndWalk, StopWatchdog, Decide, SaveState
<1>4. CASE DeleteOriginals
  BY <1>4 DEF DeleteOriginals
<1>5. CASE NotifyWaiters \/ UserCancel \/ Expire
  BY <1>1, <1>5 DEF NotifyWaiters, UserCancel, Expire
<1>6. ASSUME NEW w \in Thread, UseState(w) PROVE DiskInv'
  BY <1>1, <1>6 DEF UseState, batchVars
<1>7. ASSUME NEW w \in Thread, TakeFile(w) PROVE DiskInv'
  <2>1. UNCHANGED <<disk, content, writes, phase>> /\ phase = "running"
    BY <1>7 DEF TakeFile
  <2>2. \A v \in Thread : pc'[v] \in Applying => pc'[v] = pc[v]
    BY <1>7 DEF TakeFile, TakenInv, Applying
  <2> QED  BY <2>1, <2>2 DEF Applying
<1>8. ASSUME NEW w \in Thread,
             \/ LoadFile(w) \/ Enable(w) \/ CheckFlag(w) \/ Abort(w) \/ EndExecution(w)
      PROVE  DiskInv'
  <2>1. PICK l \in BeforeApply \cup {"free"} : Moves(w, BeforeApply, l)
    BY <1>8, WorkMoves DEF Moves, BeforeApply
  <2>2. UNCHANGED <<disk, phase>>
    BY <1>8 DEF LoadFile, Enable, CheckFlag, Abort, EndExecution, progress
  <2>3. pc[w] \in BeforeApply /\ file[w] \in Path /\ "free" \notin BeforeApply
    BY <2>1 DEF Moves, TakenInv, Busy, BeforeApply
  <2>4. \A v \in Thread : pc'[v] \in Applying => v # w /\ pc'[v] = pc[v]
    BY <2>1 DEF Moves, TakenInv, Applying, BeforeApply
  <2>5. content' \in [Thread -> Text \cup {Missing, Torn}]
    <3>1. LoadFile(w) => content' = content \/ content' = [content EXCEPT ![w] = disk[file[w]]]
      BY DEF LoadFile
    <3>2. Enable(w) \/ CheckFlag(w) \/ Abort(w) \/ EndExecution(w) =>
             content' = content \/ content' = [content EXCEPT ![w] = Missing]
      BY DEF Enable, CheckFlag, Abort, EndExecution, Ends
    <3> QED  BY <1>8, <2>3, <3>1, <3>2
  <2>6. writes' \in [Thread -> Seq(Written)] /\ \A v \in Thread \ {w} : writes'[v] = writes[v]
    <3>1. LoadFile(w) \/ Enable(w) \/ CheckFlag(w) \/ Abort(w) => writes' = writes
      BY DEF LoadFile, Enable, CheckFlag, Abort
    <3>2. CASE /\ \A i \in DOMAIN Change[file[w]] : Before(w, Change[file[w]][i]) # Missing
               /\ writes' = [writes EXCEPT ![w] = NewTexts(w)]
      BY <2>3, <3>2, NewTextsType
    <3>3. CASE writes' = [writes EXCEPT ![w] = <<>>]
      <4>1. <<>> \in Seq(Written)
        OBVIOUS
      <4> QED  BY <3>3, <4>1
    <3> QED  BY <1>8, <3>1, <3>2, <3>3 DEF EndExecution
  <2>7. phase \in {"starting", "running"}
    BY <2>3
  <2> QED  BY <2>2, <2>4, <2>5, <2>6, <2>7 DEF Applying
<1>9. ASSUME NEW w \in Thread, Settle(w) PROVE DiskInv'
  <2>1. UNCHANGED <<disk, content, phase>> /\ pc[w] = "settle"
    BY <1>9 DEF Settle, Settles
  <2>2. \/ pc' = [pc EXCEPT ![w] = "free"] /\ writes' = [writes EXCEPT ![w] = <<>>]
        \/ /\ pc' = [pc EXCEPT ![w] = IF writes[w] = <<>> THEN "free" ELSE "apply"]
           /\ UNCHANGED writes
    BY <1>9 DEF Settle, GoOn, Free
  <2>3. phase \in {"starting", "running"}
    BY <2>1
  <2>4. CASE pc' = [pc EXCEPT ![w] = "free"] /\ writes' = [writes EXCEPT ![w] = <<>>]
    BY <2>1, <2>3, <2>4 DEF TakenInv, Applying
  <2>5. CASE /\ pc' = [pc EXCEPT ![w] = IF writes[w] = <<>> THEN "free" ELSE "apply"]
             /\ UNCHANGED writes
    BY <2>1, <2>3, <2>5 DEF TakenInv, Applying
  <2> QED  BY <2>2, <2>4, <2>5
<1>10. ASSUME NEW w \in Thread, BeginWrite(w) \/ EndWrite(w) PROVE DiskInv'
  <2> DEFINE c == Head(writes[w])
  <2>1. pc[w] \in Applying /\ UNCHANGED <<content, phase>>
    BY <1>10 DEF BeginWrite, EndWrite, WriteEnds, Applying
  <2>2. c.to \in Path /\ c.text \in Text \cup {Torn}
    BY <2>1, NextChangeIs DEF Written
  <2>3. \E d \in {c.text, disk[c.to], Torn} : disk' = [disk EXCEPT ![c.to] = d]
    <3>1. BeginWrite(w) => disk' = disk \/ disk' = [disk EXCEPT ![c.to] = Torn]
      BY DEF BeginWrite
    <3>2. EndWrite(w) => disk' = disk \/ disk' = [disk EXCEPT ![c.to] = c.text]
      BY DEF EndWrite, WriteDone
    <3> QED  BY <1>10, <3>1, <3>2
  <2>4. Torn # Missing /\ c.text # Missing
    BY <2>2, PathAssumption
  <2>5. disk' \in [Path -> Text \cup {Missing, Torn}]
    BY <2>2, <2>3
  <2>6. \A f \in Path : disk[f] # Missing => disk'[f] # Missing
    BY <2>2, <2>3, <2>4
  <2>7. phase \in {"starting", "running"}
    BY <2>1 DEF Applying
  <2>8. CASE NextChange(w)
    <3>1. /\ \A v \in Thread \ {w} : pc'[v] = pc[v] /\ writes'[v] = writes[v]
          /\ pc'[w] \in {"free", "apply"} /\ (pc'[w] = "free" <=> writes'[w] = <<>>)
          /\ writes' \in [Thread -> Seq(Written)]
      BY <2>1, <2>8, NextChangeIs
    <3> QED  BY <2>1, <2>5, <2>6, <2>7, <3>1 DEF Path, Applying
  <2>9. CASE pc' = [pc EXCEPT ![w] = "write"] /\ writes' = writes /\ \A v \in Thread : pc[v] # "write"
    BY <2>1, <2>5, <2>6, <2>7, <2>9 DEF TakenInv, Path, Applying
  <2> QED  BY <1>10, <2>8, <2>9 DEF BeginWrite, EndWrite, WriteEnds
<1> QED
  BY <1>2, <1>3, <1>4, <1>5, <1>6, <1>7, <1>8, <1>9, <1>10 DEF Next, Thread1, Step

LEMMA OutcomeStep ==
    ASSUME TakenInv, DiskInv, OutcomeInv, [Next]_vars
    PROVE  OutcomeInv'
<1> USE DEF OutcomeInv
<1>1. ASSUME UNCHANGED <<skipped, canceled, idle, runtimeMsg, phase, outcome>> PROVE OutcomeInv'
  BY <1>1
<1>2. CASE UNCHANGED vars
  BY <1>1, <1>2 DEF vars, batchVars, sharedVars, counts
<1>3. CASE Register \/ EndWalk \/ StopWatchdog
  BY <1>3 DEF Register, EndWalk, StopWatchdog, sharedVars, counts
<1>4. CASE Decide
  <2>1. UNCHANGED <<skipped, canceled, idle, runtimeMsg>> /\ outcome = "none"
    BY <1>4 DEF Decide, sharedVars, counts
  <2>2. Verdict = "ok" => ~idle /\ ~canceled /\ ~runtimeMsg
    BY DEF Verdict
  <2>3. \/ Verdict = "ok" /\ phase' = "deleting" /\ outcome' = outcome
        \/ Verdict # "ok" /\ phase' = "ended" /\ outcome' = Verdict
    BY <1>4 DEF Decide
  <2> QED  BY <2>1, <2>2, <2>3
<1>5. CASE DeleteOriginals
  BY <1>5 DEF DeleteOriginals, sharedVars, counts
<1>6. CASE SaveState
  <2>1. UNCHANGED <<skipped, idle, runtimeMsg>> /\ phase = "saving" /\ phase' = "ended"
    BY <1>6 DEF SaveState, counts
  <2>2. canceled' = canceled
    BY <1>6 DEF SaveState, Save, sharedVars
  <2> QED  BY <2>1, <2>2
<1>7. CASE NotifyWaiters
  BY <1>1, <1>7 DEF NotifyWaiters, sharedVars, counts
<1>8. CASE UserCancel
  <2>1. phase = "running" /\ UNCHANGED <<skipped, idle, runtimeMsg, phase, outcome>> /\ canceled'
    BY <1>8 DEF UserCancel, Cancel, counts
  <2> QED  BY <2>1
<1>9. CASE Expire
  BY <1>9 DEF Expire, sharedVars, counts
<1>10. ASSUME NEW w \in Thread, UseState(w) PROVE OutcomeInv'
  <2>1. canceled' = canceled
    BY <1>10 DEF UseState, Script, Return, Begin, Release, Get, Set, Unset, Access, Acquire,
                 AcquireAgain, CancelCall
  <2> QED  BY <1>1, <1>10, <2>1 DEF UseState, batchVars, counts
<1>11. ASSUME NEW w \in Thread, TakeFile(w) PROVE OutcomeInv'
  <2>1. UNCHANGED <<canceled, idle, runtimeMsg, phase, outcome>> /\ phase = "running"
    BY <1>11 DEF TakeFile, sharedVars
  <2>2. \A f \in File : disk[f] # Missing
    BY <2>1 DEF DiskInv
  <2>3. skipped' = skipped \/ canceled \/ idle
    BY <1>11, <2>2 DEF TakeFile
  <2> QED  BY <2>1, <2>3
<1>12. ASSUME NEW w \in Thread,
              \/ LoadFile(w) \/ Enable(w) \/ CheckFlag(w) \/ Abort(w) \/ EndExecution(w)
              \/ BeginWrite(w) \/ EndWrite(w)
       PROVE  OutcomeInv'
  <2>1. UNCHANGED <<skipped, idle, phase, outcome>>
    BY <1>12 DEF LoadFile, Enable, CheckFlag, Abort, EndExecution, BeginWrite, EndWrite,
                 WriteEnds, progress
  <2>2. canceled' = canceled
    BY <1>12 DEF LoadFile, Enable, CheckFlag, Abort, EndExecution, BeginWrite, EndWrite,
                 WriteEnds, DropGuards, sharedVars
  <2>3. runtimeMsg' = runtimeMsg
    BY <1>12 DEF LoadFile, Enable, CheckFlag, Abort, EndExecution, BeginWrite, EndWrite,
                 WriteEnds, counts
  <2> QED  BY <1>1, <2>1, <2>2, <2>3
<1>13. ASSUME NEW w \in Thread, Settle(w) PROVE OutcomeInv'
  <2>1. UNCHANGED <<skipped, idle, phase, outcome>> /\ pc[w] = "settle"
    BY <1>13 DEF Settle, Settles
  <2>2. canceled => canceled'
    BY <1>13 DEF Settle
  <2>3. phase \in {"starting", "running"}
    BY <2>1 DEF DiskInv, ThreadsFree
  <2> QED  BY <2>1, <2>2, <2>3
<1> QED
  BY <1>2, <1>3, <1>4, <1>5, <1>6, <1>7, <1>8, <1>9, <1>10, <1>11, <1>12, <1>13
     DEF Next, Thread1, Step

LEMMA DiskCorrect == Spec => []DiskInv
<1>1. Init => DiskInv
  <2> SUFFICES ASSUME Init PROVE DiskInv
    OBVIOUS
  <2>1. \A f \in File : [of |-> f, edits |-> {}] \in Text
    BY DEF Text
  <2>2. disk \in [Path -> Text \cup {Missing, Torn}]
    BY <2>1 DEF Init
  <2>3. \A f \in File : disk[f] # Missing
    BY <2>1, PathAssumption DEF Init, Path
  <2>4. writes \in [Thread -> Seq(Written)] /\ content \in [Thread -> Text \cup {Missing, Torn}]
    BY DEF Init
  <2> QED  BY <2>2, <2>3, <2>4 DEF Init, DiskInv, ThreadsFree, Applying
<1> QED  BY <1>1, DiskStep, TakenCorrect, PTL DEF Spec

\* Ok means that every file was executed and nothing was canceled, aborted or
\* refused, whenever the cancel, the watchdog and the threads came.
THEOREM OkCorrect == Spec => []OkMeansComplete
<1>1. Init => OutcomeInv
  BY DEF Init, OutcomeInv
<1>2. TakenInv /\ DiskInv /\ OutcomeInv /\ [Next]_vars => OutcomeInv'
  BY OutcomeStep
<1>3. OutcomeInv => OkMeansComplete
  BY DEF OutcomeInv, OkMeansComplete
<1> QED  BY <1>1, <1>2, <1>3, TakenCorrect, DiskCorrect, PTL DEF Spec

-----------------------------------------------------------------------------
(* The files.                                                              *)

\* The script of file f changes file from to file to.
Does(f, from, to) ==
    \E i \in DOMAIN Change[f] : Change[f][i].from = from /\ Change[f][i].to = to

\* Some script writes to p.
Target(p) == \E f \in Path : \E i \in DOMAIN Change[f] : Change[f][i].to = p

\* The scripts' changes do not collide: every path is written by at most one
\* renaming and at most one change in place, the name of a file that is there at
\* first by no renaming, and what a renaming starts from by nothing.
WrittenOnce ==
    \A f, g \in Path : \A i \in DOMAIN Change[f], j \in DOMAIN Change[g] :
        /\ Change[f][i].to = Change[g][j].to
        /\ InPlace(Change[f][i]) <=> InPlace(Change[g][j])
        => f = g /\ i = j
NamesKept ==
    \A f \in Path : \A i \in DOMAIN Change[f] :
        Change[f][i].to \in File => InPlace(Change[f][i])
RenamesFinal ==
    \A f \in Path : \A i \in DOMAIN Change[f] :
        ~InPlace(Change[f][i]) => ~Target(Change[f][i].from)

\* Every change that was applied to a path is in a text.
Fits(p, t) ==
    \A b \in applied :
        b.to = p => b.text \in Text /\ b.text.of = t.of /\ b.by \in t.edits

\* The step has not come to the path, and has written nothing there.
Unwritten(p) == disk[p] = Missing /\ p \notin taken /\ \A b \in applied : b.to # p

\* The first change of a thread is being written.
Writing(w, k) == k = 1 /\ pc[w] = "write"

\* Of the changes left to path p, this is the only one.
Alone(w, k) ==
    \A v \in Thread : \A l \in DOMAIN writes[v] :
        writes[v][l].to = writes[w][k].to => v = w /\ l = k

\* A change that a thread has still to apply is one its script does, has its
\* edit, and is the only one left of its kind for its path.
Own(w, k) ==
    LET c == writes[w][k]
    IN  /\ Does(file[w], c.from, c.to)
        /\ c.text \in Text => file[w] \in c.text.edits
        /\ \A l \in DOMAIN writes[w] :
              writes[w][l].to = c.to /\ (InPlace(writes[w][l]) <=> InPlace(c)) => l = k
        /\ InPlace(c) /\ c.text \in Text => Fits(c.to, c.text)
        /\ Writing(w, k) => disk[c.to] = Torn

\* A renamed file is whole; it comes to a path where nothing has been, and until
\* it is there nobody has read a text there.
Arrives(w, k) ==
    LET c == writes[w][k]
    IN  /\ c.text \in Text /\ c.text.of = c.from
        /\ \A b \in applied : b.to # c.to
        /\ ~Writing(w, k) => Unwritten(c.to) /\ Alone(w, k)
        /\ Writing(w, k) =>
              /\ \A v \in Executing : file[v] = c.to => content[v] \notin Text
              /\ \A v \in Thread : \A l \in DOMAIN writes[v] :
                    writes[v][l].to = c.to /\ InPlace(writes[v][l]) =>
                        writes[v][l].text \notin Text

PendingInv ==
    \A w \in Thread :
        /\ pc[w] \notin {"settle", "apply", "write"} => writes[w] = <<>>
        /\ \A k \in DOMAIN writes[w] : Own(w, k) /\ (~InPlace(writes[w][k]) => Arrives(w, k))

\* A script that is running or about to.
Runs(w) == pc[w] \in {"load", "enable", "check", "execute"}

\* What a script was given fits the path.
ReadInv ==
    \A w \in Executing :
        /\ ~Target(file[w]) => content[w] \in Text /\ content[w].of = file[w]
        /\ content[w] \in Text /\ Does(file[w], file[w], file[w]) => Fits(file[w], content[w])

\* The script of a file has handed over no change yet.
Ahead(f) ==
    f \notin taken \/ \E w \in Thread : file[w] = f /\ Runs(w)
AheadInv ==
    \A f \in Path : Ahead(f) => \A i \in DOMAIN Change[f] :
        ~InPlace(Change[f][i]) =>
            /\ Unwritten(Change[f][i].to)
            /\ \A v \in Thread : \A l \in DOMAIN writes[v] : writes[v][l].to # Change[f][i].to

\* Where nothing is written a file has its own text until it is deleted, and
\* nothing else is deleted.
KeptInv ==
    /\ \A p \in Path : ~Target(p) => disk[p] # Torn /\ (disk[p] \in Text => disk[p].of = p)
    /\ \A p \in Path : disk[p] \in Text => Fits(p, disk[p])
    /\ \A d \in deletions : d \in Path /\ ~Target(d)
    /\ \A b \in applied : b.to \in Path /\ Target(b.to) /\ disk[b.to] # Missing

\* A text that no unfinished write replaces is on disk, and for a file whose
\* original will be deleted, where that leaves it.
TextInv ==
    \A f \in File \ damaged : \E p \in Path :
        disk[p] \in Text /\ disk[p].of = f /\ (f \in deletions => Target(p))

FilesInv == PendingInv /\ ReadInv /\ AheadInv /\ KeptInv /\ TextInv

\* What is known of a change of a script.
LEMMA DoesIs ==
    ASSUME NamesKept, RenamesFinal, NEW f \in Path, NEW a, NEW p, Does(f, a, p)
    PROVE  /\ a \in Path /\ p \in Path /\ Target(p)
           /\ a # p => ~Target(a) /\ p \notin File
<1>1. PICK i \in DOMAIN Change[f] : Change[f][i].from = a /\ Change[f][i].to = p
  BY DEF Does
<1>2. a \in Path /\ p \in Path
  BY <1>1, ChangeType
<1>3. Target(p)
  BY <1>1 DEF Target
<1>4. ASSUME a # p PROVE ~Target(a) /\ p \notin File
  <2>1. ~InPlace(Change[f][i])
    BY <1>1, <1>4 DEF InPlace
  <2>2. ~Target(a)
    BY <1>1, <2>1 DEF RenamesFinal
  <2>3. p \notin File
    BY <1>1, <2>1 DEF NamesKept
  <2> QED  BY <2>2, <2>3
<1> QED  BY <1>2, <1>3, <1>4

\* Two changes of one kind to one path are of one script, and from one file.
LEMMA OneAuthor ==
    ASSUME WrittenOnce, NEW f \in Path, NEW g \in Path, NEW a, NEW b, NEW p,
           Does(f, a, p), Does(g, b, p), a = p <=> b = p
    PROVE  f = g /\ a = b
<1>1. PICK i \in DOMAIN Change[f] : Change[f][i].from = a /\ Change[f][i].to = p
  BY DEF Does
<1>2. PICK j \in DOMAIN Change[g] : Change[g][j].from = b /\ Change[g][j].to = p
  BY DEF Does
<1>3. InPlace(Change[f][i]) <=> InPlace(Change[g][j])
  BY <1>1, <1>2 DEF InPlace
<1>4. f = g /\ i = j
  BY <1>1, <1>2, <1>3 DEF WrittenOnce
<1> QED  BY <1>1, <1>2, <1>4

\* A path stays unwritten while the walk only comes to files that are there.
LEMMA StaysUnwritten ==
    ASSUME NEW p \in Path, p \notin File, Unwritten(p), UNCHANGED <<disk, applied>>,
           \A q \in taken' \ taken : q \in File \/ disk[q] # Missing
    PROVE  Unwritten(p)'
  BY DEF Unwritten

\* A step that writes nothing: at most it takes or reads a file, or a thread
\* goes on or gives up its changes.
LEMMA CalmStep ==
    ASSUME NamesKept, RenamesFinal, TakenInv, DiskInv, FilesInv,
           UNCHANGED <<disk, applied, deletions, damaged>>,
           \A q \in taken' \ taken : q \in File \/ disk[q] # Missing,
           \A f \in Path : Ahead(f)' => Ahead(f),
           \A v \in Thread :
              /\ writes'[v] = <<>> \/ (writes'[v] = writes[v] /\ file'[v] = file[v])
              /\ pc'[v] \notin {"settle", "apply", "write"} => writes'[v] = <<>>
              /\ pc'[v] = "write" <=> pc[v] = "write",
           \A v \in Executing' :
              /\ v \in Thread /\ file'[v] = file[v] /\ file[v] \in Path
              /\ \/ v \in Executing /\ content'[v] = content[v]
                 \/ disk[file[v]] # Missing /\ content'[v] = disk[file[v]]
    PROVE  FilesInv'
<1> USE DEF FilesInv
<1>1. ASSUME NEW v \in Thread, NEW k \in DOMAIN writes'[v]
      PROVE  /\ k \in DOMAIN writes[v] /\ writes'[v] = writes[v] /\ file'[v] = file[v]
             /\ Own(v, k) /\ (~InPlace(writes[v][k]) => Arrives(v, k))
             /\ Writing(v, k)' <=> Writing(v, k)
             /\ file[v] \in Path
  <2>1. writes'[v] # <<>>
    BY <1>1
  <2>2. k \in DOMAIN writes[v] /\ writes'[v] = writes[v] /\ file'[v] = file[v]
    BY <1>1, <2>1
  <2>3. pc[v] # "free"
    BY <2>1, <2>2 DEF PendingInv
  <2>4. file[v] \in Path
    BY <2>3 DEF TakenInv, Busy
  <2> QED  BY <2>2, <2>4 DEF PendingInv, Writing
<1>2. ASSUME NEW v \in Thread, NEW k \in DOMAIN writes'[v] PROVE Own(v, k)'
  BY <1>1, <1>2 DEF Own, Fits
<1>3. ASSUME NEW v \in Thread, NEW k \in DOMAIN writes'[v], ~InPlace(writes'[v][k])
      PROVE  Arrives(v, k)'
  <2> DEFINE c == writes[v][k]
  <2>1. /\ k \in DOMAIN writes[v] /\ writes'[v] = writes[v] /\ file'[v] = file[v]
        /\ Own(v, k) /\ Arrives(v, k) /\ (Writing(v, k)' <=> Writing(v, k)) /\ file[v] \in Path
    BY <1>1, <1>3
  <2>2. c.to \in Path /\ c.to \notin File
    <3>1. c.from # c.to /\ Does(file[v], c.from, c.to)
      BY <1>3, <2>1 DEF Own, InPlace
    <3> QED  BY <2>1, <3>1, DoesIs
  <2>3. ASSUME ~Writing(v, k)' PROVE Unwritten(c.to)' /\ Alone(v, k)'
    <3>1. Unwritten(c.to) /\ Alone(v, k)
      BY <2>1, <2>3 DEF Arrives
    <3>2. Unwritten(c.to)'
      BY <2>2, <3>1, StaysUnwritten
    <3>3. Alone(v, k)'
      BY <1>1, <2>1, <3>1 DEF Alone
    <3> QED  BY <3>2, <3>3
  <2>4. ASSUME Writing(v, k)', NEW u \in Executing', file'[u] = c.to
        PROVE  content'[u] \notin Text
    <3>1. Writing(v, k) /\ disk[c.to] = Torn /\ Torn \notin Text
      BY <2>1, <2>4, PathAssumption DEF Own
    <3>2. CASE u \in Executing /\ content'[u] = content[u]
      BY <2>1, <2>4, <3>1, <3>2 DEF Arrives
    <3>3. CASE content'[u] = disk[file[u]]
      BY <2>4, <3>1, <3>3
    <3> QED  BY <2>4, <3>2, <3>3
  <2>5. ASSUME Writing(v, k)', NEW u \in Thread, NEW l \in DOMAIN writes'[u],
               writes'[u][l].to = c.to, InPlace(writes'[u][l])
        PROVE  writes'[u][l].text \notin Text
    BY <1>1, <2>1, <2>5 DEF Arrives
  <2> QED  BY <2>1, <2>3, <2>4, <2>5 DEF Arrives
<1>4. PendingInv'
  BY <1>2, <1>3 DEF PendingInv
<1>5. ReadInv'
  <2> SUFFICES ASSUME NEW w \in Executing'
               PROVE  /\ ~Target(file'[w]) => content'[w] \in Text /\ content'[w].of = file'[w]
                      /\ content'[w] \in Text /\ Does(file'[w], file'[w], file'[w]) =>
                            Fits(file[w], content[w])'
    BY DEF ReadInv
  <2>1. /\ w \in Thread /\ file'[w] = file[w] /\ file[w] \in Path /\ applied' = applied
        /\ \/ w \in Executing /\ content'[w] = content[w]
           \/ disk[file[w]] # Missing /\ content'[w] = disk[file[w]]
    OBVIOUS
  <2>2. ~Target(file[w]) => content'[w] \in Text /\ content'[w].of = file[w]
    BY <2>1 DEF ReadInv, KeptInv, DiskInv
  <2>3. content'[w] \in Text /\ Does(file[w], file[w], file[w]) => Fits(file[w], content'[w])
    <3>1. CASE w \in Executing /\ content'[w] = content[w]
      BY <3>1 DEF ReadInv
    <3>2. CASE content'[w] = disk[file[w]]
      BY <2>1, <3>2 DEF KeptInv
    <3> QED  BY <2>1, <3>1, <3>2
  <2>4. Fits(file[w], content'[w]) => Fits(file[w], content[w])'
    BY <2>1 DEF Fits
  <2> QED  BY <2>1, <2>2, <2>3, <2>4
<1>6. AheadInv'
  <2> SUFFICES ASSUME NEW f \in Path, Ahead(f)', NEW i \in DOMAIN Change[f],
                      ~InPlace(Change[f][i])
               PROVE  /\ Unwritten(Change[f][i].to)'
                      /\ \A v \in Thread : \A l \in DOMAIN writes'[v] :
                            writes'[v][l].to # Change[f][i].to
    BY DEF AheadInv
  <2>1. /\ Unwritten(Change[f][i].to)
        /\ \A v \in Thread : \A l \in DOMAIN writes[v] : writes[v][l].to # Change[f][i].to
    BY DEF AheadInv
  <2>2. Change[f][i].to \in Path \ File
    BY ChangeType DEF NamesKept
  <2>3. Unwritten(Change[f][i].to)'
    BY <2>1, <2>2, StaysUnwritten
  <2> QED  BY <1>1, <2>1, <2>3
<1>7. KeptInv' /\ TextInv'
  BY DEF KeptInv, TextInv, Fits
<1> QED  BY <1>4, <1>5, <1>6, <1>7

\* What a change that is handed over is made from.
LEMMA EditedIs ==
    ASSUME NEW w \in Thread, NEW c
    PROVE  /\ Edited(w, c).from = c.from /\ Edited(w, c).to = c.to
           /\ Before(w, c) = Torn => Edited(w, c).text = Torn
           /\ Before(w, c) # Torn =>
                /\ Edited(w, c).text.of = Before(w, c).of
                /\ Edited(w, c).text.edits = Before(w, c).edits \cup {file[w]}
           /\ InPlace(Edited(w, c)) <=> InPlace(c)
  BY DEF Edited, InPlace

\* Of the changes of a script that has just ended none is applied.
LEMMA HandedOver ==
    ASSUME WrittenOnce, NamesKept, RenamesFinal, TakenInv, DiskInv, FilesInv, NEW w \in Thread,
           pc[w] = "execute", pc' = [pc EXCEPT ![w] = "settle"],
           \A i \in DOMAIN Change[file[w]] : Before(w, Change[file[w]][i]) # Missing,
           writes' = [writes EXCEPT ![w] = NewTexts(w)],
           \A v \in Executing' : content'[v] = content[v],
           UNCHANGED <<file, taken, disk, applied, deletions, damaged>>
    PROVE  FilesInv'
<1> USE DEF FilesInv
<1> DEFINE f == file[w]
<1> DEFINE C == Change[f]
<1>1. f \in Path /\ f \in taken /\ Ahead(f) /\ w \in Executing /\ Busy(w)
  BY DEF TakenInv, Busy, Ahead, Runs, Executing
<1>2. /\ \A v \in Thread : pc'[v] = IF v = w THEN "settle" ELSE pc[v]
      /\ \A v \in Thread \ {w} : writes'[v] = writes[v]
      /\ writes'[w] = NewTexts(w) /\ DOMAIN writes'[w] = DOMAIN C
      /\ \A i \in DOMAIN C : writes'[w][i] = Edited(w, C[i])
  BY DEF TakenInv, DiskInv, NewTexts
<1>3. \A v \in Executing' : v \in Executing /\ v # w
  BY <1>2 DEF Executing
<1>4. ASSUME NEW i \in DOMAIN C
      PROVE  /\ writes'[w][i].from = C[i].from /\ writes'[w][i].to = C[i].to
             /\ InPlace(writes'[w][i]) <=> InPlace(C[i])
             /\ C[i].from \in Path /\ C[i].to \in Path
             /\ Does(f, C[i].from, C[i].to)
             /\ Before(w, C[i]) \in Text \cup {Torn}
             /\ writes'[w][i].text \in Text <=> Before(w, C[i]) \in Text
             /\ Before(w, C[i]) \in Text =>
                  /\ writes'[w][i].text.of = Before(w, C[i]).of
                  /\ writes'[w][i].text.edits = Before(w, C[i]).edits \cup {f}
  <2>1. C[i].from \in Path /\ C[i].to \in Path
    BY <1>1, ChangeType
  <2>2. Before(w, C[i]) \in Text \cup {Torn}
    <3>1. Before(w, C[i]) \in Text \cup {Missing, Torn}
      BY <2>1 DEF Before, DiskInv
    <3> QED  BY <3>1
  <2>3. Does(f, C[i].from, C[i].to)
    BY DEF Does
  <2>4. Torn \notin Text
    BY PathAssumption
  <2>5. Before(w, C[i]) \in Text => Edited(w, C[i]).text \in Text
    <3>1. ASSUME Before(w, C[i]) \in Text
          PROVE  [of |-> Before(w, C[i]).of, edits |-> Before(w, C[i]).edits \cup {f}] \in Text
      BY <1>1, <3>1 DEF Text
    <3> QED  BY <2>4, <3>1 DEF Edited
  <2> QED  BY <1>2, <2>1, <2>2, <2>3, <2>4, <2>5, EditedIs
\* A path that waits for a renamed file gets no change from this script but that.
<1>5. ASSUME NEW i \in DOMAIN C, NEW p, p = C[i].to, Unwritten(p)
      PROVE  ~InPlace(C[i])
  <2> SUFFICES ASSUME InPlace(C[i]) PROVE FALSE
    OBVIOUS
  <2>1. C[i].from = p /\ p # f
    BY <1>1, <1>5 DEF Unwritten, InPlace
  <2>2. Before(w, C[i]) = Missing
    BY <1>5, <2>1 DEF Before, Unwritten
  <2> QED  BY <2>2
<1>6. \A v \in Thread \ {w} : \A k \in DOMAIN writes[v] :
         /\ file[v] \in Path /\ file[v] # f
         /\ Own(v, k) /\ (~InPlace(writes[v][k]) => Arrives(v, k))
         /\ Writing(v, k)' <=> Writing(v, k)
  <2> SUFFICES ASSUME NEW v \in Thread \ {w}, NEW k \in DOMAIN writes[v]
               PROVE  /\ file[v] \in Path /\ file[v] # f
                      /\ Own(v, k) /\ (~InPlace(writes[v][k]) => Arrives(v, k))
                      /\ Writing(v, k)' <=> Writing(v, k)
    OBVIOUS
  <2>1. writes[v] # <<>>
    OBVIOUS
  <2>2. Busy(v)
    BY <2>1 DEF PendingInv, Busy
  <2> QED  BY <1>1, <1>2, <2>2 DEF TakenInv, PendingInv, Writing
<1>7. ASSUME NEW i \in DOMAIN C, ~InPlace(C[i])
      PROVE  /\ Unwritten(C[i].to)
             /\ \A v \in Thread : \A l \in DOMAIN writes[v] : writes[v][l].to # C[i].to
  BY <1>1, <1>7 DEF AheadInv
\* The changes of other threads.
<1>8. ASSUME NEW v \in Thread \ {w}, NEW k \in DOMAIN writes'[v] PROVE Own(v, k)'
  BY <1>2, <1>6, <1>8 DEF Own, Fits
<1>9. ASSUME NEW v \in Thread \ {w}, NEW k \in DOMAIN writes'[v], ~InPlace(writes'[v][k])
      PROVE  Arrives(v, k)'
  <2> DEFINE c == writes[v][k]
  <2>1. /\ k \in DOMAIN writes[v] /\ writes'[v] = writes[v] /\ ~InPlace(c)
        /\ Own(v, k) /\ Arrives(v, k) /\ (Writing(v, k)' <=> Writing(v, k))
        /\ file[v] \in Path /\ file[v] # f
    BY <1>2, <1>6, <1>9
  <2>2. ASSUME NEW i \in DOMAIN C, C[i].to = c.to PROVE InPlace(C[i])
    <3> SUFFICES ASSUME ~InPlace(C[i]) PROVE FALSE
      OBVIOUS
    <3>1. Does(file[v], c.from, c.to) /\ Does(f, C[i].from, c.to)
      BY <1>4, <2>1, <2>2 DEF Own
    <3>2. c.from # c.to /\ C[i].from # c.to
      BY <2>1, <2>2 DEF InPlace
    <3> QED  BY <1>1, <2>1, <3>1, <3>2, OneAuthor
  <2>3. ASSUME ~Writing(v, k)' PROVE Unwritten(c.to)' /\ Alone(v, k)'
    <3>1. Unwritten(c.to) /\ Alone(v, k)
      BY <2>1, <2>3 DEF Arrives
    <3>2. \A i \in DOMAIN C : C[i].to # c.to
      BY <1>5, <2>2, <3>1
    <3>3. Alone(v, k)'
      <4>1. \A i \in DOMAIN writes'[w] : writes'[w][i].to # c.to
        BY <1>2, <1>4, <3>2
      <4> QED  BY <1>2, <2>1, <3>1, <4>1 DEF Alone
    <3>4. Unwritten(c.to)'
      BY <3>1 DEF Unwritten
    <3> QED  BY <3>3, <3>4
  <2>4. ASSUME Writing(v, k)', NEW u \in Executing', file'[u] = c.to
        PROVE  content'[u] \notin Text
    BY <1>3, <2>1, <2>4 DEF Arrives
  <2>5. ASSUME Writing(v, k)', NEW u \in Thread, NEW l \in DOMAIN writes'[u],
               writes'[u][l].to = c.to, InPlace(writes'[u][l])
        PROVE  writes'[u][l].text \notin Text
    <3>1. CASE u # w
      BY <1>2, <2>1, <2>5, <3>1 DEF Arrives
    <3>2. CASE u = w
      <4>1. l \in DOMAIN C /\ C[l].to = c.to /\ C[l].from = c.to
        BY <1>2, <1>4, <2>5, <3>2 DEF InPlace
      <4>2. disk[c.to] \notin Text /\ (f = c.to => content[w] \notin Text)
        BY <1>1, <2>1, <2>5, PathAssumption DEF Own, Arrives
      <4>3. Before(w, C[l]) \notin Text
        BY <4>1, <4>2 DEF Before
      <4> QED  BY <1>4, <3>2, <4>1, <4>3
    <3> QED  BY <3>1, <3>2
  <2> QED  BY <2>1, <2>3, <2>4, <2>5 DEF Arrives
\* The changes of this one.
<1>10. ASSUME NEW k \in DOMAIN writes'[w] PROVE Own(w, k)'
  <2>1. k \in DOMAIN C /\ ~Writing(w, k)'
    BY <1>2, <1>10 DEF Writing
  <2>2. ASSUME NEW l \in DOMAIN writes'[w], writes'[w][l].to = writes'[w][k].to,
               InPlace(writes'[w][l]) <=> InPlace(writes'[w][k])
        PROVE  l = k
    <3>1. l \in DOMAIN C /\ C[l].to = C[k].to /\ (InPlace(C[l]) <=> InPlace(C[k]))
      BY <1>2, <1>4, <2>1, <2>2
    <3> QED  BY <1>1, <2>1, <3>1 DEF WrittenOnce
  <2>3. ASSUME InPlace(writes'[w][k]), writes'[w][k].text \in Text
        PROVE  Fits(writes[w][k].to, writes[w][k].text)'
    <3>1. C[k].from = C[k].to /\ Before(w, C[k]) \in Text /\ Does(f, C[k].to, C[k].to)
      BY <1>4, <2>1, <2>3 DEF InPlace
    <3>2. Fits(C[k].to, Before(w, C[k]))
      <4>1. CASE C[k].to = f
        BY <1>1, <3>1, <4>1 DEF Before, ReadInv
      <4>2. CASE C[k].to # f
        BY <1>4, <2>1, <3>1, <4>2 DEF Before, KeptInv
      <4> QED  BY <4>1, <4>2
    <3>3. /\ writes'[w][k].to = C[k].to /\ writes'[w][k].text.of = Before(w, C[k]).of
          /\ Before(w, C[k]).edits \subseteq writes'[w][k].text.edits
      BY <1>4, <2>1, <3>1
    <3>4. \A b \in applied : b.to = C[k].to =>
             /\ b.text \in Text /\ b.text.of = writes'[w][k].text.of
             /\ b.by \in writes'[w][k].text.edits
      BY <3>2, <3>3 DEF Fits
    <3>5. \A b \in applied' : b.to = writes'[w][k].to =>
             /\ b.text \in Text /\ b.text.of = writes'[w][k].text.of
             /\ b.by \in writes'[w][k].text.edits
      BY <3>3, <3>4
    <3> QED  BY <3>5 DEF Fits
  <2>4. writes'[w][k].text \in Text => f \in writes'[w][k].text.edits
    BY <1>4, <2>1
  <2>5. Does(f, writes'[w][k].from, writes'[w][k].to)
    BY <1>4, <2>1
  <2> QED  BY <2>1, <2>2, <2>3, <2>4, <2>5 DEF Own
<1>11. ASSUME NEW k \in DOMAIN writes'[w], ~InPlace(writes'[w][k]) PROVE Arrives(w, k)'
  <2>1. k \in DOMAIN C /\ ~InPlace(C[k]) /\ ~Writing(w, k)'
    BY <1>2, <1>4, <1>11 DEF Writing
  <2>2. /\ Unwritten(C[k].to)
        /\ \A v \in Thread : \A l \in DOMAIN writes[v] : writes[v][l].to # C[k].to
    BY <1>7, <2>1
  <2>3. ~Target(C[k].from)
    BY <1>1, <2>1 DEF RenamesFinal
  <2>4. Before(w, C[k]) \in Text /\ Before(w, C[k]).of = C[k].from
    <3>1. CASE C[k].from = f
      BY <1>1, <2>3, <3>1 DEF Before, ReadInv
    <3>2. CASE C[k].from # f
      <4>1. Before(w, C[k]) = disk[C[k].from] /\ C[k].from \in Path
        BY <1>4, <2>1, <3>2 DEF Before
      <4>2. Before(w, C[k]) # Torn
        BY <2>3, <4>1 DEF KeptInv
      <4>3. Before(w, C[k]) \in Text
        BY <1>4, <2>1, <4>2
      <4> QED  BY <2>3, <4>1, <4>3 DEF KeptInv
    <3> QED  BY <3>1, <3>2
  <2>5. Unwritten(C[k].to)'
    BY <2>2 DEF Unwritten
  <2>6. ASSUME NEW l \in DOMAIN writes'[w], writes'[w][l].to = C[k].to PROVE l = k
    <3>1. l \in DOMAIN C /\ C[l].to = C[k].to
      BY <1>2, <1>4, <2>6
    <3>2. ~InPlace(C[l])
      BY <1>5, <2>2, <3>1
    <3> QED  BY <1>1, <2>1, <3>1, <3>2 DEF WrittenOnce
  <2>7. writes'[w][k].to = C[k].to /\ writes'[w][k].from = C[k].from
    BY <1>4, <2>1
  <2>8. Alone(w, k)'
    BY <1>2, <2>2, <2>6, <2>7 DEF Alone
  <2>9. \A b \in applied' : b.to # C[k].to
    BY <2>5 DEF Unwritten
  <2>10. writes'[w][k].text \in Text /\ writes'[w][k].text.of = C[k].from
    BY <1>4, <2>1, <2>4
  <2>11. Unwritten(writes[w][k].to)'
    BY <2>5, <2>7 DEF Unwritten
  <2> QED  BY <2>1, <2>7, <2>8, <2>9, <2>10, <2>11 DEF Arrives
<1>12. PendingInv'
  <2>1. \A v \in Thread : pc'[v] \notin {"settle", "apply", "write"} => writes'[v] = <<>>
    BY <1>2 DEF PendingInv
  <2> QED  BY <1>8, <1>9, <1>10, <1>11, <2>1 DEF PendingInv
<1>13. ReadInv'
  BY <1>3 DEF ReadInv, Fits
<1>14. AheadInv'
  <2> SUFFICES ASSUME NEW g \in Path, Ahead(g)', NEW i \in DOMAIN Change[g],
                      ~InPlace(Change[g][i])
               PROVE  /\ Unwritten(Change[g][i].to)'
                      /\ \A v \in Thread : \A l \in DOMAIN writes'[v] :
                            writes'[v][l].to # Change[g][i].to
    BY DEF AheadInv
  <2> DEFINE p == Change[g][i].to
  <2>1. Ahead(g) /\ g # f
    <3>1. ASSUME NEW v \in Thread, file[v] = g, Runs(v)' PROVE Runs(v) /\ g # f
      <4>1. v # w /\ Runs(v) /\ Busy(v)
        BY <1>2, <3>1 DEF Runs, Busy
      <4> QED  BY <1>1, <3>1, <4>1 DEF TakenInv
    <3>2. g \notin taken' => g # f /\ g \notin taken
      BY <1>1
    <3> QED  BY <3>1, <3>2 DEF Ahead
  <2>2. Unwritten(p) /\ \A v \in Thread : \A l \in DOMAIN writes[v] : writes[v][l].to # p
    BY <2>1 DEF AheadInv
  <2>3. ASSUME NEW j \in DOMAIN C, C[j].to = p PROVE FALSE
    <3>1. ~InPlace(C[j])
      BY <1>5, <2>2, <2>3
    <3> QED  BY <1>1, <2>1, <2>3, <3>1 DEF WrittenOnce
  <2>4. Unwritten(p)'
    BY <2>2 DEF Unwritten
  <2> QED  BY <1>2, <1>4, <2>2, <2>3, <2>4
<1>15. KeptInv' /\ TextInv'
  BY DEF KeptInv, TextInv, Fits
<1> QED  BY <1>12, <1>13, <1>14, <1>15


\* What is left for the threads when one of them is done with its first change.
LEMMA Left ==
    ASSUME NamesKept, RenamesFinal, TakenInv, DiskInv, PendingInv, NEW w \in Thread,
           pc[w] \in Applying, NextChange(w), \A v \in Thread \ {w} : pc[v] # "write",
           NEW v \in Thread, NEW l \in DOMAIN writes'[v]
    PROVE  /\ file'[v] = file[v] /\ file[v] \in Path /\ ~Writing(v, l)' /\ Busy(v)
           /\ v = w => l \in Nat
           /\ \E k \in DOMAIN writes[v] :
                 /\ writes'[v][l] = writes[v][k] /\ k = (IF v = w THEN l + 1 ELSE l)
                 /\ ~Writing(v, k) /\ ~(v = w /\ k = 1)
                 /\ Own(v, k) /\ (~InPlace(writes[v][k]) => Arrives(v, k))
<1> DEFINE s == writes[w]
<1>1. /\ s \in Seq(Written) /\ s # <<>>
      /\ \A u \in Thread : writes'[u] = IF u = w THEN Tail(s) ELSE writes[u]
      /\ \A u \in Thread \ {w} : pc'[u] = pc[u]
      /\ pc'[w] \in {"free", "apply"}
  BY NextChangeIs
<1>2. /\ \A u \in Thread \ {w} : file'[u] = file[u]
      /\ Len(s) # 1 => file'[w] = file[w]
  BY DEF NextChange, Free, TakenInv
<1>3. CASE v # w
  <2>1. writes'[v] = writes[v] /\ l \in DOMAIN writes[v] /\ pc'[v] = pc[v] /\ pc[v] # "write"
    BY <1>1, <1>3
  <2>2. writes[v] # <<>>
    BY <2>1
  <2>3. Busy(v) /\ file[v] \in Path
    BY <2>2 DEF PendingInv, Busy, TakenInv
  <2> QED  BY <1>2, <1>3, <2>1, <2>3 DEF PendingInv, Writing
<1>4. CASE v = w
  <2>1. writes'[w] = Tail(s) /\ pc'[w] # "write"
    BY <1>1
  <2>2. l \in Nat \ {0} /\ l + 1 \in DOMAIN s /\ Tail(s)[l] = s[l + 1] /\ Len(s) # 1
    BY <1>1, <1>4, <2>1
  <2>3. Busy(w) /\ file[w] \in Path
    BY DEF Applying, Busy, TakenInv
  <2>4. Own(w, l + 1) /\ (~InPlace(s[l + 1]) => Arrives(w, l + 1))
    BY <2>2 DEF PendingInv
  <2>5. ~Writing(w, l)' /\ ~Writing(w, l + 1) /\ l + 1 # 1
    BY <2>1, <2>2 DEF Writing
  <2> QED  BY <1>2, <1>4, <2>1, <2>2, <2>3, <2>4, <2>5
<1> QED  BY <1>3, <1>4

\* A thread is done with its first change, written or not, and with it nothing
\* that is left becomes wrong.
LEMMA DropStep ==
    ASSUME NamesKept, RenamesFinal, TakenInv, DiskInv, PendingInv, ReadInv, AheadInv,
           NEW w \in Thread, NEW c, c = Head(writes[w]),
           pc[w] \in Applying, NextChange(w), \A v \in Thread \ {w} : pc[v] # "write",
           UNCHANGED <<taken, content>>,
           \A p \in Path : p # c.to => disk'[p] = disk[p],
           \A p \in Path, t \in Text : p # c.to /\ Fits(p, t) => Fits(p, t)',
           \A b \in applied' : b \in applied \/ b.to = c.to,
           \A v \in Thread : \A k \in DOMAIN writes[v], t \in Text :
              /\ writes[v][k].to = c.to /\ InPlace(writes[v][k]) /\ writes[v][k].text = t
              /\ ~(v = w /\ k = 1)
              => Fits(c.to, t)',
           \A v \in Executing, t \in Text :
              file[v] = c.to /\ content[v] = t /\ Does(c.to, c.to, c.to) => Fits(c.to, t)'
    PROVE  PendingInv' /\ ReadInv' /\ AheadInv'
<1>1. /\ \A v \in Thread : writes'[v] = IF v = w THEN Tail(writes[w]) ELSE writes[v]
      /\ \A v \in Thread \ {w} : pc'[v] = pc[v]
      /\ pc'[w] \in {"free", "apply"} /\ (pc'[w] = "free" <=> writes'[w] = <<>>)
      /\ 1 \in DOMAIN writes[w] /\ c = writes[w][1]
  BY NextChangeIs
<1>2. ASSUME NEW v \in Thread, NEW l \in DOMAIN writes'[v]
      PROVE  /\ file'[v] = file[v] /\ file[v] \in Path /\ ~Writing(v, l)' /\ Busy(v)
             /\ v = w => l \in Nat
             /\ \E k \in DOMAIN writes[v] :
                   /\ writes'[v][l] = writes[v][k] /\ k = (IF v = w THEN l + 1 ELSE l)
                   /\ ~Writing(v, k) /\ ~(v = w /\ k = 1)
                   /\ Own(v, k) /\ (~InPlace(writes[v][k]) => Arrives(v, k))
  BY Left
\* Nothing else is on its way to a path that waits for a renamed file.
<1>3. ASSUME NEW v \in Thread, NEW l \in DOMAIN writes'[v], ~InPlace(writes'[v][l])
      PROVE  writes'[v][l].to # c.to /\ writes'[v][l].to \in Path
  <2>1. PICK k \in DOMAIN writes[v] :
          /\ writes'[v][l] = writes[v][k] /\ ~Writing(v, k) /\ ~(v = w /\ k = 1)
          /\ Own(v, k) /\ Arrives(v, k)
    BY <1>2, <1>3
  <2>2. Alone(v, k)
    BY <2>1 DEF Arrives
  <2>3. Does(file[v], writes[v][k].from, writes[v][k].to)
    BY <2>1 DEF Own
  <2> QED  BY <1>1, <1>2, <2>1, <2>2, <2>3, DoesIs DEF Alone
<1>4. ASSUME NEW v \in Thread, NEW l \in DOMAIN writes'[v] PROVE Own(v, l)'
  <2>1. PICK k \in DOMAIN writes[v] :
          /\ writes'[v][l] = writes[v][k] /\ k = (IF v = w THEN l + 1 ELSE l)
          /\ ~(v = w /\ k = 1) /\ Own(v, k)
    BY <1>2
  <2> DEFINE d == writes[v][k]
  <2>2. file'[v] = file[v] /\ file[v] \in Path /\ ~Writing(v, l)'
    BY <1>2
  <2>3. ASSUME NEW m \in DOMAIN writes'[v], writes'[v][m].to = d.to,
               InPlace(writes'[v][m]) <=> InPlace(d)
        PROVE  m = l
    <3>1. PICK n \in DOMAIN writes[v] :
            writes'[v][m] = writes[v][n] /\ n = (IF v = w THEN m + 1 ELSE m)
      BY <1>2
    <3>2. n = k
      BY <2>1, <2>3, <3>1 DEF Own
    <3>3. v = w => m \in Nat /\ l \in Nat
      BY <1>2
    <3> QED  BY <2>1, <3>1, <3>2, <3>3
  <2>4. ASSUME InPlace(d), d.text \in Text PROVE Fits(writes[v][l].to, writes[v][l].text)'
    <3>1. Does(file[v], d.from, d.to) /\ Fits(d.to, d.text)
      BY <2>1, <2>4 DEF Own
    <3>2. d.to \in Path
      BY <2>2, <3>1, DoesIs
    <3>3. \A b \in applied' : b.to = d.to =>
             b.text \in Text /\ b.text.of = d.text.of /\ b.by \in d.text.edits
      BY <2>1, <2>4, <3>1, <3>2 DEF Fits
    <3> QED  BY <2>1, <3>3 DEF Fits
  <2>5. Does(file[v], d.from, d.to) /\ (d.text \in Text => file[v] \in d.text.edits)
    BY <2>1 DEF Own
  <2> QED  BY <2>1, <2>2, <2>3, <2>4, <2>5 DEF Own
<1>5. ASSUME NEW v \in Thread, NEW l \in DOMAIN writes'[v], ~InPlace(writes'[v][l])
      PROVE  Arrives(v, l)'
  <2>1. PICK k \in DOMAIN writes[v] :
          /\ writes'[v][l] = writes[v][k] /\ k = (IF v = w THEN l + 1 ELSE l)
          /\ ~Writing(v, k) /\ Arrives(v, k)
    BY <1>2, <1>5
  <2> DEFINE d == writes[v][k]
  <2>2. ~Writing(v, l)' /\ d.to # c.to /\ d.to \in Path
    BY <1>2, <1>3, <1>5, <2>1
  <2>3. Unwritten(d.to) /\ Alone(v, k) /\ d.text \in Text /\ d.text.of = d.from
    BY <2>1 DEF Arrives
  <2>4. \A b \in applied' : b.to # d.to
    BY <2>2, <2>3 DEF Unwritten
  <2>5. disk'[d.to] = Missing /\ d.to \notin taken'
    BY <2>2, <2>3 DEF Unwritten
  <2>6. ASSUME NEW u \in Thread, NEW m \in DOMAIN writes'[u], writes'[u][m].to = d.to
        PROVE  u = v /\ m = l
    <3>1. PICK n \in DOMAIN writes[u] :
            writes'[u][m] = writes[u][n] /\ n = (IF u = w THEN m + 1 ELSE m)
      BY <1>2
    <3>2. u = v /\ n = k
      BY <2>3, <2>6, <3>1 DEF Alone
    <3>3. v = w => m \in Nat /\ l \in Nat
      BY <1>2, <3>2
    <3> QED  BY <2>1, <3>1, <3>2, <3>3
  <2>7. Alone(v, l)'
    BY <2>1, <2>6 DEF Alone
  <2>8. Unwritten(writes[v][l].to)'
    BY <2>1, <2>4, <2>5 DEF Unwritten
  <2> QED  BY <2>1, <2>2, <2>3, <2>4, <2>7, <2>8 DEF Arrives
<1>6. PendingInv'
  <2>1. ASSUME NEW v \in Thread, pc'[v] \notin {"settle", "apply", "write"} PROVE writes'[v] = <<>>
    BY <1>1, <2>1 DEF PendingInv
  <2> QED  BY <1>4, <1>5, <2>1 DEF PendingInv
<1>7. \A v \in Thread : pc'[v] \notin {"free", "apply"} => v # w /\ pc'[v] = pc[v] /\ file'[v] = file[v]
  BY <1>1 DEF NextChange, Free, TakenInv
<1>8. ReadInv'
  <2> SUFFICES ASSUME NEW v \in Executing'
               PROVE  /\ ~Target(file'[v]) => content'[v] \in Text /\ content'[v].of = file'[v]
                      /\ content'[v] \in Text /\ Does(file'[v], file'[v], file'[v]) =>
                            Fits(file[v], content[v])'
    BY DEF ReadInv
  <2>1. v \in Executing /\ file'[v] = file[v] /\ file[v] \in Path /\ content'[v] = content[v]
    BY <1>7 DEF Executing, TakenInv, Busy
  <2>2. ASSUME content[v] \in Text, Does(file[v], file[v], file[v])
        PROVE  \A b \in applied' : b.to = file[v] =>
                  b.text \in Text /\ b.text.of = content[v].of /\ b.by \in content[v].edits
    <3>1. Fits(file[v], content[v])
      BY <2>1, <2>2 DEF ReadInv
    <3>2. CASE file[v] = c.to
      BY <2>1, <2>2, <3>2 DEF Fits
    <3>3. CASE file[v] # c.to
      BY <2>1, <2>2, <3>1, <3>3 DEF Fits
    <3> QED  BY <3>2, <3>3
  <2> QED  BY <2>1, <2>2 DEF ReadInv, Fits
<1>9. AheadInv'
  <2> SUFFICES ASSUME NEW g \in Path, Ahead(g)', NEW i \in DOMAIN Change[g],
                      ~InPlace(Change[g][i])
               PROVE  /\ Unwritten(Change[g][i].to)'
                      /\ \A v \in Thread : \A l \in DOMAIN writes'[v] :
                            writes'[v][l].to # Change[g][i].to
    BY DEF AheadInv
  <2> DEFINE p == Change[g][i].to
  <2>1. Ahead(g)
    BY <1>7 DEF Ahead, Runs
  <2>2. Unwritten(p) /\ \A v \in Thread : \A l \in DOMAIN writes[v] : writes[v][l].to # p
    BY <2>1 DEF AheadInv
  <2>3. p # c.to /\ p \in Path
    BY <1>1, <2>2, ChangeType
  <2>4. Unwritten(p)'
    BY <2>2, <2>3 DEF Unwritten
  <2> QED  BY <1>2, <2>2, <2>4
<1> QED  BY <1>6, <1>8, <1>9

\* A write begins: its path has no text until it ends.
LEMMA BeginOpens ==
    ASSUME WrittenOnce, NamesKept, RenamesFinal, TakenInv, DiskInv, FilesInv, NEW w \in Thread,
           NEW c, c = Head(writes[w]),
           pc[w] = "apply", \A v \in Thread : pc[v] # "write",
           pc' = [pc EXCEPT ![w] = "write"], disk' = [disk EXCEPT ![c.to] = Torn],
           damaged' = IF InPlace(c) /\ disk[c.to] \in Text THEN damaged \cup {disk[c.to].of}
                      ELSE damaged,
           UNCHANGED <<file, writes, taken, content, applied, deletions>>
    PROVE  FilesInv'
<1> USE DEF FilesInv
<1>1. 1 \in DOMAIN writes[w] /\ c = writes[w][1] /\ Own(w, 1) /\ (~InPlace(c) => Arrives(w, 1))
  <2>1. 1 \in DOMAIN writes[w] /\ c = writes[w][1]
    BY NextChangeIs DEF Applying
  <2> QED  BY <2>1 DEF PendingInv
<1>2. /\ \A v \in Thread : pc'[v] = IF v = w THEN "write" ELSE pc[v]
      /\ Busy(w) /\ file[w] \in Path
  BY DEF TakenInv, Busy
<1>3. Does(file[w], c.from, c.to) /\ c.to \in Path /\ Target(c.to) /\ Torn \notin Text /\ Torn # Missing
  <2>1. Does(file[w], c.from, c.to)
    BY <1>1 DEF Own
  <2> QED  BY <1>2, <2>1, DoesIs, PathAssumption
<1>4. \A p \in Path : disk'[p] = IF p = c.to THEN Torn ELSE disk[p]
  BY <1>3 DEF DiskInv
<1>5. ~InPlace(c) => Unwritten(c.to) /\ Alone(w, 1)
  BY <1>1 DEF Arrives, Writing
<1>6. \A v \in Executing' : v \in Executing /\ v # w /\ file[v] \in taken
  BY <1>2 DEF Executing, TakenInv, Busy
<1>7. ASSUME NEW v \in Thread, NEW l \in DOMAIN writes[v] PROVE Own(v, l)'
  <2>1. Own(v, l)
    BY <1>7 DEF PendingInv
  <2>2. Writing(v, l)' => v = w /\ l = 1
    BY <1>2 DEF Writing
  <2> QED  BY <1>1, <1>3, <1>4, <2>1, <2>2 DEF Own, Fits
<1>8. ASSUME NEW v \in Thread, NEW l \in DOMAIN writes[v], ~InPlace(writes[v][l])
      PROVE  Arrives(v, l)'
  <2> DEFINE d == writes[v][l]
  <2>1. Arrives(v, l) /\ Own(v, l) /\ ~Writing(v, l)
    BY <1>8 DEF PendingInv, Writing
  <2>2. CASE v = w /\ l = 1
    <3>1. Unwritten(c.to) /\ Alone(w, 1)
      BY <1>1, <1>5, <1>8, <2>2
    <3>2. \A u \in Executing' : file[u] # c.to
      BY <1>6, <3>1 DEF Unwritten
    <3>3. \A u \in Thread : \A m \in DOMAIN writes[u] :
             ~(writes[u][m].to = c.to /\ InPlace(writes[u][m]))
      BY <1>1, <1>8, <2>2, <3>1 DEF Alone
    <3>4. Writing(v, l)'
      BY <1>2, <2>2 DEF Writing
    <3> QED  BY <1>1, <2>1, <2>2, <3>2, <3>3, <3>4 DEF Arrives
  <2>3. CASE ~(v = w /\ l = 1)
    <3>1. Unwritten(d.to) /\ Alone(v, l)
      BY <2>1 DEF Arrives
    <3>2. d.to # c.to
      BY <1>1, <2>3, <3>1 DEF Alone
    <3>3. d.to \in Path
      <4>1. writes[v] # <<>>
        BY <1>8
      <4>2. file[v] \in Path
        BY <4>1 DEF PendingInv, TakenInv, Busy
      <4> QED  BY <2>1, <4>2, DoesIs DEF Own
    <3>4. Unwritten(d.to)' /\ Alone(v, l)'
      BY <1>4, <3>1, <3>2, <3>3 DEF Unwritten, Alone
    <3>5. ~Writing(v, l)'
      BY <1>2, <2>3 DEF Writing
    <3> QED  BY <2>1, <3>4, <3>5 DEF Arrives
  <2> QED  BY <2>2, <2>3
<1>9. PendingInv'
  BY <1>2, <1>7, <1>8 DEF PendingInv
<1>10. ReadInv'
  BY <1>6 DEF ReadInv, Fits
<1>11. AheadInv'
  <2> SUFFICES ASSUME NEW g \in Path, Ahead(g)', NEW i \in DOMAIN Change[g],
                      ~InPlace(Change[g][i])
               PROVE  /\ Unwritten(Change[g][i].to)'
                      /\ \A v \in Thread : \A l \in DOMAIN writes[v] :
                            writes[v][l].to # Change[g][i].to
    BY DEF AheadInv
  <2> DEFINE p == Change[g][i].to
  <2>1. Ahead(g)
    BY <1>2 DEF Ahead, Runs
  <2>2. Unwritten(p) /\ \A v \in Thread : \A l \in DOMAIN writes[v] : writes[v][l].to # p
    BY <2>1 DEF AheadInv
  <2>3. p # c.to /\ p \in Path
    BY <1>1, <2>2, ChangeType
  <2> QED  BY <1>4, <2>2, <2>3 DEF Unwritten
<1>12. KeptInv'
  <2>1. \A p \in Path : ~Target(p) => disk'[p] = disk[p]
    BY <1>3, <1>4
  <2>2. \A p \in Path : disk'[p] \in Text => disk'[p] = disk[p]
    BY <1>3, <1>4
  <2>3. \A b \in applied : b.to \in Path /\ disk[b.to] # Missing => disk'[b.to] # Missing
    BY <1>3, <1>4
  <2> QED  BY <2>1, <2>2, <2>3 DEF KeptInv, Fits
<1>13. TextInv'
  <2> SUFFICES ASSUME NEW f \in File \ damaged'
               PROVE  \E p \in Path : disk'[p] \in Text /\ disk'[p].of = f
                                        /\ (f \in deletions => Target(p))
    BY DEF TextInv
  <2>1. f \notin damaged
    OBVIOUS
  <2>2. PICK p \in Path : disk[p] \in Text /\ disk[p].of = f /\ (f \in deletions => Target(p))
    BY <2>1 DEF TextInv
  <2>3. p # c.to
    <3> SUFFICES ASSUME p = c.to PROVE FALSE
      OBVIOUS
    <3>1. InPlace(c)
      BY <1>5, <2>2, PathAssumption DEF Unwritten
    <3> QED  BY <2>2, <3>1
  <2> QED  BY <1>4, <2>2, <2>3
<1> QED  BY <1>9, <1>10, <1>11, <1>12, <1>13

\* A change is on disk: nobody but its author was to write there, so it replaces
\* no other, and if it is a renamed file, the text has its new place.
LEMMA WriteLands ==
    ASSUME WrittenOnce, NamesKept, RenamesFinal, TakenInv, DiskInv, FilesInv, NEW w \in Thread,
           NEW c, c = Head(writes[w]), pc[w] = "write", NextChange(w), WriteDone(w),
           deletions' = IF InPlace(c) THEN deletions ELSE deletions \cup {c.from},
           UNCHANGED <<taken, content>>
    PROVE  FilesInv'
<1> USE DEF FilesInv
<1> DEFINE new == [by |-> file[w], to |-> c.to, text |-> c.text]
<1>1. /\ 1 \in DOMAIN writes[w] /\ c = writes[w][1] /\ Own(w, 1)
      /\ ~InPlace(c) => Arrives(w, 1)
      /\ c.text \in Text \cup {Torn}
  <2>1. 1 \in DOMAIN writes[w] /\ c = writes[w][1] /\ c \in Written
    BY NextChangeIs DEF Applying
  <2>2. c.text \in Text \cup {Torn}
    BY <2>1 DEF Written
  <2> QED  BY <2>1, <2>2 DEF PendingInv
<1>2. Writing(w, 1) /\ Busy(w) /\ file[w] \in Path /\ \A v \in Thread \ {w} : pc[v] # "write"
  BY DEF Writing, Busy, TakenInv, DiskInv
<1>3. /\ Does(file[w], c.from, c.to) /\ c.from \in Path /\ c.to \in Path /\ Target(c.to)
      /\ ~InPlace(c) => ~Target(c.from)
      /\ disk[c.to] = Torn /\ Torn \notin Text /\ c.text # Missing
  <2>1. Does(file[w], c.from, c.to) /\ disk[c.to] = Torn
    BY <1>1, <1>2 DEF Own
  <2> QED  BY <1>1, <1>2, <2>1, DoesIs, PathAssumption DEF InPlace
<1>4. /\ \A p \in Path : disk'[p] = IF p = c.to THEN c.text ELSE disk[p]
      /\ applied' = applied \cup {new}
      /\ damaged' = IF InPlace(c) /\ c.text \in Text THEN damaged \ {c.text.of} ELSE damaged
  BY <1>3 DEF WriteDone, DiskInv
<1>5. \A b \in applied' : b \in applied \/ (b.to = c.to /\ b.by = file[w] /\ b.text = c.text)
  BY <1>4
\* What is there has every change that was applied there.
<1>6. ASSUME c.text \in Text
      PROVE  \A b \in applied' : b.to = c.to =>
                b.text \in Text /\ b.text.of = c.text.of /\ b.by \in c.text.edits
  <2>1. file[w] \in c.text.edits
    BY <1>1, <1>6 DEF Own
  <2>2. CASE InPlace(c)
    BY <1>1, <1>5, <1>6, <2>1, <2>2 DEF Own, Fits
  <2>3. CASE ~InPlace(c)
    BY <1>1, <1>5, <1>6, <2>1, <2>3 DEF Arrives
  <2> QED  BY <2>2, <2>3
\* No other script has a text for this path.
<1>7. ASSUME NEW v \in Thread, NEW k \in DOMAIN writes[v], NEW t \in Text,
             writes[v][k].to = c.to, InPlace(writes[v][k]), writes[v][k].text = t,
             ~(v = w /\ k = 1)
      PROVE  FALSE
  <2>1. CASE InPlace(c)
    <3>1. Does(file[v], c.to, c.to) /\ Does(file[w], c.to, c.to)
      <4>1. Own(v, k)
        BY DEF PendingInv
      <4> QED  BY <1>3, <1>7, <2>1, <4>1 DEF Own, InPlace
    <3>2. writes[v] # <<>>
      BY <1>7
    <3>3. Busy(v) /\ file[v] \in Path
      BY <3>2 DEF PendingInv, Busy, TakenInv
    <3>4. file[v] = file[w]
      BY <1>2, <3>1, <3>3, OneAuthor
    <3>5. v = w
      BY <1>2, <3>3, <3>4 DEF TakenInv
    <3>6. k = 1
      BY <1>1, <1>7, <2>1, <3>5 DEF Own
    <3> QED  BY <1>7, <3>5, <3>6
  <2>2. CASE ~InPlace(c)
    BY <1>1, <1>2, <1>7, <2>2 DEF Arrives
  <2> QED  BY <2>1, <2>2
<1>8. ASSUME NEW v \in Executing, NEW t \in Text, file[v] = c.to, content[v] = t,
             Does(c.to, c.to, c.to)
      PROVE  FALSE
  <2>1. CASE InPlace(c)
    <3>1. Does(file[v], c.to, c.to) /\ Does(file[w], c.to, c.to)
      BY <1>3, <1>8, <2>1 DEF InPlace
    <3>2. v \in Thread /\ Busy(v) /\ v # w /\ file[v] \in Path
      BY <1>3, <1>8 DEF Executing, Busy
    <3>3. file[v] = file[w]
      BY <1>2, <3>1, <3>2, OneAuthor
    <3> QED  BY <1>2, <3>2, <3>3 DEF TakenInv
  <2>2. CASE ~InPlace(c)
    BY <1>1, <1>2, <1>8, <2>2 DEF Arrives
  <2> QED  BY <2>1, <2>2
<1>9. \A p \in Path, t \in Text : p # c.to /\ Fits(p, t) => Fits(p, t)'
  BY <1>5 DEF Fits
<1>10. PendingInv' /\ ReadInv' /\ AheadInv'
  <2>1. pc[w] \in Applying
    BY DEF Applying
  <2>2. \A p \in Path : p # c.to => disk'[p] = disk[p]
    BY <1>4
  <2>3. \A b \in applied' : b \in applied \/ b.to = c.to
    BY <1>5
  <2> QED  BY <1>2, <1>7, <1>8, <1>9, <2>1, <2>2, <2>3, DropStep
<1>11. KeptInv'
  <2>1. \A p \in Path : ~Target(p) => disk'[p] = disk[p]
    BY <1>3, <1>4
  <2>2. ASSUME NEW p \in Path, disk'[p] \in Text
        PROVE  \A b \in applied' : b.to = p =>
                  b.text \in Text /\ b.text.of = disk'[p].of /\ b.by \in disk'[p].edits
    <3>1. CASE p = c.to
      BY <1>4, <1>6, <2>2, <3>1
    <3>2. CASE p # c.to
      BY <1>4, <1>5, <2>2, <3>2 DEF KeptInv, Fits
    <3> QED  BY <3>1, <3>2
  <2>3. \A d \in deletions' : d \in Path /\ ~Target(d)
    BY <1>3 DEF KeptInv
  <2>4. \A b \in applied' : b.to \in Path /\ Target(b.to) /\ disk'[b.to] # Missing
    BY <1>3, <1>4, <1>5 DEF KeptInv
  <2> QED  BY <2>1, <2>2, <2>3, <2>4 DEF KeptInv, Fits
<1>12. TextInv'
  <2> SUFFICES ASSUME NEW f \in File \ damaged'
               PROVE  \E p \in Path : disk'[p] \in Text /\ disk'[p].of = f
                                        /\ (f \in deletions' => Target(p))
    BY DEF TextInv
  <2>1. CASE c.text \in Text /\ c.text.of = f /\ (InPlace(c) \/ c.from = f)
    BY <1>3, <1>4, <2>1
  <2>2. CASE ~(c.text \in Text /\ c.text.of = f /\ (InPlace(c) \/ c.from = f))
    <3>1. f \notin damaged
      BY <1>4, <2>2
    <3>2. PICK p \in Path : disk[p] \in Text /\ disk[p].of = f /\ (f \in deletions => Target(p))
      BY <3>1 DEF TextInv
    <3>3. p # c.to
      BY <1>3, <3>2
    <3>4. f \in deletions' => f \in deletions
      <4>1. ~InPlace(c) => c.text \in Text /\ c.text.of = c.from
        BY <1>1 DEF Arrives
      <4> QED  BY <2>2, <4>1
    <3> QED  BY <1>4, <3>2, <3>3, <3>4
  <2> QED  BY <2>1, <2>2
<1> QED  BY <1>10, <1>11, <1>12

\* A change could not be written.
LEMMA WriteFails ==
    ASSUME NamesKept, RenamesFinal, TakenInv, DiskInv, FilesInv, NEW w \in Thread,
           NEW c, c = Head(writes[w]),
           pc[w] \in Applying, NextChange(w), \A v \in Thread \ {w} : pc[v] # "write",
           UNCHANGED <<taken, content, disk, applied, deletions, damaged>>
    PROVE  FilesInv'
<1> USE DEF FilesInv
<1>1. \A p \in Path, t \in Text : Fits(p, t) => Fits(p, t)'
  BY DEF Fits
<1>2. ASSUME NEW v \in Thread, NEW k \in DOMAIN writes[v], NEW t \in Text,
             writes[v][k].to = c.to, InPlace(writes[v][k]), writes[v][k].text = t
      PROVE  Fits(c.to, t)'
  <2>1. Own(v, k)
    BY DEF PendingInv
  <2> QED  BY <1>2, <2>1 DEF Own, Fits
<1>3. ASSUME NEW v \in Executing, NEW t \in Text, file[v] = c.to, content[v] = t,
             Does(c.to, c.to, c.to)
      PROVE  Fits(c.to, t)'
  BY <1>3 DEF ReadInv, Fits
<1>4. PendingInv' /\ ReadInv' /\ AheadInv'
  BY <1>1, <1>2, <1>3, DropStep
<1>5. KeptInv' /\ TextInv'
  BY DEF KeptInv, TextInv, Fits
<1> QED  BY <1>4, <1>5

\* The originals that are deleted have been written under their new names, and
\* no thread has anything left to write.
LEMMA DeletionStep ==
    ASSUME DiskInv, FilesInv, DeleteOriginals
    PROVE  FilesInv'
<1> USE DEF FilesInv
<1>1. PICK D \in SUBSET deletions : disk' = [p \in Path |-> IF p \in D THEN Missing ELSE disk[p]]
  BY DEF DeleteOriginals
<1>2. UNCHANGED <<taken, pc, file, content, writes, deletions, applied, damaged>>
  BY DEF DeleteOriginals
<1>3. \A w \in Thread : pc[w] = "free" /\ writes[w] = <<>>
  BY DEF DeleteOriginals, DiskInv, ThreadsFree, PendingInv
<1>4. \A d \in D : d \in Path /\ ~Target(d)
  BY DEF KeptInv
<1>5. Missing \notin Text /\ Missing # Torn
  BY PathAssumption
<1>6. PendingInv'
  BY <1>2, <1>3 DEF PendingInv
<1>7. ReadInv'
  BY <1>2, <1>3 DEF ReadInv, Executing
<1>8. AheadInv'
  <2>1. \A f \in Path : Ahead(f)' => Ahead(f)
    BY <1>2 DEF Ahead, Runs
  <2>2. \A p \in Path : Unwritten(p) => Unwritten(p)'
    BY <1>1, <1>2 DEF Unwritten
  <2>3. \A f \in Path : \A i \in DOMAIN Change[f] : Change[f][i].to \in Path
    BY ChangeType
  <2> QED  BY <1>2, <2>1, <2>2, <2>3 DEF AheadInv
<1>9. KeptInv'
  BY <1>1, <1>2, <1>4, <1>5 DEF KeptInv, Fits
<1>10. TextInv'
  <2> SUFFICES ASSUME NEW f \in File \ damaged
               PROVE  \E p \in Path : disk'[p] \in Text /\ disk'[p].of = f
                                        /\ (f \in deletions => Target(p))
    BY <1>2 DEF TextInv
  <2>1. PICK p \in Path : disk[p] \in Text /\ disk[p].of = f /\ (f \in deletions => Target(p))
    BY DEF TextInv
  <2>2. p \notin D
    BY <1>4, <2>1 DEF KeptInv
  <2> QED  BY <1>1, <2>1, <2>2
<1> QED  BY <1>6, <1>7, <1>8, <1>9, <1>10

\* A step of the whole system, by what it does to the files.
LEMMA FilesStep ==
    ASSUME WrittenOnce, NamesKept, RenamesFinal, TakenInv, DiskInv, FilesInv, [Next]_vars
    PROVE  FilesInv'
<1> DEFINE Calm ==
      /\ UNCHANGED <<disk, applied, deletions, damaged>>
      /\ \A q \in taken' \ taken : q \in File \/ disk[q] # Missing
      /\ \A f \in Path : Ahead(f)' => Ahead(f)
      /\ \A v \in Thread :
            /\ writes'[v] = <<>> \/ (writes'[v] = writes[v] /\ file'[v] = file[v])
            /\ pc'[v] \notin {"settle", "apply", "write"} => writes'[v] = <<>>
            /\ pc'[v] = "write" <=> pc[v] = "write"
      /\ \A v \in Executing' :
            /\ v \in Thread /\ file'[v] = file[v] /\ file[v] \in Path
            /\ \/ v \in Executing /\ content'[v] = content[v]
               \/ disk[file[v]] # Missing /\ content'[v] = disk[file[v]]
<1>1. ASSUME Calm PROVE FilesInv'
  BY <1>1, CalmStep
<1>2. \A v \in Thread : pc[v] \notin {"settle", "apply", "write"} => writes[v] = <<>>
  BY DEF FilesInv, PendingInv
<1>3. \A v \in Executing : v \in Thread /\ Busy(v) /\ file[v] \in Path
  BY DEF Executing, Busy, TakenInv
<1>4. ASSUME UNCHANGED <<disk, applied, deletions, damaged, taken, pc, file, content, writes>>
      PROVE  FilesInv'
  <2>1. Calm
    BY <1>2, <1>3, <1>4 DEF Ahead, Runs, Executing
  <2> QED  BY <1>1, <2>1
<1>5. CASE UNCHANGED vars
  BY <1>4, <1>5 DEF vars, batchVars
<1>6. CASE Register \/ NotifyWaiters \/ EndWalk \/ StopWatchdog \/ Decide \/ SaveState
           \/ UserCancel \/ Expire
  BY <1>4, <1>6 DEF Register, NotifyWaiters, EndWalk, StopWatchdog, Decide, SaveState,
                    UserCancel, Expire
<1>7. CASE DeleteOriginals
  BY <1>7, DeletionStep
<1>8. ASSUME NEW w \in Thread, UseState(w) PROVE FilesInv'
  BY <1>4, <1>8 DEF UseState, batchVars
<1>9. ASSUME NEW w \in Thread, TakeFile(w) PROVE FilesInv'
  <2>1. UNCHANGED <<disk, applied, deletions, damaged, content, writes>> /\ pc[w] = "free"
    BY <1>9 DEF TakeFile
  <2>2. PICK f \in Path \ taken :
          /\ f \in File \/ disk[f] # Missing
          /\ taken' = taken \cup {f}
          /\ \/ UNCHANGED <<pc, file>>
             \/ pc' = [pc EXCEPT ![w] = "load"] /\ file' = [file EXCEPT ![w] = f]
    BY <1>9 DEF TakeFile
  <2>3. \A v \in Thread : v # w => pc'[v] = pc[v] /\ file'[v] = file[v]
    BY <2>2 DEF TakenInv
  <2>4. pc'[w] \in {"free", "load"} /\ writes[w] = <<>> /\ (pc'[w] = "load" => file'[w] = f)
    BY <1>2, <2>1, <2>2 DEF TakenInv
  <2>5. \A g \in Path : Ahead(g)' => Ahead(g)
    BY <2>2, <2>3, <2>4 DEF Ahead, Runs
  <2>6. \A v \in Executing' : v # w /\ v \in Executing /\ file'[v] = file[v]
    BY <2>3, <2>4 DEF Executing
  <2>7. \A v \in Thread :
          /\ writes'[v] = <<>> \/ (writes'[v] = writes[v] /\ file'[v] = file[v])
          /\ pc'[v] \notin {"settle", "apply", "write"} => writes'[v] = <<>>
          /\ pc'[v] = "write" <=> pc[v] = "write"
    BY <1>2, <2>1, <2>3, <2>4
  <2> QED  BY <1>1, <1>3, <2>1, <2>2, <2>5, <2>6, <2>7
<1>10. ASSUME NEW w \in Thread, LoadFile(w) \/ Enable(w) \/ CheckFlag(w) PROVE FilesInv'
  <2>1. UNCHANGED <<disk, applied, deletions, damaged, writes, taken>>
    BY <1>10 DEF LoadFile, Enable, CheckFlag, progress
  <2>2. PICK l \in BeforeApply \cup {"free"} : Moves(w, {"load", "enable", "check"}, l)
    BY <1>10, WorkMoves DEF Moves, BeforeApply
  <2>3. /\ \A v \in Thread : v # w => pc'[v] = pc[v] /\ file'[v] = file[v]
        /\ pc[w] \in {"load", "enable", "check"} /\ pc'[w] = l
        /\ l # "free" => file'[w] = file[w]
    BY <2>2 DEF Moves, TakenInv
  <2>4. writes[w] = <<>> /\ file[w] \in Path
    BY <1>2, <2>3 DEF TakenInv, Busy
  <2>5. \A g \in Path : Ahead(g)' => Ahead(g)
    BY <2>1, <2>3 DEF Ahead, Runs
  <2>6. \A v \in Thread :
          /\ writes'[v] = <<>> \/ (writes'[v] = writes[v] /\ file'[v] = file[v])
          /\ pc'[v] \notin {"settle", "apply", "write"} => writes'[v] = <<>>
          /\ pc'[v] = "write" <=> pc[v] = "write"
    BY <1>2, <2>1, <2>3, <2>4 DEF BeforeApply
  <2>7. \A v \in Thread : v # w => content'[v] = content[v]
    BY <1>10 DEF LoadFile, Enable, CheckFlag, Ends, DiskInv
  <2>8. ASSUME w \in Executing'
        PROVE  \/ w \in Executing /\ content'[w] = content[w]
               \/ disk[file[w]] # Missing /\ content'[w] = disk[file[w]]
    <3>1. pc'[w] \in {"enable", "check", "execute"}
      BY <2>8 DEF Executing
    <3>2. LoadFile(w) => disk[file[w]] # Missing /\ content' = [content EXCEPT ![w] = disk[file[w]]]
      <4>1. LoadFile(w) => \/ disk[file[w]] # Missing /\ content' = [content EXCEPT ![w] = disk[file[w]]]
                           \/ pc' = [pc EXCEPT ![w] = "free"]
        BY DEF LoadFile, Free
      <4> QED  BY <3>1, <4>1 DEF TakenInv
    <3>3. Enable(w) => content' = content /\ pc[w] = "enable"
      BY DEF Enable
    <3>4. CheckFlag(w) => content' = content /\ pc[w] = "check"
      <4>1. CheckFlag(w) => pc[w] = "check" /\ (content' = content \/ pc' = [pc EXCEPT ![w] = "settle"])
        BY DEF CheckFlag, Ends
      <4> QED  BY <3>1, <4>1 DEF TakenInv
    <3> QED  BY <1>10, <3>2, <3>3, <3>4 DEF DiskInv, Executing
  <2>9. \A v \in Executing' :
          /\ v \in Thread /\ file'[v] = file[v] /\ file[v] \in Path
          /\ \/ v \in Executing /\ content'[v] = content[v]
             \/ disk[file[v]] # Missing /\ content'[v] = disk[file[v]]
    <3>1. ASSUME NEW v \in Executing', v # w PROVE v \in Executing /\ file'[v] = file[v]
      BY <2>3, <3>1 DEF Executing
    <3>2. w \in Executing' => file'[w] = file[w]
      BY <2>3 DEF Executing
    <3>3. \A v \in Executing' : v \in Thread
      BY DEF Executing
    <3> QED  BY <1>3, <2>4, <2>7, <2>8, <3>1, <3>2, <3>3
  <2> QED  BY <1>1, <2>1, <2>5, <2>6, <2>9
\* The script has ended, was aborted, or its changes are dropped or to be applied.
<1>11. ASSUME NEW w \in Thread,
              UNCHANGED <<disk, applied, deletions, damaged, taken>>,
              pc[w] \in {"execute", "settle"},
              \E l \in {"settle", "free", "apply"} : Moves(w, {"execute", "settle"}, l),
              \/ UNCHANGED writes /\ (pc'[w] = "free" => writes[w] = <<>>)
              \/ writes' = [writes EXCEPT ![w] = <<>>],
              \A v \in Thread \ {w} : content'[v] = content[v]
       PROVE  FilesInv'
  <2>1. PICK l \in {"settle", "free", "apply"} : Moves(w, {"execute", "settle"}, l)
    BY <1>11
  <2>2. /\ \A v \in Thread : v # w => pc'[v] = pc[v] /\ file'[v] = file[v]
        /\ pc'[w] = l /\ (l # "free" => file'[w] = file[w])
    BY <2>1 DEF Moves, TakenInv
  <2>3. \A g \in Path : Ahead(g)' => Ahead(g)
    BY <1>11, <2>2 DEF Ahead, Runs
  <2>4. /\ \A v \in Thread : v # w => writes'[v] = writes[v]
        /\ writes'[w] = <<>> \/ (writes'[w] = writes[w] /\ l # "free")
    BY <1>11, <2>2 DEF DiskInv
  <2>5. \A v \in Thread :
          /\ writes'[v] = <<>> \/ (writes'[v] = writes[v] /\ file'[v] = file[v])
          /\ pc'[v] \notin {"settle", "apply", "write"} => writes'[v] = <<>>
          /\ pc'[v] = "write" <=> pc[v] = "write"
    BY <1>2, <1>11, <2>2, <2>4
  <2>6. \A v \in Executing' : v # w /\ v \in Executing /\ file'[v] = file[v]
    BY <2>2 DEF Executing
  <2>7. \A v \in Executing' :
          /\ v \in Thread /\ file'[v] = file[v] /\ file[v] \in Path
          /\ v \in Executing /\ content'[v] = content[v]
    BY <1>3, <1>11, <2>6
  <2> QED  BY <1>1, <1>11, <2>3, <2>5, <2>7
<1>12. ASSUME NEW w \in Thread, Abort(w) PROVE FilesInv'
  <2>1. /\ UNCHANGED <<disk, applied, deletions, damaged, taken, writes>> /\ pc[w] = "execute"
        /\ pc' = [pc EXCEPT ![w] = "settle"] /\ content' = [content EXCEPT ![w] = Missing]
    BY <1>12 DEF Abort, Ends, progress
  <2>2. Moves(w, {"execute", "settle"}, "settle")
    BY <1>12, WorkMoves DEF Moves
  <2>3. pc'[w] # "free" /\ \A v \in Thread \ {w} : content'[v] = content[v]
    BY <2>1 DEF TakenInv, DiskInv
  <2> QED  BY <1>11, <2>1, <2>2, <2>3
<1>13. ASSUME NEW w \in Thread, EndExecution(w) PROVE FilesInv'
  <2>1. /\ UNCHANGED <<file, disk, applied, deletions, damaged, taken>> /\ pc[w] = "execute"
        /\ pc' = [pc EXCEPT ![w] = "settle"] /\ content' = [content EXCEPT ![w] = Missing]
    BY <1>13 DEF EndExecution, Ends, progress
  <2>2. \A v \in Thread \ {w} : content'[v] = content[v]
    BY <2>1 DEF DiskInv
  <2>3. CASE writes' = [writes EXCEPT ![w] = <<>>]
    <3>1. Moves(w, {"execute", "settle"}, "settle")
      BY <1>13, WorkMoves DEF Moves
    <3> QED  BY <1>11, <2>1, <2>2, <2>3, <3>1
  <2>4. CASE /\ \A i \in DOMAIN Change[file[w]] : Before(w, Change[file[w]][i]) # Missing
             /\ writes' = [writes EXCEPT ![w] = NewTexts(w)]
    <3>1. \A v \in Executing' : content'[v] = content[v]
      BY <2>1, <2>2 DEF Executing, TakenInv
    <3> QED  BY <2>1, <2>4, <3>1, HandedOver
  <2> QED  BY <1>13, <2>3, <2>4 DEF EndExecution
<1>14. ASSUME NEW w \in Thread, Settle(w) PROVE FilesInv'
  <2>1. UNCHANGED <<disk, applied, deletions, damaged, taken, content>> /\ pc[w] = "settle"
    BY <1>14 DEF Settle, Settles
  <2>2. \E l \in {"settle", "free", "apply"} : Moves(w, {"execute", "settle"}, l)
    BY <1>14, WorkMoves DEF Moves
  <2>3. \/ UNCHANGED writes /\ (pc'[w] = "free" => writes[w] = <<>>)
        \/ writes' = [writes EXCEPT ![w] = <<>>]
    BY <1>14 DEF Settle, GoOn, Free, TakenInv
  <2> QED  BY <1>11, <2>1, <2>2, <2>3
<1>15. ASSUME NEW w \in Thread, BeginWrite(w) PROVE FilesInv'
  <2>1. /\ pc[w] = "apply" /\ pc[w] \in Applying /\ (\A v \in Thread : pc[v] # "write")
        /\ UNCHANGED <<taken, content, applied, deletions>>
    BY <1>15 DEF BeginWrite, Applying
  <2>2. CASE NextChange(w) /\ UNCHANGED <<disk, damaged>>
    BY <2>1, <2>2, WriteFails
  <2>3. CASE ~(NextChange(w) /\ UNCHANGED <<disk, damaged>>)
    <3> DEFINE c == Head(writes[w])
    <3>1. /\ pc' = [pc EXCEPT ![w] = "write"] /\ disk' = [disk EXCEPT ![c.to] = Torn]
          /\ damaged' = IF InPlace(c) /\ disk[c.to] \in Text THEN damaged \cup {disk[c.to].of}
                        ELSE damaged
          /\ UNCHANGED <<file, writes>>
      BY <1>15, <2>3, Zenon DEF BeginWrite
    <3> QED  BY <2>1, <3>1, BeginOpens
  <2> QED  BY <2>2, <2>3
<1>16. ASSUME NEW w \in Thread, EndWrite(w) PROVE FilesInv'
  <2> DEFINE c == Head(writes[w])
  <2>1. /\ pc[w] = "write" /\ pc[w] \in Applying /\ NextChange(w) /\ UNCHANGED <<taken, content>>
        /\ \A v \in Thread \ {w} : pc[v] # "write"
    BY <1>16 DEF EndWrite, WriteEnds, Applying, DiskInv
  <2>2. CASE UNCHANGED <<disk, applied, damaged, deletions>>
    BY <2>1, <2>2, WriteFails
  <2>3. CASE WriteDone(w) /\ deletions' = IF InPlace(c) THEN deletions ELSE deletions \cup {c.from}
    BY <2>1, <2>3, WriteLands
  <2> QED  BY <1>16, <2>2, <2>3, Zenon DEF EndWrite
<1> QED
  BY <1>5, <1>6, <1>7, <1>8, <1>9, <1>10, <1>12, <1>13, <1>14, <1>15, <1>16
     DEF Next, Thread1, Step

\* The files at every moment, of scripts whose changes do not collide.
LEMMA FilesCorrect ==
    ASSUME WrittenOnce, NamesKept, RenamesFinal
    PROVE  Spec => []FilesInv
<1>1. Init => FilesInv
  <2> SUFFICES ASSUME Init PROVE FilesInv
    OBVIOUS
  <2>0. \A p \in Path : disk[p] = IF p \in File THEN [of |-> p, edits |-> {}] ELSE Missing
    BY DEF Init
  <2>1. /\ \A w \in Thread : pc[w] = "free" /\ writes[w] = <<>>
        /\ taken = {} /\ applied = {} /\ deletions = {}
    BY DEF Init
  <2>2. \A f \in File : f \in Path /\ disk[f] \in Text /\ disk[f].of = f
    <3>1. ASSUME NEW f \in File PROVE f \in Path /\ disk[f] \in Text /\ disk[f].of = f
      <4>1. f \in Path /\ disk[f] = [of |-> f, edits |-> {}]
        BY <2>0 DEF Path
      <4> QED  BY <4>1 DEF Text
    <3> QED  BY <3>1
  <2>3. PendingInv /\ ReadInv
    BY <2>1 DEF PendingInv, ReadInv, Executing
  <2>4. AheadInv
    <3>1. ASSUME NEW f \in Path, NEW i \in DOMAIN Change[f], ~InPlace(Change[f][i])
          PROVE  Change[f][i].to \in Path \ File
      BY <3>1, ChangeType DEF NamesKept
    <3>2. \A p \in Path \ File : Unwritten(p)
      BY <2>0, <2>1 DEF Unwritten
    <3>3. \A w \in Thread : \A l \in DOMAIN writes[w] : FALSE
      BY <2>1
    <3> QED  BY <3>1, <3>2, <3>3 DEF AheadInv
  <2>5. \A p \in Path : disk[p] # Torn /\ (disk[p] \in Text => disk[p].of = p)
    BY <2>0, <2>2, PathAssumption
  <2>6. KeptInv
    BY <2>1, <2>5 DEF KeptInv, Fits
  <2>7. TextInv
    BY <2>1, <2>2 DEF TextInv
  <2> QED  BY <2>3, <2>4, <2>6, <2>7 DEF FilesInv
<1>2. TakenInv /\ DiskInv /\ FilesInv /\ [Next]_vars => FilesInv'
  BY FilesStep
<1> QED  BY <1>1, <1>2, TakenCorrect, DiskCorrect, PTL DEF Spec

\* However the threads interleave, whichever files the walk comes to again, and
\* wherever a write or the deletions fail: the text of a file is on disk, unless
\* an unfinished write replaces it.
THEOREM TextCorrect ==
    ASSUME WrittenOnce, NamesKept, RenamesFinal
    PROVE  Spec => []TextSurvives
<1>1. FilesInv => TextSurvives
  BY DEF FilesInv, TextInv, TextSurvives
<1> QED  BY <1>1, FilesCorrect, PTL

\* A step that returns Ok has undone nothing that it wrote: the files its walk
\* came to again, the later writes and the deletions at the end included.
THEOREM ChangesCorrect ==
    ASSUME WrittenOnce, NamesKept, RenamesFinal
    PROVE  Spec => []ChangesOnDisk
<1>1. DiskInv /\ FilesInv => ChangesOnDisk
  <2> SUFFICES ASSUME DiskInv, FilesInv, NEW b \in applied
               PROVE  \/ disk[b.to] = Torn
                      \/ /\ disk[b.to] \in Text /\ b.text \in Text
                         /\ disk[b.to].of = b.text.of /\ b.by \in disk[b.to].edits
    BY DEF ChangesOnDisk
  <2>1. b.to \in Path /\ disk[b.to] # Missing
    BY DEF FilesInv, KeptInv
  <2>2. disk[b.to] \in Text => Fits(b.to, disk[b.to])
    BY <2>1 DEF FilesInv, KeptInv
  <2> QED  BY <2>1, <2>2 DEF DiskInv, Fits
<1> QED  BY <1>1, DiskCorrect, FilesCorrect, PTL

=============================================================================
