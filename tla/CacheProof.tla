------------------------------ MODULE CacheProof ------------------------------
(***************************************************************************)
(* For any number of tasks, packages, files, resolutions and faults: one   *)
(* task at a time works in a package's directory, and what a resolution    *)
(* returns is the package as it was sent.                                  *)
(*                                                                         *)
(* The locks are weak references in a map: the first holds because all     *)
(* tasks that have a reference to the lock of a package have a reference   *)
(* to the one in the map (LockInv), however entries are pruned and names   *)
(* used again.  Since therefore nobody else touches a directory while it   *)
(* is cleared and copied, it is known file by file what is in it (DirInv). *)
(*                                                                         *)
(* The same registry keeps what it was told of versions (infos): for any   *)
(* number of versions and of entries one request at a time is made for a   *)
(* version, because a cell leaves the map only when it has its value.      *)
(***************************************************************************)
EXTENDS PackageCache, PackageInfoCache, TLAPS

-----------------------------------------------------------------------------
(* Types                                                                   *)

LEMMA NothingType == Nothing \in Result
BY DEF Nothing, Result, Content

LEMMA ReturnType ==
    ASSUME TypeOK, NEW r \in Task, NEW result \in Result, Return(r, result),
           pc[r] \in {"lookup", "waiting"} \cup Critical
    PROVE  /\ pc' \in [Task -> {"idle", "using"} \cup Resolving]
           /\ arc' \in [Task -> Task \cup {None}]
           /\ forced' \in [Task -> BOOLEAN] /\ dry' \in [Task -> BOOLEAN]
           /\ copied' \in [Task -> SUBSET File]
           /\ got' \in [Task -> Result]
           /\ \A s \in Task : arc'[s] # None <=> pc'[s] \in {"waiting"} \cup Critical
<1>1. DEFINE l == IF result = Nothing THEN "idle" ELSE "using"
<1>2. l \in {"idle", "using"} /\ pc' = [pc EXCEPT ![r] = l]
  BY DEF Return
<1>3. arc' = [arc EXCEPT ![r] = None]
  BY DEF Return
<1> HIDE DEF l
<1>4. /\ pc' \in [Task -> {"idle", "using"} \cup Resolving]
      /\ arc' \in [Task -> Task \cup {None}]
      /\ \A s \in Task : arc'[s] # None <=> pc'[s] \in {"waiting"} \cup Critical
  BY <1>2, <1>3 DEF TypeOK, Critical, Resolving
<1>5. /\ forced' \in [Task -> BOOLEAN] /\ dry' \in [Task -> BOOLEAN]
      /\ copied' \in [Task -> SUBSET File]
      /\ got' \in [Task -> Result]
  BY DEF Return, TypeOK
<1> QED  BY <1>4, <1>5

LEMMA LeftType ==
    ASSUME TypeOK, NEW r \in Task, NEW d \in Left(r)
    PROVE  d \in [File -> Content]
<1>1. dir[key[r]] \in [File -> Content]
  BY DEF TypeOK
<1>2. CASE pc[r] = "clearing"
  <2>1. PICK S \in SUBSET File :
          d = [f \in File |-> IF f \in S THEN "absent" ELSE dir[key[r]][f]]
    BY <1>2 DEF Left
  <2> QED  BY <1>1, <2>1 DEF Content
<1>3. CASE pc[r] = "copying"
  <2>1. d = dir[key[r]] \/ \E f \in File : d = [dir[key[r]] EXCEPT ![f] = "torn"]
    BY <1>3 DEF Left
  <2> QED  BY <1>1, <2>1 DEF Content
<1>4. CASE pc[r] \notin {"clearing", "copying"}
  BY <1>1, <1>4 DEF Left
<1> QED  BY <1>2, <1>3, <1>4

LEMMA InitType == Init => TypeOK
<1> SUFFICES ASSUME Init PROVE TypeOK
  OBVIOUS
<1>1. (CHOOSE k \in Package : TRUE) \in Package
  BY CacheAssumption
<1> QED
  BY <1>1, NothingType, CacheAssumption DEF Init, TypeOK, Content, Critical, Resolving

LEMMA TypeStep == TypeOK /\ [Next]_vars => TypeOK'
<1> SUFFICES ASSUME TypeOK, [Next]_vars PROVE TypeOK'
  OBVIOUS
<1> USE CacheAssumption
<1>1. CASE UNCHANGED vars
  BY <1>1 DEF vars, TypeOK
<1>2. ASSUME NEW r \in Task, Begin(r) PROVE TypeOK'
  BY <1>2, NothingType DEF Begin, TypeOK, Critical, Resolving
<1>3. ASSUME NEW r \in Task, FindLock(r) PROVE TypeOK'
  <2>1. locks' \in [Package -> Task \cup {None}]
    BY <1>3 DEF FindLock, TypeOK
  <2>2. locks'[key[r]] \in Task
    <3>1. CASE Live(key[r])
      <4>1. PICK s \in Task : arc[s] # None /\ arc[s] = locks[key[r]]
        BY <3>1 DEF Live, Holders
      <4> QED  BY <1>3, <3>1, <4>1 DEF FindLock, TypeOK
    <3>2. CASE ~Live(key[r])
      BY <1>3, <3>2 DEF FindLock, TypeOK
    <3> QED  BY <3>1, <3>2
  <2> QED
    BY <1>3, <2>1, <2>2 DEF FindLock, TypeOK, Critical, Resolving
<1>4. ASSUME NEW r \in Task, Lock(r) PROVE TypeOK'
  <2>1. CASE Downloads(r)
    BY <1>4, <2>1 DEF Lock, Locked, TypeOK, Critical, Resolving
  <2>2. CASE ~Downloads(r)
    <3> DEFINE result == [files |-> dir[key[r]], dry |-> FALSE, excused |-> key[r] \in broken]
    <3>1. result \in Result /\ Return(r, result) /\ pc[r] = "waiting"
      BY <1>4, <2>2 DEF Lock, Locked, TypeOK, Result
    <3> HIDE DEF result
    <3> QED
      BY <1>4, <2>2, <3>1, ReturnType DEF Lock, Locked, TypeOK
  <2> QED  BY <2>1, <2>2
<1>5. ASSUME NEW r \in Task, Receive(r) PROVE TypeOK'
  BY <1>5 DEF Receive, TypeOK, Critical, Resolving
<1>6. ASSUME NEW r \in Task, GiveUp(r) PROVE TypeOK'
  <2>1. Return(r, Nothing) /\ pc[r] \in {"lookup", "waiting"} \cup Critical
    BY <1>6 DEF GiveUp, Critical
  <2> QED  BY <1>6, <2>1, NothingType, ReturnType DEF GiveUp, TypeOK
<1>7. ASSUME NEW r \in Task, Clear(r) PROVE TypeOK'
  <2>1. [f \in File |-> "absent"] \in [File -> Content]
    BY DEF Content
  <2> QED  BY <1>7, <2>1 DEF Clear, TypeOK, Critical, Resolving
<1>8. ASSUME NEW r \in Task, CopyFile(r) PROVE TypeOK'
  <2>1. PICK f \in File : /\ dir' = [dir EXCEPT ![key[r]][f] = "whole"]
                          /\ copied' = [copied EXCEPT ![r] = @ \cup {f}]
    BY <1>8 DEF CopyFile
  <2>2. dir' \in [Package -> [File -> Content]]
    BY <2>1 DEF TypeOK, Content
  <2>3. copied' \in [Task -> SUBSET File]
    BY <2>1 DEF TypeOK
  <2> QED  BY <1>8, <2>2, <2>3 DEF CopyFile, TypeOK
<1>9. ASSUME NEW r \in Task, Finish(r) PROVE TypeOK'
  <2> DEFINE result == IF Present(key[r])
                       THEN [files |-> dir[key[r]], dry |-> dry[r],
                             excused |-> key[r] \in broken']
                       ELSE Nothing
  <2>1. result \in Result /\ Return(r, result) /\ pc[r] \in Critical
    BY <1>9, NothingType DEF Finish, TypeOK, Result, Critical
  <2> HIDE DEF result
  <2>2. marked' \in [Package -> BOOLEAN] /\ broken' \subseteq Package /\ faults' \in 0 .. MaxFaults
    BY <1>9 DEF Finish, TypeOK
  <2> QED  BY <1>9, <2>1, <2>2, ReturnType DEF Finish, TypeOK
<1>10. ASSUME NEW r \in Task, Fail(r) PROVE TypeOK'
  <2>1. Return(r, Nothing) /\ pc[r] \in Critical
    BY <1>10 DEF Fail, Critical
  <2>2. PICK d \in Left(r) : dir' = [dir EXCEPT ![key[r]] = d]
    BY <1>10 DEF Fail
  <2>3. d \in [File -> Content]
    BY <2>2, LeftType
  <2>4. dir' \in [Package -> [File -> Content]] /\ broken' \subseteq Package /\ faults' \in 0 .. MaxFaults
    BY <1>10, <2>2, <2>3 DEF Fail, TypeOK
  <2> QED  BY <1>10, <2>1, <2>4, NothingType, ReturnType DEF Fail, TypeOK
<1>11. CASE Crash
  <2>1. broken' \subseteq Package /\ dir' \in [Package -> [File -> Content]]
    BY <1>11 DEF Crash, TypeOK
  <2>2. faults' \in 0 .. MaxFaults
    BY <1>11 DEF Crash, TypeOK
  <2> QED
    BY <1>11, <2>1, <2>2, NothingType DEF Crash, TypeOK, Critical, Resolving
<1> QED
  BY <1>1, <1>2, <1>3, <1>4, <1>5, <1>6, <1>7, <1>8, <1>9, <1>10, <1>11 DEF Next, Step

\* Whatever the cache goes through, every variable has its type; who has a
\* reference to a lock is who waits for it or holds it.
THEOREM CacheTypeCorrect == Spec => []TypeOK
<1>1. Init /\ [][Next]_vars => []TypeOK
  BY InitType, TypeStep, PTL
<1> QED  BY <1>1, PTL DEF Spec

-----------------------------------------------------------------------------
(* One writer                                                              *)

\* Every reference to the lock of a package is to the one in the map.
LockInv == \A r \in Task : arc[r] # None => arc[r] = locks[key[r]]

\* A resolution that returns only gives its reference away.
LEMMA ReturnFrame ==
    ASSUME TypeOK, NEW r \in Task, NEW result, Return(r, result), NEW s \in Task
    PROVE  /\ arc'[s] = IF s = r THEN None ELSE arc[s]
           /\ s # r => pc'[s] = pc[s]
           /\ pc'[r] \in {"idle", "using"}
           /\ s # r => got'[s] = got[s] /\ dry'[s] = dry[s] /\ copied'[s] = copied[s]
           /\ got'[r] = result
BY DEF Return, TypeOK

\* An entry of the map goes only when nobody has a reference to it.
LEMMA FindLockKeeps ==
    ASSUME TypeOK, LockInv, NEW r \in Task, FindLock(r)
    PROVE  LockInv'
<1> SUFFICES ASSUME NEW s \in Task, arc'[s] # None PROVE arc'[s] = locks'[key[s]]
  BY DEF LockInv, FindLock
<1>1. CASE s = r
  BY <1>1 DEF FindLock, TypeOK
<1>2. CASE s # r
  <2>1. arc[s] # None /\ arc'[s] = arc[s] /\ arc[s] = locks[key[s]]
    BY <1>2 DEF FindLock, TypeOK, LockInv
  <2>2. Live(key[s]) /\ key[s] \in Package
    BY <2>1 DEF Live, Holders, TypeOK
  <2> QED  BY <2>1, <2>2 DEF FindLock
<1> QED  BY <1>1, <1>2

LEMMA LockInvStep == TypeOK /\ LockInv /\ [Next]_vars => LockInv'
<1> SUFFICES ASSUME TypeOK, LockInv, [Next]_vars PROVE LockInv'
  OBVIOUS
<1>1. CASE UNCHANGED vars
  BY <1>1 DEF vars, LockInv
<1>2. ASSUME NEW r \in Task, Begin(r) PROVE LockInv'
  <2>1. arc[r] = None
    BY <1>2 DEF Begin, TypeOK, Critical
  <2> QED  BY <1>2, <2>1 DEF Begin, TypeOK, LockInv
<1>3. ASSUME NEW r \in Task, FindLock(r) PROVE LockInv'
  BY <1>3, FindLockKeeps
<1>4. ASSUME NEW r \in Task, NEW result, Return(r, result), UNCHANGED <<key, locks>>
      PROVE  LockInv'
  BY <1>4, ReturnFrame DEF LockInv
<1>5. ASSUME NEW r \in Task, Lock(r) PROVE LockInv'
  <2>1. UNCHANGED <<key, locks>>
    BY <1>5 DEF Lock, Locked
  <2>2. UNCHANGED arc \/ \E result : Return(r, result)
    BY <1>5 DEF Lock, Locked
  <2> QED  BY <1>4, <2>1, <2>2 DEF LockInv
<1>6. ASSUME NEW r \in Task, Receive(r) \/ Clear(r) \/ CopyFile(r) PROVE LockInv'
  BY <1>6 DEF Receive, Clear, CopyFile, LockInv
<1>7. ASSUME NEW r \in Task, GiveUp(r) \/ Finish(r) \/ Fail(r) PROVE LockInv'
  <2>1. UNCHANGED <<key, locks>> /\ \E result : Return(r, result)
    BY <1>7 DEF GiveUp, Finish, Fail
  <2> QED  BY <1>4, <2>1
<1>8. CASE Crash
  BY <1>8 DEF Crash, LockInv
<1> QED
  BY <1>1, <1>2, <1>3, <1>5, <1>6, <1>7, <1>8 DEF Next, Step

\* Who gets the lock is the only one in the directory.
LEMMA LockIsExclusive ==
    ASSUME TypeOK, LockInv, NEW r \in Task, NEW s \in Task,
           Lock(r), key[s] = key[r]
    PROVE  pc[s] \notin Critical
<1> SUFFICES ASSUME pc[s] \in Critical PROVE FALSE
  OBVIOUS
<1>1. arc[r] # None /\ arc[s] # None
  BY DEF Lock, TypeOK
<1>2. arc[r] = arc[s]
  BY <1>1 DEF LockInv
<1> QED  BY <1>2 DEF Lock, Held

LEMMA WriterStep == TypeOK /\ LockInv /\ OneWriter /\ [Next]_vars => OneWriter'
<1> SUFFICES ASSUME TypeOK, LockInv, OneWriter, [Next]_vars,
                    NEW r \in Task, NEW s \in Task,
                    pc'[r] \in Critical, pc'[s] \in Critical, key'[r] = key'[s]
             PROVE  r = s
  BY DEF OneWriter
<1>1. CASE UNCHANGED vars
  BY <1>1 DEF vars, OneWriter
\* Nobody but who gets the lock comes to the directory.
<1>2. ASSUME \A t \in {r, s} : pc[t] \in Critical /\ key'[t] = key[t] PROVE r = s
  BY <1>2 DEF OneWriter
<1>3. ASSUME NEW t \in Task, Begin(t) \/ FindLock(t) PROVE r = s
  <2>1. \A u \in {r, s} : pc[u] \in Critical /\ key'[u] = key[u]
    BY <1>3 DEF Begin, FindLock, TypeOK, Critical
  <2> QED  BY <1>2, <2>1
<1>4. ASSUME NEW t \in Task, NEW result, Return(t, result), UNCHANGED key PROVE r = s
  <2>1. r # t /\ s # t
    BY <1>4, ReturnFrame DEF Critical
  <2>2. \A u \in {r, s} : pc[u] \in Critical /\ key'[u] = key[u]
    BY <1>4, <2>1, ReturnFrame
  <2> QED  BY <1>2, <2>2
<1>5. ASSUME NEW t \in Task, Lock(t) PROVE r = s
  <2>1. CASE Downloads(t)
    <3>1. pc' = [pc EXCEPT ![t] = "downloading"] /\ UNCHANGED key
      BY <1>5, <2>1 DEF Lock, Locked
    <3>2. \A u \in {r, s} : u # t => pc[u] \in Critical
      BY <3>1 DEF TypeOK
    <3> QED  BY <1>5, <1>2, <3>1, <3>2, LockIsExclusive
  <2>2. CASE ~Downloads(t)
    BY <1>4, <1>5, <2>2 DEF Lock, Locked
  <2> QED  BY <2>1, <2>2
<1>6. ASSUME NEW t \in Task, Receive(t) \/ Clear(t) \/ CopyFile(t) PROVE r = s
  <2>1. \A u \in {r, s} : pc[u] \in Critical /\ key'[u] = key[u]
    BY <1>6 DEF Receive, Clear, CopyFile, TypeOK, Critical
  <2> QED  BY <1>2, <2>1
<1>7. ASSUME NEW t \in Task, GiveUp(t) \/ Finish(t) \/ Fail(t) PROVE r = s
  <2>1. UNCHANGED key /\ \E result : Return(t, result)
    BY <1>7 DEF GiveUp, Finish, Fail
  <2> QED  BY <1>4, <2>1
<1>8. CASE Crash
  BY <1>8 DEF Crash, Critical
<1> QED
  BY <1>1, <1>3, <1>5, <1>6, <1>7, <1>8 DEF Next, Step

\* However many resolutions of a package begin, end, are canceled and prune the
\* map of locks, one at a time checks and writes its directory.
THEOREM WriterCorrect == Spec => []OneWriter
<1>1. Init => TypeOK /\ LockInv /\ OneWriter
  BY InitType DEF Init, LockInv, OneWriter, Critical
<1>2. Init /\ [][Next]_vars => [](TypeOK /\ LockInv /\ OneWriter)
  BY <1>1, TypeStep, LockInvStep, WriterStep, PTL
<1> QED  BY <1>2, PTL DEF Spec

-----------------------------------------------------------------------------
(* What is returned                                                        *)

Whole(d) == \A f \in File : d[f] = "whole"
Partly(S) == [f \in File |-> IF f \in S THEN "whole" ELSE "absent"]

\* While a package is copied, it is known which files are there ...
CopyInv ==
    \A r \in Task : pc[r] = "copying" =>
        /\ dir[key[r]] = Partly(copied[r])
        /\ kind[key[r]] = dry[r]
        /\ marked[key[r]] = FALSE

\* ... and otherwise all or none are, unless the copy was broken off.
RestInv ==
    \A k \in Package \ broken : (\A r \in Task : pc[r] = "copying" => key[r] # k) =>
        \/ dir[k] = Partly({})
        \/ Whole(dir[k]) /\ marked[k] = kind[k]

DirInv == TypeOK /\ LockInv /\ OneWriter /\ CopyInv /\ RestInv

\* A step in which the directories, and who copies to them, stay the same.
LEMMA DirFrame ==
    ASSUME DirInv, UNCHANGED <<dir, marked, kind, broken>>,
           \A r \in Task : /\ pc[r] = "copying" <=> pc'[r] = "copying"
                           /\ pc[r] = "copying" =>
                                 key'[r] = key[r] /\ dry'[r] = dry[r] /\ copied'[r] = copied[r]
    PROVE  CopyInv' /\ RestInv'
<1>1. CopyInv'
  BY DEF DirInv, CopyInv
<1>2. RestInv'
  BY DEF DirInv, RestInv, Whole
<1> QED  BY <1>1, <1>2

\* A step of r in its directory ...
OwnStep(r) ==
    /\ pc[r] \in Critical /\ UNCHANGED key
    /\ broken' \in {broken, broken \cup {key[r]}, broken \ {key[r]}}
    /\ \A k \in Package \ {key[r]} :
          dir'[k] = dir[k] /\ marked'[k] = marked[k] /\ kind'[k] = kind[k]
    /\ \A s \in Task \ {r} : pc'[s] = pc[s] /\ dry'[s] = dry[s] /\ copied'[s] = copied[s]

\* ... is not seen in the others.
OthersCopy(r) ==
    \A s \in Task \ {r} : pc'[s] = "copying" =>
        /\ dir'[key'[s]] = Partly(copied'[s])
        /\ kind'[key'[s]] = dry'[s]
        /\ marked'[key'[s]] = FALSE
OthersRest(r) ==
    \A k \in Package \ (broken' \cup {key[r]}) :
        (\A s \in Task : pc'[s] = "copying" => key'[s] # k) =>
            \/ dir'[k] = Partly({})
            \/ Whole(dir'[k]) /\ marked'[k] = kind'[k]

LEMMA OwnDirectory ==
    ASSUME DirInv, NEW r \in Task, OwnStep(r)
    PROVE  OthersCopy(r) /\ OthersRest(r)
<1> USE DEF OwnStep
<1>1. ASSUME NEW s \in Task \ {r}, pc'[s] = "copying"
      PROVE  /\ dir'[key'[s]] = Partly(copied'[s])
             /\ kind'[key'[s]] = dry'[s]
             /\ marked'[key'[s]] = FALSE
  <2>1. pc[s] = "copying" /\ key[s] # key[r] /\ key[s] \in Package
    BY <1>1 DEF DirInv, OneWriter, Critical, TypeOK
  <2> QED  BY <1>1, <2>1 DEF DirInv, CopyInv
<1>2. ASSUME NEW k \in Package \ (broken' \cup {key[r]}),
             \A s \in Task : pc'[s] = "copying" => key'[s] # k
      PROVE  \/ dir'[k] = Partly({})
             \/ Whole(dir'[k]) /\ marked'[k] = kind'[k]
  <2>1. k \notin broken /\ \A s \in Task : pc[s] = "copying" => key[s] # k
    BY <1>2
  <2>2. \/ dir[k] = Partly({})
        \/ Whole(dir[k]) /\ marked[k] = kind[k]
    BY <2>1 DEF DirInv, RestInv
  <2> QED  BY <1>2, <2>2 DEF Whole
<1> QED  BY <1>1, <1>2 DEF OthersCopy, OthersRest

LEMMA DirStep == DirInv /\ [Next]_vars => CopyInv' /\ RestInv'
<1> SUFFICES ASSUME DirInv, [Next]_vars PROVE CopyInv' /\ RestInv'
  OBVIOUS
<1>0. TypeOK /\ LockInv /\ OneWriter
  BY DEF DirInv
<1>1. CASE UNCHANGED vars
  BY <1>1, DirFrame DEF vars
<1>2. ASSUME NEW r \in Task, Begin(r) \/ FindLock(r) \/ Receive(r) PROVE CopyInv' /\ RestInv'
  BY <1>0, <1>2, DirFrame DEF Begin, FindLock, Receive, TypeOK
<1>3. ASSUME NEW r \in Task, Lock(r) PROVE CopyInv' /\ RestInv'
  <2>1. CASE Downloads(r)
    BY <1>0, <1>3, <2>1, DirFrame DEF Lock, Locked, TypeOK
  <2>2. CASE ~Downloads(r)
    BY <1>0, <1>3, <2>2, ReturnFrame, DirFrame DEF Lock, Locked
  <2> QED  BY <2>1, <2>2
<1>4. ASSUME NEW r \in Task, GiveUp(r) PROVE CopyInv' /\ RestInv'
  BY <1>0, <1>4, ReturnFrame, DirFrame DEF GiveUp
<1>5. ASSUME NEW r \in Task, Clear(r) PROVE CopyInv' /\ RestInv'
  <2>1. key[r] \in Package /\ pc[r] \in Critical
    BY <1>0, <1>5 DEF Clear, TypeOK, Critical
  <2>2. /\ pc'[r] = "copying" /\ copied'[r] = {} /\ dry'[r] = dry[r]
        /\ dir'[key[r]] = Partly({})
        /\ marked'[key[r]] = FALSE /\ kind'[key[r]] = dry[r] /\ UNCHANGED <<key, broken>>
        /\ \A k \in Package \ {key[r]} :
              dir'[k] = dir[k] /\ marked'[k] = marked[k] /\ kind'[k] = kind[k]
        /\ \A s \in Task \ {r} : pc'[s] = pc[s] /\ dry'[s] = dry[s] /\ copied'[s] = copied[s]
    BY <1>0, <1>5, <2>1 DEF Clear, TypeOK, Partly
  <2>3. OthersCopy(r) /\ OthersRest(r)
    BY <2>1, <2>2, OwnDirectory DEF OwnStep
  <2>4. CopyInv'
    BY <2>2, <2>3 DEF CopyInv, OthersCopy
  <2>5. RestInv'
    BY <2>2, <2>3 DEF RestInv, OthersRest
  <2> QED  BY <2>4, <2>5
<1>6. ASSUME NEW r \in Task, CopyFile(r) PROVE CopyInv' /\ RestInv'
  <2>1. key[r] \in Package /\ pc[r] \in Critical /\ pc[r] = "copying"
    BY <1>0, <1>6 DEF CopyFile, TypeOK, Critical
  <2>2. PICK g \in File \ copied[r] : /\ dir' = [dir EXCEPT ![key[r]][g] = "whole"]
                                     /\ copied' = [copied EXCEPT ![r] = @ \cup {g}]
    BY <1>6 DEF CopyFile
  <2>3. /\ copied'[r] = copied[r] \cup {g}
        /\ dir'[key[r]] = [dir[key[r]] EXCEPT ![g] = "whole"]
        /\ \A k \in Package \ {key[r]} : dir'[k] = dir[k]
        /\ \A s \in Task \ {r} : copied'[s] = copied[s]
    BY <1>0, <2>1, <2>2 DEF TypeOK
  <2>4. UNCHANGED <<pc, key, dry, marked, kind, broken>>
    BY <1>6 DEF CopyFile
  <2>5. dir[key[r]] = Partly(copied[r])
    BY <2>1 DEF DirInv, CopyInv
  <2>6. dir'[key[r]] = Partly(copied'[r])
    BY <2>2, <2>3, <2>5 DEF Partly
  <2>7. kind[key[r]] = dry[r] /\ marked[key[r]] = FALSE
    BY <2>1 DEF DirInv, CopyInv
  <2>8. OthersCopy(r) /\ OthersRest(r)
    BY <2>1, <2>3, <2>4, OwnDirectory DEF OwnStep
  <2>9. CopyInv'
    BY <2>4, <2>6, <2>7, <2>8 DEF CopyInv, OthersCopy
  <2>10. RestInv'
    BY <2>1, <2>4, <2>8 DEF RestInv, OthersRest
  <2> QED  BY <2>9, <2>10
<1>7. ASSUME NEW r \in Task, Finish(r) PROVE CopyInv' /\ RestInv'
  <2>1. key[r] \in Package /\ pc[r] \in Critical /\ pc[r] = "copying" /\ copied[r] = File
    BY <1>0, <1>7 DEF Finish, TypeOK, Critical
  <2>2. PICK written \in BOOLEAN :
          /\ marked' = [marked EXCEPT ![key[r]] = @ \/ (dry[r] /\ written)]
          /\ broken' = IF written THEN broken \ {key[r]} ELSE broken \cup {key[r]}
    BY <1>7 DEF Finish
  <2>3. UNCHANGED <<key, dir, kind>> /\ \E result : Return(r, result)
    BY <1>7 DEF Finish
  <2>4. /\ pc'[r] # "copying"
        /\ \A s \in Task \ {r} : pc'[s] = pc[s] /\ dry'[s] = dry[s] /\ copied'[s] = copied[s]
    BY <1>0, <2>3, ReturnFrame
  <2>5. \A k \in Package \ {key[r]} : marked'[k] = marked[k]
    BY <1>0, <2>2 DEF TypeOK
  <2>6. OthersCopy(r) /\ OthersRest(r)
    BY <2>1, <2>2, <2>3, <2>4, <2>5, OwnDirectory DEF OwnStep
  <2>7. CopyInv'
    BY <2>4, <2>6 DEF CopyInv, OthersCopy
  <2>8. ASSUME key[r] \notin broken'
        PROVE  Whole(dir'[key[r]]) /\ marked'[key[r]] = kind'[key[r]]
    <3>1. /\ dir[key[r]] = Partly(File)
          /\ kind[key[r]] = dry[r] /\ marked[key[r]] = FALSE
      BY <2>1 DEF DirInv, CopyInv
    <3>2. written = TRUE
      BY <2>2, <2>8
    <3>3. marked'[key[r]] = (marked[key[r]] \/ (dry[r] /\ written))
      BY <1>0, <2>1, <2>2 DEF TypeOK
    <3>4. dry[r] \in BOOLEAN
      BY <1>0 DEF TypeOK
    <3> QED  BY <2>3, <3>1, <3>2, <3>3, <3>4 DEF Whole, Partly
  <2>9. RestInv'
    BY <2>1, <2>8, <2>6 DEF RestInv, OthersRest
  <2> QED  BY <2>7, <2>9
<1>8. ASSUME NEW r \in Task, Fail(r) PROVE CopyInv' /\ RestInv'
  <2>1. key[r] \in Package /\ pc[r] \in Critical
    BY <1>0, <1>8 DEF Fail, TypeOK, Critical
  <2>2. /\ UNCHANGED <<key, marked, kind>> /\ Return(r, Nothing)
        /\ broken' = broken \cup {key[r]}
        /\ \A k \in Package \ {key[r]} : dir'[k] = dir[k]
    BY <1>0, <1>8 DEF Fail, TypeOK
  <2>3. /\ pc'[r] # "copying"
        /\ \A s \in Task \ {r} : pc'[s] = pc[s] /\ dry'[s] = dry[s] /\ copied'[s] = copied[s]
    BY <1>0, <2>2, ReturnFrame
  <2>4. OthersCopy(r) /\ OthersRest(r)
    BY <2>1, <2>2, <2>3, OwnDirectory DEF OwnStep
  <2>5. CopyInv'
    BY <2>3, <2>4 DEF CopyInv, OthersCopy
  <2>6. RestInv'
    BY <2>1, <2>2, <2>4 DEF RestInv, OthersRest
  <2> QED  BY <2>5, <2>6
<1>9. CASE Crash
  <2>1. CopyInv'
    BY <1>9 DEF Crash, CopyInv
  <2>2. ASSUME NEW k \in Package \ broken'
        PROVE  \/ dir'[k] = Partly({})
               \/ Whole(dir'[k]) /\ marked'[k] = kind'[k]
    <3>1. /\ k \notin broken
          /\ \A r \in Task : pc[r] \in {"clearing", "copying"} => key[r] # k
      BY <1>9, <2>2 DEF Crash
    <3>2. dir'[k] = dir[k] /\ UNCHANGED <<marked, kind>>
      BY <1>9, <3>1 DEF Crash
    <3> QED  BY <3>1, <3>2 DEF DirInv, RestInv, Whole
  <2> QED  BY <2>1, <2>2 DEF RestInv
<1> QED
  BY <1>1, <1>2, <1>3, <1>4, <1>5, <1>6, <1>7, <1>8, <1>9 DEF Next, Step

\* A step that returns a package returns the directory as it was sent.
LEMMA ReturnStep ==
    ASSUME DirInv, [Next]_vars, NEW r \in Task,
           pc[r] # "using", pc'[r] = "using", ~got'[r].excused
    PROVE  Whole(got'[r].files) /\ got'[r].dry = kind[key[r]]
<1> USE DEF DirInv
<1>1. CASE UNCHANGED vars
  BY <1>1 DEF vars
<1>2. ASSUME NEW s \in Task, Begin(s) \/ FindLock(s) \/ Receive(s) \/ Clear(s) \/ CopyFile(s)
      PROVE  FALSE
  BY <1>2 DEF Begin, FindLock, Receive, Clear, CopyFile, TypeOK
<1>3. ASSUME NEW s \in Task, GiveUp(s) \/ Fail(s) PROVE FALSE
  BY <1>3 DEF GiveUp, Fail, Return, TypeOK
<1>4. ASSUME NEW s \in Task, Lock(s) PROVE Whole(got'[r].files) /\ got'[r].dry = kind[key[r]]
  <2>1. ~Downloads(s)
    BY <1>4 DEF Lock, Locked, TypeOK
  <2> DEFINE result == [files |-> dir[key[s]], dry |-> FALSE, excused |-> key[s] \in broken]
  <2>2. Return(s, result)
    BY <1>4, <2>1 DEF Lock, Locked
  <2>3. s = r /\ got'[r] = result
    BY <2>2, ReturnFrame
  <2>4. key[r] \in Package \ broken
    <3>1. got'[r].excused = (key[r] \in broken)
      BY <2>3
    <3> QED  BY <3>1 DEF TypeOK
  <2>5. \A u \in Task : pc[u] = "copying" => key[u] # key[r]
    BY <1>4, <2>3, LockIsExclusive DEF Critical
  <2>6. dir[key[r]] # Partly({})
    BY <2>1, <2>3, CacheAssumption DEF Downloads, Present, Partly
  <2>7. Whole(dir[key[r]]) /\ marked[key[r]] = kind[key[r]]
    BY <2>4, <2>5, <2>6 DEF RestInv
  <2>8. marked[key[r]] = FALSE
    BY <2>1, <2>3, <2>4 DEF Downloads, TypeOK
  <2>9. got'[r].files = dir[key[r]] /\ got'[r].dry = FALSE
    BY <2>3
  <2> QED  BY <2>7, <2>8, <2>9
<1>5. ASSUME NEW s \in Task, Finish(s) PROVE Whole(got'[r].files) /\ got'[r].dry = kind[key[r]]
  <2> DEFINE result == [files |-> dir[key[s]], dry |-> dry[s], excused |-> key[s] \in broken']
  <2>1. Return(s, result) \/ Return(s, Nothing)
    BY <1>5 DEF Finish
  <2>2. ~Return(s, Nothing)
    BY DEF Return, TypeOK
  <2>3. s = r /\ got'[r] = result
    BY <2>1, <2>2, ReturnFrame
  <2>4. dir[key[r]] = Partly(File) /\ kind[key[r]] = dry[r]
    BY <1>5, <2>3 DEF Finish, CopyInv
  <2> QED  BY <2>3, <2>4 DEF Whole, Partly
<1>6. CASE Crash
  BY <1>6 DEF Crash
<1> QED
  BY <1>1, <1>2, <1>3, <1>4, <1>5, <1>6 DEF Next, Step

\* A resolution returns every file of the package, and whether it is for dry runs
\* only, however often it was fetched, broken off and found in the cache before,
\* unless the last copy was broken off.
THEOREM ReturnCorrect == Spec => ReturnsThePackage
<1>1. Init => DirInv
  <2>1. Init => LockInv /\ OneWriter /\ CopyInv
    BY DEF Init, LockInv, OneWriter, CopyInv, Critical
  <2>2. Init => RestInv
    BY DEF Init, RestInv, Partly
  <2> QED  BY <2>1, <2>2, InitType DEF DirInv
<1>2. DirInv /\ [Next]_vars => DirInv'
  BY TypeStep, LockInvStep, WriterStep, DirStep DEF DirInv
<1>3. DirInv /\ [Next]_vars =>
        [\A r \in Task : pc[r] # "using" /\ pc'[r] = "using" /\ ~got'[r].excused =>
            /\ \A f \in File : got'[r].files[f] = "whole"
            /\ got'[r].dry = kind[key[r]]]_vars
  BY ReturnStep DEF Whole
<1> QED  BY <1>1, <1>2, <1>3, PTL DEF Spec, ReturnsThePackage

-----------------------------------------------------------------------------
(* What the registry says of a version                                     *)

\* The variables are functions, and a task that is not idle asks for a version.
InfoType ==
    /\ at \in [Asker -> {"idle", "entering", "fetching"}]
    /\ wanted = [t \in Asker |-> wanted[t]]
    /\ cell = [t \in Asker |-> cell[t]]
    /\ infos = [k \in Version |-> infos[k]]
    /\ requests \in Nat
    /\ \A t \in Asker : at[t] # "idle" => wanted[t] \in Version /\ cell[t] # 0

\* An empty cell that a task has a reference to is in the map, unless the map had
\* no room for it, and is filled by the only task that fetches.
CellInv ==
    /\ \A t \in Asker : at[t] # "idle" /\ cell[t] \notin full \cup uncached =>
          infos[wanted[t]] = cell[t]
    /\ \A t \in Asker : at[t] = "fetching" => cell[t] \notin full
    /\ \A t, u \in Asker :
          at[t] = "fetching" /\ at[u] = "fetching" /\ cell[t] = cell[u] => t = u

\* The entry that makes room is a full one.
LEMMA EvictedIs ==
    ASSUME InfoType, NEW c \in Evicted
    PROVE  /\ c = [k \in Version |-> c[k]]
           /\ \A k \in Version : c[k] = infos[k] \/ infos[k] \in full
<1>1. CASE c = infos
  BY <1>1 DEF InfoType
<1>2. CASE \E k \in Evictable : c = [infos EXCEPT ![k] = 0]
  BY <1>2 DEF InfoType, Evictable, Entries
<1> QED  BY <1>1, <1>2 DEF Evicted

\* A task that asks for a version that has an entry shares its cell; otherwise it
\* has a new cell, and what others share stays where it is.
LEMMA AskStep ==
    ASSUME InfoType, CellInv, NEW t \in Asker, NEW k \in Version, Ask(t, k)
    PROVE  InfoType' /\ CellInv'
<1>1. /\ at[t] = "idle" /\ requests' = requests + 1 /\ full' = full
      /\ at' = [at EXCEPT ![t] = "entering"] /\ wanted' = [wanted EXCEPT ![t] = k]
  BY DEF Ask
<1>2. /\ \A u \in Asker : at'[u] = IF u = t THEN "entering" ELSE at[u]
      /\ \A u \in Asker : wanted'[u] = IF u = t THEN k ELSE wanted[u]
      /\ at' \in [Asker -> {"idle", "entering", "fetching"}]
      /\ wanted' = [u \in Asker |-> wanted'[u]] /\ requests' \in Nat \ {0}
  BY <1>1 DEF InfoType
<1>3. CASE infos[k] # 0
  <2>1. cell' = [cell EXCEPT ![t] = infos[k]] /\ UNCHANGED <<infos, uncached>>
    BY <1>3 DEF Ask
  <2>2. /\ \A u \in Asker : cell'[u] = IF u = t THEN infos[k] ELSE cell[u]
        /\ cell' = [u \in Asker |-> cell'[u]]
    BY <2>1 DEF InfoType
  <2>3. InfoType'
    BY <1>2, <1>3, <2>1, <2>2 DEF InfoType
  <2>4. CellInv'
    BY <1>1, <1>2, <2>1, <2>2 DEF CellInv
  <2> QED  BY <2>3, <2>4
<1>4. CASE infos[k] = 0
  <2>1. /\ cell' = [cell EXCEPT ![t] = requests']
        /\ \E c \in Evicted : infos' = Insert(c, k, requests')
        /\ uncached' = uncached \cup ({requests'} \ {infos'[k]})
    BY <1>4 DEF Ask
  <2>2. /\ \A u \in Asker : cell'[u] = IF u = t THEN requests' ELSE cell[u]
        /\ cell' = [u \in Asker |-> cell'[u]]
    BY <2>1 DEF InfoType
  <2>3. PICK c \in Evicted : infos' = c \/ infos' = [c EXCEPT ![k] = requests']
    BY <2>1 DEF Insert
  <2>4. /\ infos' = [h \in Version |-> infos'[h]]
        /\ \A h \in Version \ {k} : infos'[h] = infos[h] \/ infos[h] \in full
    BY <2>3, EvictedIs
  <2>5. InfoType'
    BY <1>2, <2>2, <2>4 DEF InfoType
  <2>6. ASSUME NEW u \in Asker, at'[u] # "idle", cell'[u] \notin full' \cup uncached'
        PROVE  infos'[wanted'[u]] = cell'[u]
    <3>1. CASE u = t
      <4>1. cell'[t] = requests' /\ requests' \notin uncached' /\ wanted'[t] = k
        BY <1>2, <2>2, <2>6, <3>1
      <4> QED  BY <2>1, <3>1, <4>1
    <3>2. CASE u # t
      <4>1. /\ at[u] # "idle" /\ wanted'[u] = wanted[u] /\ cell'[u] = cell[u]
            /\ cell[u] \notin full \cup uncached
        BY <1>1, <1>2, <2>1, <2>2, <2>6, <3>2
      <4>2. infos[wanted[u]] = cell[u] /\ wanted[u] \in Version /\ cell[u] # 0
        BY <4>1 DEF CellInv, InfoType
      <4>3. wanted[u] # k
        BY <1>4, <4>2
      <4> QED  BY <2>4, <4>1, <4>2, <4>3
    <3> QED  BY <3>1, <3>2
  <2>7. /\ \A u \in Asker : at'[u] = "fetching" => cell'[u] \notin full'
        /\ \A u, v \in Asker :
              at'[u] = "fetching" /\ at'[v] = "fetching" /\ cell'[u] = cell'[v] => u = v
    BY <1>1, <1>2, <2>2 DEF CellInv
  <2> QED  BY <2>5, <2>6, <2>7 DEF CellInv
<1> QED  BY <1>3, <1>4

\* A task that is done, has failed or is canceled lets go of its cell.
LEMMA LeaveStep ==
    ASSUME InfoType, CellInv, NEW t \in Asker, Leave(t),
           full' = full \/ (at[t] = "fetching" /\ full' = full \cup {cell[t]})
    PROVE  InfoType' /\ CellInv'
<1>1. /\ \A u \in Asker : at'[u] = IF u = t THEN "idle" ELSE at[u]
      /\ \A u \in Asker : cell'[u] = IF u = t THEN 0 ELSE cell[u]
      /\ at' \in [Asker -> {"idle", "entering", "fetching"}]
      /\ cell' = [u \in Asker |-> cell'[u]]
      /\ UNCHANGED <<wanted, infos, uncached, requests>>
  BY DEF Leave, InfoType
<1>2. InfoType'
  BY <1>1 DEF InfoType
<1>3. CellInv'
  BY <1>1 DEF CellInv
<1> QED  BY <1>2, <1>3

\* The calls that use the cache make one request at a time for a version, for any
\* number of tasks, versions and entries: who asks shares the cell of those who
\* wait, which is evicted only when it is full, and of them one fetches.
THEOREM RequestCorrect == InfoSpec => []SingleRequest
<1>1. InfoInit => InfoType /\ CellInv
  BY DEF InfoInit, InfoType, CellInv
<1>2. InfoType /\ CellInv /\ [InfoNext]_infoVars => (InfoType /\ CellInv)'
  <2> SUFFICES ASSUME InfoType, CellInv, [InfoNext]_infoVars
               PROVE  InfoType' /\ CellInv'
    OBVIOUS
  <2>1. CASE UNCHANGED infoVars
    BY <2>1 DEF infoVars, InfoType, CellInv
  <2>2. ASSUME NEW t \in Asker, NEW k \in Version, Ask(t, k) PROVE InfoType' /\ CellInv'
    BY <2>2, AskStep
  <2>3. ASSUME NEW t \in Asker, Hit(t) \/ Fetched(t) \/ Cancel(t)
        PROVE  InfoType' /\ CellInv'
    <3>1. /\ Leave(t)
          /\ full' = full \/ (at[t] = "fetching" /\ full' = full \cup {cell[t]})
      BY <2>3 DEF Hit, Fetched, Cancel
    <3> QED  BY <3>1, LeaveStep
  <2>4. ASSUME NEW t \in Asker, Fetch(t) PROVE InfoType' /\ CellInv'
    <3>1. /\ \A u \in Asker : at'[u] = IF u = t THEN "fetching" ELSE at[u]
          /\ at[t] = "entering" /\ at' \in [Asker -> {"idle", "entering", "fetching"}]
          /\ UNCHANGED <<wanted, cell, infos, full, uncached, requests>>
      BY <2>4 DEF Fetch, InfoType
    <3>2. cell[t] \notin full /\ \A u \in Asker : at[u] = "fetching" => cell[u] # cell[t]
      BY <2>4 DEF Fetch
    <3> QED  BY <3>1, <3>2 DEF InfoType, CellInv
  <2> QED  BY <2>1, <2>2, <2>3, <2>4 DEF InfoNext
<1>3. InfoType /\ CellInv => SingleRequest
  BY DEF InfoType, CellInv, SingleRequest
<1> QED  BY <1>1, <1>2, <1>3, PTL DEF InfoSpec

=============================================================================
