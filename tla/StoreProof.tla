----------------------------- MODULE StoreProof -----------------------------
(***************************************************************************)
(* For any number of processes, tasks and contents: the run's index names  *)
(* only tasks that have been written.                                      *)
(*                                                                         *)
(* The invariant WrittenInv says it of the files, of every cache and of    *)
(* every write under way, which is where the next index comes from.        *)
(***************************************************************************)
EXTENDS LocalStateAdapter, SequenceTheorems, TLAPS

-----------------------------------------------------------------------------
(* Keys and their contents.                                                *)

\* A task, the run and the state have contents of their own.
LEMMA ContentOfKey ==
    /\ \A t \in TaskId : t \in Key /\ ContentOf(t) = Value
    /\ Run \in Key /\ ContentOf(Run) = RunRecord
    /\ State \in Key /\ ContentOf(State) = FieldValue
    /\ \A k \in Key : ContentOf(k) \subseteq Content
  BY KeyAssumption DEF Key, ContentOf, Content

\* No content is a marker for what cannot be read, and no key is.
LEMMA Markers ==
    /\ \A k \in Key : k # Missing /\ k # Torn
    /\ \A k \in Key : \A c \in ContentOf(k) : c # Missing /\ c # Torn
    /\ Missing # Torn
    /\ \A c : Readable(c) <=> c # Missing /\ c # Torn
  BY UnreadableAssumption, ContentOfKey DEF Unreadable, Readable

\* What can be read of a key is a content of it.
LEMMA ReadContent ==
    ASSUME TypeOK, NEW p \in Process, NEW k \in Key, Readable(Read(p, k))
    PROVE  Read(p, k) \in ContentOf(k)
  BY DEF TypeOK, Read, Readable, Unreadable

-----------------------------------------------------------------------------
(* Types.                                                                  *)

\* Truncating a file to write a content of its key keeps the types.
LEMMA BeginWriteType ==
    ASSUME TypeOK, NEW p \in Process, NEW k \in Key, NEW c \in ContentOf(k),
           NEW T \in SUBSET TaskId, BeginWrite(p, k, c, T)
    PROVE  TypeOK'
<1>1. file' \in [Key -> Content \cup Unreadable]
      /\ \A x \in Key : file'[x] \in ContentOf(x) \cup Unreadable
  BY DEF TypeOK, BeginWrite, Unreadable
<1>2. job' \in [Process -> Job]
  BY ContentOfKey DEF TypeOK, BeginWrite, Job
<1>3. \A q \in Process : Writing(q)' => job'[q].content \in ContentOf(job'[q].key)
  BY DEF TypeOK, BeginWrite, Writing
<1> QED  BY <1>1, <1>2, <1>3 DEF TypeOK, BeginWrite

\* So does every operation.
LEMMA StartsType ==
    ASSUME TypeOK, NEW p \in Process, NEW k \in Key, NEW c \in ContentOf(k), Starts(p, k, c)
    PROVE  TypeOK'
<1>1. {k} \cap TaskId \in SUBSET TaskId
  OBVIOUS
<1> QED  BY <1>1, BeginWriteType DEF Starts


\* What is written is one of the values.
LEMMA WrittenValues == Written \subseteq Value
  BY LegacyAssumption DEF Written

\* The array of the state stays within its bound.
LEMMA StateDiffsType ==
    ASSUME TypeOK, file[State] # Torn, NEW c \in StateDiffs, Len(c.items) <= MaxItems
    PROVE  c \in FieldValue
<1> DEFINE Items == UNION {[1..n -> Value] : n \in 0..MaxItems}
<1>1. ASSUME NEW v \in Value, 1 <= MaxItems PROVE <<v>> \in Items
  <2>1. <<v>> \in [1..1 -> Value]
    OBVIOUS
  <2> QED  BY <1>1, <2>1, LegacyAssumption
<1>2. <<>> \in Items
  <2>1. <<>> \in [1..0 -> Value]
    OBVIOUS
  <2> QED  BY <2>1, LegacyAssumption
<1>3. CurrentState \in FieldValue
  BY <1>2, ContentOfKey, Markers DEF TypeOK, CurrentState, Field, FieldValue, Unreadable
<1>4. ASSUME NEW v \in Value, Len(Append(CurrentState.items, v)) <= MaxItems
      PROVE  Append(CurrentState.items, v) \in Items
  <2>1. PICK n \in 0..MaxItems : CurrentState.items \in [1..n -> Value]
    BY <1>3 DEF FieldValue
  <2>2. CurrentState.items \in Seq(Value) /\ Len(CurrentState.items) = n
    BY <2>1, LegacyAssumption
  <2>3. /\ Append(CurrentState.items, v) \in [1..(n + 1) -> Value]
        /\ Len(Append(CurrentState.items, v)) = n + 1
    BY <2>2, AppendProperties, LenProperties
  <2> QED  BY <1>4, <2>3, LegacyAssumption
<1>5. ASSUME NEW v \in Value, c = Field(<<v>>, FALSE) PROVE c \in FieldValue
  <2>1. Len(<<v>>) <= MaxItems
    BY <1>5 DEF Field
  <2>2. 1 <= MaxItems
    BY <2>1
  <2> QED  BY <1>1, <1>5, <2>2 DEF Field, FieldValue
<1>6. ASSUME NEW v \in Value, c = Field(Append(CurrentState.items, v), TRUE)
      PROVE  c \in FieldValue
  BY <1>4, <1>6 DEF Field, FieldValue
<1>7. c = Field(<<>>, TRUE) => c \in FieldValue
  BY <1>2 DEF Field, FieldValue
<1> QED  BY <1>5, <1>6, <1>7, WrittenValues DEF StateDiffs

-----------------------------------------------------------------------------
(* Every action keeps the types.                                           *)

\* Operations write contents of the key they write.
LEMMA OperationType ==
    ASSUME TypeOK, NEW p \in Process, Operation(p)
    PROVE  TypeOK'
<1> USE WrittenValues, ContentOfKey
<1>1. CASE CreateRun(p)
  <2>1. PICK v \in Value : Starts(p, Run, [tasks |-> {}, status |-> v])
    BY <1>1 DEF CreateRun
  <2>2. [tasks |-> {}, status |-> v] \in ContentOf(Run)
    BY DEF RunRecord
  <2> QED  BY <2>1, <2>2, StartsType
<1>2. CASE DiffRun(p)
  <2>1. PICK v \in Value : Starts(p, Run, [Read(p, Run) EXCEPT !.status = v])
    BY <1>2 DEF DiffRun
  <2>2. Read(p, Run) \in RunRecord /\ v \in Value
    BY <1>2, ReadContent DEF DiffRun
  <2>3. [Read(p, Run) EXCEPT !.status = v] \in ContentOf(Run)
    BY <2>2 DEF RunRecord
  <2> QED  BY <2>1, <2>3, StartsType
<1>3. CASE DiffState(p)
  <2>1. PICK c \in StateDiffs : Len(c.items) <= MaxItems /\ Starts(p, State, c)
    BY <1>3 DEF DiffState
  <2>2. c \in ContentOf(State)
    BY <1>3, <2>1, StateDiffsType DEF DiffState
  <2> QED  BY <2>1, <2>2, StartsType
<1>4. ASSUME NEW t \in TaskId, SaveTask(p, t) \/ DiffTask(p, t) PROVE TypeOK'
  <2>1. PICK v \in Value : Starts(p, t, v)
    BY <1>4 DEF SaveTask, DiffTask
  <2> QED  BY <2>1, StartsType
<1> QED  BY <1>1, <1>2, <1>3, <1>4 DEF Operation

\* The end of a write ends the operation, or leaves a task to be indexed.
LEMMA EndWriteJob ==
    ASSUME TypeOK, NEW p \in Process, EndWrite(p)
    PROVE  /\ job' \in [Process -> Job]
           /\ job'[p] \in {Idle, [key |-> Missing, content |-> Missing, saves |-> job[p].saves]}
           /\ job'[p].key = Missing
           /\ job'[p].saves \subseteq job[p].saves
           /\ \A q \in Process \ {p} : job'[q] = job[q]
<1>1. CASE job' = [job EXCEPT ![p].key = Missing, ![p].content = Missing]
  <2>1. job'[p] = [key |-> Missing, content |-> Missing, saves |-> job[p].saves]
    BY <1>1 DEF TypeOK, Job
  <2>2. job'[p] \in Job
    BY <2>1 DEF TypeOK, Job
  <2>3. \A q \in Process \ {p} : job'[q] = job[q]
    BY <1>1 DEF TypeOK
  <2> QED  BY <1>1, <2>1, <2>2, <2>3 DEF TypeOK
<1>2. CASE job' = [job EXCEPT ![p] = Idle]
  BY <1>2 DEF TypeOK, Job, Idle
<1> QED  BY <1>1, <1>2 DEF EndWrite

\* What was written is on disk, torn or whole, and in the cache.
LEMMA EndWriteType ==
    ASSUME TypeOK, NEW p \in Process, EndWrite(p)
    PROVE  TypeOK'
<1> DEFINE k == job[p].key
           c == job[p].content
<1>1. k \in Key /\ c \in ContentOf(k) /\ c \in Content
  BY ContentOfKey DEF TypeOK, EndWrite, Writing, Job
<1>2. file' \in [Key -> Content \cup Unreadable]
      /\ \A x \in Key : file'[x] \in ContentOf(x) \cup Unreadable
  <2>1. CASE file' = [file EXCEPT ![k] = c]
    BY <1>1, <2>1 DEF TypeOK
  <2>2. CASE file' = [file EXCEPT ![k] = Torn]
    BY <1>1, <2>2 DEF TypeOK, Unreadable
  <2> QED  BY <2>1, <2>2 DEF EndWrite
<1>3. cache' \in [Process -> [Key -> Content \cup {Missing}]]
      /\ \A q \in Process, x \in Key : cache'[q][x] \in ContentOf(x) \cup {Missing}
  <2>1. CASE UNCHANGED cache
    BY <2>1 DEF TypeOK
  <2>2. CASE cache' = [cache EXCEPT ![p][k] = c]
    <3>1. cache'[p] = [cache[p] EXCEPT ![k] = c] /\ \A q \in Process \ {p} : cache'[q] = cache[q]
      BY <2>2 DEF TypeOK
    <3>2. cache[p] \in [Key -> Content \cup {Missing}]
      BY DEF TypeOK
    <3>3. /\ cache'[p] \in [Key -> Content \cup {Missing}]
          /\ \A x \in Key : cache'[p][x] \in ContentOf(x) \cup {Missing}
      BY <1>1, <3>1, <3>2 DEF TypeOK
    <3>4. cache' \in [Process -> [Key -> Content \cup {Missing}]]
      BY <2>2, <3>1, <3>3 DEF TypeOK
    <3> QED  BY <3>1, <3>3, <3>4 DEF TypeOK
  <2> QED  BY <2>1, <2>2 DEF EndWrite
<1>4. job' \in [Process -> Job] /\ ~Writing(p)' /\ \A q \in Process \ {p} : job'[q] = job[q]
  BY EndWriteJob DEF Writing
<1>5. \A q \in Process : Writing(q)' => job'[q].content \in ContentOf(job'[q].key)
  BY <1>4 DEF TypeOK, Writing
<1>6. acked' \subseteq TaskId /\ live' = live
  BY DEF TypeOK, EndWrite, Job
<1> QED  BY <1>2, <1>3, <1>4, <1>5, <1>6 DEF TypeOK

\* The end of save_task writes a run's record, or nothing.
LEMMA IndexTaskType ==
    ASSUME TypeOK, NEW p \in Process, IndexTask(p)
    PROVE  TypeOK'
<1> DEFINE T == job[p].saves
           run == Read(p, Run)
<1>1. T \in SUBSET TaskId
  BY DEF TypeOK, Job
<1>2. CASE Readable(run) /\ ~(T \subseteq run.tasks)
  <2>1. BeginWrite(p, Run, [run EXCEPT !.tasks = @ \cup T], T)
    BY <1>2 DEF IndexTask
  <2>2. [run EXCEPT !.tasks = @ \cup T] \in ContentOf(Run)
    BY <1>1, <1>2, ReadContent, ContentOfKey DEF RunRecord
  <2> QED  BY <1>1, <2>1, <2>2, BeginWriteType, ContentOfKey
<1>3. CASE ~(Readable(run) /\ ~(T \subseteq run.tasks))
  <2>1. /\ job' = [job EXCEPT ![p] = Idle]
        /\ acked' = acked \cup T
        /\ UNCHANGED <<live, file, cache>>
    BY <1>3 DEF IndexTask
  <2> QED  BY <1>1, <2>1 DEF TypeOK, Idle, Job, Writing
<1> QED  BY <1>2, <1>3

\* A write that fails, and a process that dies, forget what was being written.
LEMMA AbortType ==
    ASSUME TypeOK, NEW p \in Process, FailWrite(p) \/ Crash(p)
    PROVE  TypeOK'
<1>1. /\ job' = [job EXCEPT ![p] = Idle]
      /\ UNCHANGED <<live, acked>>
  BY DEF FailWrite, Crash
<1>2. cache' \in [Process -> [Key -> Content \cup {Missing}]]
      /\ \A q \in Process, x \in Key : cache'[q][x] \in ContentOf(x) \cup {Missing}
  <2>1. CASE UNCHANGED cache
    BY <2>1 DEF TypeOK
  <2>2. CASE cache' = [cache EXCEPT ![p] = [k \in Key |-> Missing]]
    <3>1. [k \in Key |-> Missing] \in [Key -> Content \cup {Missing}]
      OBVIOUS
    <3> QED  BY <2>2, <3>1 DEF TypeOK
  <2> QED  BY <2>1, <2>2 DEF FailWrite, Crash
<1>3. file' \in [Key -> Content \cup Unreadable]
      /\ \A x \in Key : file'[x] \in ContentOf(x) \cup Unreadable
  <2>1. CASE UNCHANGED file
    BY <2>1 DEF TypeOK
  <2>2. CASE Writing(p) /\ file' = [file EXCEPT ![job[p].key] = job[p].content]
    BY <2>2, ContentOfKey DEF TypeOK, Writing, Job
  <2> QED  BY <2>1, <2>2 DEF FailWrite, Crash
<1> QED  BY <1>1, <1>2, <1>3 DEF TypeOK, Idle, Job, Writing

\* Files, caches and writes under way hold contents of their keys.
THEOREM StoreTypeCorrect == Spec => []TypeOK
<1>1. Init => TypeOK
  <2> SUFFICES ASSUME Init PROVE TypeOK
    OBVIOUS
  <2>1. PICK v \in Value :
          file = [k \in Key |-> IF k \in Legacy THEN v
                                ELSE IF k = Run /\ Legacy # {}
                                     THEN [tasks |-> {}, status |-> v]
                                     ELSE Missing]
    BY DEF Init
  <2>2. \A k \in Key : file[k] \in ContentOf(k) \cup Unreadable
    BY <2>1, LegacyAssumption, KeyAssumption, ContentOfKey
       DEF RunRecord, Unreadable
  <2>3. file \in [Key -> Content \cup Unreadable]
    BY <2>1, <2>2, ContentOfKey
  <2> QED  BY <2>2, <2>3, LegacyAssumption DEF Init, TypeOK, Job, Idle, Writing
<1>2. TypeOK /\ [Next]_vars => TypeOK'
  <2> SUFFICES ASSUME TypeOK, [Next]_vars PROVE TypeOK'
    OBVIOUS
  <2>1. CASE UNCHANGED vars
    BY <2>1 DEF vars, TypeOK, Writing
  <2>2. ASSUME NEW p \in live,
               Operation(p) \/ EndWrite(p) \/ IndexTask(p) \/ FailWrite(p) \/ Crash(p)
        PROVE  TypeOK'
    <3>1. p \in Process
      BY DEF TypeOK
    <3> QED  BY <2>2, <3>1, OperationType, EndWriteType, IndexTaskType, AbortType
  <2> QED  BY <2>1, <2>2 DEF Next
<1> QED  BY <1>1, <1>2, PTL DEF Spec

-----------------------------------------------------------------------------
(* The index.                                                              *)

Names(c) == \A t \in c.tasks : file[t] # Missing

WrittenInv ==
    /\ Readable(file[Run]) => Names(file[Run])
    /\ \A p \in Process : cache[p][Run] # Missing => Names(cache[p][Run])
    /\ \A p \in Process : job[p].key = Run => Names(job[p].content)
    /\ \A p \in Process : \A t \in job[p].saves : file[t] # Missing

\* A file that has been written does not go away.
LEMMA FilesStay ==
    ASSUME TypeOK, [Next]_vars
    PROVE  \A k \in Key : file[k] # Missing => file'[k] # Missing
<1> SUFFICES ASSUME NEW k \in Key, file[k] # Missing PROVE file'[k] # Missing
  OBVIOUS
<1>1. ASSUME NEW p \in Process, NEW x, NEW c, NEW T, BeginWrite(p, x, c, T)
      PROVE  file'[k] # Missing
  BY <1>1, Markers DEF BeginWrite, TypeOK
<1>2. ASSUME NEW p \in Process, Operation(p) PROVE file'[k] # Missing
  BY <1>1, <1>2 DEF Operation, CreateRun, DiffRun, DiffState, SaveTask, DiffTask, Starts
<1>3. ASSUME NEW p \in Process, EndWrite(p) PROVE file'[k] # Missing
  <2>1. job[p].content # Missing
    BY <1>3, Markers DEF EndWrite, TypeOK, Writing, Job
  <2> QED  BY <1>3, <2>1, Markers DEF EndWrite, TypeOK
<1>4. ASSUME NEW p \in Process, IndexTask(p) PROVE file'[k] # Missing
  BY <1>1, <1>4 DEF IndexTask
<1>5. ASSUME NEW p \in Process, FailWrite(p) \/ Crash(p) PROVE file'[k] # Missing
  <2>1. Writing(p) => job[p].content # Missing
    BY Markers DEF TypeOK, Writing, Job
  <2> QED  BY <1>5, <2>1 DEF FailWrite, Crash, TypeOK
<1>6. live \subseteq Process
  BY DEF TypeOK
<1> QED  BY <1>2, <1>3, <1>4, <1>5, <1>6 DEF Next, vars


\* WrittenInv is kept by a step after which each record of the run is an old
\* one, or one that was being written, or names only tasks with a file.
LEMMA WrittenFrom ==
    ASSUME TypeOK, TypeOK', WrittenInv, [Next]_vars,
           Readable(file'[Run]) =>
              \/ file'[Run] = file[Run]
              \/ \E p \in Process : job[p].key = Run /\ file'[Run] = job[p].content,
           \A p \in Process : cache'[p][Run] # Missing =>
              \/ cache'[p][Run] = cache[p][Run]
              \/ job[p].key = Run /\ cache'[p][Run] = job[p].content,
           \A p \in Process : job'[p].key = Run =>
              \/ job'[p] = job[p]
              \/ \A t \in job'[p].content.tasks : t \in TaskId /\ file[t] # Missing,
           \A p \in Process : \A t \in job'[p].saves :
              t \in job[p].saves \/ file'[t] # Missing
    PROVE  WrittenInv'
<1> DEFINE Named(c) == \A t \in c.tasks : file'[t] # Missing
<1>1. \A k \in Key : file[k] # Missing => file'[k] # Missing
  BY FilesStay
<1>2. \A t \in TaskId : t \in Key
  BY ContentOfKey
<1>3. ASSUME NEW c \in RunRecord, Names(c) PROVE Named(c)
  BY <1>1, <1>2, <1>3 DEF Names, RunRecord
<1>4. /\ Readable(file[Run]) => file[Run] \in RunRecord
      /\ \A p \in Process : cache[p][Run] # Missing => cache[p][Run] \in RunRecord
      /\ \A p \in Process : job[p].key = Run => job[p].content \in RunRecord
  BY ContentOfKey, Markers DEF TypeOK, Readable, Unreadable, Writing
<1>5. Readable(file'[Run]) => Named(file'[Run])
  BY <1>3, <1>4 DEF WrittenInv
<1>6. ASSUME NEW p \in Process, cache'[p][Run] # Missing PROVE Named(cache'[p][Run])
  BY <1>3, <1>4, <1>6 DEF WrittenInv
<1>7. ASSUME NEW p \in Process, job'[p].key = Run PROVE Named(job'[p].content)
  <2>1. CASE job'[p] = job[p]
    BY <1>3, <1>4, <1>7, <2>1 DEF WrittenInv
  <2>2. CASE \A t \in job'[p].content.tasks : t \in TaskId /\ file[t] # Missing
    BY <1>1, <1>2, <2>2
  <2> QED  BY <1>7, <2>1, <2>2
<1>8. ASSUME NEW p \in Process, NEW t \in job'[p].saves PROVE file'[t] # Missing
  <2>1. CASE t \in job[p].saves
    <3>1. t \in TaskId /\ file[t] # Missing
      BY <2>1 DEF TypeOK, Job, WrittenInv
    <3> QED  BY <1>1, <1>2, <3>1
  <2> QED  BY <1>8, <2>1
<1> QED  BY <1>5, <1>6, <1>7, <1>8 DEF WrittenInv, Names, Readable

\* A write that begins: its record, if it is one, is sound.
LEMMA BeginWriteWritten ==
    ASSUME TypeOK, TypeOK', WrittenInv, [Next]_vars,
           NEW p \in Process, NEW k \in Key, NEW c, NEW T \in SUBSET TaskId,
           BeginWrite(p, k, c, T),
           k = Run => \A t \in c.tasks : t \in TaskId /\ file[t] # Missing,
           \A t \in T : t \in job[p].saves \/ t = k
    PROVE  WrittenInv'
<1>1. Readable(file'[Run]) => file'[Run] = file[Run]
  BY Markers, ContentOfKey DEF BeginWrite, TypeOK
<1>2. /\ job'[p] = [key |-> k, content |-> c, saves |-> T]
      /\ \A q \in Process \ {p} : job'[q] = job[q]
  BY DEF BeginWrite, TypeOK
<1>3. file'[k] # Missing
  BY Markers DEF BeginWrite, TypeOK
<1>4. UNCHANGED cache
  BY DEF BeginWrite
<1> QED  BY <1>1, <1>2, <1>3, <1>4, WrittenFrom

\* What can be read of the run names only tasks with a file.
LEMMA ReadNames ==
    ASSUME TypeOK, WrittenInv, NEW p \in Process, Readable(Read(p, Run))
    PROVE  Read(p, Run) \in RunRecord /\ Names(Read(p, Run))
  BY ReadContent, ContentOfKey, Markers DEF WrittenInv, Read

\* No operation puts into the index what has no file.
LEMMA OperationWritten ==
    ASSUME TypeOK, TypeOK', WrittenInv, [Next]_vars, NEW p \in Process, Operation(p)
    PROVE  WrittenInv'
<1>1. ASSUME NEW k \in Key, NEW c, Starts(p, k, c),
             k = Run => \A t \in c.tasks : t \in TaskId /\ file[t] # Missing
      PROVE  WrittenInv'
  <2>1. BeginWrite(p, k, c, {k} \cap TaskId)
    BY <1>1 DEF Starts
  <2>2. /\ {k} \cap TaskId \in SUBSET TaskId
        /\ \A t \in {k} \cap TaskId : t = k
    OBVIOUS
  <2> QED  BY <1>1, <2>1, <2>2, BeginWriteWritten
<1>2. CASE CreateRun(p)
  BY <1>1, <1>2, ContentOfKey DEF CreateRun
<1>3. CASE DiffRun(p)
  <2>1. PICK v \in Written : Starts(p, Run, [Read(p, Run) EXCEPT !.status = v])
    BY <1>3 DEF DiffRun
  <2>2. Read(p, Run) \in RunRecord /\ Names(Read(p, Run))
    BY <1>3, ReadNames DEF DiffRun
  <2>3. \A t \in [Read(p, Run) EXCEPT !.status = v].tasks : t \in TaskId /\ file[t] # Missing
    BY <2>2 DEF RunRecord, Names
  <2> QED  BY <1>1, <2>1, <2>3, ContentOfKey
<1>4. CASE DiffState(p)
  BY <1>1, <1>4, ContentOfKey, KeyAssumption DEF DiffState
<1>5. ASSUME NEW t \in TaskId, SaveTask(p, t) \/ DiffTask(p, t) PROVE WrittenInv'
  BY <1>1, <1>5, ContentOfKey, KeyAssumption DEF SaveTask, DiffTask
<1> QED  BY <1>2, <1>3, <1>4, <1>5 DEF Operation

\* What has been written is put in the file and in the cache.
LEMMA EndWriteWritten ==
    ASSUME TypeOK, TypeOK', WrittenInv, [Next]_vars, NEW p \in Process, EndWrite(p)
    PROVE  WrittenInv'
<1> DEFINE k == job[p].key
           c == job[p].content
<1>1. k \in Key
  BY DEF TypeOK, EndWrite, Writing, Job
<1>2. Readable(file'[Run]) => file'[Run] = file[Run] \/ (k = Run /\ file'[Run] = c)
  BY <1>1, ContentOfKey, Markers DEF EndWrite, TypeOK
<1>3. \A q \in Process : cache'[q][Run] = cache[q][Run] \/ (q = p /\ k = Run /\ cache'[q][Run] = c)
  <2>1. CASE UNCHANGED cache
    BY <2>1
  <2>2. CASE cache' = [cache EXCEPT ![p][k] = c]
    <3>1. cache'[p] = [cache[p] EXCEPT ![k] = c] /\ \A q \in Process \ {p} : cache'[q] = cache[q]
      BY <2>2 DEF TypeOK
    <3>2. cache[p] \in [Key -> Content \cup {Missing}]
      BY DEF TypeOK
    <3> QED  BY <1>1, <3>1, <3>2, ContentOfKey
  <2> QED  BY <2>1, <2>2 DEF EndWrite
<1>4. /\ job'[p].key = Missing
      /\ job'[p].saves \subseteq job[p].saves
      /\ \A q \in Process \ {p} : job'[q] = job[q]
  BY EndWriteJob
<1>5. Run # Missing
  BY Markers, ContentOfKey
<1>6. \A q \in Process : job'[q].key = Run => job'[q] = job[q]
  BY <1>4, <1>5
<1>7. \A q \in Process : \A t \in job'[q].saves : t \in job[q].saves
  BY <1>4
<1> QED  BY <1>2, <1>3, <1>6, <1>7, WrittenFrom

\* A task is indexed after its file was written.
LEMMA IndexTaskWritten ==
    ASSUME TypeOK, TypeOK', WrittenInv, [Next]_vars, NEW p \in Process, IndexTask(p)
    PROVE  WrittenInv'
<1> DEFINE T == job[p].saves
           run == Read(p, Run)
<1>1. T \in SUBSET TaskId /\ \A t \in T : file[t] # Missing
  BY DEF TypeOK, Job, WrittenInv
<1>2. CASE Readable(run) /\ ~(T \subseteq run.tasks)
  <2>1. BeginWrite(p, Run, [run EXCEPT !.tasks = @ \cup T], T)
    BY <1>2 DEF IndexTask
  <2>2. run \in RunRecord /\ Names(run)
    BY <1>2, ReadNames
  <2>3. \A t \in [run EXCEPT !.tasks = @ \cup T].tasks : t \in TaskId /\ file[t] # Missing
    BY <1>1, <2>2 DEF RunRecord, Names
  <2> QED  BY <1>1, <2>1, <2>3, BeginWriteWritten, ContentOfKey
<1>3. CASE ~(Readable(run) /\ ~(T \subseteq run.tasks))
  <2>1. job' = [job EXCEPT ![p] = Idle] /\ UNCHANGED <<file, cache>>
    BY <1>3 DEF IndexTask
  <2>2. \A q \in Process : job'[q] = job[q] \/ (job'[q].saves = {} /\ job'[q].key = Missing)
    BY <2>1 DEF TypeOK, Idle
  <2>3. Run # Missing
    BY Markers, ContentOfKey
  <2> QED  BY <2>1, <2>2, <2>3, WrittenFrom
<1> QED  BY <1>2, <1>3

\* A write that was cut short leaves the old record, the new one, or none.
LEMMA AbortWritten ==
    ASSUME TypeOK, TypeOK', WrittenInv, [Next]_vars, NEW p \in Process,
           FailWrite(p) \/ Crash(p)
    PROVE  WrittenInv'
<1>1. job' = [job EXCEPT ![p] = Idle]
  BY DEF FailWrite, Crash
<1>2. \A q \in Process : job'[q] = job[q] \/ (job'[q].saves = {} /\ job'[q].key = Missing)
  BY <1>1 DEF TypeOK, Idle
<1>3. Run # Missing /\ Run \in Key
  BY Markers, ContentOfKey
<1>4. file'[Run] = file[Run] \/ (job[p].key = Run /\ file'[Run] = job[p].content)
  BY <1>3 DEF FailWrite, Crash, TypeOK
<1>5. \A q \in Process : cache'[q][Run] \in {Missing, cache[q][Run]}
  BY <1>3 DEF FailWrite, Crash, TypeOK
<1> QED  BY <1>2, <1>3, <1>4, <1>5, WrittenFrom

\* The run's index names only tasks whose file has been written, for any number
\* of processes, whatever crashes or fails.
THEOREM IndexCorrect == Spec => []IndexNamesTasks
<1>1. Init => WrittenInv
  <2> SUFFICES ASSUME Init PROVE WrittenInv
    OBVIOUS
  <2>1. PICK v \in Value :
          file = [k \in Key |-> IF k \in Legacy THEN v
                                ELSE IF k = Run /\ Legacy # {}
                                     THEN [tasks |-> {}, status |-> v]
                                     ELSE Missing]
    BY DEF Init
  <2>2. Run \in Key /\ Run # Missing /\ Run \notin Legacy
    BY Markers, ContentOfKey, LegacyAssumption, KeyAssumption
  <2>3. file[Run] = Missing \/ file[Run].tasks = {}
    BY <2>1, <2>2
  <2> QED  BY <2>2, <2>3, Markers DEF Init, WrittenInv, Names, Idle
<1>2. TypeOK /\ TypeOK' /\ WrittenInv /\ [Next]_vars => WrittenInv'
  <2> SUFFICES ASSUME TypeOK, TypeOK', WrittenInv, [Next]_vars PROVE WrittenInv'
    OBVIOUS
  <2>1. CASE UNCHANGED vars
    BY <2>1 DEF vars, WrittenInv, Names, Readable
  <2>2. ASSUME NEW p \in live,
               Operation(p) \/ EndWrite(p) \/ IndexTask(p) \/ FailWrite(p) \/ Crash(p)
        PROVE  WrittenInv'
    <3>1. p \in Process
      BY DEF TypeOK
    <3> QED  BY <2>2, <3>1, OperationWritten, EndWriteWritten, IndexTaskWritten, AbortWritten
  <2> QED  BY <2>1, <2>2 DEF Next
<1>3. WrittenInv => IndexNamesTasks
  BY Markers DEF WrittenInv, IndexNamesTasks, Contents, Names
<1> QED  BY <1>1, <1>2, <1>3, StoreTypeCorrect, PTL DEF Spec

-----------------------------------------------------------------------------
(* One process at a time: its files, its cache and what it has been told.  *)

Agrees(p) ==
    /\ Writing(p) => file[job[p].key] = Torn
    /\ \A k \in Key : cache[p][k] # Missing => file[k] \in {Torn, cache[p][k]}
    /\ cache[p][State] = Missing

Indexed(p) ==
    /\ \A t \in acked \cup job[p].saves : file[t] # Missing
    /\ job[p].key = State => job[p].saves = {}
    /\ file[Run] = Missing => job[p].saves = {} /\ \A t \in TaskId : file[t] = Missing
    /\ Readable(Read(p, Run)) => acked \subseteq Read(p, Run).tasks
    /\ job[p].key = Run => acked \cup job[p].saves \subseteq job[p].content.tasks

SoloInv == \A p \in Process : live = {p} => Agrees(p)
AckInv  == \A p \in Process : live = {p} => Indexed(p)

\* The effect of one process's step on a single file and its cache.
LEMMA BeginWriteEffect ==
    ASSUME TypeOK, NEW p \in Process, NEW k \in Key, NEW c, NEW T, BeginWrite(p, k, c, T)
    PROVE  /\ \A x \in Key : file'[x] = IF x = k THEN Torn ELSE file[x]
           /\ job'[p] = [key |-> k, content |-> c, saves |-> T]
           /\ UNCHANGED <<live, cache, acked>>
  BY DEF TypeOK, BeginWrite

LEMMA OperationEffect ==
    ASSUME TypeOK, NEW p \in Process, Operation(p)
    PROVE  \E k \in Key : \E c : BeginWrite(p, k, c, {k} \cap TaskId) /\ job[p] = Idle
  BY ContentOfKey DEF Operation, CreateRun, DiffRun, DiffState, SaveTask, DiffTask, Starts

\* A single process ends the write it began: the file and the cache get the content.
LEMMA EndWriteEffect ==
    ASSUME TypeOK, NEW p \in Process, live = {p}, Agrees(p), EndWrite(p)
    PROVE  LET k == job[p].key
               c == job[p].content
           IN  /\ k \in Key /\ c \in ContentOf(k) /\ file[k] = Torn
               /\ \A x \in Key : file'[x] = IF x = k THEN c ELSE file[x]
               /\ \A x \in Key : cache'[p][x] = IF x = k /\ k # State THEN c ELSE cache[p][x]
<1> DEFINE k == job[p].key
           c == job[p].content
<1>1. k \in Key /\ c \in ContentOf(k)
  BY DEF TypeOK, EndWrite, Writing, Job
<1>2. file[k] = Torn
  BY DEF Agrees, EndWrite
<1>3. file' = [file EXCEPT ![k] = c]
  BY <1>2 DEF EndWrite
<1>4. \A x \in Key : file'[x] = IF x = k THEN c ELSE file[x]
  BY <1>1, <1>3 DEF TypeOK
<1>5. \A x \in Key : cache'[p][x] = IF x = k /\ k # State THEN c ELSE cache[p][x]
  <2>1. CASE k = State
    BY <2>1 DEF EndWrite
  <2>2. CASE k # State
    <3>1. cache' = [cache EXCEPT ![p][k] = c]
      BY <2>2 DEF EndWrite
    <3>2. cache'[p] = [cache[p] EXCEPT ![k] = c]
      BY <3>1 DEF TypeOK
    <3>3. cache[p] \in [Key -> Content \cup {Missing}]
      BY DEF TypeOK
    <3> QED  BY <1>1, <2>2, <3>2, <3>3
  <2> QED  BY <2>1, <2>2
<1> QED  BY <1>1, <1>2, <1>4, <1>5

\* A process that dies leaves the files it was not writing, and no cache.
LEMMA CrashEffect ==
    ASSUME TypeOK, NEW p \in Process, Crash(p)
    PROVE  /\ \A x \in Key : \/ file'[x] = file[x]
                             \/ Writing(p) /\ x = job[p].key /\ file'[x] = job[p].content
           /\ \A x \in Key : cache'[p][x] = Missing
           /\ job'[p] = Idle
           /\ UNCHANGED <<live, acked>>
  BY DEF TypeOK, Crash


\* Alone, a process's cache and the files agree but for what is torn.
LEMMA AgreesStep ==
    ASSUME TypeOK, TypeOK', NEW p \in Process, live = {p}, Agrees(p),
           Operation(p) \/ EndWrite(p) \/ IndexTask(p) \/ FailWrite(p) \/ Crash(p)
    PROVE  Agrees(p)'
<1> USE Markers
<1>1. ASSUME NEW k \in Key, NEW c, NEW T, BeginWrite(p, k, c, T) PROVE Agrees(p)'
  <2>1. /\ \A x \in Key : file'[x] = IF x = k THEN Torn ELSE file[x]
        /\ job'[p] = [key |-> k, content |-> c, saves |-> T]
        /\ UNCHANGED cache
    BY <1>1, BeginWriteEffect
  <2> QED  BY <2>1 DEF Agrees, Writing
<1>2. CASE Operation(p)
  BY <1>1, <1>2, OperationEffect
<1>3. CASE EndWrite(p)
  <2>1. State \in Key /\ job'[p].key = Missing
    BY <1>3, EndWriteJob, ContentOfKey
  <2> QED  BY <1>3, <2>1, EndWriteEffect DEF Agrees, Writing
<1>4. CASE IndexTask(p)
  <2>1. CASE UNCHANGED <<file, cache>> /\ job' = [job EXCEPT ![p] = Idle]
    BY <2>1 DEF Agrees, Writing, Idle, TypeOK
  <2> QED  BY <1>1, <1>4, <2>1, ContentOfKey DEF IndexTask
<1>5. CASE FailWrite(p)
  BY <1>5 DEF FailWrite, Agrees, Writing, Idle, TypeOK
<1>6. CASE Crash(p)
  BY <1>6, CrashEffect, ContentOfKey DEF Agrees, Writing, Idle
<1> QED  BY <1>2, <1>3, <1>4, <1>5, <1>6

\* SoloInv holds in every state.
LEMMA SoloCorrect == Spec => []SoloInv
<1>1. Init => SoloInv
  BY Markers, ContentOfKey DEF Init, SoloInv, Agrees, Idle, Writing
<1>2. TypeOK /\ TypeOK' /\ SoloInv /\ [Next]_vars => SoloInv'
  <2> SUFFICES ASSUME TypeOK, TypeOK', SoloInv, [Next]_vars, NEW p \in Process, live' = {p}
               PROVE  Agrees(p)'
    BY DEF SoloInv
  <2>1. live' = live
    BY DEF Next, vars, Operation, CreateRun, DiffRun, DiffState, SaveTask, DiffTask, Starts,
           BeginWrite, EndWrite, IndexTask, FailWrite, Crash
  <2>2. live = {p} /\ Agrees(p)
    BY <2>1 DEF SoloInv
  <2>3. CASE UNCHANGED vars
    BY <2>2, <2>3 DEF vars, Agrees, Writing
  <2>4. CASE Operation(p) \/ EndWrite(p) \/ IndexTask(p) \/ FailWrite(p) \/ Crash(p)
    BY <2>2, <2>4, AgreesStep
  <2> QED  BY <2>2, <2>3, <2>4 DEF Next
<1> QED  BY <1>1, <1>2, StoreTypeCorrect, PTL DEF Spec

-----------------------------------------------------------------------------
(* The listing of a process that is alone.                                 *)


\* A write that begins tears one file.
LEMMA BeginWriteIndexed ==
    ASSUME TypeOK, NEW p \in Process, live = {p}, Agrees(p), Indexed(p),
           NEW k \in Key, NEW c, NEW T, BeginWrite(p, k, c, T),
           k = Run => acked \cup T \subseteq c.tasks,
           k \in TaskId \/ T # {} => file[Run] # Missing,
           k = State => T = {},
           \A t \in T : t \in TaskId /\ (t = k \/ file[t] # Missing)
    PROVE  Indexed(p)'
<1> USE Markers, ContentOfKey
<1>1. /\ \A x \in Key : file'[x] = IF x = k THEN Torn ELSE file[x]
      /\ job'[p] = [key |-> k, content |-> c, saves |-> T]
      /\ UNCHANGED <<cache, acked>>
  BY BeginWriteEffect
<1>2. \A t \in acked' \cup job'[p].saves : file'[t] # Missing
  <2>1. \A t \in acked : t \in Key /\ file[t] # Missing
    BY DEF Indexed, TypeOK
  <2>2. \A t \in T : t \in Key /\ file'[t] # Missing
    BY <1>1
  <2> QED  BY <1>1, <2>1, <2>2
<1>3. file'[Run] = Missing => job'[p].saves = {} /\ \A t \in TaskId : file'[t] = Missing
  BY <1>1 DEF Indexed
<1>4. Readable(Read(p, Run))' => Read(p, Run)' = Read(p, Run)
  BY <1>1 DEF Read
<1>5. Readable(Read(p, Run))' => acked' \subseteq Read(p, Run)'.tasks
  BY <1>1, <1>4 DEF Indexed
<1>6. job'[p].key = Run => acked' \cup job'[p].saves \subseteq job'[p].content.tasks
  BY <1>1
<1>7. job'[p].key = State => job'[p].saves = {}
  BY <1>1
<1> QED  BY <1>2, <1>3, <1>5, <1>6, <1>7 DEF Indexed

\* Operations copy the index they have read.
LEMMA OperationIndexed ==
    ASSUME TypeOK, NEW p \in Process, live = {p}, Agrees(p), Indexed(p), Operation(p)
    PROVE  Indexed(p)'
<1>1. ASSUME NEW k \in Key, NEW c, Starts(p, k, c),
             k = Run => acked \subseteq c.tasks,
             k \in TaskId => file[Run] # Missing
      PROVE  Indexed(p)'
  <2>1. BeginWrite(p, k, c, {k} \cap TaskId)
    BY <1>1 DEF Starts
  <2>2. k = Run => {k} \cap TaskId = {}
    BY KeyAssumption
  <2>3. k \in TaskId \/ {k} \cap TaskId # {} => file[Run] # Missing
    BY <1>1
  <2>4. k = Run => acked \cup ({k} \cap TaskId) \subseteq c.tasks
    BY <1>1, <2>2
  <2>5. k = State => {k} \cap TaskId = {}
    BY KeyAssumption
  <2>6. \A t \in {k} \cap TaskId : t \in TaskId /\ (t = k \/ file[t] # Missing)
    OBVIOUS
  <2> QED  BY <2>1, <2>3, <2>4, <2>5, <2>6, BeginWriteIndexed
<1>2. CASE CreateRun(p)
  <2>1. acked = {}
    BY <1>2 DEF CreateRun, Indexed, TypeOK
  <2> QED  BY <1>1, <1>2, <2>1, ContentOfKey, KeyAssumption DEF CreateRun
<1>3. CASE DiffRun(p)
  <2>1. PICK v \in Written : Starts(p, Run, [Read(p, Run) EXCEPT !.status = v])
    BY <1>3 DEF DiffRun
  <2>2. Read(p, Run) \in RunRecord /\ acked \subseteq Read(p, Run).tasks
    BY <1>3, ReadContent, ContentOfKey DEF DiffRun, Indexed
  <2>3. acked \subseteq [Read(p, Run) EXCEPT !.status = v].tasks
    BY <2>2 DEF RunRecord
  <2> QED  BY <1>1, <2>1, <2>3, ContentOfKey, KeyAssumption
<1>4. CASE DiffState(p)
  BY <1>1, <1>4, ContentOfKey, KeyAssumption DEF DiffState
<1>5. ASSUME NEW t \in TaskId, SaveTask(p, t) PROVE Indexed(p)'
  BY <1>1, <1>5, ContentOfKey, KeyAssumption DEF SaveTask
<1>6. ASSUME NEW t \in TaskId, DiffTask(p, t) PROVE Indexed(p)'
  <2>1. t \in Key
    BY ContentOfKey
  <2>2. file[t] # Missing
    BY <1>6, <2>1, Markers DEF DiffTask, Read, Agrees
  <2>3. file[Run] # Missing
    BY <2>2 DEF Indexed
  <2> QED  BY <1>1, <1>6, <2>1, <2>3, KeyAssumption DEF DiffTask
<1> QED  BY <1>2, <1>3, <1>4, <1>5, <1>6 DEF Operation

\* The save of a task is acknowledged after its index.
LEMMA EndWriteAcked ==
    ASSUME NEW p \in Process, EndWrite(p)
    PROVE  \/ acked' = acked
           \/ job[p].key \notin TaskId /\ acked' = acked \cup job[p].saves
<1>1. CASE job[p].key \in TaskId
  BY <1>1 DEF EndWrite
<1>2. CASE job[p].key \notin TaskId
  BY <1>2 DEF EndWrite
<1> QED  BY <1>1, <1>2

\* A write of the run that ends makes its index the one that is read.
LEMMA EndWriteIndexed ==
    ASSUME TypeOK, NEW p \in Process, live = {p}, Agrees(p), Indexed(p), EndWrite(p)
    PROVE  Indexed(p)'
<1> USE Markers, ContentOfKey
<1> DEFINE k == job[p].key
           c == job[p].content
<1>1. /\ k \in Key /\ c \in ContentOf(k) /\ file[k] = Torn
      /\ \A x \in Key : file'[x] = IF x = k THEN c ELSE file[x]
      /\ \A x \in Key : cache'[p][x] = IF x = k /\ k # State THEN c ELSE cache[p][x]
  BY EndWriteEffect
<1>2. job'[p].key = Missing /\ job'[p].saves \subseteq job[p].saves
  BY EndWriteJob
<1>3. /\ job[p].saves \subseteq TaskId /\ acked \subseteq TaskId
      /\ \A t \in TaskId : t \in Key
      /\ Run \in Key
  BY DEF TypeOK, Job
<1>4. acked' = acked \/ (k \notin TaskId /\ acked' = acked \cup job[p].saves)
  BY EndWriteAcked
<1>5. \A t \in acked' \cup job'[p].saves : file'[t] # Missing
  <2>1. \A t \in acked \cup job[p].saves : t \in Key /\ file[t] # Missing
    BY <1>3 DEF Indexed
  <2>2. \A t \in acked \cup job[p].saves : file'[t] # Missing
    BY <1>1, <2>1
  <2> QED  BY <1>2, <1>4, <2>2
<1>6. file'[Run] = Missing => job'[p].saves = {} /\ \A t \in TaskId : file'[t] = Missing
  <2> SUFFICES ASSUME file'[Run] = Missing
               PROVE  job'[p].saves = {} /\ \A t \in TaskId : file'[t] = Missing
    OBVIOUS
  <2>1. file[Run] = Missing /\ k # Run
    BY <1>1, <1>3
  <2>2. job[p].saves = {} /\ \A t \in TaskId : file[t] = Missing
    BY <2>1 DEF Indexed
  <2> QED  BY <1>1, <1>2, <1>3, <2>2
<1>7. Readable(Read(p, Run))' => acked' \subseteq Read(p, Run)'.tasks
  <2> SUFFICES ASSUME Readable(Read(p, Run))' PROVE acked' \subseteq Read(p, Run)'.tasks
    OBVIOUS
  <2>1. CASE k = Run
    <3>1. Read(p, Run)' = c
      BY <1>1, <1>3, <2>1, KeyAssumption DEF Read
    <3> QED  BY <1>4, <2>1, <3>1 DEF Indexed
  <2>2. CASE k # Run
    <3>1. Read(p, Run)' = Read(p, Run)
      BY <1>1, <1>3, <2>2 DEF Read
    <3>2. acked' = acked
      <4>1. k = State \/ k \in TaskId
        BY <1>1, <2>2 DEF Key
      <4> QED  BY <1>4, <4>1 DEF Indexed
    <3> QED  BY <3>1, <3>2 DEF Indexed
  <2> QED  BY <2>1, <2>2
<1>8. job'[p].key # Run /\ job'[p].key # State
  BY <1>2
<1> QED  BY <1>5, <1>6, <1>7, <1>8 DEF Indexed

\* A task is acknowledged when the index that is read has it.
LEMMA IndexTaskIndexed ==
    ASSUME TypeOK, NEW p \in Process, live = {p}, Agrees(p), Indexed(p), IndexTask(p)
    PROVE  Indexed(p)'
<1> DEFINE T == job[p].saves
           run == Read(p, Run)
<1>1. /\ T \in SUBSET TaskId /\ \A t \in T : file[t] # Missing
      /\ T # {} => file[Run] # Missing
  BY DEF TypeOK, Job, Indexed
<1>2. Run \in Key /\ Run \notin TaskId /\ Run # State
  BY ContentOfKey, KeyAssumption
<1>3. CASE Readable(run) /\ ~(T \subseteq run.tasks)
  <2>1. BeginWrite(p, Run, [run EXCEPT !.tasks = @ \cup T], T)
    BY <1>3 DEF IndexTask
  <2>2. run \in RunRecord /\ acked \subseteq run.tasks
    BY <1>2, <1>3, ReadContent, ContentOfKey DEF Indexed
  <2>3. acked \cup T \subseteq [run EXCEPT !.tasks = @ \cup T].tasks
    BY <2>2 DEF RunRecord
  <2> QED  BY <1>1, <1>2, <2>1, <2>3, BeginWriteIndexed
<1>4. CASE ~(Readable(run) /\ ~(T \subseteq run.tasks))
  <2>1. /\ job' = [job EXCEPT ![p] = Idle]
        /\ acked' = acked \cup T
        /\ UNCHANGED <<file, cache>>
    BY <1>4 DEF IndexTask
  <2>2. job'[p].saves = {} /\ job'[p].key = Missing
    BY <2>1 DEF TypeOK, Idle
  <2>3. Read(p, Run)' = run
    BY <2>1 DEF Read
  <2>4. Readable(run) => acked \cup T \subseteq run.tasks
    BY <1>4 DEF Indexed
  <2>5. Run # Missing /\ State # Missing
    BY Markers, ContentOfKey
  <2>6. Readable(Read(p, Run))' <=> Readable(run)
    BY <2>3 DEF Readable, Unreadable
  <2> QED  BY <1>1, <2>1, <2>2, <2>3, <2>4, <2>5, <2>6 DEF Indexed
<1> QED  BY <1>3, <1>4

\* After a write was cut short the index on disk is the old one or the new one.
LEMMA AbortIndexed ==
    ASSUME TypeOK, NEW p \in Process, live = {p}, Agrees(p), Indexed(p),
           FailWrite(p) \/ Crash(p)
    PROVE  Indexed(p)'
<1> USE Markers, ContentOfKey
<1>1. Run \in Key /\ acked \subseteq TaskId /\ \A t \in TaskId : t \in Key
  BY DEF TypeOK
<1>2. job'[p].saves = {} /\ job'[p].key = Missing /\ acked' = acked
  BY DEF FailWrite, Crash, TypeOK, Idle
<1>3. CASE FailWrite(p)
  <2>1. UNCHANGED <<file, cache>>
    BY <1>3 DEF FailWrite
  <2>2. Read(p, Run)' = Read(p, Run) /\ (Readable(Read(p, Run))' <=> Readable(Read(p, Run)))
    BY <2>1 DEF Read, Readable
  <2> QED  BY <1>2, <2>1, <2>2 DEF Indexed
<1>4. CASE Crash(p)
  <2>1. /\ \A x \in Key : \/ file'[x] = file[x]
                          \/ Writing(p) /\ x = job[p].key /\ file'[x] = job[p].content
        /\ cache'[p][Run] = Missing
    BY <1>4, CrashEffect
  <2>2. Writing(p) => job[p].content # Missing
    BY DEF TypeOK, Writing, Job
  <2>3. \A x \in Key : file'[x] = Missing <=> file[x] = Missing
    BY <2>1, <2>2 DEF Agrees
  <2>4. Read(p, Run)' = file'[Run]
    BY <2>1 DEF Read
  <2>5. Readable(file'[Run]) => acked \subseteq file'[Run].tasks
    <3>1. CASE file'[Run] = file[Run]
      <4>1. Readable(file[Run]) => Read(p, Run) = file[Run]
        BY <1>1 DEF Read, Agrees
      <4> QED  BY <3>1, <4>1 DEF Indexed
    <3>2. CASE job[p].key = Run /\ file'[Run] = job[p].content
      BY <3>2 DEF Indexed
    <3> QED  BY <1>1, <2>1, <3>1, <3>2
  <2>6. Readable(Read(p, Run))' <=> Readable(file'[Run])
    BY <2>4 DEF Readable, Unreadable
  <2> QED  BY <1>1, <1>2, <2>3, <2>4, <2>5, <2>6 DEF Indexed
<1> QED  BY <1>3, <1>4

\* A process that has a run of its own, with a task index, to itself gets every
\* task it has been told is saved, unless a later write of the task was cut short.
THEOREM AcknowledgedCorrect ==
    ASSUME Legacy = {} PROVE Spec => []AcknowledgedTasksListed
<1>1. Init => AckInv
  BY Markers, ContentOfKey DEF Init, AckInv, Indexed, Idle, Read
<1>2. TypeOK /\ TypeOK' /\ SoloInv /\ AckInv /\ [Next]_vars => AckInv'
  <2> SUFFICES ASSUME TypeOK, TypeOK', SoloInv, AckInv, [Next]_vars,
                      NEW p \in Process, live' = {p}
               PROVE  Indexed(p)'
    BY DEF AckInv
  <2>1. live' = live
    BY DEF Next, vars, Operation, CreateRun, DiffRun, DiffState, SaveTask, DiffTask, Starts,
           BeginWrite, EndWrite, IndexTask, FailWrite, Crash
  <2>2. live = {p} /\ Agrees(p) /\ Indexed(p)
    BY <2>1 DEF SoloInv, AckInv
  <2>3. CASE UNCHANGED vars
    BY <2>2, <2>3 DEF vars, Indexed, Read, Readable
  <2>4. CASE Operation(p) \/ EndWrite(p) \/ IndexTask(p) \/ FailWrite(p) \/ Crash(p)
    BY <2>2, <2>4, OperationIndexed, EndWriteIndexed, IndexTaskIndexed, AbortIndexed
  <2> QED  BY <2>2, <2>3, <2>4 DEF Next
<1>3. TypeOK /\ SoloInv /\ AckInv => AcknowledgedTasksListed
  <2> SUFFICES ASSUME TypeOK, SoloInv, AckInv, NEW p \in Process, live = {p},
                      NEW t \in acked, file[t] # Torn
               PROVE  t \in Listed(p)
    BY DEF AcknowledgedTasksListed, Solo
  <2>1. t \in TaskId /\ t \in Key
    BY ContentOfKey DEF TypeOK
  <2>2. Agrees(p) /\ Indexed(p)
    BY DEF SoloInv, AckInv
  <2>3. Readable(file[t])
    BY <2>2, Markers DEF Indexed
  <2>4. Readable(Read(p, t))
    BY <2>1, <2>3, Markers DEF Read, TypeOK
  <2>5. Readable(Read(p, Run)) => t \in Read(p, Run).tasks
    BY <2>2 DEF Indexed
  <2> QED  BY <2>1, <2>3, <2>4, <2>5 DEF Listed
<1> QED  BY <1>1, <1>2, <1>3, StoreTypeCorrect, SoloCorrect, PTL DEF Spec

-----------------------------------------------------------------------------
(* The adapter implements the abstract store.                              *)

AbstractValue == [k \in Key |-> IF Solo THEN ReadableBy(TheProcess, k) ELSE Missing]
AbstractDoubt == {k \in Key : Solo /\ file[k] = Torn}

\* What the abstract store sees of a process that is alone.
LEMMA Abstraction ==
    ASSUME NEW p \in Process, live = {p}
    PROVE  /\ AbstractValue = [k \in Key |-> ReadableBy(p, k)]
           /\ AbstractDoubt = {k \in Key : file[k] = Torn}
<1>1. Solo /\ TheProcess = p
  BY DEF Solo, TheProcess
<1> QED  BY <1>1 DEF AbstractValue, AbstractDoubt

LEMMA AbstractionNext ==
    ASSUME NEW p \in Process, live' = {p}
    PROVE  /\ AbstractValue' = [k \in Key |-> ReadableBy(p, k)']
           /\ AbstractDoubt' = {k \in Key : file'[k] = Torn}
<1>1. Solo' /\ TheProcess' = p
  BY DEF Solo, TheProcess
<1> QED  BY <1>1 DEF AbstractValue, AbstractDoubt

\* The initial files are an initial store.
LEMMA StoreInit == Init /\ TypeOK => Store!Init
<1> SUFFICES ASSUME Init, TypeOK PROVE Store!Init
  OBVIOUS
<1>1. AbstractDoubt = {}
  BY Markers, KeyAssumption, LegacyAssumption, ContentOfKey DEF AbstractDoubt, Init, RunRecord
<1>2. AbstractValue \in [Key -> Content \cup {Missing}]
  <2>1. ASSUME NEW k \in Key, Solo PROVE ReadableBy(TheProcess, k) \in Content \cup {Missing}
    <3>1. TheProcess \in Process
      BY <2>1 DEF Solo, TheProcess
    <3> QED  BY <3>1, ReadContent, ContentOfKey DEF ReadableBy
  <2> QED  BY <2>1 DEF AbstractValue
<1> QED  BY <1>1, <1>2 DEF AbstractDoubt, AbstractValue, Store!Init, Store!TypeOK

\* A write that begins.
LEMMA BeginWriteStore ==
    ASSUME TypeOK, NEW p \in Process, live = {p}, live' = {p},
           NEW k \in Key, NEW c, NEW T, BeginWrite(p, k, c, T)
    PROVE  Store!Begin(k)
<1> USE Markers
<1>1. /\ \A x \in Key : file'[x] = IF x = k THEN Torn ELSE file[x]
      /\ UNCHANGED cache
  BY BeginWriteEffect
<1>2. AbstractDoubt' = AbstractDoubt \cup {k}
  BY <1>1, Abstraction, AbstractionNext
<1>3. \A x \in Key \ {k} : ReadableBy(p, x)' = ReadableBy(p, x)
  BY <1>1 DEF ReadableBy, Read
<1>4. ReadableBy(p, k)' \in {ReadableBy(p, k), Missing}
  BY <1>1 DEF ReadableBy, Read
<1>5. AbstractValue' \in {AbstractValue, [AbstractValue EXCEPT ![k] = Missing]}
  BY <1>3, <1>4, Abstraction, AbstractionNext
<1> QED  BY <1>2, <1>5 DEF Store!Begin, AbstractDoubt, AbstractValue

\* A write that ends.
LEMMA EndWriteStore ==
    ASSUME TypeOK, NEW p \in Process, live = {p}, live' = {p}, Agrees(p), EndWrite(p)
    PROVE  \E k \in Key : Store!Commit(k)
<1> USE Markers
<1>0. PICK k, c : k = job[p].key /\ c = job[p].content
  OBVIOUS
<1>1. /\ k \in Key /\ c \in ContentOf(k) /\ file[k] = Torn
      /\ \A x \in Key : file'[x] = IF x = k THEN c ELSE file[x]
      /\ \A x \in Key : cache'[p][x] = IF x = k /\ k # State THEN c ELSE cache[p][x]
  BY <1>0, EndWriteEffect
<1>2. c # Torn /\ c # Missing /\ c \in Content
  BY <1>1, ContentOfKey
<1>3. k \in AbstractDoubt /\ AbstractDoubt' = AbstractDoubt \ {k}
  BY <1>1, <1>2, Abstraction, AbstractionNext
<1>4. \A x \in Key \ {k} : ReadableBy(p, x)' = ReadableBy(p, x)
  BY <1>1 DEF ReadableBy, Read
<1>5. ReadableBy(p, k)' = c
  <2>1. cache'[p][k] = c \/ (cache'[p][k] = Missing /\ file'[k] = c)
    BY <1>1 DEF Agrees
  <2>2. Read(p, k)' = c
    BY <1>2, <2>1 DEF Read
  <2> QED  BY <1>2, <2>2 DEF ReadableBy
<1>6. AbstractValue' = [AbstractValue EXCEPT ![k] = c]
  BY <1>4, <1>5, Abstraction, AbstractionNext
<1> QED  BY <1>1, <1>2, <1>3, <1>6 DEF Store!Commit, AbstractDoubt, AbstractValue

\* A crash.
LEMMA CrashStore ==
    ASSUME TypeOK, TypeOK', NEW p \in Process, live = {p}, live' = {p}, Agrees(p), Crash(p)
    PROVE  Store!Crash
<1> USE Markers
<1>1. /\ \A x \in Key : \/ file'[x] = file[x]
                        \/ Writing(p) /\ x = job[p].key /\ file'[x] = job[p].content
      /\ \A x \in Key : cache'[p][x] = Missing
  BY CrashEffect
<1>2. \A x \in Key : file[x] # Torn => file'[x] = file[x]
  BY <1>1 DEF Agrees
<1>3. AbstractDoubt' \subseteq AbstractDoubt
  BY <1>2, Abstraction, AbstractionNext
<1>4. \A x \in Key : file[x] # Torn => ReadableBy(p, x)' = ReadableBy(p, x)
  BY <1>1, <1>2 DEF ReadableBy, Read, Agrees
<1>5. \A x \in Key : ReadableBy(p, x)' \in Content \cup {Missing}
  <2>1. ASSUME NEW x \in Key, Readable(Read(p, x))' PROVE Read(p, x)' \in Content
    <3>1. Read(p, x)' = file'[x] /\ file'[x] # Missing /\ file'[x] # Torn
      BY <1>1, <2>1 DEF Read
    <3> QED  BY <3>1, ContentOfKey DEF TypeOK, Unreadable
  <2> QED  BY <2>1 DEF ReadableBy
<1>6. /\ AbstractValue' \in [Key -> Content \cup {Missing}]
      /\ \A x \in Key \ AbstractDoubt : AbstractValue'[x] = AbstractValue[x]
  BY <1>4, <1>5, Abstraction, AbstractionNext
<1> QED  BY <1>3, <1>6 DEF Store!Crash, AbstractDoubt, AbstractValue

\* Nothing the abstract store sees changes.
LEMMA StoreStutters ==
    ASSUME UNCHANGED <<live, file, cache>>
    PROVE  UNCHANGED Store!vars
<1>1. \A p, k : ReadableBy(p, k)' = ReadableBy(p, k)
  BY DEF ReadableBy, Read, Readable
<1>2. Solo' = Solo /\ TheProcess' = TheProcess
  BY DEF Solo, TheProcess
<1> QED  BY <1>1, <1>2 DEF Store!vars

\* Reads and writes of a process that is alone are those of the abstract store.
THEOREM StoreImplemented == Spec => ImplementsStore
<1>1. Init /\ TypeOK => Store!Init
  BY StoreInit
<1>2. TypeOK /\ TypeOK' /\ SoloInv /\ [Next]_vars => [Store!Next]_(Store!vars)
  <2> SUFFICES ASSUME TypeOK, TypeOK', SoloInv, [Next]_vars
               PROVE  Store!Next \/ UNCHANGED Store!vars
    OBVIOUS
  <2>1. live' = live
    BY DEF Next, vars, Operation, CreateRun, DiffRun, DiffState, SaveTask, DiffTask, Starts,
           BeginWrite, EndWrite, IndexTask, FailWrite, Crash
  <2>2. CASE UNCHANGED vars
    BY <2>2, StoreStutters DEF vars
  <2>3. CASE ~Solo
    <3>1. ~Solo'
      BY <2>1, <2>3 DEF Solo
    <3> QED  BY <2>3, <3>1 DEF Store!vars
  <2>4. ASSUME Solo, NEW p \in live,
               Operation(p) \/ EndWrite(p) \/ IndexTask(p) \/ FailWrite(p) \/ Crash(p)
        PROVE  Store!Next \/ UNCHANGED Store!vars
    <3>1. p \in Process /\ live = {p} /\ live' = {p} /\ Agrees(p)
      BY <2>1, <2>4 DEF Solo, SoloInv
    <3>2. CASE Operation(p)
      <4>1. PICK k \in Key : \E c : BeginWrite(p, k, c, {k} \cap TaskId)
        BY <3>1, <3>2, OperationEffect
      <4> QED  BY <3>1, <4>1, BeginWriteStore DEF Store!Next
    <3>3. CASE EndWrite(p)
      BY <3>1, <3>3, EndWriteStore DEF Store!Next
    <3>4. CASE IndexTask(p)
      <4>1. CASE UNCHANGED <<live, file, cache>>
        BY <4>1, StoreStutters
      <4>2. ASSUME NEW c, NEW T, BeginWrite(p, Run, c, T) PROVE Store!Next
        BY <3>1, <4>2, BeginWriteStore, ContentOfKey DEF Store!Next
      <4> QED  BY <3>4, <4>1, <4>2 DEF IndexTask
    <3>5. CASE FailWrite(p)
      BY <3>5, StoreStutters DEF FailWrite
    <3>6. CASE Crash(p)
      BY <3>1, <3>6, CrashStore DEF Store!Next
    <3> QED  BY <2>4, <3>2, <3>3, <3>4, <3>5, <3>6
  <2> QED  BY <2>2, <2>3, <2>4 DEF Next
<1> QED  BY <1>1, <1>2, StoreTypeCorrect, SoloCorrect, PTL DEF Spec, ImplementsStore, Store!Spec

=============================================================================
