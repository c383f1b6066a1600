-------------------------- MODULE LocalStateAdapter --------------------------
(***************************************************************************)
(* state/src/local_adapter.rs: one workflow run, its tasks and its state   *)
(* in JSON files, with a cache of the run and of the tasks in each process *)
(* that has the adapter open.  A process calls it under a lock, so it does *)
(* one operation at a time; several processes (a run and a resume of it)   *)
(* share only the files.                                                   *)
(*                                                                         *)
(* fs::write truncates the file and then writes it: between the two, after *)
(* a crash there, and after a failed write, the file does not parse.       *)
(***************************************************************************)
EXTENDS Naturals, Sequences

CONSTANTS
    Process,
    TaskId,
    Value,      \* contents of a task, statuses of the run, items of the state
    Legacy,     \* tasks of a run stored before runs had a task index
    MaxItems,   \* bound: length of an array in the state
    Run, State, \* the keys of the run's file and of its state
    Missing,    \* no file, or nothing cached
    Torn        \* a file that does not parse

ASSUME LegacyAssumption == Legacy \subseteq TaskId /\ Value # {} /\ MaxItems \in Nat
ASSUME KeyAssumption    == Run \notin TaskId /\ State \notin TaskId /\ Run # State

VARIABLES
    live,       \* the processes that have the run open
    file,       \* the files, by key
    cache,      \* workflow_runs and tasks of each process
    job,        \* what a process is writing
    acked       \* history: the tasks whose save has returned Ok

vars == <<live, file, cache, job, acked>>

Key == TaskId \cup {Run, State}

\* The state has one field, an array or a single value; a field that is absent
\* and an empty array are written over alike.
FieldValue == [array : BOOLEAN, items : UNION {[1..n -> Value] : n \in 0..MaxItems}]
RunRecord == [tasks : SUBSET TaskId, status : Value]
ContentOf(k) == IF k \in TaskId THEN Value ELSE IF k = Run THEN RunRecord ELSE FieldValue
Content == Value \cup RunRecord \cup FieldValue
Unreadable == {Missing, Torn}

Job == [key : Key \cup {Missing}, content : Content \cup {Missing},
        saves : SUBSET TaskId]
Idle == [key |-> Missing, content |-> Missing, saves |-> {}]
Writing(p) == job[p].key # Missing

ASSUME UnreadableAssumption ==
    Missing # Torn /\ Key \cap Unreadable = {} /\ Content \cap Unreadable = {}

TypeOK ==
    /\ live \in (SUBSET Process) \ {{}}
    /\ file \in [Key -> Content \cup Unreadable]
    /\ \A k \in Key : file[k] \in ContentOf(k) \cup Unreadable
    /\ cache \in [Process -> [Key -> Content \cup {Missing}]]
    /\ \A p \in Process, k \in Key : cache[p][k] \in ContentOf(k) \cup {Missing}
    /\ job \in [Process -> Job]
    /\ \A p \in Process : Writing(p) => job[p].content \in ContentOf(job[p].key)
    /\ acked \subseteq TaskId

Init ==
    /\ live \in (SUBSET Process) \ {{}}
    /\ \E v \in Value :
          file = [k \in Key |-> IF k \in Legacy THEN v
                                ELSE IF k = Run /\ Legacy # {}
                                     THEN [tasks |-> {}, status |-> v]
                                     ELSE Missing]
    /\ cache = [p \in Process |-> [k \in Key |-> Missing]]
    /\ job = [p \in Process |-> Idle]
    /\ acked = Legacy

-----------------------------------------------------------------------------
(* Reading                                                                 *)

Readable(c) == c \notin Unreadable

\* get_workflow_run, get_task, get_state: the cache, then the file.  Reading
\* does not fill the cache, and the state is not cached at all.
Read(p, k) == IF cache[p][k] # Missing THEN cache[p][k] ELSE file[k]

\* get_tasks: the run's index if it has one, otherwise every task file.
Listed(p) ==
    LET run == Read(p, Run)
    IN  IF Readable(run) /\ run.tasks # {}
        THEN {t \in run.tasks : Readable(Read(p, t))}
        ELSE {t \in TaskId : Readable(file[t])}

-----------------------------------------------------------------------------
(* Writing                                                                 *)

\* Mutant: what is written can be read before it is on disk.
BeginWriteCached(p, k, c, T) ==
    /\ file' = [file EXCEPT ![k] = Torn]
    /\ job' = [job EXCEPT ![p] = [key |-> k, content |-> c, saves |-> T]]
    /\ cache' = IF k = State THEN cache ELSE [cache EXCEPT ![p][k] = c]
    /\ UNCHANGED <<live, acked>>

\* The file is truncated.  The task the operation saves is known from saves.
BeginWrite(p, k, c, T) ==
    /\ file' = [file EXCEPT ![k] = Torn]
    /\ job' = [job EXCEPT ![p] = [key |-> k, content |-> c, saves |-> T]]
    /\ UNCHANGED <<live, cache, acked>>

Starts(p, k, c) ==
    /\ job[p] = Idle
    /\ BeginWrite(p, k, c, {k} \cap TaskId)

Solo == \E p \in Process : live = {p}

\* Bound: the contents an instance with several processes writes.
Written == IF Solo THEN Value ELSE {CHOOSE v \in Value : TRUE}

\* save_workflow_run of a new run.
CreateRun(p) ==
    /\ file[Run] = Missing
    /\ \E v \in Written : Starts(p, Run, [tasks |-> {}, status |-> v])

\* apply_workflow_run_diff: the engine sets the status.
DiffRun(p) ==
    /\ Readable(Read(p, Run))
    /\ \E v \in Written : Starts(p, Run, [Read(p, Run) EXCEPT !.status = v])

\* Mutant: the index is written before the task.
SaveTaskIndexFirst(p, t) ==
    /\ Readable(Read(p, Run))
    /\ file[t] = Missing
    /\ job[p] = Idle
    /\ BeginWrite(p, Run, [Read(p, Run) EXCEPT !.tasks = @ \cup {t}], {})

\* save_task of a new task.
SaveTask(p, t) ==
    /\ file[Run] # Missing
    /\ file[t] = Missing
    /\ \E v \in Written : Starts(p, t, v)

\* apply_task_diff: fails on a task that cannot be read, and ends as save_task.
DiffTask(p, t) ==
    /\ Readable(Read(p, t))
    /\ \E v \in Written : Starts(p, t, v)

Field(s, isArray) == [array |-> isArray, items |-> s]
CurrentState == IF file[State] = Missing THEN Field(<<>>, TRUE) ELSE file[State]

\* apply_state_diff of Remove, of Add and Update, and of Append, which turns
\* what is not an array into one.
StateDiffs ==
    {Field(<<>>, TRUE)} \cup {Field(<<v>>, FALSE) : v \in Written}
    \cup {Field(Append(CurrentState.items, v), TRUE) : v \in Written}

DiffState(p) ==
    /\ file[State] # Torn
    /\ \E c \in StateDiffs : Len(c.items) <= MaxItems /\ Starts(p, State, c)

\* The content is on disk - unless somebody else wrote the file meanwhile, when
\* the longer of the two contents may show behind the other - and then cached.
EndWrite(p) ==
    LET k == job[p].key
        c == job[p].content
        alone == file[k] = Torn /\ \A q \in live \ {p} : job[q].key # k
    IN  /\ Writing(p)
        /\ \/ file' = [file EXCEPT ![k] = c]
           \/ ~alone /\ file' = [file EXCEPT ![k] = Torn]
        /\ cache' = IF k = State THEN cache ELSE [cache EXCEPT ![p][k] = c]
        /\ IF k \in TaskId
           THEN /\ job' = [job EXCEPT ![p].key = Missing, ![p].content = Missing]
                /\ UNCHANGED acked
           ELSE /\ job' = [job EXCEPT ![p] = Idle]
                /\ acked' = acked \cup job[p].saves
        /\ UNCHANGED live

\* Mutant: only a run that is cached is indexed.
IndexTaskIfCached(p) ==
    LET T   == job[p].saves
        run == cache[p][Run]
    IN  /\ ~Writing(p) /\ T # {}
        /\ IF Readable(run) /\ ~(T \subseteq run.tasks)
           THEN BeginWrite(p, Run, [run EXCEPT !.tasks = @ \cup T], T)
           ELSE /\ job' = [job EXCEPT ![p] = Idle]
                /\ acked' = acked \cup T
                /\ UNCHANGED <<live, file, cache>>

\* The end of save_task: the task is added to the run's index, if there is a
\* run that can be read and its index lacks the task.
IndexTask(p) ==
    LET T   == job[p].saves
        run == Read(p, Run)
    IN  /\ ~Writing(p) /\ T # {}
        /\ IF Readable(run) /\ ~(T \subseteq run.tasks)
           THEN BeginWrite(p, Run, [run EXCEPT !.tasks = @ \cup T], T)
           ELSE /\ job' = [job EXCEPT ![p] = Idle]
                /\ acked' = acked \cup T
                /\ UNCHANGED <<live, file, cache>>

\* The write fails after the truncation; the operation returns the error.
FailWrite(p) ==
    /\ Writing(p)
    /\ job' = [job EXCEPT ![p] = Idle]
    /\ UNCHANGED <<live, file, cache, acked>>

\* The process dies and is started again.  A write may just have ended.
Crash(p) ==
    /\ \/ UNCHANGED file
       \/ Writing(p) /\ file' = [file EXCEPT ![job[p].key] = job[p].content]
    /\ cache' = [cache EXCEPT ![p] = [k \in Key |-> Missing]]
    /\ job' = [job EXCEPT ![p] = Idle]
    /\ UNCHANGED <<live, acked>>

Operation(p) ==
    \/ CreateRun(p)
    \/ DiffRun(p)
    \/ DiffState(p)
    \/ \E t \in TaskId : SaveTask(p, t) \/ DiffTask(p, t)

Next ==
    \E p \in live :
        Operation(p) \/ EndWrite(p) \/ IndexTask(p) \/ FailWrite(p) \/ Crash(p)

Spec == Init /\ [][Next]_vars

-----------------------------------------------------------------------------
(* Properties                                                              *)

Contents(k) == {file[k]} \cup {cache[p][k] : p \in Process}

\* A run's index, on disk or cached by any of several processes, names only
\* tasks whose file has been written, whatever crashes or fails: get_tasks
\* never looks for a task that was not saved (save_task writes the task first).
IndexNamesTasks ==
    \A run \in {c \in Contents(Run) : Readable(c)} :
        \A t \in run.tasks : file[t] # Missing

\* As long as one process at a time uses the run, get_tasks returns every task
\* whose save has been acknowledged, unless a later write of that very task was
\* cut short: a crash between a task's file and the index hides nothing.
AcknowledgedTasksListed ==
    Solo => \A p \in live : job[p] = Idle =>
                {t \in acked : file[t] # Torn} \subseteq Listed(p)

\* One process at a time gets what a state adapter promises; a key is in doubt
\* while its file does not parse.  Several processes are promised nothing.
TheProcess == CHOOSE p \in live : TRUE
ReadableBy(p, k) == IF Readable(Read(p, k)) THEN Read(p, k) ELSE Missing

Store == INSTANCE StateStore WITH
            NoContent <- Missing,
            value <- [k \in Key |-> IF Solo THEN ReadableBy(TheProcess, k) ELSE Missing],
            doubt <- {k \in Key : Solo /\ file[k] = Torn}

\* Reads and writes of one process, through its cache and across its crashes,
\* are those of the abstract store: an acknowledged write survives, and a write
\* that is cut short loses nothing but the key it writes.
ImplementsStore == Store!Spec

=============================================================================
