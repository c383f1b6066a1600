------------------------------ MODULE Sharding ------------------------------
(***************************************************************************)
(* core/src/shard.rs, with execute_shard_step of core/src/engine.rs and    *)
(* what the scheduler makes of its result: the eligible files of a target  *)
(* are split into shards, each of which becomes a task of the matrix that  *)
(* follows.  The step can be run again, when the files have changed.       *)
(*                                                                         *)
(* A file is a number, so that < is the order of the paths.  A group is    *)
(* the directory or the owner of a file.  A shard's identity, which is all *)
(* that the scheduler hashes, is its name and its group.                   *)
(***************************************************************************)
EXTENDS Naturals, FiniteSets

CONSTANTS
    File,
    Group,
    GroupOf,        \* [File -> Group]: the directory, or the owner
    Root,           \* the directory "."
    Method,         \* "directory" or "codeowner"
    Sanitized,      \* [Group -> STRING]: the owner in the name of a shard
    MaxFiles,       \* max_files_per_shard; with 0 the code makes no shards at all
    MinSize,        \* min_shard_size, 0 if there is none
    MaxEvaluations  \* bound: executions of the step

Prefixes == {"shard"} \cup Group \cup {Sanitized[g] : g \in Group}
Identity == [prefix : Prefixes, index : Nat, group : Group]
Shard == [id : Identity, files : SUBSET File]
Status == {"Pending", "Completed", "Failed", "WontDo"}

ASSUME ShardingAssumption ==
    /\ File \subseteq Nat /\ IsFiniteSet(File)
    /\ GroupOf \in [File -> Group]
    /\ Method \in {"directory", "codeowner"}
    /\ MaxFiles \in Nat \ {0} /\ MinSize \in Nat /\ MaxEvaluations \in Nat

VARIABLES
    eligible,       \* the files that match: in the target, and still to change
    shards,         \* the array in the workflow's state
    scanned,        \* history: the files that were eligible at the last evaluation
    evaluations,    \* how often the step has been executed
    task,           \* the matrix tasks: [Identity -> status and files], as far as created
    compiled,       \* whether the scheduler has seen the array
    dropped         \* history: identities that were in the array and are not

vars == <<eligible, shards, scanned, evaluations, task, compiled, dropped>>

Task == [status : Status, files : SUBSET File]
Ids(S) == {s.id : s \in S}
Files(S) == UNION {s.files : s \in S}

TypeOK ==
    /\ eligible \subseteq File /\ scanned \subseteq File
    /\ shards \subseteq Shard
    /\ evaluations \in 0 .. MaxEvaluations
    /\ DOMAIN task \subseteq Identity
    /\ \A i \in DOMAIN task : task[i] \in Task
    /\ compiled \in BOOLEAN
    /\ dropped \subseteq Identity

Init ==
    /\ eligible \in SUBSET File
    /\ shards = {} /\ scanned = {}
    /\ evaluations = 0
    /\ task = [i \in {} |-> [status |-> "Pending", files |-> {}]]
    /\ compiled = TRUE
    /\ dropped = {}

-----------------------------------------------------------------------------
(* The partition of a group's files                                        *)

\* bin_pack_files: chunks(max_size) of the sorted files, the last of which is
\* joined to the one before if it is too small.
Chunk(f, S) ==
    LET chunk == Cardinality({g \in S : g < f}) \div MaxFiles
        last == (Cardinality(S) - 1) \div MaxFiles
    IN  IF chunk = last /\ last > 0 /\ Cardinality(S) - last * MaxFiles < MinSize
        THEN last - 1
        ELSE chunk

\* The name of a shard but for its index, when these groups are named at once.
Prefix(g, groups) ==
    IF Method = "codeowner" THEN Sanitized[g]
    ELSE IF groups = {Root} THEN "shard"
    ELSE g

InGroup(S, g) == {f \in S : GroupOf[f] = g}

\* The shard of file f when the files S are packed; indices begin at first.
ShardOf(f, S, first) ==
    LET g == GroupOf[f]
        chunk == Chunk(f, InGroup(S, g))
    IN  [id |-> [prefix |-> Prefix(g, {GroupOf[h] : h \in S}),
                 index |-> first[g] + chunk,
                 group |-> g],
         files |-> {h \in InGroup(S, g) : Chunk(h, InGroup(S, g)) = chunk}]

Packed(S, first) == {ShardOf(f, S, first) : f \in S}

-----------------------------------------------------------------------------
(* An evaluation                                                           *)

\* Mutant: the shards that are dropped do not count.
NextIndexOfKept(g) ==
    LET used == {s.id.index : s \in {t \in shards :
                    t.id.group = g /\ t.files \cap eligible # {}}}
    IN  IF used = {} THEN 0 ELSE 1 + CHOOSE n \in used : \A m \in used : m <= n

\* max_chunk_index: those that are dropped count, too.
NextIndex(g) ==
    LET used == {s.id.index : s \in {t \in shards : t.id.group = g}}
    IN  IF used = {} THEN 0 ELSE 1 + CHOOSE n \in used : \A m \in used : m <= n

\* Mutant: shards are kept without files.
KeptEmpty == {[s EXCEPT !.files = @ \cap eligible] : s \in shards}

\* The shards of before, with the files that are still eligible.
Kept ==
    {[s EXCEPT !.files = @ \cap eligible] :
        s \in {t \in shards : t.files \cap eligible # {}}}

\* Without shards from before (none, or an empty array) all files are packed.
Fresh == Packed(eligible, [g \in Group |-> 0])

\* Mutant: the files are packed as if for the first time.
Repacked == Packed(eligible, [g \in Group |-> 0])

Incremental ==
    Kept \cup Packed(eligible \ Files(Kept), [g \in Group |-> NextIndex(g)])

\* The step: it reads the array, and writes the new one.
Evaluate ==
    /\ evaluations < MaxEvaluations
    /\ evaluations' = evaluations + 1
    /\ shards' = IF shards = {} THEN Fresh ELSE Incremental
    /\ scanned' = eligible
    /\ compiled' = FALSE
    /\ dropped' = dropped \cup (Ids(shards) \ Ids(shards'))
    /\ UNCHANGED <<eligible, task>>

-----------------------------------------------------------------------------
(* The matrix                                                              *)

\* calculate_matrix_task_changes: an identity that has no task gets one, with
\* the shard as it is now; the tasks of the others end, unless they have.
Recompiled(listed) ==
    [i \in DOMAIN task \cup listed |->
        IF i \notin DOMAIN task
        THEN [status |-> "Pending", files |-> (CHOOSE s \in shards : s.id = i).files]
        ELSE IF i \in listed \/ task[i].status \in {"Completed", "WontDo"} THEN task[i]
        ELSE [task[i] EXCEPT !.status = "WontDo"]]

Recompile ==
    /\ ~compiled
    /\ task' = Recompiled(Ids(shards))
    /\ compiled' = TRUE
    /\ UNCHANGED <<eligible, shards, scanned, evaluations, dropped>>

\* A task is run, on its own files and no others; it may be one that has been
\* run.  Files that it has changed do not match any more.
Work(i) ==
    /\ i \in DOMAIN task
    /\ task[i].status # "WontDo"
    /\ \E S \in SUBSET (task[i].files \cap eligible) :
          /\ eligible' = eligible \ S
          /\ task' = [task EXCEPT ![i].status =
                IF S = task[i].files \cap eligible THEN "Completed" ELSE "Failed"]
    /\ UNCHANGED <<shards, scanned, evaluations, compiled, dropped>>

\* The target changes between evaluations: files come, go or need no change.
Change ==
    /\ evaluations \in 1 .. MaxEvaluations - 1
    /\ eligible' \in SUBSET File
    /\ UNCHANGED <<shards, scanned, evaluations, task, compiled, dropped>>

Next == Evaluate \/ Recompile \/ Change \/ \E i \in DOMAIN task : Work(i)

Spec == Init /\ [][Next]_vars

-----------------------------------------------------------------------------
(* Properties                                                              *)

\* After each evaluation every eligible file is in one shard, no shard is
\* empty, and no two have the same identity - which the scheduler would take
\* for one item - whatever shards were kept, dropped or cut before.
ShardsArePartition ==
    /\ Files(shards) = scanned
    /\ \A s \in shards : s.files # {}
    /\ \A s, t \in shards :
          s.id = t.id \/ s.files \cap t.files # {} => s = t

\* No shard has more files than asked for, but for a rest that would be too
\* small by itself, however often the array was evaluated.
ShardsAreSmall ==
    \A s \in shards :
        \/ Cardinality(s.files) <= MaxFiles
        \/ Cardinality(s.files) < MaxFiles + MinSize

\* "Existing assignments are preserved": an evaluation leaves a file that is
\* still eligible in the shard that it is in.
AssignmentsAreKept ==
    [][\A s \in shards : s.files \cap eligible # {} /\ shards' # shards =>
          \E t \in shards' : t.id = s.id /\ t.files = s.files \cap eligible]_vars

\* Every file of a shard is among the files of the shard's task, unless the
\* identity is one that was dropped: recompilation leaves a task the files that
\* it was made with, and evaluations never add one to a shard.
FilesHaveTheirTask ==
    compiled =>
        \A s \in shards : s.id \in dropped \/ s.files \subseteq task[s.id].files

-----------------------------------------------------------------------------
(* Statements that the code does not keep                                  *)

\* "New files go to new shards - they never get added to shards whose tasks are
\* already completed": the work on such a shard is over, and it was not on them.
NewFilesGetNewTasks ==
    compiled =>
        \A s \in shards :
            task[s.id].status = "Completed" => s.files \subseteq task[s.id].files

=============================================================================
