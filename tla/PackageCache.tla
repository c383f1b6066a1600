---------------------------- MODULE PackageCache ----------------------------
(***************************************************************************)
(* core/src/registry.rs: packages are resolved to directories of a cache.  *)
(* Tasks of one process share a RegistryClient, which gives each directory *)
(* a lock: a weak reference in a map, that resolutions hold while they     *)
(* check the directory and, if need be, replace what is in it.  The process *)
(* may die and be started again; the directories stay.                     *)
(*                                                                         *)
(* A package is a name with a version, so it always has the same files.    *)
(***************************************************************************)
EXTENDS Naturals, FiniteSets

CONSTANTS
    Task,           \* the tasks of the process that resolve packages
    Package,
    Pro,            \* packages whose access is "pro"
    File,           \* the files of a package
    Required,       \* those that must exist: codemod.yaml and workflow.yaml
    None,
    MaxResolutions, \* bound: resolutions
    MaxFaults       \* bound: crashes and failures to write or remove

ASSUME CacheAssumption ==
    /\ Package # {} /\ Pro \subseteq Package
    /\ Required \subseteq File /\ Required # {} /\ IsFiniteSet(File)
    /\ None \notin Task
    /\ MaxResolutions \in Nat /\ MaxFaults \in Nat

VARIABLES
    pc,             \* [Task -> where its resolution is]
    key,            \* [Task -> the package that is resolved]
    forced,         \* [Task -> BOOLEAN]: force_download
    arc,            \* [Task -> the lock it has a reference to, or None]
    locks,          \* package_locks: [Package -> a weak reference, or None]
    dry,            \* [Task -> BOOLEAN]: dry_run_only of what was downloaded
    copied,         \* [Task -> files copied to the cache]
    got,            \* [Task -> what its resolution returned]
    dir,            \* [Package -> [File -> content]]: the cache
    marked,         \* [Package -> BOOLEAN]: whether .dry_run_only exists
    kind,           \* history: whether what is cached was sent as dry-run only
    broken,         \* history: packages whose last copy was broken off
    resolutions, faults

vars == <<pc, key, forced, arc, locks, dry, copied, got, dir, marked, kind,
          broken, resolutions, faults>>

Critical == {"downloading", "clearing", "copying"}
Resolving == {"lookup", "waiting"} \cup Critical
Content == {"absent", "torn", "whole"}
Nothing == [files |-> [f \in File |-> "absent"], dry |-> FALSE, excused |-> TRUE]
Result == [files : [File -> Content], dry : BOOLEAN, excused : BOOLEAN]

\* A lock is named for the task that created it.
TypeOK ==
    /\ pc \in [Task -> {"idle", "using"} \cup Resolving]
    /\ key \in [Task -> Package]
    /\ forced \in [Task -> BOOLEAN]
    /\ arc \in [Task -> Task \cup {None}]
    /\ locks \in [Package -> Task \cup {None}]
    /\ dry \in [Task -> BOOLEAN]
    /\ copied \in [Task -> SUBSET File]
    /\ got \in [Task -> Result]
    /\ dir \in [Package -> [File -> Content]]
    /\ marked \in [Package -> BOOLEAN]
    /\ kind \in [Package -> BOOLEAN]
    /\ broken \subseteq Package
    /\ resolutions \in 0 .. MaxResolutions
    /\ faults \in 0 .. MaxFaults
    /\ \A r \in Task : arc[r] # None <=> pc[r] \in {"waiting"} \cup Critical

Init ==
    /\ pc = [r \in Task |-> "idle"]
    /\ key = [r \in Task |-> CHOOSE k \in Package : TRUE]
    /\ forced = [r \in Task |-> FALSE]
    /\ arc = [r \in Task |-> None]
    /\ locks = [k \in Package |-> None]
    /\ dry = [r \in Task |-> FALSE]
    /\ copied = [r \in Task |-> {}]
    /\ got = [r \in Task |-> Nothing]
    /\ dir = [k \in Package |-> [f \in File |-> "absent"]]
    /\ marked = [k \in Package |-> FALSE]
    /\ kind = [k \in Package |-> FALSE]
    /\ broken = {}
    /\ resolutions = 0 /\ faults = 0

-----------------------------------------------------------------------------
(* The lock                                                                *)

\* The tasks that have a strong reference to the lock in the map.
Holders(k) == {r \in Task : key[r] = k /\ arc[r] # None /\ arc[r] = locks[k]}

\* Mutant: the reference of the map counts, too.
LiveIfShared(k) == Cardinality(Holders(k)) > 1

Live(k) == Holders(k) # {}

\* The task looks up registry and version, and creates the directory.
Begin(r) ==
    /\ pc[r] \in {"idle", "using"}
    /\ resolutions < MaxResolutions
    /\ resolutions' = resolutions + 1
    /\ pc' = [pc EXCEPT ![r] = "lookup"]
    /\ \E k \in Package, f \in BOOLEAN :
          /\ key' = [key EXCEPT ![r] = k]
          /\ forced' = [forced EXCEPT ![r] = f]
    /\ got' = [got EXCEPT ![r] = Nothing]
    /\ UNCHANGED <<arc, locks, dry, copied, dir, marked, kind, broken, faults>>

\* package_lock: entries without a strong reference are pruned; the lock of the
\* package is the one in the map, or a new one.
FindLock(r) ==
    /\ pc[r] = "lookup"
    /\ locks' = [k \in Package |->
          IF Live(k) THEN locks[k] ELSE IF k = key[r] THEN r ELSE None]
    /\ arc' = [arc EXCEPT ![r] = locks'[key[r]]]
    /\ pc' = [pc EXCEPT ![r] = "waiting"]
    /\ UNCHANGED <<key, forced, dry, copied, got, dir, marked, kind, broken,
                   resolutions, faults>>

Held(r) == {s \in Task : key[s] = key[r] /\ arc[s] = arc[r] /\ pc[s] \in Critical}


\* is_package_cached, and validate_package_structure
Present(k) == \A f \in Required : dir[k][f] # "absent"

\* Mutant: a package is not downloaded again because it was for dry runs only.
DownloadsUnmarked(r) == forced[r] \/ ~Present(key[r]) \/ key[r] \in Pro

Downloads(r) ==
    forced[r] \/ ~Present(key[r]) \/ key[r] \in Pro \/ marked[key[r]]

\* The resolution returns: its variables, the guard and the reference are
\* dropped.
Return(r, result) ==
    /\ pc' = [pc EXCEPT ![r] = IF result = Nothing THEN "idle" ELSE "using"]
    /\ arc' = [arc EXCEPT ![r] = None]
    /\ forced' = [forced EXCEPT ![r] = FALSE]
    /\ dry' = [dry EXCEPT ![r] = FALSE]
    /\ copied' = [copied EXCEPT ![r] = {}]
    /\ got' = [got EXCEPT ![r] = result]

\* With the lock: the package is returned as it is, or downloaded.
Locked(r) ==
    /\ IF Downloads(r)
       THEN /\ pc' = [pc EXCEPT ![r] = "downloading"]
            /\ UNCHANGED <<arc, forced, dry, copied, got>>
       ELSE Return(r, [files |-> dir[key[r]], dry |-> FALSE,
                       excused |-> key[r] \in broken])
    /\ UNCHANGED <<key, locks, dir, marked, kind, broken, resolutions, faults>>

\* Mutant: the task waits until it is the only one with a reference.
LockAlone(r) ==
    /\ pc[r] = "waiting"
    /\ Holders(key[r]) \subseteq {r}
    /\ Locked(r)

Lock(r) == pc[r] = "waiting" /\ Held(r) = {} /\ Locked(r)

-----------------------------------------------------------------------------
(* The download                                                            *)

\* The archive arrives, and can be unpacked to a temporary directory; the
\* registry has said whether it is for dry runs only.
Receive(r) ==
    /\ pc[r] = "downloading"
    /\ \E d \in BOOLEAN : dry' = [dry EXCEPT ![r] = d]
    /\ pc' = [pc EXCEPT ![r] = "clearing"]
    /\ UNCHANGED <<key, forced, arc, locks, copied, got, dir, marked, kind, broken,
                   resolutions, faults>>

\* The resolution is canceled while it waits or downloads, or the download fails.
GiveUp(r) ==
    /\ pc[r] \in {"lookup", "waiting", "downloading"}
    /\ Return(r, Nothing)
    /\ UNCHANGED <<key, locks, dir, marked, kind, broken, resolutions, faults>>

\* remove_dir_all
Clear(r) ==
    /\ pc[r] = "clearing"
    /\ dir' = [dir EXCEPT ![key[r]] = [f \in File |-> "absent"]]
    /\ marked' = [marked EXCEPT ![key[r]] = FALSE]
    /\ kind' = [kind EXCEPT ![key[r]] = dry[r]]
    /\ copied' = [copied EXCEPT ![r] = {}]
    /\ pc' = [pc EXCEPT ![r] = "copying"]
    /\ UNCHANGED <<key, forced, arc, locks, dry, got, broken, resolutions, faults>>

\* copy_dir_recursively, file by file in the order of the directory
CopyFile(r) ==
    /\ pc[r] = "copying"
    /\ \E f \in File \ copied[r] :
          /\ dir' = [dir EXCEPT ![key[r]][f] = "whole"]
          /\ copied' = [copied EXCEPT ![r] = @ \cup {f}]
    /\ UNCHANGED <<pc, key, forced, arc, locks, dry, got, marked, kind, broken,
                   resolutions, faults>>

\* The marker is written, or fails to be, which is ignored; the package is
\* checked and returned.
Finish(r) ==
    /\ pc[r] = "copying" /\ copied[r] = File
    /\ \E written \in BOOLEAN :
          /\ written \/ (dry[r] /\ faults < MaxFaults)
          /\ marked' = [marked EXCEPT ![key[r]] = @ \/ (dry[r] /\ written)]
          /\ broken' = IF written THEN broken \ {key[r]} ELSE broken \cup {key[r]}
          /\ faults' = IF written THEN faults ELSE faults + 1
    /\ Return(r, IF Present(key[r])
                 THEN [files |-> dir[key[r]], dry |-> dry[r],
                       excused |-> key[r] \in broken']
                 ELSE Nothing)
    /\ UNCHANGED <<key, locks, dir, kind, resolutions>>

-----------------------------------------------------------------------------
(* Failures                                                                *)

\* The directory of r's package if it is left where it is.
Left(r) ==
    LET d == dir[key[r]]
    IN  CASE pc[r] = "clearing" ->
                {[f \in File |-> IF f \in S THEN "absent" ELSE d[f]] : S \in SUBSET File}
          [] pc[r] = "copying" ->
                {d} \cup {[d EXCEPT ![f] = "torn"] : f \in File \ copied[r]}
          [] OTHER -> {d}

\* A file cannot be removed or copied: the resolution ends with an error.
Fail(r) ==
    /\ pc[r] \in {"clearing", "copying"}
    /\ faults < MaxFaults
    /\ faults' = faults + 1
    /\ \E d \in Left(r) : dir' = [dir EXCEPT ![key[r]] = d]
    /\ broken' = broken \cup {key[r]}
    /\ Return(r, Nothing)
    /\ UNCHANGED <<key, locks, marked, kind, resolutions>>

\* The process dies and is started again.
Crash ==
    /\ faults < MaxFaults
    /\ faults' = faults + 1
    /\ LET writing == {r \in Task : pc[r] \in {"clearing", "copying"}}
       IN  /\ dir' \in {d \in [Package -> [File -> Content]] : \A k \in Package :
                  \/ d[k] = dir[k]
                  \/ \E r \in writing : key[r] = k /\ d[k] \in Left(r)}
           /\ broken' = broken \cup {key[r] : r \in writing}
    /\ pc' = [r \in Task |-> "idle"]
    /\ arc' = [r \in Task |-> None]
    /\ forced' = [r \in Task |-> FALSE]
    /\ dry' = [r \in Task |-> FALSE]
    /\ copied' = [r \in Task |-> {}]
    /\ got' = [r \in Task |-> Nothing]
    /\ locks' = [k \in Package |-> None]
    /\ UNCHANGED <<key, marked, kind, resolutions>>

Step(r) ==
    FindLock(r) \/ Lock(r) \/ Receive(r) \/ Clear(r) \/ CopyFile(r) \/ Finish(r)

Next ==
    \/ \E r \in Task : Begin(r) \/ Step(r) \/ GiveUp(r) \/ Fail(r)
    \/ Crash

\* Tasks are polled, and downloads come to an end.
Spec == Init /\ [][Next]_vars /\ \A r \in Task : WF_vars(Step(r))

-----------------------------------------------------------------------------
(* Properties                                                              *)

\* "Serialize writes to that package's cache directory": however references are
\* pruned, upgraded and dropped by resolutions that begin, end and are canceled,
\* two that check and write one directory never do so at once.
OneWriter ==
    \A r, s \in Task :
        pc[r] \in Critical /\ pc[s] \in Critical /\ key[r] = key[s] => r = s

\* A resolution returns all of the package, and for dry runs only what was sent so
\* (also when it comes from the cache, later), unless a write to the directory was
\* broken off after the package was last copied.
ReturnsThePackage ==
    [][\A r \in Task : pc[r] # "using" /\ pc'[r] = "using" /\ ~got'[r].excused =>
          /\ \A f \in File : got'[r].files[f] = "whole"
          /\ got'[r].dry = kind[key[r]]]_vars

\* Every resolution ends: nobody waits for a lock for ever.
ResolutionsEnd ==
    \A r \in Task : pc[r] \in Resolving ~> pc[r] \notin Resolving

-----------------------------------------------------------------------------
(* Statements that the code does not keep                                  *)

\* "concurrent downloads cannot remove or partially copy each other's extracted
\* files": what a resolution has returned stays while it is used.
ExtractedFilesStay ==
    [][\A r \in Task : pc[r] = "using" /\ pc'[r] = "using" =>
          \A f \in File : dir[key[r]][f] = "whole" => dir'[key[r]][f] = "whole"]_vars

\* "Check if package is cached and valid": what is returned without a download
\* is a whole package.
CachedIsValid ==
    \A r \in Task : pc[r] = "waiting" /\ ~Downloads(r) /\ Held(r) = {} =>
        \A f \in File : dir[key[r]][f] = "whole"

=============================================================================
