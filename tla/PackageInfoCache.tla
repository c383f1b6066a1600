-------------------------- MODULE PackageInfoCache --------------------------
(***************************************************************************)
(* core/src/registry.rs: what the registry says of an exact version is     *)
(* kept in a bounded map of OnceCells, so that tasks that ask for the same *)
(* version at the same time wait for one request.  Cells are numbered in   *)
(* the order in which they are made; 0 is none.  The map is one part of a  *)
(* RegistryClient, and PackageCache models the other; no name is in both.  *)
(* A call that bypasses the cache, or asks for no exact version, makes a   *)
(* request of its own and touches nothing of this: it is left out.         *)
(***************************************************************************)
EXTENDS Naturals, FiniteSets

CONSTANTS
    Asker,          \* tasks of the process that ask
    Version,        \* registries and specs with an exact version (others are not kept)
    Capacity,       \* PACKAGE_INFO_CACHE_CAPACITY
    MaxRequests     \* bound: calls of get_package_info with use_cache

ASSUME InfoAssumption == Capacity \in Nat \ {0} /\ MaxRequests \in Nat

VARIABLES
    at,             \* [Asker -> "idle", "entering" or "fetching"]
    wanted,         \* [Asker -> the version it asks for]
    cell,           \* [Asker -> the cell it has a reference to]
    infos,          \* package_info_cache: [Version -> cell]
    full,           \* the cells that have a value
    uncached,       \* history: cells for which the map had no room
    requests        \* how many calls there were

infoVars == <<at, wanted, cell, infos, full, uncached, requests>>

Cell == 1 .. MaxRequests
Entries == {k \in Version : infos[k] # 0}

InfoTypeOK ==
    /\ at \in [Asker -> {"idle", "entering", "fetching"}]
    /\ wanted \in [Asker -> Version]
    /\ cell \in [Asker -> Cell \cup {0}]
    /\ infos \in [Version -> Cell \cup {0}]
    /\ full \subseteq Cell /\ uncached \subseteq Cell
    /\ requests \in 0 .. MaxRequests
    /\ Cardinality(Entries) <= Capacity
    /\ \A t \in Asker : at[t] = "idle" <=> cell[t] = 0

InfoInit ==
    /\ at = [t \in Asker |-> "idle"]
    /\ wanted = [t \in Asker |-> CHOOSE k \in Version : TRUE]
    /\ cell = [t \in Asker |-> 0]
    /\ infos = [k \in Version |-> 0]
    /\ full = {} /\ uncached = {}
    /\ requests = 0

-----------------------------------------------------------------------------
(* Requests                                                                *)

\* Mutant: any entry makes room.
EvictableAny == Entries

\* The entries that make room for another one: those that have been fetched.
Evictable == {k \in Entries : infos[k] \in full}

\* The map after an entry has been removed if it is full.
Evicted ==
    IF Cardinality(Entries) >= Capacity /\ Evictable # {}
    THEN {[infos EXCEPT ![k] = 0] : k \in Evictable}
    ELSE {infos}

\* The new cell is put into the map if there is room.
Insert(c, k, n) ==
    IF Cardinality({h \in Version : c[h] # 0}) < Capacity THEN [c EXCEPT ![k] = n] ELSE c

\* package_info_cache_cell
Ask(t, k) ==
    /\ at[t] = "idle"
    /\ requests < MaxRequests
    /\ requests' = requests + 1
    /\ at' = [at EXCEPT ![t] = "entering"]
    /\ wanted' = [wanted EXCEPT ![t] = k]
    /\ IF infos[k] # 0
       THEN cell' = [cell EXCEPT ![t] = infos[k]] /\ UNCHANGED <<infos, uncached>>
       ELSE /\ cell' = [cell EXCEPT ![t] = requests']
            /\ \E c \in Evicted : infos' = Insert(c, k, requests')
            /\ uncached' = uncached \cup ({requests'} \ {infos'[k]})
    /\ UNCHANGED full

Leave(t) ==
    /\ at' = [at EXCEPT ![t] = "idle"]
    /\ cell' = [cell EXCEPT ![t] = 0]
    /\ UNCHANGED <<wanted, infos, uncached, requests>>

\* get_or_try_init: the value is there.
Hit(t) ==
    /\ at[t] = "entering" /\ cell[t] \in full
    /\ Leave(t)
    /\ UNCHANGED full

\* Mutant: a task fetches only if nobody else has a reference to the cell.
FetchAlone(t) ==
    /\ at[t] = "entering" /\ cell[t] \notin full
    /\ \A u \in Asker \ {t} : cell[u] # cell[t]
    /\ at' = [at EXCEPT ![t] = "fetching"]
    /\ UNCHANGED <<wanted, cell, infos, full, uncached, requests>>

\* get_or_try_init: the first of those that wait sends the request.
Fetch(t) ==
    /\ at[t] = "entering" /\ cell[t] \notin full
    /\ \A u \in Asker : at[u] = "fetching" => cell[u] # cell[t]
    /\ at' = [at EXCEPT ![t] = "fetching"]
    /\ UNCHANGED <<wanted, cell, infos, full, uncached, requests>>

\* The answer: with an error the cell stays empty, and the next one tries.
Fetched(t) ==
    /\ at[t] = "fetching"
    /\ full' \in {full, full \cup {cell[t]}}
    /\ Leave(t)

\* The call is canceled while it waits.
Cancel(t) ==
    /\ at[t] # "idle"
    /\ Leave(t)
    /\ UNCHANGED full

InfoNext ==
    \E t \in Asker :
        (\E k \in Version : Ask(t, k)) \/ Hit(t) \/ Fetch(t) \/ Fetched(t) \/ Cancel(t)

\* Tasks are polled, and the registry answers or fails.
InfoSpec ==
    /\ InfoInit /\ [][InfoNext]_infoVars
    /\ \A t \in Asker : WF_infoVars(Hit(t) \/ Fetch(t) \/ Fetched(t))

-----------------------------------------------------------------------------
(* Properties                                                              *)

\* The calls that use the cache make one request at a time for a version, whoever
\* asks, fails and is canceled: an entry "being fetched" is not evicted, and a
\* failed one is kept.  Cells for which the map had no room are not shared.
SingleRequest ==
    \A t, u \in Asker :
        /\ at[t] = "fetching" /\ at[u] = "fetching" /\ wanted[t] = wanted[u]
        /\ {cell[t], cell[u]} \cap uncached = {}
        => t = u

\* Every call returns.
RequestsEnd == \A t \in Asker : at[t] # "idle" ~> at[t] = "idle"

-----------------------------------------------------------------------------
(* A statement that the code does not keep                                 *)

\* "If every bounded entry is currently being fetched, leave this cell uncached":
\* a cell is left uncached only then.
UncachedOnlyIfBusy ==
    [][\A t \in Asker :
          at[t] = "idle" /\ at'[t] = "entering" /\ (\A k \in Version : infos'[k] # cell'[t]) =>
              \A k \in Entries : \E u \in Asker : cell[u] = infos[k]]_infoVars

=============================================================================
