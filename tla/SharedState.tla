----------------------------- MODULE SharedState -----------------------------
(***************************************************************************)
(* codemod-sandbox/src/workflow_global/mod.rs: the state that the scripts  *)
(* of one js-ast-grep step share.  Each thread runs one script at a time;  *)
(* get, set and unset of a key wait while another thread holds the key's   *)
(* acquireLock, and give up when the step is canceled.                     *)
(*                                                                         *)
(* A waiting call looks again at least every 25 ms, so it misses neither a *)
(* release nor a cancellation: a call is pending in "call" and ends when   *)
(* it can.                                                                 *)
(***************************************************************************)

CONSTANTS
    Thread, StateKey, Value,
    NoThread,   \* nobody holds the lock
    Absent,     \* no entry under the key
    NoCall,     \* the script of a thread is not in a call
    Unseen      \* the holder has not looked at the entry yet

ASSUME SentinelAssumption == NoThread \notin Thread /\ Absent \notin Value

VARIABLES
    data,       \* the entries
    removals,   \* keys that were unset and not set since
    holder,     \* who holds the lock of a key
    guard,      \* the release functions the script of a thread has got
    call,       \* the call the script of a thread is in
    seen,       \* history: the entry as the holder of its lock knows it
    canceled,   \* the step's cancellation flag
    stored      \* the run's state, as the state adapter keeps it

sharedVars == <<data, removals, holder, guard, call, seen, canceled, stored>>

Entry == [value : Value, persist : BOOLEAN]
Guard == [key : StateKey, released : BOOLEAN]
Call  == [op : {"get", "set", "unset", "acquire"}, key : StateKey]

ASSUME EntryAssumption == Absent \notin Entry /\ Unseen \notin Entry \cup {Absent}
ASSUME CallAssumption  == NoCall \notin Call

SharedTypeOK ==
    /\ data \in [StateKey -> Entry \cup {Absent}]
    /\ removals \subseteq StateKey
    /\ holder \in [StateKey -> Thread \cup {NoThread}]
    /\ guard \in [Thread -> SUBSET Guard]
    /\ call \in [Thread -> Call \cup {NoCall}]
    /\ seen \in [Thread -> [StateKey -> Entry \cup {Absent, Unseen}]]
    /\ canceled \in BOOLEAN
    /\ stored \in [StateKey -> Value \cup {Absent}]

\* with_initial_state: what is stored is loaded as persistent.
SharedInit ==
    /\ stored \in [StateKey -> Value \cup {Absent}]
    /\ data = [k \in StateKey |->
                  IF stored[k] = Absent THEN Absent
                  ELSE [value |-> stored[k], persist |-> TRUE]]
    /\ removals = {}
    /\ holder = [k \in StateKey |-> NoThread]
    /\ guard = [t \in Thread |-> {}]
    /\ call = [t \in Thread |-> NoCall]
    /\ seen = [t \in Thread |-> [k \in StateKey |-> Unseen]]
    /\ canceled = FALSE

-----------------------------------------------------------------------------
(* Calls                                                                   *)

\* A script calls get, set, unset or acquireLock.
Begin(t, c) ==
    /\ call[t] = NoCall
    /\ call' = [call EXCEPT ![t] = c]
    /\ UNCHANGED <<data, removals, holder, guard, seen, canceled, stored>>

\* with_key_guard_cancellable: what get, set and unset do runs under the key's
\* mutex, once the lock is free or held by the caller, unless canceled.
Access(t, op, k) ==
    /\ call[t] = [op |-> op, key |-> k]
    /\ holder[k] \in {NoThread, t}
    /\ ~canceled
    /\ call' = [call EXCEPT ![t] = NoCall]
    /\ seen' = [seen EXCEPT ![t][k] = IF holder[k] = t THEN data'[k] ELSE Unseen]
    /\ UNCHANGED <<holder, guard, canceled, stored>>

Get(t, k) ==
    /\ UNCHANGED <<data, removals>>
    /\ Access(t, "get", k)

\* Mutant: the removal of the key is not taken back.
SetOnly(t, k) ==
    /\ \E e \in Entry : data' = [data EXCEPT ![k] = e]
    /\ Access(t, "set", k)
    /\ UNCHANGED removals

Set(t, k) ==
    /\ \E e \in Entry : data' = [data EXCEPT ![k] = e]
    /\ Access(t, "set", k)
    /\ removals' = removals \ {k}

Unset(t, k) ==
    /\ data' = [data EXCEPT ![k] = Absent]
    /\ Access(t, "unset", k)
    /\ removals' = removals \cup {k}

\* acquire_lock_cancellable by a thread that does not hold the key.
Acquire(t, k) ==
    /\ call[t] = [op |-> "acquire", key |-> k]
    /\ holder[k] = NoThread
    /\ ~canceled
    /\ holder' = [holder EXCEPT ![k] = t]
    /\ guard' = [guard EXCEPT ![t] = @ \cup {[key |-> k, released |-> FALSE]}]
    /\ seen' = [seen EXCEPT ![t][k] = Unseen]
    /\ call' = [call EXCEPT ![t] = NoCall]
    /\ UNCHANGED <<data, removals, canceled, stored>>

\* The thread holds the key: it gets a release function that does nothing.
AcquireAgain(t, k) ==
    /\ call[t] = [op |-> "acquire", key |-> k]
    /\ holder[k] = t
    /\ guard' = [guard EXCEPT ![t] = @ \cup {[key |-> k, released |-> TRUE]}]
    /\ call' = [call EXCEPT ![t] = NoCall]
    /\ UNCHANGED <<data, removals, holder, seen, canceled, stored>>

\* The call throws because the step is canceled.
CancelCall(t) ==
    /\ canceled
    /\ call[t] # NoCall
    /\ call[t].op = "acquire" => holder[call[t].key] # t
    /\ call' = [call EXCEPT ![t] = NoCall]
    /\ UNCHANGED <<data, removals, holder, guard, seen, canceled, stored>>

Return(t) ==
    \/ \E k \in StateKey :
          Get(t, k) \/ Set(t, k) \/ Unset(t, k) \/ Acquire(t, k) \/ AcquireAgain(t, k)
    \/ CancelCall(t)

-----------------------------------------------------------------------------
(* Release                                                                 *)

\* Mutant: a release function frees the lock each time it is called.
ReleaseEachTime(t, g) ==
    /\ call[t] = NoCall
    /\ g \in guard[t]
    /\ holder' = [holder EXCEPT ![g.key] = NoThread]
    /\ guard' = [guard EXCEPT ![t] = (@ \ {g}) \cup {[g EXCEPT !.released = TRUE]}]
    /\ seen' = [seen EXCEPT ![t][g.key] = Unseen]
    /\ UNCHANGED <<data, removals, call, canceled, stored>>

\* SharedLockGuard::release: the first call frees the lock, the others nothing.
Release(t, g) ==
    /\ call[t] = NoCall
    /\ g \in guard[t] /\ ~g.released
    /\ holder' = [holder EXCEPT ![g.key] = NoThread]
    /\ guard' = [guard EXCEPT ![t] = (@ \ {g}) \cup {[g EXCEPT !.released = TRUE]}]
    /\ seen' = [seen EXCEPT ![t][g.key] = Unseen]
    /\ UNCHANGED <<data, removals, call, canceled, stored>>

Locked(t) == {g.key : g \in {h \in guard[t] : ~h.released}}

\* The runtime of a script is dropped, and with it its release functions.
DropGuards(t) ==
    /\ call[t] = NoCall
    /\ holder' = [k \in StateKey |-> IF k \in Locked(t) THEN NoThread ELSE holder[k]]
    /\ guard' = [guard EXCEPT ![t] = {}]
    /\ seen' = [seen EXCEPT ![t] = [k \in StateKey |-> Unseen]]
    /\ UNCHANGED <<data, removals, call, canceled, stored>>

\* What a running script does of its own accord.
Script(t) ==
    \/ \E c \in Call : Begin(t, c)
    \/ \E g \in guard[t] : Release(t, g)

Cancel ==
    /\ canceled' = TRUE
    /\ UNCHANGED <<data, removals, holder, guard, call, seen, stored>>

\* get_persistable and get_removals, as a diff of the stored state: an update
\* of every persistent entry, and then a removal of the keys that were unset.
Diffed(k) ==
    IF k \in removals THEN Absent
    ELSE IF data[k] # Absent /\ data[k].persist THEN data[k].value
    ELSE stored[k]

Save ==
    /\ stored' = [k \in StateKey |-> Diffed(k)]
    /\ UNCHANGED <<data, removals, holder, guard, call, seen, canceled>>

SharedNext ==
    \/ \E t \in Thread : Script(t) \/ Return(t) \/ DropGuards(t)
    \/ Cancel

SharedSpec == SharedInit /\ [][SharedNext]_sharedVars

-----------------------------------------------------------------------------
(* Properties                                                              *)

\* Between acquireLock and its release nobody else changes the entry, whoever
\* calls a release function once more or ends with one it never called: a
\* locked read-modify-write is atomic.
LockedEntryIsStable ==
    \A t \in Thread, k \in StateKey :
        /\ [key |-> k, released |-> FALSE] \in guard[t]
        /\ seen[t][k] # Unseen
        => data[k] = seen[t][k]

\* What a step saves is what its scripts left: a key they unset is removed from
\* the stored state, and one they set again is not.
SavesWhatScriptsLeft ==
    \A k \in StateKey :
        /\ data[k] = Absent => Diffed(k) = Absent
        /\ data[k] # Absent /\ data[k].persist => Diffed(k) = data[k].value

=============================================================================
