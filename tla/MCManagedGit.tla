---------------------------- MODULE MCManagedGit -----------------------------
(* Instances of ManagedGit: a task that is triggered twice beside one that  *)
(* is triggered once and has nothing to commit, but wants the lock.         *)
EXTENDS ManagedGit, TLC

CONSTANTS t1, t2

OneRetried == <<t1, t1, t2>>
OneCommits == (t1 :> 2) @@ (t2 :> 0)
=============================================================================
