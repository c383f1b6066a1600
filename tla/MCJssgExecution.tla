--------------------------- MODULE MCJssgExecution ---------------------------
(* Instances of JssgExecution: a file that is renamed, and changed in place *)
(* when the walk comes to it under its new name, beside one that is changed *)
(* in place; the same with a second renaming; and a file that is renamed to *)
(* the name of another.                                                     *)
EXTENDS JssgExecution, TLC

CONSTANTS w1, w2, fileA, fileB, newC, newD

To(f, p) == [from |-> f, to |-> p]
Disjoint == (fileA :> <<To(fileA, newC)>>) @@ (fileB :> <<To(fileB, fileB)>>)
                @@ (newC :> <<To(newC, newC)>>)
Again    == (newC :> <<To(newC, newD)>>) @@ (newD :> <<>>) @@ Disjoint
Chain    == (fileA :> <<To(fileA, fileB)>>) @@ (fileB :> <<To(fileB, newC)>>)
                @@ (newC :> <<>>)

\* The run's state has an entry under every key when the step begins.
StoredInit == Init /\ \A k \in StateKey : stored[k] # Absent
StoredSpec == StoredInit /\ [][Next]_vars /\ Fairness

Threads == Permutations({w1, w2})
=============================================================================
