----------------------------- MODULE StateStore -----------------------------
(***************************************************************************)
(* What a state adapter promises the one process that uses it: a map from  *)
(* keys to contents.  A write either ends, and the key has the new content *)
(* from then on, or is cut short, and then the key alone is in doubt: it   *)
(* has its old content, the new one or none at all, until it is written    *)
(* again.  A crash changes no key that is not in doubt.                    *)
(***************************************************************************)
CONSTANTS Key, Content, NoContent

VARIABLES
    value,      \* what the process reads under each key
    doubt       \* keys whose last write has not been acknowledged

vars == <<value, doubt>>

TypeOK ==
    /\ value \in [Key -> Content \cup {NoContent}]
    /\ doubt \subseteq Key

Init == TypeOK /\ doubt = {}

\* The old content may be out of reach while the new one is written.
Begin(k) ==
    /\ doubt' = doubt \cup {k}
    /\ \/ UNCHANGED value
       \/ value' = [value EXCEPT ![k] = NoContent]

Commit(k) ==
    /\ k \in doubt
    /\ doubt' = doubt \ {k}
    /\ \E c \in Content : value' = [value EXCEPT ![k] = c]

Crash ==
    /\ doubt' \subseteq doubt
    /\ value' \in [Key -> Content \cup {NoContent}]
    /\ \A k \in Key \ doubt : value'[k] = value[k]

Next == Crash \/ \E k \in Key : Begin(k) \/ Commit(k)

Spec == Init /\ [][Next]_vars

=============================================================================
