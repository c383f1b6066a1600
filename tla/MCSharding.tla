----------------------------- MODULE MCSharding -----------------------------
(* Instances of Sharding: a directory of four files, and others beside it. *)
EXTENDS Sharding

SourceTree == [f \in File |-> IF f <= 4 THEN "api" ELSE "."]
Plain == [g \in Group |-> g]
=============================================================================
