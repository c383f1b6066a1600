-------------------------- MODULE MCNestedCodemods --------------------------
(* Instances of NestedCodemods: every graph of a few packages.             *)
EXTENDS NestedCodemods
=============================================================================
