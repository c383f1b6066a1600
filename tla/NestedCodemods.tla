--------------------------- MODULE NestedCodemods ---------------------------
(***************************************************************************)
(* core/src/nested_codemod_service.rs and the codemod step of              *)
(* core/src/engine.rs: a step may run the workflow of another package, the *)
(* steps of which may do so again.  The dependencies are inspected before  *)
(* the run and followed in it; a run that is nested in itself is refused.  *)
(*                                                                         *)
(* A workflow is a sequence of steps, in the order of its nodes; a step is *)
(* the package it runs, with arguments, or Plain.                          *)
(***************************************************************************)
EXTENDS Naturals, Sequences, SequencesExt

CONSTANTS
    Package,
    Root,           \* the workflow that the user runs
    Plain,          \* a step of another kind
    Steps           \* bound: steps of a workflow

ASSUME NestedAssumption ==
    Root \notin Package /\ Plain \notin Package /\ Steps \in Nat

Params == {"user", "args"}

VARIABLES
    workflow,       \* [Package and Root -> its workflow], which stays the same
    phase,          \* of the run
    stack           \* the workflows under way, with their parameters and the
                    \* number of steps that are done

vars == <<workflow, phase, stack>>

Frame == [of : Package \cup {Root}, done : 0 .. Steps, params : SUBSET Params]

TypeOK ==
    /\ workflow \in [Package \cup {Root} -> SeqOf(Package \cup {Plain}, Steps)]
    /\ phase \in {"new", "running", "succeeded", "failed", "refused"}
    /\ \A i \in DOMAIN stack : stack[i] \in Frame
    /\ stack # <<>> <=> phase = "running"
    /\ stack # <<>> => stack[1].of = Root
    /\ \A i \in DOMAIN stack : stack[i].done <= Len(workflow[stack[i].of])

Init ==
    /\ workflow \in [Package \cup {Root} -> SeqOf(Package \cup {Plain}, Steps)]
    /\ phase = "new"
    /\ stack = <<>>

-----------------------------------------------------------------------------
(* Dependencies                                                            *)

\* unique_codemod_sources
Sources(p) == {workflow[p][i] : i \in DOMAIN workflow[p]} \ {Plain}

\* find_cycle_in_chain
InChain(p, chain) == p \in {f.of : f \in {chain[i] : i \in DOMAIN chain}}

\* validate_workflow_dependencies: what it finds of this workflow is an error,
\* what it finds of those nested in it is only a warning.
Validates(p, chain) == \A q \in Sources(p) : ~InChain(q, chain)

\* run_workflow_with_id
Start ==
    /\ phase = "new"
    /\ IF Validates(Root, <<>>)
       THEN /\ phase' = "running"
            /\ stack' = <<[of |-> Root, done |-> 0, params |-> {"user"}]>>
       ELSE phase' = "refused" /\ UNCHANGED stack
    /\ UNCHANGED workflow

-----------------------------------------------------------------------------
(* The run                                                                 *)

Top == Last(stack)
AtStep == phase = "running" /\ Top.done < Len(workflow[Top.of])
NextStep == workflow[Top.of][Top.done + 1]

\* A step on top is done.
Advanced(s) == [s EXCEPT ![Len(s)].done = @ + 1]

\* A step of another kind is done, or one whose condition is not met.
Skip ==
    /\ AtStep
    /\ stack' = Advanced(stack)
    /\ UNCHANGED <<workflow, phase>>

\* The error leaves one workflow after the other.
Failing == phase' = "failed" /\ stack' = <<>>

\* A step fails, or its package cannot be resolved.
Fail == AtStep /\ Failing /\ UNCHANGED workflow

\* The steps of a nested workflow get the parameters of the one above.
Nested(p) == Append(stack, [of |-> p, done |-> 0, params |-> Top.params])

\* resolve, and run_codemod_workflow_with_chain: the chain has the packages that
\* are nested in each other, without the root.
Enter ==
    /\ AtStep /\ NextStep # Plain
    /\ IF InChain(NextStep, Tail(stack)) THEN Failing
                                         ELSE stack' = Nested(NextStep) /\ UNCHANGED phase
    /\ UNCHANGED workflow

\* Mutant: the step of the workflow above is not counted.
ReturnToStep ==
    /\ phase = "running" /\ Top.done = Len(workflow[Top.of])
    /\ stack' = Front(stack)
    /\ phase' = IF Len(stack) = 1 THEN "succeeded" ELSE "running"
    /\ UNCHANGED workflow

\* The last step of a workflow is done.
Return ==
    /\ phase = "running" /\ Top.done = Len(workflow[Top.of])
    /\ IF Len(stack) = 1
       THEN phase' = "succeeded" /\ stack' = <<>>
       ELSE stack' = Advanced(Front(stack)) /\ UNCHANGED phase
    /\ UNCHANGED workflow

Next == Start \/ Skip \/ Fail \/ Enter \/ Return

\* Steps end.
Spec == Init /\ [][Next]_vars /\ WF_vars(Next)

-----------------------------------------------------------------------------
(* Properties                                                              *)

\* No package is run within itself, at whatever depth: "this would cause infinite
\* recursion".
NotWithinItself ==
    \A i, j \in 2 .. Len(stack) : stack[i].of = stack[j].of => i = j

\* Every run ends, whichever packages depend on each other.
RunEnds == phase = "running" ~> phase \in {"succeeded", "failed"}

-----------------------------------------------------------------------------
(* Statements that the code does not keep                                  *)

\* The packages that the run may come to from p, in n steps.
Reached[n \in Nat] ==
    IF n = 0 THEN [p \in Package |-> Sources(p)]
    ELSE [p \in Package |-> Sources(p) \cup UNION {Reached[n - 1][q] : q \in Sources(p)}]

\* "This method recursively checks all codemod dependencies": a workflow that
\* depends on a package which depends on itself is not run.
CyclesAreRefused ==
    phase = "running" =>
        \A p \in Sources(Root) : p \notin Reached[Cardinality(Package)][p]

\* "CLI arguments passed to the codemod": the steps of a nested workflow see the
\* arguments of the step that runs it.
ArgumentsArePassed == \A i \in 2 .. Len(stack) : "args" \in stack[i].params

=============================================================================
