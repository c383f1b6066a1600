-------------------------- MODULE MCWorkflowEngine --------------------------
(* Small workflows for TLC: the values of the constants of WorkflowEngine. *)
EXTENDS WorkflowEngine

MCExecutor == {"executor"} \X (Caller \cup {RunCall})

None(N) == [n \in N |-> {}]
All(N, S) == [n \in N |-> S]

\* scan writes the items, fan is the matrix over them, pair a matrix with
\* static values, join waits for pair.
FanNode   == {"scan", "fan", "pair", "join"}
\* Nobody waits for fan, so it can fail in a run that ends.
LastDeps  == [scan |-> {}, pair |-> {}, join |-> {"pair"}, fan |-> {"scan", "join"}]
FanValues == [scan |-> {}, fan |-> {}, pair |-> Item, join |-> {}]
One(i)    == [j \in Item |-> IF j = i THEN 1 ELSE 0]
Counts(k) == [j \in Item |-> k]
FanOutputs ==
    [scan |-> {<<"fan", Counts(1)>>, <<"fan", ObjectValue>>},
     fan  |-> {<<"fan", One(CHOOSE i \in Item : TRUE)>>},
     pair |-> {}, join |-> {}]
Works    == {"Ok"}
OkOrFail == {"Ok", "Fail"}
FanFails == All(FanNode, OkOrFail)

\* gate is manual, and anything can become of its steps.
GateNode == {"gate"}
GateNone == None(GateNode)
GateAll  == All(GateNode, {"Ok", "Fail", "Defer", "Skip"})

CONSTANTS c1, c2
AnyCall     == {"resume", "triggerAll", "cancel"}
NoCalls     == [c \in Caller |-> {}]
OneCall     == [c \in Caller |-> AnyCall]
StartCancel == [c \in Caller |-> IF c = c2 THEN {"cancel"} ELSE {"resume", "triggerAll"}]

\* seed writes the items of the matrix grow, which waits for it.
GrowNode   == {"seed", "grow"}
GrowDeps   == [seed |-> {}, grow |-> {"seed"}]
GrowValues == None(GrowNode)
GrowOutputs ==
    [seed |-> {<<"grow", Counts(0)>>, <<"grow", Counts(1)>>}, grow |-> {}]
GrowFails == [seed |-> OkOrFail, grow |-> Works]

\* One automatic node.
SoloNode == {"solo"}
SoloDeps == None(SoloNode)
SoloFails == All(SoloNode, OkOrFail)

=============================================================================
