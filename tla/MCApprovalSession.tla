------------------------- MODULE MCApprovalSession -------------------------
(* Four or two steps that ask for an approval.                             *)
EXTENDS ApprovalSession

CONSTANTS r1, r2, r3, r4

\* r1 and r2 want the same module, r3 one more; r4 asks for itself.
FourAsk == [r \in Requester |-> IF r = r4 THEN "pullRequest" ELSE "capabilities"]
FourWant == [r \in Requester |-> CASE r \in {r1, r2} -> {"fs"}
                                   [] r = r3 -> {"fs", "fetch"}
                                   [] r = r4 -> {}]

TwoAsk  == [r \in Requester |-> "capabilities"]
TwoWant == [r \in Requester |-> {"fs"}]

=============================================================================
