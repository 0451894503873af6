------------------------- MODULE MCOperationWorkflow -------------------------
EXTENDS OperationWorkflow, TLC

CONSTANTS p1, p2, p3, s1, s2, n1, n2, n3, ana, ben, cleo, k1, k2, k3, b1, w1, a1

MCRefs == Ids \X (1 .. MaxRevision)

\* One command that creates its own target, for the runs about one proposal.
CreateOnly == { [type |-> "create_investigation_task"] }

\* Two payloads that differ, for the runs about keys and revisions.
TwoPayloads == CreateOnly \cup { [type |-> "open_seller_risk_case"] }

\* A task is created by <<p1, 1>>, and any other proposal may be to assign it
\* at version 1: with three ids, two approved assignments compete.
Conflicting ==
    { [type |-> "create_investigation_task"],
      [type |-> "assign_investigation", task |-> <<p1, 1>>, version |-> 1, assignee |-> a1] }

Symm == Permutations(Sessions) \cup Permutations(Nonces) \cup Permutations(Keys)
=============================================================================
