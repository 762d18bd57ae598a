------------------------------ MODULE MCPayouts ------------------------------
\* Two agents, one of them with a commission and an expense; two callers and
\* the batch task: two payouts of one agent can overlap, and a batch can fail
\* between its agents.
EXTENDS Payouts, TLC

CONSTANTS a1, a2, x1, e1, k1, p1, p2

MCAgents == {a1, a2}
MCCommissions == {x1}
MCExpenses == {e1}
MCAgentOf == [r \in {x1, e1} |-> a1]
MCKeys == {k1}
MCCallers == {p1, p2}

Symmetric == Permutations(MCCallers)

\* What is deducted bears on nothing else, so the batch is explored without
\* expenses, and the expenses without a batch.
NothingDeducted ==
  /\ approved = {}
  /\ \A q \in Paid : q.deducted = {}
  /\ \A p \in Processes : run[p] # Idle => run[p].payout.deducted = {}

Explored == NothingDeducted \/ batch = [todo |-> {}, retries |-> 0]

=============================================================================
