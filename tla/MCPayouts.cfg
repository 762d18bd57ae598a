SPECIFICATION Spec
CONSTANTS
  a1 = a1
  a2 = a2
  x1 = x1
  e1 = e1
  k1 = k1
  p1 = p1
  p2 = p2
  Agents <- MCAgents
  Commissions <- MCCommissions
  Expenses <- MCExpenses
  AgentOf <- MCAgentOf
  Keys <- MCKeys
  HandWritten = {"EARNED"}
  AskedFor = {a1}
  Callers <- MCCallers
  Celery = Celery
  NoKey = NoKey
  EmptyKey = EmptyKey
  MaxRetries = 1
  MaxPayouts = 2
SYMMETRY Symmetric
CONSTRAINT Explored
INVARIANTS
  PaidWhenSettled
PROPERTIES
  ImplementsKeyedPayments
