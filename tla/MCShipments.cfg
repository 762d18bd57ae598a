SPECIFICATION Spec
CONSTANTS
  l1 = l1
  c1 = c1
  c2 = c2
  w1 = w1
  w2 = w2
  Legs <- MCLegs
  Codes <- MCCodes
  Workers <- MCWorkers
  Targets = {"AT_HUB", "CANCELLED"}
  HandWritten = {"COMPLETED"}
  NoCode = NoCode
  MaxCommissions = 1
SYMMETRY Symmetric
CONSTRAINT Explored
INVARIANTS
  MilestoneAgrees
  LegsMatchTrail
  VerifiedCodeWasEntered
PROPERTY
  StateMachineKept
