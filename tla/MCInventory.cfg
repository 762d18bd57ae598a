\* Two workers, one part: every interleaving of movements, edits and deletes.
SPECIFICATION FairSpec
CONSTANTS
  MaxStored = 3
  Parts = {p1}
  Warehouses = {h1}
  Workers = {w1, w2}
  Types <- MCTypes
  Quantities <- MCQuantities
  NoWorker = NoWorker
  NoRequest = NoRequest
  MaxEntries = 3
INVARIANTS
  LedgerExplainsStock
PROPERTIES
  NoMovementOnDeletedPart
  ImplementsStockLedger
  MovementAnswered
