\* One row of any kind, two requests at a time.
SPECIFICATION Spec
CONSTANTS
  Ids = {r1}
  Workers = {w1, w2}
  Parcels <- MCParcels
  Readings <- MCReadings
  MaxAttached = 4
  NoRow = NoRow
INVARIANT
  BooksAgree
PROPERTIES
  MovesAllowed
\* The row may be deleted, with nothing left to do.
CHECK_DEADLOCK FALSE
