\* Do active trips hold their units to themselves, one request at a time?
SPECIFICATION TripsSpec
CONSTANTS
  Trips = {t1, t2}
  Vehicles = {v1}
  Drivers = {d1}
  Servers = {w1}
  EditStatuses = {"SCHEDULED"}
  NoUnit = NoUnit
  NoRequest = NoRequest
  MaxRewrites = 0
INVARIANTS
  TripsDoNotShareUnits
\* Every trip may be over or deleted.
CHECK_DEADLOCK FALSE
