\* Two requests at a time on two trips, one vehicle and one driver; one write by hand.
SPECIFICATION TripsSpec
CONSTANTS
  Trips = {t1, t2}
  Vehicles = {v1}
  Drivers = {d1}
  Servers = {w1, w2}
  EditStatuses <- MCEditStatuses
  NoUnit = NoUnit
  NoRequest = NoRequest
  MaxRewrites = 1
SYMMETRY MCSymmetry
INVARIANTS
  OnTripHasTrip
  ActiveTripHasUnits
PROPERTIES
  StateMachineKept
\* Every trip may be over or deleted.
CHECK_DEADLOCK FALSE
