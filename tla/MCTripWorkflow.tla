--------------------------- MODULE MCTripWorkflow ---------------------------
(***************************************************************************)
(* Two trips compete for one vehicle and one driver.                       *)
(***************************************************************************)
EXTENDS TripWorkflow, TLC

MCEditStatuses == {"SCHEDULED", "IN_PROGRESS"}
\* Trips and workers are interchangeable: no definition names one.
MCSymmetry == Permutations(Trips) \cup Permutations(Servers)
=============================================================================
