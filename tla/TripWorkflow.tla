---------------------------- MODULE TripWorkflow ----------------------------
(***************************************************************************)
(* Trips and the vehicles and drivers they hold.                           *)
(*                                                                         *)
(* The dispatch, start, complete and cancel endpoints read the trip with   *)
(* its vehicle and driver in one SELECT, outside any transaction and       *)
(* without a lock.  TripWorkflowService.transition checks the status it    *)
(* read, then writes vehicle, driver and trip in one transaction; the trip *)
(* is saved with every column as it was read.  PUT/PATCH of a trip, a      *)
(* vehicle or a driver, and change_status, write those rows directly.      *)
(*                                                                         *)
(* Transactions write vehicle before driver before trip, so their row      *)
(* locks never wait in a circle, and a transaction takes effect as a whole *)
(* when it commits: it is one action here.                                 *)
(***************************************************************************)
EXTENDS Naturals, FiniteSets

CONSTANTS
  Trips, Vehicles, Drivers,   \* rows of one tenant
  Servers,                    \* web workers: each handles one request at a time
  EditStatuses,               \* trip statuses clients write by POST, PUT or PATCH
  NoUnit,                     \* the trip has no vehicle, or no driver
  NoRequest,                  \* an idle worker handles no request
  MaxRewrites                 \* bound: rows noted as rewritten or loose when one more is by hand

Units == Vehicles \cup Drivers

TripStatus == {"REQUESTED", "SCHEDULED", "CONFIRMED", "DISPATCHED", "STARTED", "IN_PROGRESS",
               "COMPLETED", "BILLING_READY", "CANCELLED"}

ASSUME TripWorkflowAssumption ==
  /\ EditStatuses \subseteq TripStatus
  /\ Vehicles \cap Drivers = {}
  /\ NoUnit \notin Units
  /\ MaxRewrites \in Nat

VARIABLES
  trips,        \* the Trip rows
  unit,         \* the status column of vehicles and drivers
  assigned,     \* vehicles whose availability is ASSIGNED
  asked,        \* the transition each worker is about to make
  snapshot,     \* what it read: the trip row, and which of its units were ON_TRIP
  rewritten,    \* history: trips saved over a row that had moved, or written by hand
  loose         \* history: units a trip lost hold of that way, or written by hand

tripVars == <<trips, unit, assigned, asked, snapshot, rewritten, loose>>

\* AVAILABLE and ON_TRIP are those of the code; OTHER stands for the rest
\* (maintenance, out of service, off duty, suspended ...).
UnitStatus == {"AVAILABLE", "ON_TRIP", "OTHER"}

Trip == [state : {"absent", "live", "deleted"}, status : TripStatus,
         vehicle : Vehicles \cup {NoUnit}, driver : Drivers \cup {NoUnit}]

NoTrip == [state |-> "absent", status |-> "REQUESTED", vehicle |-> NoUnit, driver |-> NoUnit]

\* The transitions some endpoint asks for.
Targets == {"DISPATCHED", "STARTED", "COMPLETED", "CANCELLED"}

Transition == [trip : Trips, target : Targets]

Snapshot == [trip : Trip, onTrip : SUBSET Units]

NoSnapshot == [trip |-> NoTrip, onTrip |-> {}]

\* VALID_TRANSITIONS
Allowed ==
  [REQUESTED     |-> {"SCHEDULED", "CONFIRMED", "CANCELLED"},
   SCHEDULED     |-> {"CONFIRMED", "DISPATCHED", "CANCELLED"},
   CONFIRMED     |-> {"DISPATCHED", "CANCELLED"},
   DISPATCHED    |-> {"STARTED", "CANCELLED"},
   STARTED       |-> {"IN_PROGRESS", "COMPLETED", "CANCELLED"},
   IN_PROGRESS   |-> {"COMPLETED", "CANCELLED"},
   COMPLETED     |-> {"BILLING_READY"},
   BILLING_READY |-> {},
   CANCELLED     |-> {}]

\* In these a trip holds its vehicle and driver.
Active == {"DISPATCHED", "STARTED", "IN_PROGRESS"}

Planning == {"REQUESTED", "SCHEDULED", "CONFIRMED"}

TripsInit ==
  /\ trips = [t \in Trips |-> NoTrip]
  /\ unit = [u \in Units |-> "AVAILABLE"]
  /\ assigned = {}
  /\ asked = [w \in Servers |-> NoRequest]
  /\ snapshot = [w \in Servers |-> NoSnapshot]
  /\ rewritten = {}
  /\ loose = {}

-----------------------------------------------------------------------------
\* Helpers

UnitsOf(row) == {row.vehicle, row.driver} \ {NoUnit}

EndRequest(w) ==
  /\ asked' = [asked EXCEPT ![w] = NoRequest]
  /\ snapshot' = [snapshot EXCEPT ![w] = NoSnapshot]

MayRewrite == Cardinality(rewritten) + Cardinality(loose) < MaxRewrites

\* The units in S get a status; the vehicles among them an availability too.
Put(S, s) ==
  /\ unit' = [u \in Units |-> IF u \in S THEN s ELSE unit[u]]
  /\ assigned' = IF s = "ON_TRIP" THEN assigned \cup (S \cap Vehicles) ELSE assigned \ S

\* trip.save(): every column as it was read, and the new status.  The history
\* variables note whether that undid what somebody saved in between.
SaveTrip(w) ==
  LET t   == asked[w].trip
      row == [snapshot[w].trip EXCEPT !.status = asked[w].target]
      moved == trips[t] # snapshot[w].trip
  IN  /\ trips' = [trips EXCEPT ![t] = row]
      /\ rewritten' = IF moved THEN rewritten \cup {t} ELSE rewritten
      /\ loose' = IF moved THEN loose \cup UnitsOf(trips[t]) ELSE loose

-----------------------------------------------------------------------------
\* POST /trips/: any status, vehicle and driver.
CreateTrip(t) ==
  /\ trips[t].state = "absent"
  /\ \E s \in EditStatuses, v \in Vehicles \cup {NoUnit}, d \in Drivers \cup {NoUnit} :
       LET row == [state |-> "live", status |-> s, vehicle |-> v, driver |-> d] IN
       /\ trips' = [trips EXCEPT ![t] = row]
       /\ rewritten' = IF s \in Planning THEN rewritten ELSE rewritten \cup {t}
  /\ UNCHANGED <<unit, assigned, asked, snapshot, loose>>

\* A write by hand that plans a trip, or takes one of the transitions no
\* endpoint offers, with the units it holds left alone.
ByTheBook(old, new) ==
  /\ old.state = "live"
  /\ \/ new.status = old.status
     \/ new.status \in Allowed[old.status] \ Targets
  /\ old.status \in Planning \/ UnitsOf(new) = UnitsOf(old)

\* PUT/PATCH /trips/{id}/: status, vehicle and driver are writable, past the
\* state machine.  The whole row is written as it was read before, so what is
\* saved may also be out of date, and may bring a deleted trip back.
WriteTrip(t) ==
  /\ trips[t].state # "absent"
  /\ \E s \in EditStatuses, v \in Vehicles \cup {NoUnit}, d \in Drivers \cup {NoUnit} :
       LET row == [state |-> "live", status |-> s, vehicle |-> v, driver |-> d] IN
       /\ trips' = [trips EXCEPT ![t] = row]
       /\ IF ByTheBook(trips[t], row)
          THEN UNCHANGED <<rewritten, loose>>
          ELSE /\ MayRewrite
               /\ rewritten' = rewritten \cup {t}
               /\ loose' = loose \cup UnitsOf(trips[t])
  /\ UNCHANGED <<unit, assigned, asked, snapshot>>

\* DELETE /trips/{id}/: the units stay as they are.
DeleteTrip(t) ==
  /\ MayRewrite
  /\ trips[t].state = "live"
  /\ trips' = [trips EXCEPT ![t].state = "deleted"]
  /\ loose' = loose \cup UnitsOf(trips[t])
  /\ UNCHANGED <<unit, assigned, asked, snapshot, rewritten>>

\* change_status, PUT/PATCH of a vehicle or a driver: any status, and for a
\* vehicle any availability.
WriteUnit(u) ==
  /\ MayRewrite
  /\ \E s \in UnitStatus : unit' = [unit EXCEPT ![u] = s]
  /\ \/ UNCHANGED assigned
     \/ u \in Vehicles /\ assigned' \in {assigned \cup {u}, assigned \ {u}}
  /\ loose' = loose \cup {u}
  /\ UNCHANGED <<trips, asked, snapshot, rewritten>>

\* Mutant: the current status is not checked.
MutAsk(w, t, target) ==
  /\ asked[w] = NoRequest
  /\ trips[t].state = "live"
  /\ asked' = [asked EXCEPT ![w] = [trip |-> t, target |-> target]]
  /\ snapshot' = [snapshot EXCEPT ![w] =
       [trip |-> trips[t], onTrip |-> {u \in UnitsOf(trips[t]) : unit[u] = "ON_TRIP"}]]
  /\ UNCHANGED <<trips, unit, assigned, rewritten, loose>>

\* The view reads the trip, the service finds the transition allowed.
AskFor(w, t, target) ==
  /\ asked[w] = NoRequest
  /\ trips[t].state = "live"
  /\ target \in Allowed[trips[t].status]
  /\ asked' = [asked EXCEPT ![w] = [trip |-> t, target |-> target]]
  /\ snapshot' = [snapshot EXCEPT ![w] =
       [trip |-> trips[t], onTrip |-> {u \in UnitsOf(trips[t]) : unit[u] = "ON_TRIP"}]]
  /\ UNCHANGED <<trips, unit, assigned, rewritten, loose>>

\* Mutant: the vehicle and the driver are not required.
MutDispatch(w) ==
  /\ asked[w] # NoRequest /\ asked[w].target = "DISPATCHED"
  /\ Put(UnitsOf(snapshot[w].trip), "ON_TRIP")
  /\ SaveTrip(w)
  /\ EndRequest(w)

\* DISPATCHED: vehicle and driver are required, not that they are available.
DispatchTrip(w) ==
  /\ asked[w] # NoRequest /\ asked[w].target = "DISPATCHED"
  /\ NoUnit \notin {snapshot[w].trip.vehicle, snapshot[w].trip.driver}
  /\ Put(UnitsOf(snapshot[w].trip), "ON_TRIP")
  /\ SaveTrip(w)
  /\ EndRequest(w)

\* STARTED: times and odometer only.
StartTrip(w) ==
  /\ asked[w] # NoRequest /\ asked[w].target = "STARTED"
  /\ SaveTrip(w)
  /\ EndRequest(w)
  /\ UNCHANGED <<unit, assigned>>

\* COMPLETED: vehicle and driver become available, whoever else holds them.
CompleteTrip(w) ==
  /\ asked[w] # NoRequest /\ asked[w].target = "COMPLETED"
  /\ Put(UnitsOf(snapshot[w].trip), "AVAILABLE")
  /\ SaveTrip(w)
  /\ EndRequest(w)

\* Mutant: a cancelled trip keeps its units.
MutCancel(w) ==
  /\ asked[w] # NoRequest /\ asked[w].target = "CANCELLED"
  /\ SaveTrip(w)
  /\ EndRequest(w)
  /\ UNCHANGED <<unit, assigned>>

\* CANCELLED: units that were ON_TRIP when the trip was read become available.
CancelTrip(w) ==
  /\ asked[w] # NoRequest /\ asked[w].target = "CANCELLED"
  /\ Put(snapshot[w].onTrip, "AVAILABLE")
  /\ SaveTrip(w)
  /\ EndRequest(w)

\* The request fails with nothing written: no vehicle or driver to dispatch,
\* Vehicle.save refuses (its assigned driver changed), or the worker dies.
GiveUp(w) ==
  /\ asked[w] # NoRequest
  /\ EndRequest(w)
  /\ UNCHANGED <<trips, unit, assigned, rewritten, loose>>

-----------------------------------------------------------------------------
TripsNext ==
  \/ \E t \in Trips : CreateTrip(t) \/ WriteTrip(t) \/ DeleteTrip(t)
  \/ \E u \in Units : WriteUnit(u)
  \/ \E w \in Servers, t \in Trips, target \in Targets : AskFor(w, t, target)
  \/ \E w \in Servers : DispatchTrip(w) \/ StartTrip(w) \/ CompleteTrip(w) \/ CancelTrip(w) \/ GiveUp(w)

TripsSpec == TripsInit /\ [][TripsNext]_tripVars

-----------------------------------------------------------------------------
\* Properties

TripsTypeOK ==
  /\ trips \in [Trips -> Trip]
  /\ unit \in [Units -> UnitStatus]
  /\ assigned \subseteq Vehicles
  /\ asked \in [Servers -> Transition \cup {NoRequest}]
  /\ snapshot \in [Servers -> Snapshot]
  /\ rewritten \subseteq Trips
  /\ loose \subseteq Units

\* A vehicle or driver is ON_TRIP only while an active trip has it, and only
\* then is a vehicle ASSIGNED: nobody is left on a trip that is over, unless a
\* trip row was saved over a newer one, deleted, or a row written by hand.
OnTripHasTrip ==
  \A u \in Units \ loose :
    /\ unit[u] = "ON_TRIP" =>
         \E t \in Trips : trips[t].status \in Active /\ u \in UnitsOf(trips[t])
    /\ u \in Vehicles => (unit[u] = "ON_TRIP" <=> u \in assigned)

\* A trip on the road has a vehicle and a driver, unless its row was rewritten.
ActiveTripHasUnits ==
  \A t \in Trips \ rewritten :
    trips[t].status \in Active => NoUnit \notin {trips[t].vehicle, trips[t].driver}

\* A trip changes status along VALID_TRANSITIONS, whichever requests race, unless
\* its row was rewritten: saved over a newer one, or past the endpoints.
StateMachineKept ==
  [][\A t \in Trips : \/ trips'[t].status = trips[t].status
                      \/ trips[t].state = "absent"
                      \/ trips'[t].status \in Allowed[trips[t].status]
                      \/ t \in rewritten']_tripVars

\* "fleet/driver resource locking" (TripWorkflowService): two active trips never
\* have the same vehicle or driver.
TripsDoNotShareUnits ==
  \A t1, t2 \in Trips :
    t1 # t2 /\ trips[t1].status \in Active /\ trips[t2].status \in Active
      => UnitsOf(trips[t1]) \cap UnitsOf(trips[t2]) = {}
=============================================================================
