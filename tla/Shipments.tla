------------------------------ MODULE Shipments ------------------------------
(***************************************************************************)
(* One shipment: its status, its tracking events, its pickup legs, its     *)
(* delivery, the proof of that delivery and the commissions it earns.      *)
(*                                                                         *)
(* Every endpoint reads its rows first, outside any transaction and        *)
(* without a lock, and writes them later in one transaction.  Such a       *)
(* transaction writes the pickup leg or the proof before the shipment, so  *)
(* its row locks never wait in a circle, and it takes effect as a whole    *)
(* when it commits: the request is a read step and a commit step.          *)
(* Verifying a delivery reads the proof in a step of its own.  The         *)
(* warehouse and the booking write tracking events too, and leave the      *)
(* shipment alone.                                                         *)
(***************************************************************************)
EXTENDS Naturals

CONSTANTS
  Legs,             \* pickup legs of the shipment
  Codes,            \* one-time codes the server may draw
  Targets,          \* statuses clients ask a transition to
  HandWritten,      \* statuses clients write to a leg by PUT or PATCH
  Workers,          \* web workers: each handles one request at a time
  NoCode,           \* a proof without a code, or a client that sends none
  MaxCommissions    \* bound: verifications that earn a commission

VARIABLES
  status,        \* Shipment.status
  latest,        \* the status shown by the newest tracking event
  picked,        \* of the tracking events, the pickup milestones that were recorded
  legs,          \* ShipmentPickup.status of each leg
  delivery,      \* the Delivery row: does it exist, does it have an agent that earns
  pod,           \* the ProofOfDelivery row
  commissions,   \* CourierCommission rows of this delivery
  req,           \* what each worker is doing, with the rows it has read
  astray,        \* history: an edit, a failed pickup or an event of the warehouse or
                 \* the booking spoke last, and from an old status
  byHand,        \* history: legs whose status was written by PUT or PATCH
  entered        \* history: codes that passed a verification

vars == <<status, latest, picked, legs, delivery, pod, commissions, req, astray, byHand, entered>>

ShipmentStatus == {"BOOKED", "PICKUP_ASSIGNED", "PICKUP_IN_PROGRESS", "PICKED_UP", "AT_HUB",
                   "SORTING_PENDING", "SORTING", "SORTED", "IN_TRANSIT", "DESTINATION_HUB",
                   "OUT_FOR_DELIVERY", "DELIVERY_ATTEMPTED", "DELIVERED", "DELIVERY_FAILED",
                   "RETURNED", "CANCELLED"}

PickupStatus == {"PENDING", "ASSIGNED", "IN_PROGRESS", "COMPLETED", "FAILED", "RESCHEDULED"}

ASSUME ShipmentsAssumption ==
  /\ NoCode \notin Codes
  /\ Targets \subseteq ShipmentStatus
  /\ HandWritten \subseteq PickupStatus
  /\ MaxCommissions \in Nat

\* ALLOWED_TRANSITIONS
Allowed ==
  [BOOKED             |-> {"PICKUP_ASSIGNED", "CANCELLED", "AT_HUB"},
   PICKUP_ASSIGNED    |-> {"PICKUP_IN_PROGRESS", "CANCELLED"},
   PICKUP_IN_PROGRESS |-> {"PICKED_UP", "PICKUP_ASSIGNED", "CANCELLED"},
   PICKED_UP          |-> {"AT_HUB"},
   AT_HUB             |-> {"SORTING_PENDING", "SORTING", "IN_TRANSIT"},
   SORTING_PENDING    |-> {"SORTING"},
   SORTING            |-> {"SORTED"},
   SORTED             |-> {"IN_TRANSIT", "DESTINATION_HUB"},
   IN_TRANSIT         |-> {"DESTINATION_HUB", "AT_HUB"},
   DESTINATION_HUB    |-> {"OUT_FOR_DELIVERY"},
   OUT_FOR_DELIVERY   |-> {"DELIVERY_ATTEMPTED", "DELIVERED", "DELIVERY_FAILED", "RETURNED"},
   DELIVERY_ATTEMPTED |-> {"OUT_FOR_DELIVERY", "RETURNED", "DELIVERY_FAILED"},
   DELIVERY_FAILED    |-> {"OUT_FOR_DELIVERY", "RETURNED"},
   RETURNED           |-> {},
   DELIVERED          |-> {},
   CANCELLED          |-> {}]

\* What record_pickup_progress makes of a leg; the actions that move the
\* shipment too have a milestone.
LegStatusOf == [ASSIGN |-> "ASSIGNED", START |-> "IN_PROGRESS", COMPLETE |-> "COMPLETED", FAIL |-> "FAILED"]

MilestoneOf == [ASSIGN |-> "PICKUP_ASSIGNED", START |-> "PICKUP_IN_PROGRESS", COMPLETE |-> "PICKED_UP"]

LegActions == DOMAIN LegStatusOf

Milestones == {MilestoneOf[a] : a \in DOMAIN MilestoneOf}

\* VerificationMethod: BOTH is treated as OTP by every line that looks at it.
Methods == {"OTP", "DIGITAL_SIGNATURE"}

Pod == [state : {"absent", "live", "deleted"}, method : Methods, code : Codes \cup {NoCode}, verified : BOOLEAN]

NoPod == [state |-> "absent", method |-> "OTP", code |-> NoCode, verified |-> FALSE]

\* An agent whose rate is zero earns nothing: it counts as no agent.
Delivery == [exists : BOOLEAN, agent : BOOLEAN]

Idle == [op |-> "idle"]

Request ==
  {Idle}
    \cup [op : {"transition"}, target : Targets, read : ShipmentStatus]
    \cup [op : {"pickup"}, leg : Legs, action : LegActions, read : ShipmentStatus]
    \cup [op : {"verify"}, code : Codes \cup {NoCode}, agent : BOOLEAN]
    \cup [op : {"prove"}, agent : BOOLEAN, pod : Pod]
    \cup [op : {"edit"}, read : ShipmentStatus]
    \cup [op : {"handle"}, read : ShipmentStatus]
    \cup [op : {"editPod"}, read : Pod]

Init ==
  /\ status = "BOOKED"
  /\ latest = "BOOKED"
  /\ picked = {}
  /\ legs = [l \in Legs |-> "PENDING"]
  /\ delivery = [exists |-> FALSE, agent |-> FALSE]
  /\ pod = NoPod
  /\ commissions = 0
  /\ req = [w \in Workers |-> Idle]
  /\ astray = FALSE
  /\ byHand = {}
  /\ entered = {}

-----------------------------------------------------------------------------
\* Helpers

Accept(w, r) ==
  /\ req[w] = Idle
  /\ req' = [req EXCEPT ![w] = r]

Answer(w) == req' = [req EXCEPT ![w] = Idle]

MutMayBecome(read, target) ==   \* mutant: cancelling is always possible
  target \in Allowed[read] \cup {read, "CANCELLED"}

\* The check of transition_status, on the status the request has read.
MayBecome(read, target) == target \in Allowed[read] \cup {read}

MutRecord(target) ==   \* mutant: the event shows the old status
  /\ status' = target
  /\ latest' = status
  /\ picked' = picked \cup ({target} \cap Milestones)
  /\ astray' = FALSE

\* shipment.save(update_fields=['status', ...]) and the tracking event.
Record(target) ==
  /\ status' = target
  /\ latest' = target
  /\ picked' = picked \cup ({target} \cap Milestones)
  /\ astray' = FALSE

-----------------------------------------------------------------------------
\* POST /shipments/{id}/transition/: get_object ...
BeginTransition(w, target) ==
  /\ Accept(w, [op |-> "transition", target |-> target, read |-> status])
  /\ UNCHANGED <<status, latest, picked, legs, delivery, pod, commissions, astray, byHand, entered>>

\* ... and transition_status.
Transition(w) ==
  /\ req[w].op = "transition"
  /\ MayBecome(req[w].read, req[w].target)
  /\ Record(req[w].target)
  /\ Answer(w)
  /\ UNCHANGED <<legs, delivery, pod, commissions, byHand, entered>>

RefuseTransition(w) ==
  /\ req[w].op = "transition"
  /\ ~MayBecome(req[w].read, req[w].target)
  /\ Answer(w)
  /\ UNCHANGED <<status, latest, picked, legs, delivery, pod, commissions, astray, byHand, entered>>

-----------------------------------------------------------------------------
\* POST /pickups/{id}/assign/, start/, complete/ and fail/: the leg is read
\* with its shipment.
BeginPickup(w, l, a) ==
  /\ Accept(w, [op |-> "pickup", leg |-> l, action |-> a, read |-> status])
  /\ UNCHANGED <<status, latest, picked, legs, delivery, pod, commissions, astray, byHand, entered>>

SaveLeg(l, a) ==
  /\ legs' = [legs EXCEPT ![l] = LegStatusOf[a]]
  /\ byHand' = byHand \ {l}

\* The leg, whatever its status was, and the shipment in one transaction.
AdvancePickup(w) ==
  LET r == req[w] IN
  /\ r.op = "pickup"
  /\ r.action \in DOMAIN MilestoneOf
  /\ MayBecome(r.read, MilestoneOf[r.action])
  /\ SaveLeg(r.leg, r.action)
  /\ Record(MilestoneOf[r.action])
  /\ Answer(w)
  /\ UNCHANGED <<delivery, pod, commissions, entered>>

MutRefusePickup(w) ==   \* mutant: record_pickup_progress is not atomic
  LET r == req[w] IN
  /\ r.op = "pickup"
  /\ r.action \in DOMAIN MilestoneOf
  /\ ~MayBecome(r.read, MilestoneOf[r.action])
  /\ SaveLeg(r.leg, r.action)
  /\ Answer(w)
  /\ UNCHANGED <<status, latest, picked, delivery, pod, commissions, astray, entered>>

\* transition_status raises: the leg that was saved before is rolled back.
RefusePickup(w) ==
  LET r == req[w] IN
  /\ r.op = "pickup"
  /\ r.action \in DOMAIN MilestoneOf
  /\ ~MayBecome(r.read, MilestoneOf[r.action])
  /\ Answer(w)
  /\ UNCHANGED <<status, latest, picked, legs, delivery, pod, commissions, astray, byHand, entered>>

\* FAIL leaves the shipment alone; its event shows the status that was read.
FailPickup(w) ==
  LET r == req[w] IN
  /\ r.op = "pickup"
  /\ r.action = "FAIL"
  /\ SaveLeg(r.leg, "FAIL")
  /\ latest' = r.read
  /\ astray' = (r.read # status)
  /\ Answer(w)
  /\ UNCHANGED <<status, picked, delivery, pod, commissions, entered>>

\* PUT/PATCH /pickups/{id}/: the status is writable.
EditLeg(l, s) ==
  /\ legs' = [legs EXCEPT ![l] = s]
  /\ byHand' = byHand \cup {l}
  /\ UNCHANGED <<status, latest, picked, delivery, pod, commissions, req, astray, entered>>

-----------------------------------------------------------------------------
\* Events that move nothing: POST .../consolidation-groups/{id}/add-item/ and
\* .../cross-docks/{id}/advance-status/ read the shipment ...  The first event
\* of a booking is one of them: its request goes on from the status BOOKED.
BeginHandling(w) ==
  /\ Accept(w, [op |-> "handle", read |-> status])
  /\ UNCHANGED <<status, latest, picked, legs, delivery, pod, commissions, astray, byHand, entered>>

\* ... and write an event with the status that was read.
RecordHandling(w) ==
  /\ req[w].op = "handle"
  /\ latest' = req[w].read
  /\ astray' = (req[w].read # status)
  /\ Answer(w)
  /\ UNCHANGED <<status, picked, legs, delivery, pod, commissions, byHand, entered>>

-----------------------------------------------------------------------------
\* PUT/PATCH /shipments/{id}/: the status is read-only for clients, but the
\* save writes every column, as get_object read it.
BeginEdit(w) ==
  /\ Accept(w, [op |-> "edit", read |-> status])
  /\ UNCHANGED <<status, latest, picked, legs, delivery, pod, commissions, astray, byHand, entered>>

SaveEdit(w) ==
  /\ req[w].op = "edit"
  /\ status' = req[w].read
  /\ astray' = IF req[w].read = status THEN astray ELSE TRUE
  /\ Answer(w)
  /\ UNCHANGED <<latest, picked, legs, delivery, pod, commissions, byHand, entered>>

-----------------------------------------------------------------------------
\* POST, PUT and PATCH of the delivery: every column is writable, and
\* nothing reads its delivery_status back.
SaveDelivery(agent) ==
  /\ delivery' = [exists |-> TRUE, agent |-> agent]
  /\ UNCHANGED <<status, latest, picked, legs, pod, commissions, req, astray, byHand, entered>>

MutGenerateOtp(code) ==   \* mutant: a new code leaves otp_verified as it was
  /\ delivery.exists
  /\ pod.state # "deleted"
  /\ pod' = [pod EXCEPT !.state = "live", !.code = code]
  /\ UNCHANGED <<status, latest, picked, legs, delivery, commissions, req, astray, byHand, entered>>

MutOtpNoRow(code) ==   \* mutant: the code is stored where no proof exists
  /\ delivery.exists
  /\ pod.state # "deleted"
  /\ pod' = [pod EXCEPT !.code = code, !.verified = FALSE]
  /\ UNCHANGED <<status, latest, picked, legs, delivery, commissions, req, astray, byHand, entered>>

\* POST /deliveries/{id}/generate-otp/: get_or_create, then the new code.  A
\* proof that was soft-deleted is not found and cannot be created again.
GenerateOtp(code) ==
  /\ delivery.exists
  /\ pod.state # "deleted"
  /\ pod' = [pod EXCEPT !.state = "live", !.code = code, !.verified = FALSE]
  /\ UNCHANGED <<status, latest, picked, legs, delivery, commissions, req, astray, byHand, entered>>

\* POST /proofs/: neither code nor otp_verified can be written by a client.
CreatePod(m) ==
  /\ delivery.exists
  /\ pod.state = "absent"
  /\ pod' = [NoPod EXCEPT !.state = "live", !.method = m]
  /\ UNCHANGED <<status, latest, picked, legs, delivery, commissions, req, astray, byHand, entered>>

\* DELETE /proofs/{id}/: update_fields, so the other columns stay.
DeletePod ==
  /\ pod.state = "live"
  /\ pod' = [pod EXCEPT !.state = "deleted"]
  /\ UNCHANGED <<status, latest, picked, legs, delivery, commissions, req, astray, byHand, entered>>

\* PUT/PATCH /proofs/{id}/: the method is writable; the rest is saved as read.
BeginEditPod(w) ==
  /\ pod.state = "live"
  /\ Accept(w, [op |-> "editPod", read |-> pod])
  /\ UNCHANGED <<status, latest, picked, legs, delivery, pod, commissions, astray, byHand, entered>>

SaveEditPod(w, m) ==
  /\ req[w].op = "editPod"
  /\ pod' = [req[w].read EXCEPT !.method = m]
  /\ Answer(w)
  /\ UNCHANGED <<status, latest, picked, legs, delivery, commissions, astray, byHand, entered>>

-----------------------------------------------------------------------------
\* POST /deliveries/{id}/verify-pod/: get_object reads the delivery ...
BeginVerify(w, code) ==
  /\ delivery.exists
  /\ Accept(w, [op |-> "verify", code |-> code, agent |-> delivery.agent])
  /\ UNCHANGED <<status, latest, picked, legs, delivery, pod, commissions, astray, byHand, entered>>

\* ... get_or_create reads the proof, and the code is compared.  A proof
\* created here has no code, and is rolled back with the refusal.
CheckCode(w) ==
  /\ req[w].op = "verify"
  /\ pod.state = "live"
  /\ pod.method = "OTP" => req[w].code \in Codes /\ req[w].code = pod.code
  /\ LET proven == [pod EXCEPT !.verified = @ \/ pod.method = "OTP"]
     IN  req' = [req EXCEPT ![w] = [op |-> "prove", agent |-> req[w].agent, pod |-> proven]]
  /\ UNCHANGED <<status, latest, picked, legs, delivery, pod, commissions, astray, byHand, entered>>

RefuseCode(w) ==
  /\ req[w].op = "verify"
  /\ pod.state # "live" \/ (pod.method = "OTP" /\ (req[w].code = NoCode \/ req[w].code # pod.code))
  /\ Answer(w)
  /\ UNCHANGED <<status, latest, picked, legs, delivery, pod, commissions, astray, byHand, entered>>

\* The whole proof as it was read, the delivery, the shipment from whatever
\* status it has, its event, and the commission of the agent.
CompletePod(w) ==
  LET r == req[w] IN
  /\ r.op = "prove"
  /\ r.agent => commissions < MaxCommissions
  /\ pod' = r.pod
  /\ entered' = IF r.pod.method = "OTP" THEN entered \cup {r.pod.code} ELSE entered
  /\ Record("DELIVERED")
  /\ commissions' = IF r.agent THEN commissions + 1 ELSE commissions
  /\ Answer(w)
  /\ UNCHANGED <<legs, delivery, byHand>>

\* The request is cut off, or the database refuses: nothing was committed.
BreakOff(w) ==
  /\ req[w] # Idle
  /\ Answer(w)
  /\ UNCHANGED <<status, latest, picked, legs, delivery, pod, commissions, astray, byHand, entered>>

-----------------------------------------------------------------------------
Next ==
  \/ \E w \in Workers :
       \/ \E s \in Targets : BeginTransition(w, s)
       \/ Transition(w)
       \/ RefuseTransition(w)
       \/ \E l \in Legs, a \in LegActions : BeginPickup(w, l, a)
       \/ AdvancePickup(w)
       \/ RefusePickup(w)
       \/ FailPickup(w)
       \/ BeginHandling(w)
       \/ RecordHandling(w)
       \/ BeginEdit(w)
       \/ SaveEdit(w)
       \/ BeginEditPod(w)
       \/ \E m \in Methods : SaveEditPod(w, m)
       \/ \E c \in Codes \cup {NoCode} : BeginVerify(w, c)
       \/ CheckCode(w)
       \/ RefuseCode(w)
       \/ CompletePod(w)
       \/ BreakOff(w)
  \/ \E l \in Legs, s \in HandWritten : EditLeg(l, s)
  \/ \E agent \in BOOLEAN : SaveDelivery(agent)
  \/ \E c \in Codes : GenerateOtp(c)
  \/ \E m \in Methods : CreatePod(m)
  \/ DeletePod

Spec == Init /\ [][Next]_vars

-----------------------------------------------------------------------------
\* Properties

\* Every row and every request has its columns' values, at most
\* MaxCommissions commissions are earned, and a proof that is not there is
\* the blank one (get_or_create in apps/courier/services.py).
TypeOK ==
  /\ status \in ShipmentStatus
  /\ latest \in ShipmentStatus
  /\ picked \subseteq Milestones
  /\ legs \in [Legs -> PickupStatus]
  /\ delivery \in Delivery
  /\ pod \in Pod
  /\ commissions \in 0..MaxCommissions
  /\ req \in [Workers -> Request]
  /\ astray \in BOOLEAN
  /\ byHand \subseteq Legs
  /\ entered \subseteq Codes
  /\ pod.state = "absent" => pod = NoPod

\* The request is about to write the status from a shipment that has moved
\* since it read it.
Overtaken(w) ==
  /\ req[w].op \in {"transition", "pickup", "edit"}
  /\ req[w].read # status

\* ALLOWED_TRANSITIONS is kept by transitions and pickups of any number of
\* requests: the status moves some other way only to DELIVERED, by a
\* verification whose code was right, or by a request that read the shipment
\* before it last moved.
StateMachineKept ==
  [][status' # status =>
       \/ status' \in Allowed[status]
       \/ status' = "DELIVERED" /\ \E w \in Workers : req[w].op = "prove" /\ req'[w] = Idle
       \/ \E w \in Workers : Overtaken(w) /\ req'[w] = Idle]_vars

\* What the tracking page shows last is the status of the shipment, through
\* transitions, pickups and verifications that overtake each other, except
\* after an edit, a failed pickup, or an event of the warehouse or the booking
\* that worked from an older status.
MilestoneAgrees == ~astray => latest = status

\* A leg that says assigned, in progress or completed, and was not written by
\* hand, has that milestone among the tracking events: the leg and the
\* shipment are saved together or not at all (record_pickup_progress).
LegsMatchTrail ==
  \A l \in Legs \ byHand, a \in DOMAIN MilestoneOf :
    legs[l] = LegStatusOf[a] => MilestoneOf[a] \in picked

\* A proof marked as verified holds a code that somebody entered for it.  A
\* new code clears the mark, and every other save writes code and mark
\* together, as a pair that was true when it was read.
VerifiedCodeWasEntered == pod.verified => pod.code \in entered

=============================================================================
