--------------------------- MODULE ShipmentsProofs ---------------------------
(***************************************************************************)
(* Proofs about Shipments, for any legs, codes, workers, and sets of       *)
(* requested and hand-written statuses.                                    *)
(*                                                                         *)
(* The argument: the two steps that write a proof from memory, an edit and *)
(* a completed verification, write code and mark as a pair that was read   *)
(* at one moment (ReadTogether), and a code that was entered stays         *)
(* entered; a leg and its milestone are saved in one step; and whoever     *)
(* writes the status without an event, or an event without the status,     *)
(* works from an older status or changes nothing.                          *)
(***************************************************************************)
EXTENDS Shipments, TLAPS

\* The proofs that requests hold in memory: one that is about to be edited
\* was consistent when it was read, one that is about to be completed will be
\* once its code counts as entered.
ReadTogether ==
  \A w \in Workers :
    /\ req[w].op = "editPod" =>
         /\ req[w].read.state = "live"
         /\ req[w].read.verified => req[w].read.code \in entered
    /\ req[w].op = "prove" =>
         /\ req[w].pod.state = "live"
         /\ req[w].pod.method = "OTP" => req[w].pod.code \in Codes
         /\ req[w].pod.method # "OTP" /\ req[w].pod.verified => req[w].pod.code \in entered

Consistent == MilestoneAgrees /\ LegsMatchTrail /\ VerifiedCodeWasEntered

IInv == TypeOK /\ ReadTogether /\ Consistent

-----------------------------------------------------------------------------
\* The request of a worker has the fields of its operation.
LEMMA RequestShape ==
  ASSUME NEW r \in Request
  PROVE  /\ r.op = "transition" => r.target \in ShipmentStatus /\ r.read \in ShipmentStatus
         /\ r.op = "pickup" => r.leg \in Legs /\ r.action \in LegActions /\ r.read \in ShipmentStatus
         /\ r.op = "verify" => r.code \in Codes \cup {NoCode} /\ r.agent \in BOOLEAN
         /\ r.op = "prove" => r.agent \in BOOLEAN /\ r.pod \in Pod
         /\ r.op \in {"edit", "handle"} => r.read \in ShipmentStatus
         /\ r.op = "editPod" => r.read \in Pod
BY ShipmentsAssumption DEF Request, Idle

\* What the actions of a leg make of it, and of the shipment.
LEMMA LegTables ==
  /\ \A a \in LegActions : LegStatusOf[a] \in PickupStatus
  /\ \A a \in DOMAIN MilestoneOf : MilestoneOf[a] \in Milestones /\ a \in LegActions
  /\ Milestones \subseteq ShipmentStatus
  /\ \A a, b \in DOMAIN MilestoneOf : LegStatusOf[a] = LegStatusOf[b] => a = b
  /\ \A a \in DOMAIN MilestoneOf : LegStatusOf[a] # "PENDING" /\ LegStatusOf[a] # LegStatusOf["FAIL"]
BY DEF LegActions, LegStatusOf, MilestoneOf, Milestones, PickupStatus, ShipmentStatus

\* A worker that takes or ends a request: every request stays well formed.
LEMMA AcceptType ==
  ASSUME TypeOK, NEW w \in Workers, NEW r \in Request, Accept(w, r)
  PROVE  req' \in [Workers -> Request]
BY DEF TypeOK, Accept

\* A worker that answers: every request stays well formed.
LEMMA AnswerType ==
  ASSUME TypeOK, NEW w \in Workers, Answer(w)
  PROVE  req' \in [Workers -> Request]
BY DEF TypeOK, Answer, Request

\* The inductive invariant holds at the start.
LEMMA InitIInv == Init => IInv
<1> SUFFICES ASSUME Init PROVE IInv
  OBVIOUS
<1> USE DEF Init
<1>1. TypeOK
  <2>1. Idle \in Request
    BY DEF Request
  <2>2. NoPod \in Pod
    BY DEF Pod, NoPod, Methods
  <2>3. "BOOKED" \in ShipmentStatus /\ "PENDING" \in PickupStatus
    BY DEF ShipmentStatus, PickupStatus
  <2>4. delivery \in Delivery
    BY DEF Delivery
  <2>5. 0 \in 0..MaxCommissions
    BY ShipmentsAssumption
  <2>6. QED
    BY <2>1, <2>2, <2>3, <2>4, <2>5 DEF TypeOK
<1>2. ReadTogether
  BY DEF ReadTogether, Idle
<1>3. Consistent
  BY LegTables DEF Consistent, MilestoneAgrees, LegsMatchTrail, VerifiedCodeWasEntered, NoPod
<1>4. QED
  BY <1>1, <1>2, <1>3 DEF IInv

-----------------------------------------------------------------------------
\* A transition keeps the invariant: status and event move together.
LEMMA TransitionIInv ==
  ASSUME IInv, NEW w \in Workers, Transition(w)
  PROVE  IInv'
<1> USE DEF IInv, Transition, Record
<1>1. req[w].target \in ShipmentStatus
  BY RequestShape DEF TypeOK
<1>2. TypeOK'
  BY <1>1, AnswerType DEF TypeOK
<1>3. ReadTogether'
  BY DEF ReadTogether, Answer, Idle, TypeOK
<1>4. Consistent'
  BY DEF Consistent, MilestoneAgrees, LegsMatchTrail, VerifiedCodeWasEntered
<1>5. QED
  BY <1>2, <1>3, <1>4

\* A pickup keeps it: the leg and its milestone are saved together.
LEMMA AdvancePickupIInv ==
  ASSUME IInv, NEW w \in Workers, AdvancePickup(w)
  PROVE  IInv'
<1> USE DEF IInv, AdvancePickup, Record, SaveLeg
<1>1. req[w].leg \in Legs /\ req[w].action \in LegActions
  BY RequestShape DEF TypeOK
<1>2. /\ LegStatusOf[req[w].action] \in PickupStatus
      /\ MilestoneOf[req[w].action] \in Milestones
      /\ MilestoneOf[req[w].action] \in ShipmentStatus
  BY <1>1, LegTables
<1>3. TypeOK'
  BY <1>1, <1>2, AnswerType DEF TypeOK
<1>4. ReadTogether'
  BY DEF ReadTogether, Answer, Idle, TypeOK
<1>5. LegsMatchTrail'
  BY <1>1, <1>2, LegTables DEF Consistent, LegsMatchTrail, TypeOK
<1>6. Consistent'
  BY <1>5 DEF Consistent, MilestoneAgrees, VerifiedCodeWasEntered
<1>7. QED
  BY <1>3, <1>4, <1>6

\* A failed pickup keeps it: its event may show an older status, and says so.
LEMMA FailPickupIInv ==
  ASSUME IInv, NEW w \in Workers, FailPickup(w)
  PROVE  IInv'
<1> USE DEF IInv, FailPickup, SaveLeg
<1>1. req[w].leg \in Legs /\ req[w].read \in ShipmentStatus
  BY RequestShape DEF TypeOK
<1>2. LegStatusOf["FAIL"] \in PickupStatus
  BY LegTables DEF LegActions, LegStatusOf
<1>3. TypeOK'
  BY <1>1, <1>2, AnswerType DEF TypeOK
<1>4. ReadTogether'
  BY DEF ReadTogether, Answer, Idle, TypeOK
<1>5. LegsMatchTrail'
  BY <1>1, LegTables DEF Consistent, LegsMatchTrail, TypeOK
<1>6. Consistent'
  BY <1>5 DEF Consistent, MilestoneAgrees, VerifiedCodeWasEntered
<1>7. QED
  BY <1>3, <1>4, <1>6

\* An event of the warehouse or the booking keeps it: it may show an older
\* status, and says so.
LEMMA RecordHandlingIInv ==
  ASSUME IInv, NEW w \in Workers, RecordHandling(w)
  PROVE  IInv'
<1> USE DEF IInv, RecordHandling
<1>1. req[w].read \in ShipmentStatus
  BY RequestShape DEF TypeOK
<1>2. TypeOK'
  BY <1>1, AnswerType DEF TypeOK
<1>3. ReadTogether'
  BY DEF ReadTogether, Answer, Idle, TypeOK
<1>4. Consistent'
  BY DEF Consistent, MilestoneAgrees, LegsMatchTrail, VerifiedCodeWasEntered
<1>5. QED
  BY <1>2, <1>3, <1>4

\* An edit of the shipment keeps it: it writes an older status, and says so.
LEMMA SaveEditIInv ==
  ASSUME IInv, NEW w \in Workers, SaveEdit(w)
  PROVE  IInv'
<1> USE DEF IInv, SaveEdit
<1>1. req[w].read \in ShipmentStatus
  BY RequestShape DEF TypeOK
<1>2. TypeOK'
  BY <1>1, AnswerType DEF TypeOK
<1>3. ReadTogether'
  BY DEF ReadTogether, Answer, Idle, TypeOK
<1>4. Consistent'
  BY DEF Consistent, MilestoneAgrees, LegsMatchTrail, VerifiedCodeWasEntered
<1>5. QED
  BY <1>2, <1>3, <1>4

\* An edit of the proof keeps it: code and mark are a pair that was read.
LEMMA SaveEditPodIInv ==
  ASSUME IInv, NEW w \in Workers, NEW m \in Methods, SaveEditPod(w, m)
  PROVE  IInv'
<1> USE DEF IInv, SaveEditPod
<1>1. /\ req[w].read \in Pod
      /\ req[w].read.state = "live"
      /\ req[w].read.verified => req[w].read.code \in entered
  BY RequestShape DEF TypeOK, ReadTogether
<1>2. /\ pod' \in Pod
      /\ pod'.state = "live"
      /\ pod'.verified => pod'.code \in entered
  BY <1>1 DEF Pod
<1>3. TypeOK'
  BY <1>2, AnswerType DEF TypeOK, NoPod
<1>4. ReadTogether'
  BY DEF ReadTogether, Answer, Idle, TypeOK
<1>5. Consistent'
  BY <1>2 DEF Consistent, MilestoneAgrees, LegsMatchTrail, VerifiedCodeWasEntered
<1>6. QED
  BY <1>3, <1>4, <1>5

\* The check of the code keeps it: what it will write is what it has read,
\* marked as verified if the code was right.
LEMMA CheckCodeIInv ==
  ASSUME IInv, NEW w \in Workers, CheckCode(w)
  PROVE  IInv'
<1> USE DEF IInv, CheckCode
<1> DEFINE proven == [pod EXCEPT !.verified = @ \/ pod.method = "OTP"]
           r == [op |-> "prove", agent |-> req[w].agent, pod |-> proven]
<1>1. req[w].agent \in BOOLEAN
  BY RequestShape DEF TypeOK
<1>2. /\ proven \in Pod
      /\ proven.state = "live"
      /\ proven.method = "OTP" => proven.code \in Codes
      /\ proven.method # "OTP" /\ proven.verified => proven.code \in entered
  BY DEF TypeOK, Pod, Consistent, VerifiedCodeWasEntered
<1> HIDE DEF proven
<1>3. r \in Request /\ r.op = "prove" /\ r.pod = proven
  BY <1>1, <1>2 DEF Request
<1> HIDE DEF r
<1>4. req' = [req EXCEPT ![w] = r]
  BY DEF r, proven
<1>5. TypeOK'
  BY <1>3, <1>4 DEF TypeOK
<1>6. ReadTogether'
  BY <1>2, <1>3, <1>4 DEF ReadTogether, TypeOK
<1>7. Consistent'
  BY DEF Consistent, MilestoneAgrees, LegsMatchTrail, VerifiedCodeWasEntered
<1>8. QED
  BY <1>5, <1>6, <1>7

\* A completed verification keeps it: the code it stores counts as entered.
LEMMA CompletePodIInv ==
  ASSUME IInv, NEW w \in Workers, CompletePod(w)
  PROVE  IInv'
<1> USE DEF IInv, CompletePod, Record
<1>1. /\ req[w].pod \in Pod /\ req[w].agent \in BOOLEAN
      /\ req[w].pod.state = "live"
      /\ req[w].pod.method = "OTP" => req[w].pod.code \in Codes
      /\ req[w].pod.method # "OTP" /\ req[w].pod.verified => req[w].pod.code \in entered
  BY RequestShape DEF TypeOK, ReadTogether
<1>2. entered \subseteq entered' /\ entered' \subseteq Codes
  BY <1>1 DEF TypeOK
<1>3. "DELIVERED" \in ShipmentStatus /\ {"DELIVERED"} \cap Milestones = {}
  BY DEF ShipmentStatus, Milestones, MilestoneOf
<1>4. commissions' \in 0..MaxCommissions
  BY ShipmentsAssumption DEF TypeOK
<1>5. TypeOK'
  BY <1>1, <1>2, <1>3, <1>4, AnswerType DEF TypeOK, NoPod
<1>6. ReadTogether'
  BY <1>2 DEF ReadTogether, Answer, Idle, TypeOK
<1>7. VerifiedCodeWasEntered'
  BY <1>1 DEF VerifiedCodeWasEntered
<1>8. Consistent'
  BY <1>7 DEF Consistent, MilestoneAgrees, LegsMatchTrail
<1>9. QED
  BY <1>5, <1>6, <1>8

\* A request that begins keeps it: what it has read is what the rows are.
LEMMA BeginIInv ==
  ASSUME IInv, NEW w \in Workers, NEW r \in Request, Accept(w, r),
         UNCHANGED <<status, latest, picked, legs, delivery, pod, commissions, astray, byHand, entered>>,
         r.op # "prove", r.op = "editPod" => r.read = pod /\ pod.state = "live"
  PROVE  IInv'
<1>1. TypeOK'
  BY AcceptType DEF IInv, TypeOK
<1>2. ReadTogether'
  BY DEF IInv, ReadTogether, Consistent, VerifiedCodeWasEntered, Accept, TypeOK
<1>3. Consistent'
  BY DEF IInv, Consistent, MilestoneAgrees, LegsMatchTrail, VerifiedCodeWasEntered
<1>4. QED
  BY <1>1, <1>2, <1>3 DEF IInv

\* A request that ends without a commit keeps it.
LEMMA EndIInv ==
  ASSUME IInv, NEW w \in Workers, Answer(w),
         UNCHANGED <<status, latest, picked, legs, delivery, pod, commissions, astray, byHand, entered>>
  PROVE  IInv'
<1>1. TypeOK'
  BY AnswerType DEF IInv, TypeOK
<1>2. ReadTogether'
  BY DEF IInv, ReadTogether, Answer, Idle, TypeOK
<1>3. Consistent'
  BY DEF IInv, Consistent, MilestoneAgrees, LegsMatchTrail, VerifiedCodeWasEntered
<1>4. QED
  BY <1>1, <1>2, <1>3 DEF IInv

\* A proof that is created, deleted or given a new code at once keeps it.
LEMMA PodStepIInv ==
  ASSUME IInv, pod' \in Pod, pod'.state # "absent",
         pod'.verified => pod.verified /\ pod'.code = pod.code,
         UNCHANGED <<status, latest, picked, legs, delivery, commissions, req, astray, byHand, entered>>
  PROVE  IInv'
<1>1. TypeOK'
  BY DEF IInv, TypeOK, NoPod
<1>2. ReadTogether'
  BY DEF IInv, ReadTogether
<1>3. Consistent'
  BY DEF IInv, Consistent, MilestoneAgrees, LegsMatchTrail, VerifiedCodeWasEntered
<1>4. QED
  BY <1>1, <1>2, <1>3 DEF IInv

-----------------------------------------------------------------------------
\* Every step keeps the inductive invariant.
LEMMA NextIInv == IInv /\ [Next]_vars => IInv'
<1> SUFFICES ASSUME IInv, [Next]_vars PROVE IInv'
  OBVIOUS
<1> USE DEF IInv
<1>1. ASSUME NEW w \in Workers, NEW s \in Targets, BeginTransition(w, s) PROVE IInv'
  <2>1. [op |-> "transition", target |-> s, read |-> status] \in Request
    BY DEF Request, TypeOK
  <2>2. QED
    BY <1>1, <2>1, BeginIInv DEF BeginTransition
<1>2. ASSUME NEW w \in Workers, NEW l \in Legs, NEW a \in LegActions, BeginPickup(w, l, a) PROVE IInv'
  <2>1. [op |-> "pickup", leg |-> l, action |-> a, read |-> status] \in Request
    BY DEF Request, TypeOK
  <2>2. QED
    BY <1>2, <2>1, BeginIInv DEF BeginPickup
<1>3. ASSUME NEW w \in Workers, BeginEdit(w) PROVE IInv'
  <2>1. [op |-> "edit", read |-> status] \in Request
    BY DEF Request, TypeOK
  <2>2. QED
    BY <1>3, <2>1, BeginIInv DEF BeginEdit
<1>4. ASSUME NEW w \in Workers, BeginEditPod(w) PROVE IInv'
  <2>1. [op |-> "editPod", read |-> pod] \in Request
    BY DEF Request, TypeOK
  <2>2. QED
    BY <1>4, <2>1, BeginIInv DEF BeginEditPod
<1>5. ASSUME NEW w \in Workers, NEW c \in Codes \cup {NoCode}, BeginVerify(w, c) PROVE IInv'
  <2>1. [op |-> "verify", code |-> c, agent |-> delivery.agent] \in Request
    BY DEF Request, TypeOK, Delivery
  <2>2. QED
    BY <1>5, <2>1, BeginIInv DEF BeginVerify
<1>6. ASSUME NEW w \in Workers, RefuseTransition(w) \/ RefusePickup(w) \/ RefuseCode(w) \/ BreakOff(w)
      PROVE  IInv'
  BY <1>6, EndIInv DEF RefuseTransition, RefusePickup, RefuseCode, BreakOff
<1>7. ASSUME NEW l \in Legs, NEW s \in HandWritten, EditLeg(l, s) PROVE IInv'
  <2>1. TypeOK'
    BY <1>7, ShipmentsAssumption DEF EditLeg, TypeOK
  <2>2. ReadTogether'
    BY <1>7 DEF EditLeg, ReadTogether
  <2>3. Consistent'
    BY <1>7 DEF EditLeg, Consistent, MilestoneAgrees, LegsMatchTrail, VerifiedCodeWasEntered, TypeOK
  <2>4. QED
    BY <2>1, <2>2, <2>3
<1>8. ASSUME NEW agent \in BOOLEAN, SaveDelivery(agent) PROVE IInv'
  <2>1. TypeOK'
    BY <1>8 DEF SaveDelivery, TypeOK, Delivery
  <2>2. ReadTogether'
    BY <1>8 DEF SaveDelivery, ReadTogether
  <2>3. Consistent'
    BY <1>8 DEF SaveDelivery, Consistent, MilestoneAgrees, LegsMatchTrail, VerifiedCodeWasEntered
  <2>4. QED
    BY <2>1, <2>2, <2>3
<1>9. ASSUME NEW c \in Codes, GenerateOtp(c) PROVE IInv'
  <2>1. pod' \in Pod /\ pod'.state = "live" /\ ~pod'.verified
    BY <1>9 DEF GenerateOtp, TypeOK, Pod
  <2>2. QED
    BY <1>9, <2>1, PodStepIInv DEF GenerateOtp
<1>10. ASSUME NEW m \in Methods, CreatePod(m) PROVE IInv'
  <2>1. pod' \in Pod /\ pod'.state = "live" /\ ~pod'.verified
    BY <1>10 DEF CreatePod, NoPod, Pod
  <2>2. QED
    BY <1>10, <2>1, PodStepIInv DEF CreatePod
<1>11. ASSUME DeletePod PROVE IInv'
  <2>1. pod' \in Pod /\ pod'.state = "deleted" /\ pod'.verified = pod.verified /\ pod'.code = pod.code
    BY <1>11 DEF DeletePod, TypeOK, Pod
  <2>2. QED
    BY <1>11, <2>1, PodStepIInv DEF DeletePod
<1>12. CASE UNCHANGED vars
  <2>1. TypeOK'
    BY <1>12 DEF vars, TypeOK
  <2>2. ReadTogether'
    BY <1>12 DEF vars, ReadTogether
  <2>3. Consistent'
    BY <1>12 DEF vars, Consistent, MilestoneAgrees, LegsMatchTrail, VerifiedCodeWasEntered
  <2>4. QED
    BY <2>1, <2>2, <2>3
<1>13. ASSUME NEW w \in Workers, BeginHandling(w) PROVE IInv'
  <2>1. [op |-> "handle", read |-> status] \in Request
    BY DEF Request, TypeOK
  <2>2. QED
    BY <1>13, <2>1, BeginIInv DEF BeginHandling
<1>14. QED
  BY <1>1, <1>2, <1>3, <1>4, <1>5, <1>6, <1>7, <1>8, <1>9, <1>10, <1>11, <1>12, <1>13,
     TransitionIInv, AdvancePickupIInv, FailPickupIInv, RecordHandlingIInv, SaveEditIInv,
     SaveEditPodIInv, CheckCodeIInv, CompletePodIInv
     DEF Next

\* The inductive invariant holds in every reachable state.
THEOREM Inductive == Spec => []IInv
BY InitIInv, NextIInv, PTL DEF Spec

\* TypeOK: every row and every request keeps its columns' values.
THEOREM TypeCorrect == Spec => []TypeOK
BY Inductive, PTL DEF IInv

\* MilestoneAgrees: the newest tracking event shows the status of the
\* shipment, but for edits, failed pickups and events of the warehouse and the
\* booking that worked from an older one.
THEOREM TrailCorrect == Spec => []MilestoneAgrees
<1>1. IInv => MilestoneAgrees
  BY DEF IInv, Consistent
<1>2. QED
  BY <1>1, Inductive, PTL

\* LegsMatchTrail: a leg and its milestone are saved together or not at all.
THEOREM LegsCorrect == Spec => []LegsMatchTrail
<1>1. IInv => LegsMatchTrail
  BY DEF IInv, Consistent
<1>2. QED
  BY <1>1, Inductive, PTL

\* VerifiedCodeWasEntered: a verified proof holds a code somebody entered,
\* through new codes, edits and verifications in any order.
THEOREM ProofCorrect == Spec => []VerifiedCodeWasEntered
<1>1. IInv => VerifiedCodeWasEntered
  BY DEF IInv, Consistent
<1>2. QED
  BY <1>1, Inductive, PTL

-----------------------------------------------------------------------------
\* How the status moves in one step.
StatusMoves ==
  status' # status =>
    \/ status' \in Allowed[status]
    \/ status' = "DELIVERED" /\ \E w \in Workers : req[w].op = "prove" /\ req'[w] = Idle
    \/ \E w \in Workers : Overtaken(w) /\ req'[w] = Idle

\* A transition or a pickup whose status is still the one it read follows
\* ALLOWED_TRANSITIONS.
LEMMA NextMoves == TypeOK /\ [Next]_vars => StatusMoves
<1> SUFFICES ASSUME TypeOK, [Next]_vars, status' # status PROVE StatusMoves
  BY DEF StatusMoves
<1>1. ASSUME NEW w \in Workers, Answer(w) PROVE req'[w] = Idle
  BY <1>1 DEF Answer, TypeOK
<1>2. ASSUME NEW w \in Workers, Transition(w) PROVE StatusMoves
  BY <1>1, <1>2 DEF Transition, Record, MayBecome, Overtaken, StatusMoves
<1>3. ASSUME NEW w \in Workers, AdvancePickup(w) PROVE StatusMoves
  BY <1>1, <1>3 DEF AdvancePickup, Record, MayBecome, Overtaken, StatusMoves
<1>4. ASSUME NEW w \in Workers, SaveEdit(w) PROVE StatusMoves
  BY <1>1, <1>4 DEF SaveEdit, Overtaken, StatusMoves
<1>5. ASSUME NEW w \in Workers, CompletePod(w) PROVE StatusMoves
  BY <1>1, <1>5 DEF CompletePod, Record, StatusMoves
<1>6. QED
  BY <1>2, <1>3, <1>4, <1>5
     DEF Next, vars, BeginTransition, RefuseTransition, BeginPickup, RefusePickup, FailPickup, BeginHandling,
         RecordHandling, BeginEdit,
         BeginEditPod, SaveEditPod, BeginVerify, CheckCode, RefuseCode, BreakOff, EditLeg, SaveDelivery,
         GenerateOtp, CreatePod, DeletePod

\* StateMachineKept: the status leaves ALLOWED_TRANSITIONS only by a
\* verification or by a request that was overtaken.
THEOREM StateMachineCorrect == Spec => StateMachineKept
<1>1. TypeOK /\ [Next]_vars => [StatusMoves]_vars
  BY NextMoves
<1>2. [StatusMoves]_vars => [status' # status =>
       \/ status' \in Allowed[status]
       \/ status' = "DELIVERED" /\ \E w \in Workers : req[w].op = "prove" /\ req'[w] = Idle
       \/ \E w \in Workers : Overtaken(w) /\ req'[w] = Idle]_vars
  BY DEF StatusMoves
<1>3. QED
  BY <1>1, <1>2, TypeCorrect, PTL DEF Spec, StateMachineKept

=============================================================================
