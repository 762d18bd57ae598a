-------------------------- MODULE OperationsProofs --------------------------
(***************************************************************************)
(* Proofs about Operations, for any rows, workers, parcels and readings.   *)
(*                                                                         *)
(* The argument: what a worker has read was consistent when it read it,    *)
(* and allowed its service (ReadInv).  What was counted on a row then is   *)
(* still attached to it, since nothing is taken away, so what the service  *)
(* computes from the copy is no overstatement however old the copy is; and *)
(* if the row is still the copy, it is exact.                              *)
(***************************************************************************)
EXTENDS Operations, TLAPS

\* A worker has read a row of its table, that was consistent and allowed the
\* request.
ReadInv(w) ==
  seen[w] # Idle =>
    LET r == seen[w].id
        copy == seen[w].copy IN
    /\ row[r] # NoRow /\ row[r].kind = copy.kind
    /\ Permitted(copy, seen[w].req)
    /\ NotOverstated(copy, attached[r])
    /\ r \notin rewritten => HasTimes(copy)

\* Of a row there is not, nothing has been counted or recorded.
Blank == \A r \in Ids : row[r] = NoRow => attached[r] = 0 /\ r \notin rewritten \cup overtaken

IInv == TypeOK /\ BooksAgree /\ Blank /\ \A w \in Workers : ReadInv(w)

\* What MovesAllowed says of one row.
Moves(r) ==
  /\ (attached'[r] # attached[r] /\ row[r].kind = "group") => row[r].status = "OPEN"
  /\ row[r].deleted => row'[r].deleted
  /\ (row'[r] # row[r] /\ ~row'[r].deleted) =>
       \/ Along(row[r], row'[r])
       \/ \E w \in Workers :
            /\ seen[w].id = r /\ seen'[w] = Idle
            /\ Serving(w, "trip over") \/ Serving(w, "edit")
            /\ seen[w].req.body # <<>>

AllMove == \A r \in Ids : (row[r] # NoRow /\ r \notin overtaken') => Moves(r)

-----------------------------------------------------------------------------
\* A row is of the table its kind names.
LEMMA Kinds ==
  ASSUME NEW old \in Row
  PROVE  /\ old.kind = "group" <=> old \in Group
         /\ old.kind = "lead" <=> old \in Lead
         /\ old.kind = "shuttle" <=> old \in ShuttleTrip
         /\ old.kind = "vehicle" <=> old \in Vehicle
         /\ old.kind = "crossdock" <=> old \in CrossDock
         /\ old.deleted \in BOOLEAN
BY DEF Row, Group, Lead, ShuttleTrip, Vehicle, CrossDock

\* The columns of each table.
LEMMA Columns ==
  /\ \A old \in Group : DOMAIN old = {"kind", "deleted", "status", "total_parcels"}
  /\ \A old \in Lead : DOMAIN old = {"kind", "deleted", "status", "converted"}
  /\ \A old \in ShuttleTrip : DOMAIN old = {"kind", "deleted", "status", "started", "ended"}
  /\ \A old \in Vehicle : DOMAIN old = {"kind", "deleted", "odometer"}
  /\ \A old \in CrossDock : DOMAIN old = {"kind", "deleted", "status", "left"}
BY DEF Group, Lead, ShuttleTrip, Vehicle, CrossDock

\* Rows of one table have the same columns.
LEMMA SameColumns ==
  ASSUME NEW old \in Row, NEW new \in Row, old.kind = new.kind
  PROVE  DOMAIN old = DOMAIN new
<1>1. new \in Group \/ new \in Lead \/ new \in ShuttleTrip \/ new \in Vehicle \/ new \in CrossDock
  BY DEF Row
<1>2. QED
  BY <1>1, Kinds, Columns

\* An update of no column changes nothing.
LEMMA UpdatedNothing ==
  ASSUME NEW old \in Row
  PROVE  Updated(<<>>, old) = old
BY DEF Updated, Row, Group, Lead, ShuttleTrip, Vehicle, CrossDock

\* An update of all columns makes the row the new one.
LEMMA UpdatedAll ==
  ASSUME NEW old \in Row, NEW new \in Row, old.kind = new.kind
  PROVE  Updated(new, old) = new
<1>1. DOMAIN old = DOMAIN new
  BY SameColumns
<1>2. Updated(new, old) = [field \in DOMAIN new |-> new[field]]
  BY <1>1 DEF Updated
<1>3. new = [field \in DOMAIN new |-> new[field]]
  BY DEF Row, Group, Lead, ShuttleTrip, Vehicle, CrossDock
<1>4. QED
  BY <1>2, <1>3

\* No client gives a row another table, or the columns it may only read.
LEMMA BodyColumns ==
  ASSUME NEW body \in Body
  PROVE  DOMAIN body \cap {"kind", "deleted", "total_parcels", "converted"} = {}
BY DEF Body, Reading

\* What an edit makes of a copy.
LEMMA Edited ==
  ASSUME NEW copy \in Row, NEW body \in Body, Valid(copy, body)
  PROVE  /\ Updated(body, copy) \in Row
         /\ Updated(body, copy).kind = copy.kind
         /\ Updated(body, copy).deleted = copy.deleted
         /\ copy.kind = "group" => Updated(body, copy).total_parcels = copy.total_parcels
         /\ copy.kind = "lead" => Updated(body, copy).converted = copy.converted
<1> DEFINE new == Updated(body, copy)
<1>1. \A field \in {"kind", "deleted", "total_parcels", "converted"} :
        field \in DOMAIN copy => new[field] = copy[field]
  BY BodyColumns DEF Updated
<1>2. {"kind", "deleted"} \subseteq DOMAIN copy
  BY Columns DEF Row
<1>3. new["kind"] = copy["kind"] /\ new["deleted"] = copy["deleted"]
  BY <1>1, <1>2
<1>4. copy.kind = "group" => new["total_parcels"] = copy["total_parcels"]
  BY <1>1, Kinds, Columns
<1>5. copy.kind = "lead" => new["converted"] = copy["converted"]
  BY <1>1, Kinds, Columns
<1>6. QED
  BY <1>3, <1>4, <1>5 DEF Valid

\* What a request carries.
LEMMA Requests ==
  ASSUME NEW req \in Request
  PROVE  /\ req.op = "add" => req.parcels \in Parcels
         /\ req.op = "odometer" => req.reading \in Readings
         /\ req.op \in {"edit", "trip over"} => req.body \in Body
         /\ req.op = "advance" => req.status \in CrossDockStatus
BY DEF Request, Body

\* A worker that serves a request has read a row, which allowed it.
LEMMA Served ==
  ASSUME TypeOK, NEW w \in Workers, NEW op, Serving(w, op), ReadInv(w)
  PROVE  /\ seen[w] # Idle
         /\ seen[w].id \in Ids /\ seen[w].copy \in Row /\ seen[w].req \in Request
         /\ seen[w].req.op = op
         /\ row[seen[w].id] \in Row /\ row[seen[w].id].kind = seen[w].copy.kind
         /\ Permitted(seen[w].copy, seen[w].req)
         /\ NotOverstated(seen[w].copy, attached[seen[w].id])
         /\ seen[w].id \notin rewritten => HasTimes(seen[w].copy)
<1>1. seen[w] # Idle
  BY DEF Serving, Idle
<1>2. seen[w].id \in Ids /\ seen[w].copy \in Row /\ seen[w].req \in Request
  BY <1>1 DEF TypeOK, Seen
<1>3. QED
  BY <1>1, <1>2 DEF TypeOK, ReadInv, Serving

\* What the services' checks say of the copy.
LEMMA Allowed ==
  ASSUME NEW copy, NEW req, Permitted(copy, req)
  PROVE  /\ req.op = "add" => copy.kind = "group" /\ copy.status = "OPEN"
         /\ req.op = "convert" => copy.kind = "lead" /\ ~copy.converted
         /\ req.op = "start" => copy.kind = "shuttle" /\ copy.status \in {"SCHEDULED", "DISPATCHED"}
         /\ req.op = "complete" => copy.kind = "shuttle" /\ copy.status = "IN_PROGRESS"
         /\ req.op = "odometer" => copy.kind = "vehicle" /\ copy.odometer <= req.reading
         /\ req.op = "trip over" => copy.kind = "vehicle" /\ Valid(copy, req.body)
         /\ req.op = "advance" => copy.kind = "crossdock"
         /\ req.op = "edit" => Valid(copy, req.body)
BY DEF Permitted

\* A worker at its service.
LEMMA AtWork ==
  ASSUME IInv, NEW w \in Workers, NEW op, Serving(w, op)
  PROVE  LET r == seen[w].id
             copy == seen[w].copy
             req == seen[w].req IN
         /\ seen[w] # Idle /\ r \in Ids /\ copy \in Row /\ row[r] \in Row
         /\ row[r].kind = copy.kind /\ req \in Request /\ req.op = op
         /\ NotOverstated(copy, attached[r])
         /\ r \notin rewritten => HasTimes(copy)
         /\ op = "add" => copy.kind = "group"
         /\ op = "convert" => copy.kind = "lead" /\ ~copy.converted
         /\ op = "start" => copy.kind = "shuttle" /\ copy.status \in {"SCHEDULED", "DISPATCHED"}
         /\ op = "complete" => copy.kind = "shuttle" /\ copy.status = "IN_PROGRESS"
         /\ op = "odometer" => copy.kind = "vehicle"
         /\ op = "trip over" => copy.kind = "vehicle" /\ Valid(copy, req.body)
         /\ op = "advance" => copy.kind = "crossdock"
         /\ op = "edit" => Valid(copy, req.body)
<1> DEFINE r == seen[w].id
           copy == seen[w].copy
           req == seen[w].req
<1>1. TypeOK /\ ReadInv(w)
  BY DEF IInv
<1>2. /\ seen[w] # Idle /\ r \in Ids /\ copy \in Row /\ row[r] \in Row
      /\ row[r].kind = copy.kind /\ req \in Request /\ req.op = op
      /\ NotOverstated(copy, attached[r])
      /\ r \notin rewritten => HasTimes(copy)
      /\ Permitted(copy, req)
  BY <1>1, Served
<1>3. QED
  BY <1>2, Allowed

\* What a conversion makes of a lead.
LEMMA Converted ==
  ASSUME NEW old \in Lead, NEW new, new = Updated([status |-> "WON", converted |-> TRUE], old)
  PROVE  new \in Lead /\ new.kind = "lead" /\ new.converted = TRUE /\ new.deleted = old.deleted
<1>1. DOMAIN old = {"kind", "deleted", "status", "converted"}
  BY DEF Lead
<1>2. /\ DOMAIN new = {"kind", "deleted", "status", "converted"}
      /\ new = [f \in {"kind", "deleted", "status", "converted"} |-> new[f]]
  BY <1>1 DEF Updated
<1>3. new.kind = "lead" /\ new.status = "WON" /\ new.converted = TRUE /\ new.deleted = old.deleted
  BY DEF Updated, Lead
<1>4. new.deleted \in BOOLEAN /\ new.converted \in BOOLEAN
  BY <1>3 DEF Lead
<1>5. QED
  BY <1>2, <1>3, <1>4 DEF Lead, LeadStatus

\* What start_trip makes of a shuttle trip.
LEMMA Started ==
  ASSUME NEW old \in ShuttleTrip, NEW new,
         new = Updated([status |-> "IN_PROGRESS", started |-> TRUE], old)
  PROVE  /\ new \in ShuttleTrip /\ new.kind = "shuttle" /\ new.status = "IN_PROGRESS"
         /\ new.started = TRUE /\ new.ended = old.ended /\ new.deleted = old.deleted
<1>1. DOMAIN old = {"kind", "deleted", "status", "started", "ended"}
  BY DEF ShuttleTrip
<1>2. /\ DOMAIN new = {"kind", "deleted", "status", "started", "ended"}
      /\ new = [f \in {"kind", "deleted", "status", "started", "ended"} |-> new[f]]
  BY <1>1 DEF Updated
<1>3. /\ new.kind = "shuttle" /\ new.status = "IN_PROGRESS"
      /\ new.started = TRUE /\ new.ended = old.ended /\ new.deleted = old.deleted
  BY DEF Updated, ShuttleTrip
<1>4. new.deleted \in BOOLEAN /\ new.started \in BOOLEAN /\ new.ended \in BOOLEAN
  BY <1>3 DEF ShuttleTrip
<1>5. QED
  BY <1>2, <1>3, <1>4 DEF ShuttleTrip, ShuttleTripStatus

\* What complete_trip makes of a shuttle trip.
LEMMA Completed ==
  ASSUME NEW old \in ShuttleTrip, NEW new,
         new = Updated([status |-> "COMPLETED", ended |-> TRUE], old)
  PROVE  /\ new \in ShuttleTrip /\ new.kind = "shuttle" /\ new.status = "COMPLETED"
         /\ new.ended = TRUE /\ new.started = old.started /\ new.deleted = old.deleted
<1>1. DOMAIN old = {"kind", "deleted", "status", "started", "ended"}
  BY DEF ShuttleTrip
<1>2. /\ DOMAIN new = {"kind", "deleted", "status", "started", "ended"}
      /\ new = [f \in {"kind", "deleted", "status", "started", "ended"} |-> new[f]]
  BY <1>1 DEF Updated
<1>3. /\ new.kind = "shuttle" /\ new.status = "COMPLETED"
      /\ new.ended = TRUE /\ new.started = old.started /\ new.deleted = old.deleted
  BY DEF Updated, ShuttleTrip
<1>4. new.deleted \in BOOLEAN /\ new.started \in BOOLEAN /\ new.ended \in BOOLEAN
  BY <1>3 DEF ShuttleTrip
<1>5. QED
  BY <1>2, <1>3, <1>4 DEF ShuttleTrip, ShuttleTripStatus

\* More attached overstates nothing.
LEMMA MoreAttached ==
  ASSUME NEW old \in Row, NEW m \in Nat, NEW n \in Nat, m <= n, NotOverstated(old, m)
  PROVE  NotOverstated(old, n)
BY Kinds DEF NotOverstated, Group

\* A worker that takes no step keeps what it has read, while more is attached
\* and rows stay in their tables.
LEMMA OtherWorker ==
  ASSUME TypeOK, NEW v \in Workers, ReadInv(v), seen'[v] = seen[v],
         attached' \in [Ids -> 0..MaxAttached],
         \A r \in Ids : attached[r] <= attached'[r],
         \A r \in Ids : row[r] # NoRow => row'[r] # NoRow /\ row'[r].kind = row[r].kind,
         rewritten \subseteq rewritten'
  PROVE  ReadInv(v)'
<1> SUFFICES ASSUME seen[v] # Idle PROVE ReadInv(v)'
  BY DEF ReadInv
<1>1. seen[v].id \in Ids /\ seen[v].copy \in Row
  BY DEF TypeOK, Seen
<1> DEFINE r == seen[v].id
           copy == seen[v].copy
<1>2. /\ row[r] # NoRow /\ row[r].kind = copy.kind
      /\ Permitted(copy, seen[v].req)
      /\ NotOverstated(copy, attached[r])
      /\ r \notin rewritten => HasTimes(copy)
  BY DEF ReadInv
<1>3. attached[r] \in Nat /\ attached'[r] \in Nat /\ attached[r] <= attached'[r]
  BY <1>1, OperationsAssumption DEF TypeOK
<1>4. NotOverstated(copy, attached'[r])
  BY <1>1, <1>2, <1>3, MoreAttached
<1>5. QED
  BY <1>1, <1>2, <1>4 DEF ReadInv

\* A save keeps the invariant, if what it makes of the row is a row that
\* overstates nothing, and that is exact if the row was still the copy.
LEMMA SaveIInv ==
  ASSUME IInv, NEW w \in Workers, seen[w] # Idle, NEW columns, Save(w, columns),
         NEW r, r = seen[w].id, NEW new, new = Updated(columns, row[r]),
         new \in Row, new.kind = row[r].kind,
         NEW n \in 0..MaxAttached, attached' = [attached EXCEPT ![r] = n], attached[r] <= n,
         rewritten \subseteq rewritten', rewritten' \subseteq rewritten \cup {r},
         NotOverstated(new, n),
         r \notin rewritten' => HasTimes(new),
         (row[r] = seen[w].copy /\ r \notin overtaken) =>
           Exact(new, n) /\ (r \notin rewritten' => ExactTimes(new))
  PROVE  IInv'
<1> USE DEF IInv
<1>1. /\ r \in Ids /\ row[r] \in Row
      /\ row' = [row EXCEPT ![r] = new]
      /\ seen' = [seen EXCEPT ![w] = Idle]
      /\ overtaken' = IF row[r] = seen[w].copy THEN overtaken ELSE overtaken \cup {r}
  BY DEF TypeOK, Seen, ReadInv, Save
<1>2. TypeOK'
  BY <1>1 DEF TypeOK, Seen
<1>3. BooksAgree'
  <2> SUFFICES ASSUME NEW q \in Ids, row'[q] # NoRow
               PROVE  /\ NotOverstated(row'[q], attached'[q])
                      /\ q \notin rewritten' => HasTimes(row'[q])
                      /\ q \notin overtaken' =>
                           /\ Exact(row'[q], attached'[q])
                           /\ q \notin rewritten' => ExactTimes(row'[q])
    BY DEF BooksAgree
  <2>1. CASE q = r
    <3>1. row'[q] = new /\ attached'[q] = n
      BY <1>1, <2>1 DEF TypeOK
    <3>2. q \notin overtaken' => row[r] = seen[w].copy /\ r \notin overtaken
      BY <1>1, <2>1
    <3>3. QED
      BY <2>1, <3>1, <3>2
  <2>2. CASE q # r
    <3>1. /\ row'[q] = row[q] /\ attached'[q] = attached[q]
          /\ q \in rewritten' <=> q \in rewritten
          /\ q \in overtaken' <=> q \in overtaken
      BY <1>1, <2>2 DEF TypeOK
    <3>2. QED
      BY <3>1 DEF BooksAgree
  <2>3. QED
    BY <2>1, <2>2
<1>4. Blank'
  <2>1. new # NoRow
    BY OperationsAssumption
  <2>2. ASSUME NEW q \in Ids, row'[q] = NoRow PROVE attached'[q] = 0 /\ q \notin rewritten' \cup overtaken'
    <3>1. q # r
      BY <1>1, <2>1, <2>2 DEF TypeOK
    <3>2. /\ row'[q] = row[q] /\ attached'[q] = attached[q]
          /\ q \in rewritten' <=> q \in rewritten
          /\ q \in overtaken' <=> q \in overtaken
      BY <1>1, <3>1 DEF TypeOK
    <3>3. QED
      BY <2>2, <3>2 DEF Blank
  <2>3. QED
    BY <2>2 DEF Blank
<1>5. ASSUME NEW v \in Workers PROVE ReadInv(v)'
  <2>1. CASE v = w
    BY <1>1, <2>1 DEF TypeOK, ReadInv
  <2>2. CASE v # w
    <3>1. seen'[v] = seen[v]
      BY <1>1, <2>2 DEF TypeOK
    <3>2. attached' \in [Ids -> 0..MaxAttached] /\ \A q \in Ids : attached[q] <= attached'[q]
      BY <1>1, OperationsAssumption DEF TypeOK
    <3>3. \A q \in Ids : row[q] # NoRow => row'[q] # NoRow /\ row'[q].kind = row[q].kind
      BY <1>1, OperationsAssumption DEF TypeOK
    <3>4. QED
      BY <3>1, <3>2, <3>3, OtherWorker
  <2>3. QED
    BY <2>1, <2>2
<1>6. QED
  BY <1>2, <1>3, <1>4, <1>5

-----------------------------------------------------------------------------
\* add_item counts the parcels it attaches, on top of a count that was no
\* overstatement.
LEMMA AddItemIInv ==
  ASSUME IInv, NEW w \in Workers, AddItem(w)
  PROVE  IInv'
<1> DEFINE r == seen[w].id
           copy == seen[w].copy
           n == seen[w].req.parcels
           total == copy.total_parcels + n
           new == Updated([total_parcels |-> total], row[r])
<1> USE DEF IInv
<1>1. /\ seen[w] # Idle /\ r \in Ids /\ copy \in Row /\ row[r] \in Row
      /\ row[r].kind = copy.kind /\ seen[w].req \in Request /\ seen[w].req.op = "add"
      /\ copy.kind = "group"
  <2> HIDE DEF IInv
  <2>1. Serving(w, "add")
    BY DEF AddItem
  <2>2. QED
    BY <2>1, AtWork
<1>2. n \in Nat /\ copy \in Group /\ row[r] \in Group
  BY <1>1, Requests, Kinds, OperationsAssumption
<1>3. new = [row[r] EXCEPT !.total_parcels = total]
  BY <1>2 DEF Updated, Group
<1>4. /\ new \in Group /\ new.kind = "group" /\ new.total_parcels = total
  BY <1>2, <1>3 DEF Group
<1>5. /\ attached[r] \in Nat /\ attached[r] + n \in 0..MaxAttached
      /\ attached' = [attached EXCEPT ![r] = attached[r] + n]
  BY <1>1, <1>2, OperationsAssumption DEF AddItem, Attach, TypeOK
<1>6. copy.total_parcels <= attached[r]
  BY <1>1 DEF ReadInv, NotOverstated
<1>7. copy.total_parcels \in Nat
  BY <1>2 DEF Group
<1>8. NotOverstated(new, attached[r] + n)
  BY <1>2, <1>4, <1>5, <1>6, <1>7 DEF NotOverstated
<1>9. HasTimes(new) /\ ExactTimes(new)
  BY <1>4 DEF HasTimes, ExactTimes
<1>10. (row[r] = copy /\ r \notin overtaken) => Exact(new, attached[r] + n)
  <2>1. (row[r] = copy /\ r \notin overtaken) => copy.total_parcels = attached[r]
    BY <1>1, OperationsAssumption DEF BooksAgree, Exact
  <2>2. QED
    BY <1>4, <2>1 DEF Exact
<1>11. new \in Row /\ rewritten' = rewritten /\ Save(w, [total_parcels |-> total])
  BY <1>4 DEF Row, AddItem
<1>12. attached[r] <= attached[r] + n
  BY <1>2, <1>5
<1> HIDE DEF new, IInv
<1>13. QED
  BY <1>1, <1>2, <1>4, <1>5, <1>8, <1>9, <1>10, <1>11, <1>12, SaveIInv DEF new

\* A conversion makes the customer its lead names.
LEMMA ConvertIInv ==
  ASSUME IInv, NEW w \in Workers, Convert(w)
  PROVE  IInv'
<1> DEFINE r == seen[w].id
           copy == seen[w].copy
           columns == [status |-> "WON", converted |-> TRUE]
           new == Updated(columns, row[r])
<1> USE DEF IInv
<1>1. /\ seen[w] # Idle /\ r \in Ids /\ copy \in Row /\ row[r] \in Row
      /\ row[r].kind = copy.kind /\ copy.kind = "lead" /\ ~copy.converted
  <2> HIDE DEF IInv
  <2>1. Serving(w, "convert")
    BY DEF Convert
  <2>2. QED
    BY <2>1, AtWork
<1>2. row[r] \in Lead
  BY <1>1, Kinds
<1>3. new \in Lead /\ new.kind = "lead" /\ new.converted = TRUE
  BY <1>2, Converted
<1>4. /\ attached[r] \in Nat /\ attached[r] + 1 \in 0..MaxAttached
      /\ attached' = [attached EXCEPT ![r] = attached[r] + 1]
  BY <1>1, OperationsAssumption DEF Convert, Attach, TypeOK
<1>5. NotOverstated(new, attached[r] + 1) /\ HasTimes(new) /\ ExactTimes(new)
  BY <1>3, <1>4 DEF NotOverstated, HasTimes, ExactTimes
<1>6. (row[r] = copy /\ r \notin overtaken) => Exact(new, attached[r] + 1)
  <2>1. (row[r] = copy /\ r \notin overtaken) => attached[r] = 0
    BY <1>1, OperationsAssumption DEF BooksAgree, Exact
  <2>2. QED
    BY <1>3, <2>1 DEF Exact
<1>7. new \in Row /\ new.kind = row[r].kind /\ rewritten' = rewritten /\ Save(w, columns)
  BY <1>1, <1>3 DEF Row, Convert
<1>8. attached[r] <= attached[r] + 1
  BY <1>4
<1> HIDE DEF new, columns, IInv
<1>9. QED
  BY <1>1, <1>4, <1>5, <1>6, <1>7, <1>8, SaveIInv DEF new

\* A save that attaches nothing.
LEMMA QuietSave ==
  ASSUME IInv, NEW w \in Workers, seen[w] # Idle, NEW columns, Save(w, columns),
         NEW r, r = seen[w].id, NEW new, new = Updated(columns, row[r]),
         new \in Row, new.kind = row[r].kind, attached' = attached,
         rewritten \subseteq rewritten', rewritten' \subseteq rewritten \cup {r},
         NotOverstated(new, attached[r]),
         r \notin rewritten' => HasTimes(new),
         (row[r] = seen[w].copy /\ r \notin overtaken) =>
           Exact(new, attached[r]) /\ (r \notin rewritten' => ExactTimes(new))
  PROVE  IInv'
<1>1. r \in Ids
  BY DEF IInv, TypeOK, Seen
<1>2. /\ attached[r] \in 0..MaxAttached /\ attached[r] <= attached[r]
      /\ attached' = [attached EXCEPT ![r] = attached[r]]
  BY <1>1, OperationsAssumption DEF IInv, TypeOK
<1> DEFINE n == attached[r]
<1>3. n \in 0..MaxAttached /\ attached[r] <= n /\ attached' = [attached EXCEPT ![r] = n]
  BY <1>2
<1>4. /\ NotOverstated(new, n)
      /\ (row[r] = seen[w].copy /\ r \notin overtaken) =>
           Exact(new, n) /\ (r \notin rewritten' => ExactTimes(new))
  OBVIOUS
<1>5. HasTimes(new) \/ r \in rewritten'
  OBVIOUS
<1> HIDE DEF n
<1>6. QED
  BY <1>3, <1>4, <1>5, SaveIInv, ZenonT(90)

\* The start and the end of a shuttle trip set status and time together.
LEMMA ShuttleIInv ==
  ASSUME IInv, NEW w \in Workers, StartTrip(w) \/ CompleteTrip(w)
  PROVE  IInv'
<1> DEFINE r == seen[w].id
           copy == seen[w].copy
<1> USE DEF IInv
<1>1. /\ seen[w] # Idle /\ r \in Ids /\ copy \in Row /\ row[r] \in Row
      /\ row[r].kind = copy.kind /\ copy.kind = "shuttle"
      /\ StartTrip(w) => copy.status \in {"SCHEDULED", "DISPATCHED"}
      /\ CompleteTrip(w) => copy.status = "IN_PROGRESS"
  <2> HIDE DEF IInv
  <2>1. CASE StartTrip(w)
    <3>1. Serving(w, "start") /\ ~Serving(w, "complete")
      BY <2>1 DEF StartTrip, Serving
    <3>2. QED
      BY <3>1, AtWork DEF CompleteTrip
  <2>2. CASE CompleteTrip(w)
    <3>1. Serving(w, "complete") /\ ~Serving(w, "start")
      BY <2>2 DEF CompleteTrip, Serving
    <3>2. QED
      BY <3>1, AtWork DEF StartTrip
  <2>3. QED
    BY <2>1, <2>2
<1>2. row[r] \in ShuttleTrip
  BY <1>1, Kinds
<1>3. (row[r] = copy /\ r \notin overtaken /\ r \notin rewritten) => ExactTimes(copy)
  BY <1>1, OperationsAssumption DEF BooksAgree
<1>4. CASE StartTrip(w)
  <2> DEFINE columns == [status |-> "IN_PROGRESS", started |-> TRUE]
             new == Updated(columns, row[r])
  <2>1. /\ new.kind = "shuttle" /\ new.status = "IN_PROGRESS"
        /\ new.started = TRUE /\ new.ended = row[r].ended
    BY <1>2, Started
  <2>2. new \in ShuttleTrip
    BY <1>2, Started
  <2>3. NotOverstated(new, attached[r]) /\ HasTimes(new) /\ Exact(new, attached[r])
    BY <2>1 DEF NotOverstated, HasTimes, Exact
  <2>4. (row[r] = copy /\ r \notin overtaken) => (r \notin rewritten => ExactTimes(new))
    BY <1>1, <1>3, <1>4, <2>1 DEF ExactTimes
  <2>5. /\ new \in Row /\ new.kind = row[r].kind /\ rewritten' = rewritten /\ attached' = attached
        /\ Save(w, columns)
    BY <1>1, <1>4, <2>1, <2>2 DEF Row, StartTrip
  <2> HIDE DEF new, columns, IInv
  <2>6. QED
    BY <1>1, <2>3, <2>4, <2>5, QuietSave DEF new
<1>5. CASE CompleteTrip(w)
  <2> DEFINE columns == [status |-> "COMPLETED", ended |-> TRUE]
             new == Updated(columns, row[r])
  <2>1. /\ new.kind = "shuttle" /\ new.status = "COMPLETED"
        /\ new.started = row[r].started /\ new.ended = TRUE
    BY <1>2, Completed
  <2>2. new \in ShuttleTrip
    BY <1>2, Completed
  <2>3. NotOverstated(new, attached[r]) /\ HasTimes(new) /\ Exact(new, attached[r])
    BY <2>1 DEF NotOverstated, HasTimes, Exact
  <2>4. (row[r] = copy /\ r \notin overtaken) => (r \notin rewritten => ExactTimes(new))
    BY <1>1, <1>3, <1>5, <2>1 DEF ExactTimes
  <2>5. /\ new \in Row /\ new.kind = row[r].kind /\ rewritten' = rewritten /\ attached' = attached
        /\ Save(w, columns)
    BY <1>1, <1>5, <2>1, <2>2 DEF Row, CompleteTrip
  <2> HIDE DEF new, columns, IInv
  <2>6. QED
    BY <1>1, <2>3, <2>4, <2>5, QuietSave DEF new
<1>6. QED
  BY <1>4, <1>5

\* Odometers count nothing that is attached.
LEMMA OdometerIInv ==
  ASSUME IInv, NEW w \in Workers, SetOdometer(w) \/ EndOfTrip(w)
  PROVE  IInv'
<1> DEFINE r == seen[w].id
           copy == seen[w].copy
<1> USE DEF IInv
<1>1. /\ seen[w] # Idle /\ r \in Ids /\ copy \in Row /\ row[r] \in Row
      /\ row[r].kind = copy.kind /\ copy.kind = "vehicle" /\ seen[w].req \in Request
      /\ SetOdometer(w) => seen[w].req.op = "odometer"
      /\ EndOfTrip(w) => seen[w].req.op = "trip over" /\ Valid(copy, seen[w].req.body)
  <2> HIDE DEF IInv
  <2>1. CASE SetOdometer(w)
    <3>1. Serving(w, "odometer") /\ ~Serving(w, "trip over")
      BY <2>1 DEF SetOdometer, Serving
    <3>2. QED
      BY <3>1, AtWork DEF EndOfTrip
  <2>2. CASE EndOfTrip(w)
    <3>1. Serving(w, "trip over") /\ ~Serving(w, "odometer")
      BY <2>2 DEF EndOfTrip, Serving
    <3>2. QED
      BY <3>1, AtWork DEF SetOdometer
  <2>3. QED
    BY <2>1, <2>2
<1>2. row[r] \in Vehicle
  BY <1>1, Kinds
<1>3. PICK km \in Readings \cup {0} : Save(w, [odometer |-> km])
  <2>1. CASE SetOdometer(w)
    BY <1>1, <2>1, Requests DEF SetOdometer
  <2>2. CASE EndOfTrip(w)
    <3>1. /\ Updated(seen[w].req.body, copy) \in Row
          /\ Updated(seen[w].req.body, copy).kind = "vehicle"
      BY <1>1, <2>2, Requests, Edited
    <3>2. Updated(seen[w].req.body, copy) \in Vehicle
      BY <3>1, Kinds
    <3>3. Updated(seen[w].req.body, copy).odometer \in Readings \cup {0}
      BY <3>2 DEF Vehicle
    <3>4. QED
      BY <2>2, <3>3 DEF EndOfTrip
  <2>3. QED
    BY <2>1, <2>2
<1> DEFINE new == Updated([odometer |-> km], row[r])
<1>4. new = [row[r] EXCEPT !.odometer = km]
  BY <1>2 DEF Updated, Vehicle
<1>5. new \in Vehicle /\ new.kind = "vehicle"
  BY <1>2, <1>4 DEF Vehicle
<1>6. /\ NotOverstated(new, attached[r]) /\ HasTimes(new)
      /\ Exact(new, attached[r]) /\ ExactTimes(new)
  BY <1>5 DEF NotOverstated, HasTimes, Exact, ExactTimes
<1>7. new \in Row /\ new.kind = row[r].kind /\ rewritten' = rewritten /\ attached' = attached
  BY <1>1, <1>5 DEF Row, SetOdometer, EndOfTrip
<1> HIDE DEF new, IInv
<1>8. QED
  BY <1>1, <1>3, <1>6, <1>7, QuietSave DEF new

\* A cross-dock that is sent out is given its time, or has it.
LEMMA AdvanceIInv ==
  ASSUME IInv, NEW w \in Workers, AdvanceStatus(w)
  PROVE  IInv'
<1> DEFINE r == seen[w].id
           copy == seen[w].copy
           to == seen[w].req.status
           new == [copy EXCEPT !.status = to,
                     !.left = @ \/ to \in {"OUTBOUND_DISPATCHED", "COMPLETED"}]
<1> USE DEF IInv
<1>1. /\ seen[w] # Idle /\ r \in Ids /\ copy \in Row /\ row[r] \in Row
      /\ row[r].kind = copy.kind /\ copy.kind = "crossdock"
      /\ seen[w].req \in Request /\ seen[w].req.op = "advance"
  <2> HIDE DEF IInv
  <2>1. Serving(w, "advance")
    BY DEF AdvanceStatus
  <2>2. QED
    BY <2>1, AtWork
<1>2. copy \in CrossDock /\ to \in CrossDockStatus
  BY <1>1, Kinds, Requests
<1>3. /\ new \in CrossDock /\ new.kind = "crossdock" /\ new.status = to
      /\ to \in {"OUTBOUND_DISPATCHED", "COMPLETED"} => new.left
  BY <1>2 DEF CrossDock
<1>4. new \in Row
  BY <1>3 DEF Row
<1>5. new = Updated(new, row[r])
  <2> HIDE DEF new
  <2>1. QED
    BY <1>1, <1>3, <1>4, UpdatedAll
<1>6. /\ NotOverstated(new, attached[r]) /\ HasTimes(new)
      /\ Exact(new, attached[r]) /\ ExactTimes(new)
  BY <1>3 DEF NotOverstated, HasTimes, Exact, ExactTimes
<1>7. new.kind = row[r].kind /\ rewritten' = rewritten /\ attached' = attached /\ Save(w, new)
  BY <1>1, <1>3 DEF AdvanceStatus
<1> HIDE DEF new, IInv
<1>8. QED
  BY <1>1, <1>4, <1>5, <1>6, <1>7, QuietSave

\* An edit puts the counts of its copy back, which are no overstatement.
LEMMA EditIInv ==
  ASSUME IInv, NEW w \in Workers, Edit(w)
  PROVE  IInv'
<1> DEFINE r == seen[w].id
           copy == seen[w].copy
           body == seen[w].req.body
           new == Updated(body, copy)
<1> USE DEF IInv
<1>1. /\ seen[w] # Idle /\ r \in Ids /\ copy \in Row /\ row[r] \in Row
      /\ row[r].kind = copy.kind /\ seen[w].req \in Request /\ seen[w].req.op = "edit"
      /\ Valid(copy, body)
  <2> HIDE DEF IInv
  <2>1. Serving(w, "edit")
    BY DEF Edit
  <2>2. QED
    BY <2>1, AtWork
<1>2. body \in Body
  BY <1>1, Requests
<1>3. /\ new \in Row /\ new.kind = copy.kind
      /\ copy.kind = "group" => new.total_parcels = copy.total_parcels
      /\ copy.kind = "lead" => new.converted = copy.converted
  BY <1>1, <1>2, Edited
<1>4. new = Updated(new, row[r])
  BY <1>1, <1>3, UpdatedAll
<1>5. NotOverstated(new, attached[r])
  BY <1>1, <1>3 DEF ReadInv, NotOverstated
<1>6. rewritten' = IF body = <<>> THEN rewritten ELSE rewritten \cup {r}
  BY DEF Edit, Rewritten
<1>7. r \notin rewritten' => new = copy /\ r \notin rewritten
  BY <1>1, <1>6, UpdatedNothing
<1>8. r \notin rewritten' => HasTimes(new)
  BY <1>1, <1>7 DEF ReadInv
<1>9. (row[r] = copy /\ r \notin overtaken) =>
        Exact(new, attached[r]) /\ (r \notin rewritten' => ExactTimes(new))
  <2> SUFFICES ASSUME row[r] = copy, r \notin overtaken
               PROVE  Exact(new, attached[r]) /\ (r \notin rewritten' => ExactTimes(new))
    OBVIOUS
  <2>1. Exact(copy, attached[r]) /\ (r \notin rewritten => ExactTimes(copy))
    BY <1>1, OperationsAssumption DEF BooksAgree
  <2>2. Exact(new, attached[r])
    BY <1>3, <2>1 DEF Exact
  <2>3. QED
    BY <1>7, <2>1, <2>2
<1>10. attached' = attached /\ Save(w, new)
  BY DEF Edit
<1> HIDE DEF new, IInv
<1>11. QED
  BY <1>1, <1>3, <1>4, <1>5, <1>6, <1>8, <1>9, <1>10, QuietSave

-----------------------------------------------------------------------------
\* A new row counts nothing, and has no times but those a client gave.
LEMMA NewRows ==
  ASSUME NEW new \in New
  PROVE  new \in Row /\ Exact(new, 0) /\ HasTimes(new) /\ ExactTimes(new)
<1>1. CASE new = [kind |-> "group", deleted |-> FALSE, status |-> "OPEN", total_parcels |-> 0]
  BY <1>1 DEF Row, Group, GroupStatus, Exact, HasTimes, ExactTimes
<1>2. CASE new = [kind |-> "lead", deleted |-> FALSE, status |-> "NEW", converted |-> FALSE]
  BY <1>2 DEF Row, Lead, LeadStatus, Exact, HasTimes, ExactTimes
<1>3. CASE new = [kind |-> "shuttle", deleted |-> FALSE, status |-> "SCHEDULED",
                  started |-> FALSE, ended |-> FALSE]
  BY <1>3 DEF Row, ShuttleTrip, ShuttleTripStatus, Exact, HasTimes, ExactTimes
<1>4. CASE new = [kind |-> "vehicle", deleted |-> FALSE, odometer |-> 0]
  BY <1>4 DEF Row, Vehicle, Exact, HasTimes, ExactTimes
<1>5. CASE new = [kind |-> "crossdock", deleted |-> FALSE, status |-> "SORTING", left |-> FALSE]
  BY <1>5 DEF Row, CrossDock, CrossDockStatus, Exact, HasTimes, ExactTimes
<1>6. QED
  BY <1>1, <1>2, <1>3, <1>4, <1>5 DEF New

\* A row that is hidden keeps every other column.
LEMMA Hidden ==
  ASSUME NEW old \in Row, NEW new, new = [old EXCEPT !.deleted = TRUE]
  PROVE  /\ new \in Row /\ new.kind = old.kind /\ new.deleted = TRUE
         /\ \A n \in Nat : /\ NotOverstated(old, n) => NotOverstated(new, n)
                           /\ Exact(old, n) => Exact(new, n)
         /\ HasTimes(old) => HasTimes(new)
         /\ ExactTimes(old) => ExactTimes(new)
<1>1. DOMAIN new = DOMAIN old /\ \A f \in DOMAIN old \ {"deleted"} : new[f] = old[f]
  OBVIOUS
<1>2. "deleted" \in DOMAIN old /\ new.deleted = TRUE
  BY Columns DEF Row
<1>3. CASE old \in Group
  BY <1>1, <1>2, <1>3, Columns DEF Row, Group, NotOverstated, Exact, HasTimes, ExactTimes
<1>4. CASE old \in Lead
  BY <1>1, <1>2, <1>4, Columns DEF Row, Lead, NotOverstated, Exact, HasTimes, ExactTimes
<1>5. CASE old \in ShuttleTrip
  BY <1>1, <1>2, <1>5, Columns DEF Row, ShuttleTrip, NotOverstated, Exact, HasTimes, ExactTimes
<1>6. CASE old \in Vehicle
  BY <1>1, <1>2, <1>6, Columns DEF Row, Vehicle, NotOverstated, Exact, HasTimes, ExactTimes
<1>7. CASE old \in CrossDock
  BY <1>1, <1>2, <1>7, Columns DEF Row, CrossDock, NotOverstated, Exact, HasTimes, ExactTimes
<1>8. QED
  BY <1>3, <1>4, <1>5, <1>6, <1>7 DEF Row

\* A step that writes no copy keeps the invariant, if it leaves one row
\* consistent and the others as they are.
LEMMA RowIInv ==
  ASSUME IInv, NEW r \in Ids, NEW new \in Row, row' = [row EXCEPT ![r] = new],
         row[r] # NoRow => new.kind = row[r].kind,
         attached' = attached, seen' = seen, overtaken' = overtaken,
         rewritten \subseteq rewritten', rewritten' \subseteq rewritten \cup {r},
         NotOverstated(new, attached[r]),
         r \notin rewritten' => HasTimes(new),
         r \notin overtaken => Exact(new, attached[r]) /\ (r \notin rewritten' => ExactTimes(new))
  PROVE  IInv'
<1> USE DEF IInv
<1>1. new # NoRow /\ row'[r] = new
  BY OperationsAssumption DEF TypeOK
<1>2. \A q \in Ids : q # r => row'[q] = row[q] /\ (q \in rewritten' <=> q \in rewritten)
  BY DEF TypeOK
<1>3. TypeOK'
  BY DEF TypeOK
<1>4. BooksAgree'
  BY <1>1, <1>2 DEF BooksAgree
<1>5. Blank'
  BY <1>1, <1>2 DEF Blank
<1>6. ASSUME NEW v \in Workers PROVE ReadInv(v)'
  <2>1. attached' \in [Ids -> 0..MaxAttached] /\ \A q \in Ids : attached[q] <= attached'[q]
    BY OperationsAssumption DEF TypeOK
  <2>2. \A q \in Ids : row[q] # NoRow => row'[q] # NoRow /\ row'[q].kind = row[q].kind
    BY <1>1, <1>2
  <2>3. QED
    BY <2>1, <2>2, OtherWorker
<1>7. QED
  BY <1>3, <1>4, <1>5, <1>6

\* A row is created consistent, whatever columns the client gives.
LEMMA CreateIInv ==
  ASSUME IInv, NEW r \in Ids, NEW first \in New, NEW body \in Body, Create(r, first, body)
  PROVE  IInv'
<1> DEFINE new == Updated(body, first)
<1>1. /\ first \in Row /\ Exact(first, 0) /\ HasTimes(first) /\ ExactTimes(first)
  BY NewRows
<1>2. /\ new \in Row /\ new.kind = first.kind
      /\ first.kind = "group" => new.total_parcels = first.total_parcels
      /\ first.kind = "lead" => new.converted = first.converted
  BY <1>1, Edited DEF Create
<1>3. Exact(new, 0) /\ NotOverstated(new, 0)
  BY <1>1, <1>2 DEF Exact, NotOverstated
<1>4. rewritten' = IF body = <<>> THEN rewritten ELSE rewritten \cup {r}
  BY DEF Create, Rewritten
<1>5. r \notin rewritten' => HasTimes(new) /\ ExactTimes(new)
  BY <1>1, <1>4, UpdatedNothing
<1>6. row[r] = NoRow /\ attached[r] = 0
  BY DEF Create, IInv, Blank
<1>7. row' = [row EXCEPT ![r] = new] /\ UNCHANGED <<attached, seen, overtaken>>
  BY DEF Create
<1> HIDE DEF new
<1>8. QED
  BY <1>2, <1>3, <1>4, <1>5, <1>6, <1>7, RowIInv

\* Hiding a row changes nothing it counts.
LEMMA DeleteIInv ==
  ASSUME IInv, NEW r \in Ids, Delete(r)
  PROVE  IInv'
<1> DEFINE new == [row[r] EXCEPT !.deleted = TRUE]
<1>1. row[r] \in Row /\ attached[r] \in Nat
  BY OperationsAssumption DEF IInv, TypeOK, Delete, Live
<1>2. /\ new \in Row /\ new.kind = row[r].kind
      /\ \A n \in Nat : /\ NotOverstated(row[r], n) => NotOverstated(new, n)
                        /\ Exact(row[r], n) => Exact(new, n)
      /\ HasTimes(row[r]) => HasTimes(new)
      /\ ExactTimes(row[r]) => ExactTimes(new)
  BY <1>1, Hidden
<1>3. /\ NotOverstated(row[r], attached[r])
      /\ r \notin rewritten => HasTimes(row[r])
      /\ r \notin overtaken => /\ Exact(row[r], attached[r])
                               /\ r \notin rewritten => ExactTimes(row[r])
  BY <1>1, OperationsAssumption DEF IInv, BooksAgree
<1>4. row' = [row EXCEPT ![r] = new] /\ UNCHANGED <<attached, seen, overtaken, rewritten>>
  BY DEF Delete
<1> HIDE DEF new
<1>5. QED
  BY <1>1, <1>2, <1>3, <1>4, RowIInv

\* What a worker reads is consistent, and it goes on only if that allows the
\* request.
LEMMA ReadIInv ==
  ASSUME IInv, NEW w \in Workers, NEW r \in Ids, NEW req \in Request, Read(w, r, req)
  PROVE  IInv'
<1> USE DEF IInv
<1>1. row[r] \in Row
  BY DEF Read, Live, TypeOK
<1>2. seen'[w] = [id |-> r, copy |-> row[r], req |-> req] /\ \A v \in Workers \ {w} : seen'[v] = seen[v]
  BY DEF Read, TypeOK
<1>3. UNCHANGED <<row, attached, overtaken, rewritten>>
  BY DEF Read
<1>4. TypeOK'
  BY <1>1, <1>3 DEF TypeOK, Seen, Read
<1>5. BooksAgree' /\ Blank'
  BY <1>3 DEF BooksAgree, Blank
<1>6. ReadInv(w)'
  <2>1. row[r] # NoRow /\ NotOverstated(row[r], attached[r]) /\ (r \notin rewritten => HasTimes(row[r]))
    BY <1>1, OperationsAssumption DEF BooksAgree
  <2>2. Permitted(row[r], req)
    BY DEF Read
  <2>3. QED
    BY <1>2, <1>3, <2>1, <2>2 DEF ReadInv
<1>7. ASSUME NEW v \in Workers, v # w PROVE ReadInv(v)'
  BY <1>2, <1>3, <1>7 DEF ReadInv
<1>8. QED
  BY <1>4, <1>5, <1>6, <1>7

\* A worker that gives up has read nothing any more.
LEMMA FailIInv ==
  ASSUME IInv, NEW w \in Workers, Fail(w)
  PROVE  IInv'
<1> USE DEF IInv
<1>1. seen'[w] = Idle /\ \A v \in Workers \ {w} : seen'[v] = seen[v]
  BY DEF Fail, TypeOK
<1>2. UNCHANGED <<row, attached, overtaken, rewritten>>
  BY DEF Fail
<1>3. TypeOK'
  BY <1>2 DEF TypeOK, Seen, Fail
<1>4. BooksAgree' /\ Blank'
  BY <1>2 DEF BooksAgree, Blank
<1>5. ASSUME NEW v \in Workers PROVE ReadInv(v)'
  BY <1>1, <1>2 DEF ReadInv
<1>6. QED
  BY <1>3, <1>4, <1>5

\* There is nothing at first.
LEMMA InitIInv ==
  ASSUME Init
  PROVE  IInv
<1>1. TypeOK
  BY OperationsAssumption DEF Init, TypeOK, Seen
<1>2. BooksAgree /\ Blank
  BY DEF Init, BooksAgree, Blank
<1>3. \A w \in Workers : ReadInv(w)
  BY DEF Init, ReadInv
<1>4. QED
  BY <1>1, <1>2, <1>3 DEF IInv

\* Every step keeps the invariant.
LEMMA NextIInv ==
  ASSUME IInv, [Next]_vars
  PROVE  IInv'
<1>1. ASSUME NEW r \in Ids, NEW first \in New, NEW body \in Body, Create(r, first, body) PROVE IInv'
  BY <1>1, CreateIInv
<1>2. ASSUME NEW r \in Ids, Delete(r) PROVE IInv'
  BY <1>2, DeleteIInv
<1>3. ASSUME NEW w \in Workers, NEW r \in Ids, NEW req \in Request, Read(w, r, req) PROVE IInv'
  BY <1>3, ReadIInv
<1>4. ASSUME NEW w \in Workers, AddItem(w) PROVE IInv'
  BY <1>4, AddItemIInv
<1>5. ASSUME NEW w \in Workers, Convert(w) PROVE IInv'
  BY <1>5, ConvertIInv
<1>6. ASSUME NEW w \in Workers, StartTrip(w) \/ CompleteTrip(w) PROVE IInv'
  BY <1>6, ShuttleIInv
<1>7. ASSUME NEW w \in Workers, SetOdometer(w) \/ EndOfTrip(w) PROVE IInv'
  BY <1>7, OdometerIInv
<1>8. ASSUME NEW w \in Workers, AdvanceStatus(w) PROVE IInv'
  BY <1>8, AdvanceIInv
<1>9. ASSUME NEW w \in Workers, Edit(w) PROVE IInv'
  BY <1>9, EditIInv
<1>10. ASSUME NEW w \in Workers, Fail(w) PROVE IInv'
  BY <1>10, FailIInv
<1>11. CASE UNCHANGED vars
  BY <1>11 DEF vars, IInv, TypeOK, BooksAgree, Blank, ReadInv
<1>12. QED
  BY <1>1, <1>2, <1>3, <1>4, <1>5, <1>6, <1>7, <1>8, <1>9, <1>10, <1>11 DEF Next

-----------------------------------------------------------------------------
\* A step attaches nothing to other rows.
AttachedTo(r) == \A q \in Ids : q # r => attached'[q] = attached[q]

\* A save moves one row, and unless it is recorded as overtaken that row was the
\* copy the service checked.
LEMMA SaveMoves ==
  ASSUME IInv, NEW w \in Workers, seen[w] # Idle, NEW columns, Save(w, columns),
         NEW r, r = seen[w].id, NEW new, new = Updated(columns, row[r]),
         AttachedTo(r),
         row[r] = seen[w].copy => /\ attached'[r] # attached[r] /\ row[r].kind = "group" => row[r].status = "OPEN"
                                  /\ new.deleted = row[r].deleted
                                  /\ new # row[r] => \/ Along(row[r], new)
                                                     \/ /\ Serving(w, "trip over") \/ Serving(w, "edit")
                                                        /\ seen[w].req.body # <<>>
  PROVE  AllMove
<1>1. /\ r \in Ids
      /\ row' = [row EXCEPT ![r] = new] /\ row \in [Ids -> Row \cup {NoRow}]
      /\ seen'[w] = Idle
      /\ overtaken' = IF row[r] = seen[w].copy THEN overtaken ELSE overtaken \cup {r}
  BY DEF IInv, TypeOK, Seen, Save
<1> SUFFICES ASSUME NEW q \in Ids, row[q] # NoRow, q \notin overtaken' PROVE Moves(q)
  BY DEF AllMove
<1>2. CASE q # r
  <2>1. row'[q] = row[q] /\ attached'[q] = attached[q]
    BY <1>1, <1>2 DEF AttachedTo
  <2>2. QED
    BY <2>1 DEF Moves
<1>3. CASE q = r
  <2>1. row[r] = seen[w].copy /\ row'[r] = new
    BY <1>1, <1>3
  <2>2. QED
    BY <1>1, <1>3, <2>1 DEF Moves
<1>4. QED
  BY <1>2, <1>3

\* add_item has found the group open.
LEMMA AddItemMoves ==
  ASSUME IInv, NEW w \in Workers, AddItem(w)
  PROVE  AllMove
<1> DEFINE r == seen[w].id
           copy == seen[w].copy
           columns == [total_parcels |-> copy.total_parcels + seen[w].req.parcels]
           new == Updated(columns, row[r])
<1>1. Serving(w, "add") /\ Save(w, columns)
  BY DEF AddItem
<1>2. /\ seen[w] # Idle /\ r \in Ids /\ row[r] \in Row /\ seen[w].req.op = "add"
      /\ row[r].kind = copy.kind /\ copy.kind = "group"
  BY <1>1, AtWork
<1>3. Permitted(copy, seen[w].req)
  BY <1>2 DEF IInv, ReadInv
<1>4. copy.status = "OPEN"
  BY <1>2, <1>3, Allowed
<1>5. row[r] \in Group
  BY <1>2, Kinds
<1>6. new.deleted = row[r].deleted
  BY <1>5 DEF Updated, Group
<1>7. AttachedTo(r)
  BY DEF AddItem, Attach, IInv, TypeOK, AttachedTo
<1>8. row[r] = copy => Along(row[r], new)
  BY <1>2 DEF Along
<1> HIDE DEF new, columns
<1>9. row[r] = seen[w].copy =>
        /\ attached'[r] # attached[r] /\ row[r].kind = "group" => row[r].status = "OPEN"
        /\ new.deleted = row[r].deleted
        /\ new # row[r] => \/ Along(row[r], new)
                           \/ /\ Serving(w, "trip over") \/ Serving(w, "edit")
                              /\ seen[w].req.body # <<>>
  BY <1>4, <1>6, <1>8
<1>10. QED
  BY <1>1, <1>2, <1>7, <1>9, SaveMoves DEF new

\* A conversion brings no lead back.
LEMMA ConvertMoves ==
  ASSUME IInv, NEW w \in Workers, Convert(w)
  PROVE  AllMove
<1> DEFINE r == seen[w].id
           columns == [status |-> "WON", converted |-> TRUE]
           new == Updated(columns, row[r])
<1>1. Serving(w, "convert") /\ Save(w, columns)
  BY DEF Convert
<1>2. seen[w] # Idle /\ r \in Ids /\ row[r] \in Row /\ row[r].kind = "lead"
  BY <1>1, AtWork
<1>3. new.deleted = row[r].deleted
  <2>1. row[r] \in Lead
    BY <1>2, Kinds
  <2>2. QED
    BY <2>1, Converted
<1>4. AttachedTo(r)
  BY DEF Convert, Attach, IInv, TypeOK, AttachedTo
<1>5. Along(row[r], new)
  BY <1>2 DEF Along
<1> HIDE DEF new, columns
<1>6. row[r] = seen[w].copy =>
        /\ attached'[r] # attached[r] /\ row[r].kind = "group" => row[r].status = "OPEN"
        /\ new.deleted = row[r].deleted
        /\ new # row[r] => \/ Along(row[r], new)
                           \/ /\ Serving(w, "trip over") \/ Serving(w, "edit")
                              /\ seen[w].req.body # <<>>
  BY <1>2, <1>3, <1>5
<1>7. QED
  BY <1>1, <1>2, <1>4, <1>6, SaveMoves DEF new

\* start_trip has found the trip scheduled or dispatched.
LEMMA StartMoves ==
  ASSUME IInv, NEW w \in Workers, StartTrip(w)
  PROVE  AllMove
<1> DEFINE r == seen[w].id
           columns == [status |-> "IN_PROGRESS", started |-> TRUE]
           new == Updated(columns, row[r])
<1>1. Serving(w, "start") /\ Save(w, columns) /\ attached' = attached /\ AttachedTo(r)
  BY DEF AttachedTo, StartTrip
<1>2. /\ seen[w] # Idle /\ r \in Ids /\ row[r] \in Row /\ row[r].kind = "shuttle"
      /\ seen[w].copy.status \in {"SCHEDULED", "DISPATCHED"}
  BY <1>1, AtWork
<1>3. new.deleted = row[r].deleted /\ new.status = "IN_PROGRESS"
  <2>1. row[r] \in ShuttleTrip
    BY <1>2, Kinds
  <2>2. QED
    BY <2>1, Started
<1>4. row[r] = seen[w].copy => Along(row[r], new)
  BY <1>2, <1>3 DEF Along
<1> HIDE DEF new, columns
<1>5. QED
  BY <1>1, <1>2, <1>3, <1>4, SaveMoves DEF new

\* complete_trip has found the trip in progress.
LEMMA CompleteMoves ==
  ASSUME IInv, NEW w \in Workers, CompleteTrip(w)
  PROVE  AllMove
<1> DEFINE r == seen[w].id
           columns == [status |-> "COMPLETED", ended |-> TRUE]
           new == Updated(columns, row[r])
<1>1. Serving(w, "complete") /\ Save(w, columns) /\ attached' = attached /\ AttachedTo(r)
  BY DEF AttachedTo, CompleteTrip
<1>2. /\ seen[w] # Idle /\ r \in Ids /\ row[r] \in Row /\ row[r].kind = "shuttle"
      /\ seen[w].copy.status = "IN_PROGRESS"
  BY <1>1, AtWork
<1>3. new.deleted = row[r].deleted /\ new.status = "COMPLETED"
  <2>1. row[r] \in ShuttleTrip
    BY <1>2, Kinds
  <2>2. QED
    BY <2>1, Completed
<1>4. row[r] = seen[w].copy => Along(row[r], new)
  BY <1>2, <1>3 DEF Along
<1> HIDE DEF new, columns
<1>5. QED
  BY <1>1, <1>2, <1>3, <1>4, SaveMoves DEF new

\* update_odometer has compared its reading with the copy's.
LEMMA SetOdometerMoves ==
  ASSUME IInv, NEW w \in Workers, SetOdometer(w)
  PROVE  AllMove
<1> DEFINE r == seen[w].id
           copy == seen[w].copy
           km == seen[w].req.reading
           columns == [odometer |-> km]
           new == Updated(columns, row[r])
<1>1. Serving(w, "odometer") /\ Save(w, columns) /\ attached' = attached /\ AttachedTo(r)
  BY DEF AttachedTo, SetOdometer
<1>2. /\ seen[w] # Idle /\ r \in Ids /\ row[r] \in Row /\ row[r].kind = "vehicle"
      /\ copy \in Row /\ copy.kind = "vehicle"
      /\ seen[w].req \in Request /\ seen[w].req.op = "odometer"
  BY <1>1, AtWork
<1>3. Permitted(copy, seen[w].req)
  BY <1>2 DEF IInv, ReadInv
<1>4. copy.odometer <= km
  BY <1>2, <1>3, Allowed
<1>5. row[r] \in Vehicle /\ km \in Nat
  BY <1>2, Kinds, Requests, OperationsAssumption
<1>6. row[r].odometer \in Nat
  <2>1. row[r].odometer \in Readings \cup {0}
    BY <1>5 DEF Vehicle
  <2>2. Readings \cup {0} \subseteq Nat
    BY OperationsAssumption
  <2>3. QED
    BY <2>1, <2>2
<1>7. new.deleted = row[r].deleted /\ new.odometer = km
  BY <1>5 DEF Updated, Vehicle
<1>8. row[r] = copy => Along(row[r], new)
  BY <1>2, <1>4, <1>5, <1>6, <1>7 DEF Along
<1> HIDE DEF new, columns
<1>9. QED
  BY <1>1, <1>2, <1>7, <1>8, SaveMoves DEF new

\* A trip without a reading saves the vehicle's own.
LEMMA EndOfTripMoves ==
  ASSUME IInv, NEW w \in Workers, EndOfTrip(w)
  PROVE  AllMove
<1> DEFINE r == seen[w].id
           copy == seen[w].copy
           body == seen[w].req.body
           columns == [odometer |-> Updated(body, copy).odometer]
           new == Updated(columns, row[r])
<1>1. Serving(w, "trip over") /\ Save(w, columns) /\ attached' = attached /\ AttachedTo(r)
  BY DEF AttachedTo, EndOfTrip
<1>2. /\ seen[w] # Idle /\ r \in Ids /\ row[r] \in Row /\ row[r].kind = "vehicle" /\ copy \in Row
  BY <1>1, AtWork
<1>3. row[r] \in Vehicle
  BY <1>2, Kinds
<1>4. new.deleted = row[r].deleted
  BY <1>3 DEF Updated, Vehicle
<1>5. (row[r] = copy /\ body = <<>>) => new = row[r]
  <2>1. body = <<>> => Updated(body, copy) = copy
    BY <1>2, UpdatedNothing
  <2>2. Updated([odometer |-> row[r].odometer], row[r]) = row[r]
    BY <1>3 DEF Updated, Vehicle
  <2>3. QED
    BY <2>1, <2>2
<1> HIDE DEF new, columns
<1>6. row[r] = seen[w].copy =>
        /\ attached'[r] # attached[r] /\ row[r].kind = "group" => row[r].status = "OPEN"
        /\ new.deleted = row[r].deleted
        /\ new # row[r] => \/ Along(row[r], new)
                           \/ /\ Serving(w, "trip over") \/ Serving(w, "edit")
                              /\ seen[w].req.body # <<>>
  BY <1>1, <1>4, <1>5
<1>7. QED
  BY <1>1, <1>2, <1>6, SaveMoves DEF new

\* advance_status brings no cross-dock back.
LEMMA AdvanceMoves ==
  ASSUME IInv, NEW w \in Workers, AdvanceStatus(w)
  PROVE  AllMove
<1> DEFINE r == seen[w].id
           copy == seen[w].copy
           to == seen[w].req.status
           columns == [copy EXCEPT !.status = to,
                         !.left = @ \/ to \in {"OUTBOUND_DISPATCHED", "COMPLETED"}]
           new == Updated(columns, row[r])
<1>1. Serving(w, "advance") /\ Save(w, columns) /\ attached' = attached /\ AttachedTo(r)
  BY DEF AttachedTo, AdvanceStatus
<1>2. /\ seen[w] # Idle /\ r \in Ids /\ row[r] \in Row /\ row[r].kind = "crossdock"
      /\ copy \in Row /\ copy.kind = "crossdock"
  BY <1>1, AtWork
<1>3. row[r] \in CrossDock /\ copy \in CrossDock
  BY <1>2, Kinds
<1>4. DOMAIN columns = DOMAIN copy /\ columns.deleted = copy.deleted
  BY <1>3 DEF CrossDock
<1> HIDE DEF columns
<1>5. row[r] = copy => new.deleted = row[r].deleted
  BY <1>3, <1>4 DEF Updated, CrossDock
<1>6. Along(row[r], new)
  BY <1>2 DEF Along
<1> HIDE DEF new
<1>7. QED
  BY <1>1, <1>2, <1>5, <1>6, SaveMoves DEF new

\* An edit without columns saves its copy.
LEMMA EditMoves ==
  ASSUME IInv, NEW w \in Workers, Edit(w)
  PROVE  AllMove
<1> DEFINE r == seen[w].id
           copy == seen[w].copy
           body == seen[w].req.body
           columns == Updated(body, copy)
           new == Updated(columns, row[r])
<1>1. Serving(w, "edit") /\ Save(w, columns) /\ attached' = attached /\ AttachedTo(r)
  BY DEF AttachedTo, Edit
<1>2. /\ seen[w] # Idle /\ r \in Ids /\ row[r] \in Row /\ copy \in Row
      /\ row[r].kind = copy.kind /\ Valid(copy, body)
      /\ seen[w].req \in Request /\ seen[w].req.op = "edit"
  BY <1>1, AtWork
<1>3. columns \in Row /\ columns.kind = copy.kind /\ columns.deleted = copy.deleted
  BY <1>2, Requests, Edited
<1>4. body = <<>> => columns = copy
  BY <1>2, UpdatedNothing
<1> HIDE DEF columns
<1>5. new = columns
  BY <1>2, <1>3, UpdatedAll
<1>6. row[r] = copy => new.deleted = row[r].deleted /\ (body = <<>> => new = row[r])
  BY <1>3, <1>4, <1>5
<1> HIDE DEF new
<1>7. row[r] = seen[w].copy =>
        /\ attached'[r] # attached[r] /\ row[r].kind = "group" => row[r].status = "OPEN"
        /\ new.deleted = row[r].deleted
        /\ new # row[r] => \/ Along(row[r], new)
                           \/ /\ Serving(w, "trip over") \/ Serving(w, "edit")
                              /\ seen[w].req.body # <<>>
  BY <1>1, <1>6
<1>8. QED
  BY <1>1, <1>2, <1>7, SaveMoves DEF new

\* Every step moves rows only as MovesAllowed says.
LEMMA NextMoves ==
  ASSUME IInv, [Next]_vars
  PROVE  [AllMove]_vars
<1>1. ASSUME NEW r \in Ids, NEW first \in New, NEW body \in Body, Create(r, first, body) PROVE AllMove
  <2> SUFFICES ASSUME NEW q \in Ids, row[q] # NoRow PROVE Moves(q)
    BY DEF AllMove
  <2>1. row'[q] = row[q] /\ attached'[q] = attached[q]
    BY <1>1 DEF Create, IInv, TypeOK
  <2>2. QED
    BY <2>1 DEF Moves
<1>2. ASSUME NEW r \in Ids, Delete(r) PROVE AllMove
  <2> SUFFICES ASSUME NEW q \in Ids, row[q] # NoRow PROVE Moves(q)
    BY DEF AllMove
  <2>1. row[q] \in Row /\ attached'[q] = attached[q]
    BY <1>2 DEF Delete, IInv, TypeOK
  <2>2. CASE q = r
    <3>1. row'[q] = [row[q] EXCEPT !.deleted = TRUE]
      BY <1>2, <2>2 DEF Delete, IInv, TypeOK
    <3>2. row'[q].deleted = TRUE
      BY <2>1, <3>1, Hidden
    <3>3. QED
      BY <2>1, <3>2 DEF Moves
  <2>3. CASE q # r
    <3>1. row'[q] = row[q]
      BY <1>2, <2>3 DEF Delete, IInv, TypeOK
    <3>2. QED
      BY <2>1, <3>1 DEF Moves
  <2>4. QED
    BY <2>2, <2>3
<1>3. ASSUME UNCHANGED <<row, attached>> PROVE AllMove
  BY <1>3 DEF AllMove, Moves
<1>4. ASSUME NEW w \in Workers, AddItem(w) PROVE AllMove
  BY <1>4, AddItemMoves
<1>5. ASSUME NEW w \in Workers, Convert(w) PROVE AllMove
  BY <1>5, ConvertMoves
<1>6. ASSUME NEW w \in Workers, StartTrip(w) PROVE AllMove
  BY <1>6, StartMoves
<1>7. ASSUME NEW w \in Workers, CompleteTrip(w) PROVE AllMove
  BY <1>7, CompleteMoves
<1>8. ASSUME NEW w \in Workers, SetOdometer(w) PROVE AllMove
  BY <1>8, SetOdometerMoves
<1>9. ASSUME NEW w \in Workers, EndOfTrip(w) PROVE AllMove
  BY <1>9, EndOfTripMoves
<1>10. ASSUME NEW w \in Workers, AdvanceStatus(w) PROVE AllMove
  BY <1>10, AdvanceMoves
<1>11. ASSUME NEW w \in Workers, Edit(w) PROVE AllMove
  BY <1>11, EditMoves
<1>12. ASSUME NEW w \in Workers, NEW r \in Ids, NEW req \in Request, Read(w, r, req) \/ Fail(w) PROVE AllMove
  BY <1>3, <1>12 DEF Read, Fail
<1>13. ASSUME NEW w \in Workers, Fail(w) PROVE AllMove
  BY <1>3, <1>13 DEF Fail
<1>14. QED
  BY <1>1, <1>2, <1>4, <1>5, <1>6, <1>7, <1>8, <1>9, <1>10, <1>11, <1>12, <1>13 DEF Next

-----------------------------------------------------------------------------
\* The inductive invariant.
THEOREM Inductive == Spec => []IInv
<1>1. Init => IInv
  BY InitIInv
<1>2. IInv /\ [Next]_vars => IInv'
  BY NextIInv
<1>3. QED
  BY <1>1, <1>2, PTL DEF Spec

\* Rows stay in their tables: no service, and no edit the serializer lets
\* through, gives a row a status that is not its kind's.
THEOREM TypeCorrect == Spec => []TypeOK
<1>1. IInv => TypeOK
  BY DEF IInv
<1>2. QED
  BY <1>1, Inductive, PTL

\* Totals, customers and times are backed by what they stand for, and are exact
\* where no request overtook another.
THEOREM BooksCorrect == Spec => []BooksAgree
<1>1. IInv => BooksAgree
  BY DEF IInv
<1>2. QED
  BY <1>1, Inductive, PTL

\* A row that is saved from what it still is moves only as its service allows.
THEOREM MovesCorrect == Spec => MovesAllowed
<1>1. IInv /\ [Next]_vars => [AllMove]_vars
  BY NextMoves
<1>2. Spec => [][AllMove]_vars
  BY <1>1, Inductive, PTL DEF Spec
<1>3. QED
  BY <1>2 DEF MovesAllowed, AllMove, Moves
=============================================================================
