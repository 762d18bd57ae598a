----------------------------- MODULE Operations -----------------------------
(***************************************************************************)
(* Five kinds of rows that services move along: consolidation groups,      *)
(* sales leads, shuttle trips, vehicles (their odometers) and cross-dock   *)
(* operations.                                                             *)
(*                                                                         *)
(* Their services work alike.  A view reads the row without a lock, the    *)
(* service checks that copy, and one transaction writes columns of the     *)
(* row, as computed from the copy, together with rows that go with it.     *)
(* Requests on one row may overtake each other in between.                 *)
(***************************************************************************)
EXTENDS Naturals

CONSTANTS
  Ids,           \* primary keys
  Workers,       \* each serves one request at a time
  Parcels,       \* parcel counts clients send
  Readings,      \* odometer readings clients send
  MaxAttached,   \* bounds the parcels packed, and the customers made, per row
  NoRow

\* "SEALED", "NEW" and "SORTING" stand for every status that the services treat
\* like them; "?" is text that is no status.
GroupStatus == {"OPEN", "SEALED"}
LeadStatus == {"NEW", "WON"}
ShuttleTripStatus == {"SCHEDULED", "DISPATCHED", "IN_PROGRESS", "COMPLETED", "CANCELLED"}
CrossDockStatus == {"SORTING", "OUTBOUND_DISPATCHED", "COMPLETED", "?"}

\* "started" and "ended": actual_start and actual_end are set; "left":
\* outbound_time is.
Group == [kind : {"group"}, deleted : BOOLEAN, status : GroupStatus, total_parcels : Nat]
Lead == [kind : {"lead"}, deleted : BOOLEAN, status : LeadStatus, converted : BOOLEAN]
ShuttleTrip == [kind : {"shuttle"}, deleted : BOOLEAN, status : ShuttleTripStatus,
                started : BOOLEAN, ended : BOOLEAN]
Vehicle == [kind : {"vehicle"}, deleted : BOOLEAN, odometer : Readings \cup {0}]
CrossDock == [kind : {"crossdock"}, deleted : BOOLEAN, status : CrossDockStatus, left : BOOLEAN]

Row == Group \cup Lead \cup ShuttleTrip \cup Vehicle \cup CrossDock

\* What a row is when it is inserted, but for the columns a client gives.
New == {[kind |-> "group", deleted |-> FALSE, status |-> "OPEN", total_parcels |-> 0],
        [kind |-> "lead", deleted |-> FALSE, status |-> "NEW", converted |-> FALSE],
        [kind |-> "shuttle", deleted |-> FALSE, status |-> "SCHEDULED",
         started |-> FALSE, ended |-> FALSE],
        [kind |-> "vehicle", deleted |-> FALSE, odometer |-> 0],
        [kind |-> "crossdock", deleted |-> FALSE, status |-> "SORTING", left |-> FALSE]}

\* What a client may give: some column or none.  The totals of a group and the
\* customer of a lead are read-only.
Status == (GroupStatus \cup LeadStatus \cup ShuttleTripStatus \cup CrossDockStatus) \ {"?"}
Reading == [{"odometer"} -> Readings]
Body == [{"status"} -> Status] \cup Reading \cup [{"started"} -> BOOLEAN]
        \cup [{"ended"} -> BOOLEAN] \cup [{"left"} -> BOOLEAN] \cup {<<>>}

Request ==
  [op : {"add"}, parcels : Parcels] \cup [op : {"convert", "start", "complete"}]
  \cup [op : {"odometer"}, reading : Readings]
  \cup [op : {"trip over"}, body : Reading \cup {<<>>}]
  \cup [op : {"advance"}, status : CrossDockStatus]
  \cup [op : {"edit"}, body : Body]

ASSUME OperationsAssumption ==
  /\ Parcels \subseteq Nat
  /\ Readings \subseteq Nat
  /\ MaxAttached \in Nat
  /\ NoRow \notin Row

VARIABLES
  row,        \* the rows
  attached,   \* parcels of a group's items; customers made from a lead
  seen,       \* what each worker has read, and the request it serves
  overtaken,  \* history: rows saved by a request that had read an older one
  rewritten   \* history: rows a client gave columns of

vars == <<row, attached, seen, overtaken, rewritten>>

Idle == [id |-> NoRow, copy |-> NoRow, req |-> NoRow]

Seen == [id : Ids, copy : Row, req : Request] \cup {Idle}

Init ==
  /\ row = [r \in Ids |-> NoRow]
  /\ attached = [r \in Ids |-> 0]
  /\ seen = [w \in Workers |-> Idle]
  /\ overtaken = {}
  /\ rewritten = {}

-----------------------------------------------------------------------------
\* Helpers

Live(r) == row[r] # NoRow /\ ~row[r].deleted

Serving(w, op) == seen[w].req # NoRow /\ seen[w].req.op = op

\* The columns of an update, over those of the row.
Updated(columns, old) ==
  [field \in DOMAIN old |-> IF field \in DOMAIN columns THEN columns[field] ELSE old[field]]

\* UPDATE of the columns named, and the end of the request.
Save(w, columns) ==
  LET r == seen[w].id IN
  /\ row' = [row EXCEPT ![r] = Updated(columns, @)]
  /\ overtaken' = IF row[r] = seen[w].copy THEN overtaken ELSE overtaken \cup {r}
  /\ seen' = [seen EXCEPT ![w] = Idle]

\* The rows that go with it, in the same transaction.
Attach(r, n) ==
  /\ attached[r] + n <= MaxAttached
  /\ attached' = [attached EXCEPT ![r] = @ + n]

MutValid(copy, body) == DOMAIN body \subseteq DOMAIN copy   \* mutant: the choices of a status are not checked

\* The serializer's check.
Valid(copy, body) == DOMAIN body \subseteq DOMAIN copy /\ Updated(body, copy) \in Row

MutPermitted(copy, req) ==   \* mutant: the status is not checked
  \/ req.op = "add" /\ copy.kind = "group"
  \/ req.op = "convert" /\ copy.kind = "lead" /\ ~copy.converted
  \/ req.op = "start" /\ copy.kind = "shuttle" /\ copy.status \in {"SCHEDULED", "DISPATCHED"}
  \/ req.op = "complete" /\ copy.kind = "shuttle" /\ copy.status = "IN_PROGRESS"
  \/ req.op = "odometer" /\ copy.kind = "vehicle" /\ copy.odometer <= req.reading
  \/ req.op = "trip over" /\ copy.kind = "vehicle" /\ Valid(copy, req.body)
  \/ req.op = "advance" /\ copy.kind = "crossdock"
  \/ req.op = "edit" /\ Valid(copy, req.body)

\* The checks of the services, on what was read.
Permitted(copy, req) ==
  \/ req.op = "add" /\ copy.kind = "group" /\ copy.status = "OPEN"
  \/ req.op = "convert" /\ copy.kind = "lead" /\ ~copy.converted
  \/ req.op = "start" /\ copy.kind = "shuttle" /\ copy.status \in {"SCHEDULED", "DISPATCHED"}
  \/ req.op = "complete" /\ copy.kind = "shuttle" /\ copy.status = "IN_PROGRESS"
  \/ req.op = "odometer" /\ copy.kind = "vehicle" /\ copy.odometer <= req.reading
  \/ req.op = "trip over" /\ copy.kind = "vehicle" /\ Valid(copy, req.body)
  \/ req.op = "advance" /\ copy.kind = "crossdock"
  \/ req.op = "edit" /\ Valid(copy, req.body)

-----------------------------------------------------------------------------
\* Any resource

\* The columns a client sets by a body, for the histories.
Rewritten(r, body) == IF body = <<>> THEN rewritten ELSE rewritten \cup {r}

Create(r, new, body) ==
  /\ row[r] = NoRow
  /\ Valid(new, body)
  /\ row' = [row EXCEPT ![r] = Updated(body, new)]
  /\ rewritten' = Rewritten(r, body)
  /\ UNCHANGED <<attached, seen, overtaken>>

\* get_object, or the vehicle of a trip, which may be deleted, and the check; a
\* request that is refused changes nothing.
Read(w, r, req) ==
  /\ seen[w] = Idle
  /\ IF req.op = "trip over" THEN row[r] # NoRow ELSE Live(r)
  /\ Permitted(row[r], req)
  /\ seen' = [seen EXCEPT ![w] = [id |-> r, copy |-> row[r], req |-> req]]
  /\ UNCHANGED <<row, attached, overtaken, rewritten>>

\* The transaction fails, or the worker ends.
Fail(w) ==
  /\ seen[w] # Idle
  /\ seen' = [seen EXCEPT ![w] = Idle]
  /\ UNCHANGED <<row, attached, overtaken, rewritten>>

\* PUT, PATCH: every column, is_deleted included, from the copy.
Edit(w) ==
  /\ Serving(w, "edit")
  /\ Save(w, Updated(seen[w].req.body, seen[w].copy))
  /\ rewritten' = Rewritten(seen[w].id, seen[w].req.body)
  /\ UNCHANGED attached

\* DELETE hides the row.
Delete(r) ==
  /\ Live(r)
  /\ row' = [row EXCEPT ![r].deleted = TRUE]
  /\ UNCHANGED <<attached, seen, overtaken, rewritten>>

-----------------------------------------------------------------------------
\* The services

\* add_item: the item, and the total as it was read plus its parcels.
AddItem(w) ==
  LET n == seen[w].req.parcels IN
  /\ Serving(w, "add")
  /\ Attach(seen[w].id, n)
  /\ Save(w, [total_parcels |-> seen[w].copy.total_parcels + n])
  /\ UNCHANGED rewritten

MutConvert(w) ==   \* mutant: converted_customer is not among the columns saved
  /\ Serving(w, "convert")
  /\ Attach(seen[w].id, 1)
  /\ Save(w, [status |-> "WON"])
  /\ UNCHANGED rewritten

\* convert_lead_to_customer: a customer, and the lead that names it.
Convert(w) ==
  /\ Serving(w, "convert")
  /\ Attach(seen[w].id, 1)
  /\ Save(w, [status |-> "WON", converted |-> TRUE])
  /\ UNCHANGED rewritten

StartTrip(w) ==
  /\ Serving(w, "start")
  /\ Save(w, [status |-> "IN_PROGRESS", started |-> TRUE])
  /\ UNCHANGED <<attached, rewritten>>

CompleteTrip(w) ==
  /\ Serving(w, "complete")
  /\ Save(w, [status |-> "COMPLETED", ended |-> TRUE])
  /\ UNCHANGED <<attached, rewritten>>

\* update_odometer
SetOdometer(w) ==
  /\ Serving(w, "odometer")
  /\ Save(w, [odometer |-> seen[w].req.reading])
  /\ UNCHANGED <<attached, rewritten>>

\* The vehicle's trip completes: the trip's reading is not compared with the
\* vehicle's, and without one the vehicle's is saved as it was read.
EndOfTrip(w) ==
  /\ Serving(w, "trip over")
  /\ Save(w, [odometer |-> Updated(seen[w].req.body, seen[w].copy).odometer])
  /\ UNCHANGED <<attached, rewritten>>

\* advance_status: to whatever the client says, and the whole row is saved.
AdvanceStatus(w) ==
  LET to == seen[w].req.status IN
  /\ Serving(w, "advance")
  /\ Save(w, [seen[w].copy EXCEPT !.status = to,
                !.left = @ \/ to \in {"OUTBOUND_DISPATCHED", "COMPLETED"}])
  /\ UNCHANGED <<attached, rewritten>>

-----------------------------------------------------------------------------
Next ==
  \/ \E r \in Ids : (\E new \in New, body \in Body : Create(r, new, body)) \/ Delete(r)
  \/ \E w \in Workers, r \in Ids, req \in Request : Read(w, r, req)
  \/ \E w \in Workers :
       \/ AddItem(w) \/ Convert(w) \/ StartTrip(w) \/ CompleteTrip(w)
       \/ SetOdometer(w) \/ EndOfTrip(w) \/ AdvanceStatus(w) \/ Edit(w) \/ Fail(w)

Spec == Init /\ [][Next]_vars

-----------------------------------------------------------------------------
\* Properties

TypeOK ==
  /\ row \in [Ids -> Row \cup {NoRow}]
  /\ attached \in [Ids -> 0..MaxAttached]
  /\ seen \in [Workers -> Seen]
  /\ overtaken \subseteq Ids
  /\ rewritten \subseteq Ids

\* What is so however requests overtake each other.
NotOverstated(old, n) ==
  /\ old.kind = "group" => old.total_parcels <= n
  /\ old.kind = "lead" /\ old.converted => n > 0

HasTimes(old) ==
  /\ old.kind = "shuttle" /\ old.status = "IN_PROGRESS" => old.started
  /\ old.kind = "shuttle" /\ old.status = "COMPLETED" => old.ended
  /\ old.kind = "crossdock" /\ old.status \in {"OUTBOUND_DISPATCHED", "COMPLETED"} => old.left

\* What is so on a row where they do not.
Exact(old, n) ==
  /\ old.kind = "group" => old.total_parcels = n
  /\ old.kind = "lead" => n = IF old.converted THEN 1 ELSE 0

ExactTimes(old) ==
  old.kind = "shuttle" =>
    /\ old.started <=> old.status \in {"IN_PROGRESS", "COMPLETED"}
    /\ old.ended <=> old.status = "COMPLETED"

\* Parcels, customers and times never go unaccounted the other way: a group
\* counts no parcel that is not in it, a converted lead has a customer, and a
\* trip or cross-dock has the time of its status unless a client gave columns.
\* Only requests that overtake each other leave parcels uncounted, make two
\* customers of one lead, or leave a trip with times its status does not have.
BooksAgree ==
  \A r \in Ids : row[r] # NoRow =>
    /\ NotOverstated(row[r], attached[r])
    /\ r \notin rewritten => HasTimes(row[r])
    /\ r \notin overtaken =>
         /\ Exact(row[r], attached[r])
         /\ r \notin rewritten => ExactTimes(row[r])

\* What a step may do to a row of its kind when nobody edits it.
Along(old, new) ==
  /\ old.kind = "shuttle" => <<old.status, new.status>> \in
       {<<"SCHEDULED", "IN_PROGRESS">>, <<"DISPATCHED", "IN_PROGRESS">>, <<"IN_PROGRESS", "COMPLETED">>}
  /\ old.kind = "vehicle" => new.odometer >= old.odometer

\* Unless requests overtook each other on a row: a group that is not open does
\* not grow, a deleted row does not come back, a shuttle trip moves along only
\* as its service says, and an odometer never falls but by the reading of a trip
\* or of an edit.
MovesAllowed ==
  [][\A r \in Ids : row[r] # NoRow /\ r \notin overtaken' =>
       /\ attached'[r] # attached[r] /\ row[r].kind = "group" => row[r].status = "OPEN"
       /\ row[r].deleted => row'[r].deleted
       /\ row'[r] # row[r] /\ ~row'[r].deleted =>
            \/ Along(row[r], row'[r])
            \/ \E w \in Workers :
                 /\ seen[w].id = r /\ seen'[w] = Idle
                 /\ Serving(w, "trip over") \/ Serving(w, "edit")
                 /\ seen[w].req.body # <<>>]_vars
=============================================================================
