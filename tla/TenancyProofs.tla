--------------------------- MODULE TenancyProofs ---------------------------
(***************************************************************************)
(* Proofs about Tenancy, for any tenants, users, rows, workers and bodies. *)
(*                                                                         *)
(* The argument: what a request has loaded is of the tenant it is served   *)
(* in, and so is whatever stands at that place now (Serves), because rows  *)
(* never move and a membership put back by one stale edit is the one that  *)
(* every other stale edit of it has read (SameTenant).                     *)
(* Working on a trip writes units of other tenants too, but only their     *)
(* status (Worked).                                                        *)
(***************************************************************************)
EXTENDS Tenancy, TLAPS

\* Only administrators are served outside a tenant; what has been loaded, and
\* what is there now, is of the tenant of the request.  The tenant a plan is
\* chosen for is still there.
Serves(w) ==
  /\ pc[w] \in {"admitted", "row"} /\ req[w].tenant = NoTenant => req[w].user \in Admins
  /\ req[w].tenant # NoTenant => tenant[req[w].tenant] # NoRow
  /\ pc[w] = "row" =>
       /\ row[seen[w].id] # NoRow
       /\ row[seen[w].id].tenant = seen[w].copy.tenant
       /\ req[w].tenant \in {NoTenant, seen[w].copy.tenant}
  /\ pc[w] \in {"choosing", "paying"} => tenant[seen[w].id] # NoRow
  /\ pc[w] = "member" =>
       /\ req[w].manager
       /\ req[w].tenant = seen[w].copy.tenant
       /\ seen[w].id <= inserted
       /\ membership[seen[w].id] # NoRow => membership[seen[w].id].tenant = req[w].tenant

\* Two edits of one membership are served in the same tenant.
SameTenant ==
  \A v, w \in Workers :
    pc[v] = "member" /\ pc[w] = "member" /\ seen[v].id = seen[w].id =>
      req[v].tenant = req[w].tenant

\* Memberships are numbered in the order they are inserted.
Fresh == \A m \in MembershipIds : inserted < m => membership[m] = NoRow

\* Every membership is of a tenant there is.
Existing == \A m \in Members : tenant[membership[m].tenant] # NoRow

IInv == TypeOK /\ OneMembershipEach /\ Fresh /\ Existing /\ SameTenant /\ \A w \in Workers : Serves(w)

-----------------------------------------------------------------------------
\* The end of a request leaves the other requests as they are.
LEMMA Answered ==
  ASSUME TypeOK, NEW w \in Workers, Answer(w)
  PROVE  /\ pc' \in [Workers -> PCStates] /\ req' \in [Workers -> Request]
         /\ seen' \in [Workers -> Seen] /\ \A v \in Workers : Loaded(v)'
         /\ pc'[w] = "idle"
         /\ \A v \in Workers \ {w} : pc'[v] = pc[v] /\ req'[v] = req[v] /\ seen'[v] = seen[v]
<1>1. NoRequest \in Request /\ Nothing \in Seen
  BY DEF NoRequest, Request, Nothing, Seen
<1>2. pc' \in [Workers -> PCStates] /\ req' \in [Workers -> Request] /\ seen' \in [Workers -> Seen]
  BY <1>1 DEF TypeOK, Answer, PCStates
<1>3. pc'[w] = "idle"
  BY DEF TypeOK, Answer
<1>4. \A v \in Workers \ {w} : pc'[v] = pc[v] /\ req'[v] = req[v] /\ seen'[v] = seen[v]
  BY DEF TypeOK, Answer
<1>5. \A v \in Workers : Loaded(v)'
  BY <1>3, <1>4 DEF TypeOK, Loaded
<1>6. QED
  BY <1>2, <1>3, <1>4, <1>5

\* A request that is let in leaves the other requests as they are.
LEMMA Entered ==
  ASSUME TypeOK, NEW w \in Workers, NEW r \in Request,
         req' = [req EXCEPT ![w] = r], pc' = [pc EXCEPT ![w] = "admitted"], UNCHANGED <<tables, seen>>
  PROVE  /\ pc' \in [Workers -> PCStates] /\ req' \in [Workers -> Request]
         /\ seen' \in [Workers -> Seen] /\ \A v \in Workers : Loaded(v)'
         /\ pc'[w] = "admitted" /\ req'[w] = r
         /\ \A v \in Workers \ {w} : pc'[v] = pc[v] /\ req'[v] = req[v] /\ seen'[v] = seen[v]
<1>1. pc' \in [Workers -> PCStates] /\ req' \in [Workers -> Request] /\ seen' \in [Workers -> Seen]
  BY DEF TypeOK, PCStates, tables
<1>2. pc'[w] = "admitted" /\ req'[w] = r
  BY DEF TypeOK
<1>3. \A v \in Workers \ {w} : pc'[v] = pc[v] /\ req'[v] = req[v] /\ seen'[v] = seen[v]
  BY DEF TypeOK
<1>4. \A v \in Workers : Loaded(v)'
  BY <1>2, <1>3 DEF TypeOK, Loaded
<1>5. QED
  BY <1>1, <1>2, <1>3, <1>4

\* What an edit of a tenant writes is a tenant row.
LEMMA WrittenTenant ==
  ASSUME TypeOK, NEW w \in Workers, pc[w] = "tenant"
  PROVE  Written(w) \in Tenant
<1>1. seen[w].copy \in Tenant /\ seen[w].body \in TenantBodies
  BY DEF TypeOK, Loaded
<1>2. [seen[w].copy EXCEPT !.status = "ACTIVE"] \in Tenant
  BY <1>1, TenancyAssumption DEF Tenant
<1>3. QED
  BY <1>1, <1>2, TenancyAssumption DEF Written

\* What an edit of a membership writes is a membership of the same tenant.
LEMMA WrittenMember ==
  ASSUME TypeOK, NEW w \in Workers, pc[w] = "member"
  PROVE  /\ Merged(seen[w].body, seen[w].copy) \in TenantUser
         /\ Merged(seen[w].body, seen[w].copy).tenant = seen[w].copy.tenant
<1>1. seen[w].copy \in TenantUser /\ seen[w].body \in MemberBodies
  BY DEF TypeOK, Loaded
<1>2. QED
  BY <1>1, TenancyAssumption

-----------------------------------------------------------------------------
\* Working on a trip writes the trip as it was read, and the status of the
\* units it named.
LEMMA Worked ==
  ASSUME TypeOK, NEW w \in Workers, NEW held \in BOOLEAN, WorkTrip(w, held)
  PROVE  /\ seen[w].id \in Rows /\ seen[w].copy \in Row /\ pc[w] = "row"
         /\ row' \in [Rows -> Row \cup {NoRow}]
         /\ Answer(w) /\ UNCHANGED <<tenant, membership, inserted>>
         /\ row'[seen[w].id] = seen[w].copy
         /\ \A r \in Rows \ {seen[w].id} :
              \/ row'[r] = row[r]
              \/ /\ r \in seen[w].copy.units /\ row[r] \in Row /\ row'[r] \in Row
                 /\ row'[r].tenant = row[r].tenant
                 /\ row'[r] = [row[r] EXCEPT !.held = held]
<1>1. /\ seen[w].id \in Rows /\ seen[w].copy \in Row /\ pc[w] = "row"
      /\ Answer(w) /\ UNCHANGED <<tenant, membership, inserted>>
  BY DEF WorkTrip, TypeOK, Loaded
<1>2. row' = [r \in Rows |->
        IF r = seen[w].id THEN seen[w].copy
        ELSE IF r \in seen[w].copy.units THEN [row[r] EXCEPT !.held = held] ELSE row[r]]
  BY DEF WorkTrip
<1>3. ASSUME NEW r \in Rows \ {seen[w].id}, r \in seen[w].copy.units
      PROVE  /\ row[r] \in Row /\ row'[r] \in Row /\ row'[r].tenant = row[r].tenant
             /\ row'[r] = [row[r] EXCEPT !.held = held]
  <2>1. row[r] \in Row
    BY <1>3 DEF WorkTrip, TypeOK
  <2>2. [row[r] EXCEPT !.held = held] \in Row /\ [row[r] EXCEPT !.held = held].tenant = row[r].tenant
    BY <2>1 DEF Row
  <2>3. row'[r] = [row[r] EXCEPT !.held = held]
    BY <1>2, <1>3
  <2>4. QED
    BY <2>1, <2>2, <2>3
<1>4. \A r \in Rows \ {seen[w].id} : r \notin seen[w].copy.units => row'[r] = row[r]
  BY <1>2
<1>5. row'[seen[w].id] = seen[w].copy
  BY <1>1, <1>2
<1>6. \A r \in Rows : row'[r] \in Row \cup {NoRow}
  BY <1>1, <1>3, <1>4, <1>5 DEF TypeOK
<1>7. row' \in [Rows -> Row \cup {NoRow}]
  BY <1>2, <1>6
<1>8. QED
  BY <1>1, <1>3, <1>4, <1>5, <1>7

\* A plan writes the status of its tenant, if the one that was read waited.
LEMMA Paid ==
  ASSUME TypeOK, NEW w \in Workers, Serves(w), SavePlan(w)
  PROVE  /\ tenant' \in [Tenants -> Tenant \cup {NoRow}]
         /\ Answer(w) /\ UNCHANGED <<membership, inserted, row>>
         /\ \A t \in Tenants : tenant[t] # NoRow => tenant'[t] # NoRow
         /\ \A t \in Tenants : tenant'[t] # tenant[t] =>
              pc[w] = "paying" /\ seen[w].id = t /\ seen[w].copy.status \in WaitingStatuses
<1> DEFINE id == seen[w].id
<1>1. id \in Tenants /\ tenant[id] \in Tenant /\ pc[w] = "paying"
  BY DEF SavePlan, TypeOK, Loaded, Serves
<1>2. Answer(w) /\ UNCHANGED <<membership, inserted, row>>
  BY DEF SavePlan
<1>3. PICK new \in Tenant : new = [tenant[id] EXCEPT !.status = "ACTIVE"]
  BY <1>1, TenancyAssumption DEF Tenant
<1>4. CASE seen[w].copy.status \in WaitingStatuses
  <2>1. tenant' = [tenant EXCEPT ![id] = new]
    BY <1>1, <1>3, <1>4 DEF SavePlan
  <2> HIDE DEF id
  <2>2. new # NoRow
    BY TenancyAssumption
  <2>3. tenant' \in [Tenants -> Tenant \cup {NoRow}]
    BY <1>1, <2>1 DEF TypeOK
  <2>4. \A t \in Tenants : tenant[t] # NoRow => tenant'[t] # NoRow
    BY <1>1, <2>1, <2>2 DEF TypeOK
  <2>5. \A t \in Tenants : tenant'[t] # tenant[t] => id = t
    BY <1>1, <2>1 DEF TypeOK
  <2>6. QED
    BY <1>1, <1>2, <1>4, <2>3, <2>4, <2>5 DEF id
<1>5. CASE seen[w].copy.status \notin WaitingStatuses
  <2>1. tenant' = tenant
    BY <1>5 DEF SavePlan
  <2>2. QED
    BY <1>2, <2>1 DEF TypeOK
<1>6. QED
  BY <1>4, <1>5

-----------------------------------------------------------------------------
\* The actions that touch tenants only.
LEMMA TenantStep ==
  ASSUME TypeOK, UNCHANGED <<membership, inserted, row, pc, req, seen>>,
         NEW t \in Tenants, NEW new \in Tenant, tenant' = [tenant EXCEPT ![t] = new]
  PROVE  TypeOK'
BY DEF TypeOK, Loaded

\* The rows keep their types, whatever is done.
LEMMA TypeStep ==
  ASSUME TypeOK, \A w \in Workers : Serves(w), [Next]_vars
  PROVE  TypeOK'
<1> USE TenancyAssumption
<1>1. ASSUME NEW t \in Tenants, NEW u \in Users, Provision(t, u) PROVE TypeOK'
  <2>1. [status |-> "ACTIVE", deleted |-> FALSE] \in Tenant
    BY DEF Tenant
  <2>2. [user |-> u, tenant |-> t, role |-> "manager", is_active |-> TRUE,
         is_primary |-> TRUE, born |-> inserted + 1] \in TenantUser
    BY <1>1 DEF TenantUser, Roles, Provision
  <2>3. tenant' \in [Tenants -> Tenant \cup {NoRow}]
    BY <1>1, <2>1 DEF TypeOK, Provision
  <2>4. membership' \in [MembershipIds -> TenantUser \cup {NoRow}]
    BY <1>1, <2>2 DEF TypeOK, Provision
  <2>5. inserted' \in 0..MaxInserts
    BY <1>1 DEF TypeOK, Provision, MembershipIds
  <2>6. QED
    BY <1>1, <2>3, <2>4, <2>5 DEF TypeOK, Provision, Loaded
<1>2. ASSUME NEW t \in Tenants, NEW status \in Statuses, CreateTenant(t, status) PROVE TypeOK'
  <2>1. [status |-> status, deleted |-> FALSE] \in Tenant
    BY DEF Tenant
  <2>2. QED
    BY <1>2, <2>1, TenantStep DEF CreateTenant
<1>3. ASSUME NEW t \in Tenants, NEW status \in Statuses, SetStatus(t, status) PROVE TypeOK'
  <2>1. tenant[t] \in Tenant
    BY <1>3 DEF SetStatus, Found, TypeOK
  <2>2. [tenant[t] EXCEPT !.status = status] \in Tenant
    BY <2>1 DEF Tenant
  <2>3. tenant' = [tenant EXCEPT ![t] = [tenant[t] EXCEPT !.status = status]]
    BY <1>3, <2>1 DEF SetStatus
  <2>4. QED
    BY <1>3, <2>2, <2>3, TenantStep DEF SetStatus
<1>4. ASSUME NEW t \in Tenants, DeleteTenant(t) PROVE TypeOK'
  <2>1. tenant[t] \in Tenant
    BY <1>4 DEF DeleteTenant, Found, TypeOK
  <2>2. [tenant[t] EXCEPT !.deleted = TRUE] \in Tenant
    BY <2>1 DEF Tenant
  <2>3. tenant' = [tenant EXCEPT ![t] = [tenant[t] EXCEPT !.deleted = TRUE]]
    BY <1>4, <2>1 DEF DeleteTenant
  <2>4. QED
    BY <1>4, <2>2, <2>3, TenantStep DEF DeleteTenant
<1>5. ASSUME NEW w \in Workers, NEW t \in Tenants, NEW body \in TenantBodies, NEW put \in BOOLEAN,
             LoadTenant(w, t, body, put)
      PROVE TypeOK'
  <2>1. tenant[t] \in Tenant
    BY <1>5 DEF LoadTenant, Found, TypeOK
  <2>2. [id |-> t, copy |-> tenant[t], body |-> body, put |-> put] \in Seen
    BY <2>1 DEF Seen
  <2>3. Load(w, "tenant", t, tenant[t], body, put) /\ "tenant" \in PCStates
    BY <1>5 DEF LoadTenant, PCStates
  <2>4. /\ pc' \in [Workers -> PCStates] /\ req' \in [Workers -> Request]
        /\ seen' \in [Workers -> Seen]
        /\ pc'[w] = "tenant" /\ UNCHANGED tables
        /\ seen'[w] = [id |-> t, copy |-> tenant[t], body |-> body, put |-> put]
        /\ \A v \in Workers \ {w} : pc'[v] = pc[v] /\ seen'[v] = seen[v]
    BY <2>2, <2>3 DEF Load, TypeOK
  <2>5. \A v \in Workers : Loaded(v)'
    BY <2>1, <2>4 DEF TypeOK, Loaded
  <2>6. QED
    BY <2>4, <2>5 DEF TypeOK, tables
<1>6. ASSUME NEW w \in Workers, NEW u \in Users, NEW named \in Headers, Admit(w, u, named) PROVE TypeOK'
  <2>1. PICK m \in Resolved(u, named) :
          /\ Open(membership[m].tenant)
          /\ req' = [req EXCEPT ![w] =
               [user |-> u, named |-> named, tenant |-> membership[m].tenant,
                manager |-> membership[m].role = "manager"]]
    BY <1>6 DEF Admit
  <2>2. membership[m] \in TenantUser
    BY DEF Resolved, First, ActiveOf, Members, TypeOK
  <2>3. [user |-> u, named |-> named, tenant |-> membership[m].tenant,
         manager |-> membership[m].role = "manager"] \in Request
    BY <2>2 DEF Request, TenantUser
  <2>4. pc' = [pc EXCEPT ![w] = "admitted"] /\ UNCHANGED <<tables, seen>>
    BY <1>6 DEF Admit
  <2>5. /\ pc' \in [Workers -> PCStates] /\ req' \in [Workers -> Request]
        /\ seen' \in [Workers -> Seen] /\ \A v \in Workers : Loaded(v)'
    BY <2>1, <2>3, <2>4, Entered
  <2>6. QED
    BY <2>4, <2>5 DEF TypeOK, tables
<1>7. ASSUME NEW w \in Workers, NEW u \in Admins, NEW named \in Headers, AdmitAdmin(w, u, named)
      PROVE TypeOK'
  <2> DEFINE r == [user |-> u, named |-> named, tenant |-> IF Found(named) THEN named ELSE NoTenant,
                   manager |-> TRUE]
  <2>1. r \in Request
    BY DEF Request, Found
  <2>2. req' = [req EXCEPT ![w] = r] /\ pc' = [pc EXCEPT ![w] = "admitted"] /\ UNCHANGED <<tables, seen>>
    BY <1>7 DEF AdmitAdmin
  <2> HIDE DEF r
  <2>3. /\ pc' \in [Workers -> PCStates] /\ req' \in [Workers -> Request]
        /\ seen' \in [Workers -> Seen] /\ \A v \in Workers : Loaded(v)'
    BY <2>1, <2>2, Entered
  <2>4. QED
    BY <2>2, <2>3 DEF TypeOK, tables
<1>8. ASSUME NEW w \in Workers, NEW r \in Rows, NEW units \in SUBSET Units, NEW held \in BOOLEAN,
             CreateRow(w, r, units, held)
      PROVE TypeOK'
  <2>1. PICK t \in Tenants :
          row' = [row EXCEPT ![r] = [tenant |-> t, deleted |-> FALSE, units |-> units, held |-> held]]
    BY <1>8 DEF CreateRow
  <2>2. [tenant |-> t, deleted |-> FALSE, units |-> units, held |-> held] \in Row
    BY DEF Row
  <2>3. row' \in [Rows -> Row \cup {NoRow}]
    BY <2>1, <2>2 DEF TypeOK
  <2>4. QED
    BY <1>8, <2>3, Answered DEF TypeOK, CreateRow
<1>9. ASSUME NEW w \in Workers, NEW r \in Rows, LoadRow(w, r) PROVE TypeOK'
  <2>1. row[r] \in Row
    BY <1>9 DEF LoadRow, Visible, TypeOK
  <2>2. [id |-> r, copy |-> row[r], body |-> <<>>, put |-> FALSE] \in Seen
    BY <2>1 DEF Seen
  <2>3. Load(w, "row", r, row[r], <<>>, FALSE) /\ "row" \in PCStates
    BY <1>9 DEF LoadRow, PCStates
  <2>4. /\ pc' \in [Workers -> PCStates] /\ req' \in [Workers -> Request]
        /\ seen' \in [Workers -> Seen]
        /\ pc'[w] = "row" /\ UNCHANGED tables
        /\ seen'[w] = [id |-> r, copy |-> row[r], body |-> <<>>, put |-> FALSE]
        /\ \A v \in Workers \ {w} : pc'[v] = pc[v] /\ seen'[v] = seen[v]
    BY <2>2, <2>3 DEF Load, TypeOK
  <2>5. \A v \in Workers : Loaded(v)'
    BY <2>1, <2>4 DEF TypeOK, Loaded
  <2>6. QED
    BY <2>4, <2>5 DEF TypeOK, tables
<1>10. ASSUME NEW w \in Workers, NEW r \in Rows, DeleteRow(w, r) PROVE TypeOK'
  <2>1. row[r] \in Row
    BY <1>10 DEF DeleteRow, Visible, TypeOK
  <2>2. [row[r] EXCEPT !.deleted = TRUE] \in Row
    BY <2>1 DEF Row
  <2>3. row' \in [Rows -> Row \cup {NoRow}]
    BY <1>10, <2>2 DEF TypeOK, DeleteRow
  <2>4. QED
    BY <1>10, <2>3, Answered DEF TypeOK, DeleteRow
<1>11. ASSUME NEW w \in Workers, NEW body \in InviteBodies, InviteMember(w, body) PROVE TypeOK'
  <2>1. body \in [user : Users, role : Roles, is_primary : BOOLEAN]
    OBVIOUS
  <2>2. req[w].tenant \in Tenants
    BY <1>11 DEF InviteMember, Managing, TypeOK, Request
  <2>3. [user |-> body.user, tenant |-> req[w].tenant, role |-> body.role, is_active |-> TRUE,
         is_primary |-> body.is_primary, born |-> inserted + 1] \in TenantUser
    BY <1>11, <2>1, <2>2 DEF TenantUser, InviteMember
  <2>4. membership' \in [MembershipIds -> TenantUser \cup {NoRow}]
    BY <1>11, <2>3 DEF TypeOK, InviteMember
  <2>5. inserted' \in 0..MaxInserts
    BY <1>11 DEF TypeOK, InviteMember, MembershipIds
  <2>6. QED
    BY <1>11, <2>4, <2>5, Answered DEF TypeOK, InviteMember
<1>12. ASSUME NEW w \in Workers, NEW m \in MembershipIds, NEW body \in MemberBodies, LoadMember(w, m, body)
       PROVE TypeOK'
  <2>1. membership[m] \in TenantUser
    BY <1>12 DEF LoadMember, Mine, TypeOK
  <2>2. [id |-> m, copy |-> membership[m], body |-> body, put |-> FALSE] \in Seen
    BY <2>1 DEF Seen
  <2>3. Load(w, "member", m, membership[m], body, FALSE) /\ "member" \in PCStates
    BY <1>12 DEF LoadMember, PCStates
  <2>4. /\ pc' \in [Workers -> PCStates] /\ req' \in [Workers -> Request]
        /\ seen' \in [Workers -> Seen]
        /\ pc'[w] = "member" /\ UNCHANGED tables
        /\ seen'[w] = [id |-> m, copy |-> membership[m], body |-> body, put |-> FALSE]
        /\ \A v \in Workers \ {w} : pc'[v] = pc[v] /\ seen'[v] = seen[v]
    BY <2>2, <2>3 DEF Load, TypeOK
  <2>5. \A v \in Workers : Loaded(v)'
    BY <2>1, <2>4 DEF TypeOK, Loaded
  <2>6. QED
    BY <2>4, <2>5 DEF TypeOK, tables
<1>13. ASSUME NEW w \in Workers, NEW m \in MembershipIds, RemoveMember(w, m) PROVE TypeOK'
  BY <1>13, Answered DEF TypeOK, RemoveMember
<1>14. ASSUME NEW w \in Workers, SaveTenant(w) PROVE TypeOK'
  <2>1. Written(w) \in Tenant
    BY <1>14, WrittenTenant DEF SaveTenant
  <2>2. tenant' \in [Tenants -> Tenant \cup {NoRow}]
    BY <1>14, <2>1 DEF TypeOK, SaveTenant
  <2>3. QED
    BY <1>14, <2>2, Answered DEF TypeOK, SaveTenant
<1>15. ASSUME NEW w \in Workers, NEW units \in SUBSET Units, NEW held \in BOOLEAN, SaveRow(w, units, held)
       PROVE TypeOK'
  <2>1. [seen[w].copy EXCEPT !.units = units, !.held = held] \in Row
    BY <1>15 DEF TypeOK, SaveRow, Loaded, Row
  <2>2. row' \in [Rows -> Row \cup {NoRow}]
    BY <1>15, <2>1 DEF TypeOK, SaveRow
  <2>3. QED
    BY <1>15, <2>2, Answered DEF TypeOK, SaveRow
<1>16. ASSUME NEW w \in Workers, SaveMember(w) PROVE TypeOK'
  <2> DEFINE m == seen[w].id
             new == Merged(seen[w].body, seen[w].copy)
             id == inserted + 1
  <2>1. new \in TenantUser
    BY <1>16, WrittenMember DEF SaveMember
  <2>2. m \in MembershipIds
    BY <1>16 DEF SaveMember, TypeOK, Loaded
  <2>3. CASE membership[m] # NoRow
    <3>1. membership' = [membership EXCEPT ![m] = new] /\ inserted' = inserted
      BY <1>16, <2>3 DEF SaveMember
    <3>2. membership' \in [MembershipIds -> TenantUser \cup {NoRow}]
      BY <2>1, <2>2, <3>1 DEF TypeOK
    <3>3. QED
      BY <1>16, <3>1, <3>2, Answered DEF TypeOK, SaveMember
  <2>4. CASE membership[m] = NoRow
    <3>1. /\ id \in MembershipIds /\ inserted' = id
          /\ membership' = [membership EXCEPT ![m] = [new EXCEPT !.born = id]]
      BY <1>16, <2>4 DEF SaveMember
    <3>2. [new EXCEPT !.born = id] \in TenantUser
      BY <2>1, <3>1 DEF TenantUser
    <3>3. membership' \in [MembershipIds -> TenantUser \cup {NoRow}]
      BY <2>2, <3>1, <3>2 DEF TypeOK
    <3>4. inserted' \in 0..MaxInserts
      BY <3>1 DEF MembershipIds, TypeOK
    <3>5. QED
      BY <1>16, <3>3, <3>4, Answered DEF TypeOK, SaveMember
  <2>5. QED
    BY <2>3, <2>4
<1>17. ASSUME NEW w \in Workers, Finish(w) PROVE TypeOK'
  BY <1>17, Answered DEF TypeOK, Finish, tables
<1>18. ASSUME NEW w \in Workers, NEW held \in BOOLEAN, WorkTrip(w, held) PROVE TypeOK'
  <2>1. row' \in [Rows -> Row \cup {NoRow}] /\ Answer(w) /\ UNCHANGED <<tenant, membership, inserted>>
    BY <1>18, Worked
  <2>2. QED
    BY <2>1, Answered DEF TypeOK
<1>19. ASSUME NEW w \in Workers, NEW u \in Users \cup Admins, NEW t \in Tenants, LoadPlan(w, u, t)
       PROVE TypeOK'
  <2> DEFINE r == [NoRequest EXCEPT !.user = u]
             l == [Nothing EXCEPT !.id = t, !.copy = tenant[t]]
  <2>1. tenant[t] \in Tenant
    BY <1>19 DEF LoadPlan, Found, TypeOK
  <2>2. r \in Request /\ l \in Seen /\ l.id = t /\ l.copy = tenant[t] /\ "choosing" \in PCStates
    BY <2>1 DEF NoRequest, Request, Nothing, Seen, PCStates
  <2>3. /\ pc' = [pc EXCEPT ![w] = "choosing"] /\ req' = [req EXCEPT ![w] = r]
        /\ seen' = [seen EXCEPT ![w] = l] /\ UNCHANGED tables
    BY <1>19 DEF LoadPlan
  <2> HIDE DEF r, l
  <2>4. /\ pc' \in [Workers -> PCStates] /\ req' \in [Workers -> Request]
        /\ seen' \in [Workers -> Seen] /\ pc'[w] = "choosing" /\ seen'[w] = l
        /\ \A v \in Workers \ {w} : pc'[v] = pc[v] /\ seen'[v] = seen[v]
    BY <2>2, <2>3 DEF TypeOK
  <2>5. \A v \in Workers : Loaded(v)'
    BY <2>1, <2>2, <2>4 DEF TypeOK, Loaded
  <2>6. QED
    BY <2>3, <2>4, <2>5 DEF TypeOK, tables
<1>20. ASSUME NEW w \in Workers, FindPayer(w) PROVE TypeOK'
  <2>1. /\ pc[w] = "choosing" /\ pc'[w] = "paying" /\ pc' \in [Workers -> PCStates]
        /\ \A v \in Workers \ {w} : pc'[v] = pc[v]
        /\ UNCHANGED <<tables, req, seen>>
    BY <1>20 DEF FindPayer, TypeOK, PCStates
  <2>2. \A v \in Workers : Loaded(v)'
    BY <2>1 DEF TypeOK, Loaded
  <2>3. QED
    BY <2>1, <2>2 DEF TypeOK, tables
<1>21. ASSUME NEW w \in Workers, SavePlan(w) PROVE TypeOK'
  <2>1. tenant' \in [Tenants -> Tenant \cup {NoRow}] /\ Answer(w) /\ UNCHANGED <<membership, inserted, row>>
    BY <1>21, Paid
  <2>2. QED
    BY <2>1, Answered DEF TypeOK
<1>22. CASE UNCHANGED vars
  BY <1>22 DEF TypeOK, vars, Loaded
<1>23. QED
  BY <1>1, <1>2, <1>3, <1>4, <1>5, <1>6, <1>7, <1>8, <1>9, <1>10, <1>11, <1>12, <1>13,
     <1>14, <1>15, <1>16, <1>17, <1>18, <1>19, <1>20, <1>21, <1>22 DEF Next, Suspend, Activate

-----------------------------------------------------------------------------
\* Tenants do not vanish, and rows neither vanish nor move.
Stays ==
  /\ \A t \in Tenants : tenant[t] # NoRow => tenant'[t] # NoRow
  /\ \A r \in Rows : row[r] # NoRow => row'[r] # NoRow /\ row'[r].tenant = row[r].tenant
  /\ inserted <= inserted'

\* A request that takes no step is served as before, if the membership it may
\* have loaded is still one of its tenant.
LEMMA OtherServes ==
  ASSUME TypeOK, NEW v \in Workers, Serves(v), Stays, inserted' \in Nat,
         pc'[v] = pc[v], req'[v] = req[v], seen'[v] = seen[v],
         pc[v] = "member" /\ membership'[seen[v].id] # NoRow =>
           membership'[seen[v].id].tenant = req[v].tenant
  PROVE  Serves(v)'
<1>1. req[v] \in Request /\ inserted \in Nat
  BY DEF TypeOK
<1>2. pc[v] = "row" => seen[v].id \in Rows
  BY DEF TypeOK, Loaded
<1>3. /\ pc[v] = "member" => seen[v].id \in Nat
      /\ pc[v] \in {"choosing", "paying"} => seen[v].id \in Tenants
  BY DEF TypeOK, Loaded, MembershipIds
<1>4. QED
  BY <1>1, <1>2, <1>3 DEF Serves, Stays, Request

\* An idle worker has no request that could be in two tenants.
LEMMA IdleServes ==
  ASSUME NEW w \in Workers, TypeOK, Answer(w)
  PROVE  Serves(w)'
<1>1. pc'[w] = "idle" /\ req'[w] = NoRequest
  BY DEF TypeOK, Answer
<1>2. QED
  BY <1>1 DEF Serves, NoRequest

\* A request that ends without touching memberships.
LEMMA QuietEnd ==
  ASSUME IInv, NEW w \in Workers, Answer(w), Stays, UNCHANGED <<membership, inserted>>
  PROVE  OneMembershipEach' /\ Fresh' /\ Existing' /\ SameTenant' /\ \A v \in Workers : Serves(v)'
<1>1. /\ pc'[w] = "idle"
      /\ \A v \in Workers \ {w} : pc'[v] = pc[v] /\ req'[v] = req[v] /\ seen'[v] = seen[v]
  BY Answered DEF IInv
<1>2. OneMembershipEach' /\ Fresh'
  BY DEF IInv, OneMembershipEach, Fresh, Members
<1>3. Existing'
  BY DEF IInv, Existing, Members, Stays, TypeOK, TenantUser
<1>4. SameTenant'
  BY <1>1 DEF IInv, SameTenant
<1>5. ASSUME NEW v \in Workers PROVE Serves(v)'
  <2>1. CASE v = w
    BY <2>1, IdleServes DEF IInv
  <2>2. CASE v # w
    <3>1. Serves(v) /\ inserted' \in Nat
      BY DEF IInv, TypeOK
    <3>2. pc[v] = "member" /\ membership'[seen[v].id] # NoRow =>
            membership'[seen[v].id].tenant = req[v].tenant
      BY <3>1 DEF Serves
    <3>3. QED
      BY <1>1, <2>2, <3>1, <3>2, OtherServes DEF IInv
  <2>3. QED
    BY <2>1, <2>2
<1>6. QED
  BY <1>2, <1>3, <1>4, <1>5

\* A step of nobody's request that touches tenants only.
LEMMA QuietStep ==
  ASSUME IInv, Stays, UNCHANGED <<membership, inserted, pc, req, seen>>
  PROVE  OneMembershipEach' /\ Fresh' /\ Existing' /\ SameTenant' /\ \A v \in Workers : Serves(v)'
<1>1. OneMembershipEach' /\ Fresh' /\ SameTenant'
  BY DEF IInv, OneMembershipEach, Fresh, Members, SameTenant
<1>2. Existing'
  BY DEF IInv, Existing, Members, Stays, TypeOK, TenantUser
<1>3. ASSUME NEW v \in Workers PROVE Serves(v)'
  <2>1. Serves(v) /\ inserted' \in Nat
    BY DEF IInv, TypeOK
  <2>2. pc[v] = "member" /\ membership'[seen[v].id] # NoRow =>
          membership'[seen[v].id].tenant = req[v].tenant
    BY <2>1 DEF Serves
  <2>3. QED
    BY <2>1, <2>2, OtherServes DEF IInv
<1>4. QED
  BY <1>1, <1>2, <1>3

\* A request that begins or loads something.
LEMMA QuietLoad ==
  ASSUME IInv, NEW w \in Workers, UNCHANGED tables, Serves(w)',
         pc'[w] # "member",
         \A v \in Workers \ {w} : pc'[v] = pc[v] /\ req'[v] = req[v] /\ seen'[v] = seen[v]
  PROVE  OneMembershipEach' /\ Fresh' /\ Existing' /\ SameTenant' /\ \A v \in Workers : Serves(v)'
<1>1. OneMembershipEach' /\ Fresh' /\ Existing'
  BY DEF IInv, OneMembershipEach, Fresh, Existing, Members, tables
<1>2. SameTenant'
  BY DEF IInv, SameTenant
<1>3. ASSUME NEW v \in Workers \ {w} PROVE Serves(v)'
  BY DEF IInv, Serves, tables
<1>4. QED
  BY <1>1, <1>2, <1>3

\* A new membership, of a user who has none in its tenant.
LEMMA Insertion ==
  ASSUME IInv, NEW id, id = inserted + 1, id \in MembershipIds,
         NEW new \in TenantUser, ~Clashes(new, {}),
         membership' = [membership EXCEPT ![id] = new], inserted' = id,
         tenant'[new.tenant] # NoRow,
         \A t \in Tenants : tenant[t] # NoRow => tenant'[t] # NoRow
  PROVE  OneMembershipEach' /\ Fresh' /\ Existing'
<1>1. membership[id] = NoRow /\ membership'[id] = new /\ new # NoRow
  BY TenancyAssumption DEF IInv, Fresh, MembershipIds, TypeOK
<1>2. \A m \in MembershipIds \ {id} : membership'[m] = membership[m]
  BY DEF IInv, TypeOK
<1>3. Members' = Members \cup {id}
  BY <1>1, <1>2 DEF Members
<1>4. \A m \in Members : ~(membership[m].user = new.user /\ membership[m].tenant = new.tenant)
  BY DEF Clashes
<1>5. id \notin Members
  BY <1>1 DEF Members
<1>6. OneMembershipEach'
  <2>1. SUFFICES ASSUME NEW m \in Members', NEW n \in Members',
                        membership'[m].user = membership'[n].user,
                        membership'[m].tenant = membership'[n].tenant
                 PROVE  m = n
    BY DEF OneMembershipEach
  <2>2. \A x \in Members : membership'[x] = membership[x]
    BY <1>2, <1>5 DEF Members
  <2>3. CASE m \in Members /\ n \in Members
    BY <2>1, <2>2, <2>3 DEF IInv, OneMembershipEach
  <2>4. CASE m = id \/ n = id
    BY <1>1, <1>3, <1>4, <2>1, <2>2, <2>4
  <2>5. QED
    BY <1>3, <2>3, <2>4
<1>7. Fresh'
  BY <1>2 DEF Fresh, IInv, MembershipIds, TypeOK
<1>8. Existing'
  BY <1>1, <1>2, <1>3, <1>5 DEF Existing, IInv, Members, TypeOK, TenantUser
<1>9. QED
  BY <1>6, <1>7, <1>8

\* Every step keeps the invariant: the requests that change memberships ...
LEMMA MemberStep ==
  ASSUME IInv, NEW w \in Workers,
         \/ \E body \in InviteBodies : InviteMember(w, body)
         \/ \E m \in MembershipIds : RemoveMember(w, m)
         \/ SaveMember(w)
  PROVE  OneMembershipEach' /\ Fresh' /\ Existing' /\ SameTenant' /\ \A v \in Workers : Serves(v)'
<1>1. Answer(w) /\ UNCHANGED <<tenant, row>>
  BY DEF InviteMember, RemoveMember, SaveMember
<1>2. /\ pc'[w] = "idle"
      /\ \A v \in Workers \ {w} : pc'[v] = pc[v] /\ req'[v] = req[v] /\ seen'[v] = seen[v]
  BY <1>1, Answered DEF IInv
<1>3. SameTenant'
  BY <1>2 DEF IInv, SameTenant
<1>4. ASSUME NEW body \in InviteBodies, InviteMember(w, body)
      PROVE  OneMembershipEach' /\ Fresh' /\ Existing' /\ \A v \in Workers : Serves(v)'
  <2> DEFINE id == inserted + 1
             new == [user |-> body.user, tenant |-> req[w].tenant, role |-> body.role,
                     is_active |-> TRUE, is_primary |-> body.is_primary, born |-> id]
  <2>1. /\ req[w].tenant \in Tenants /\ tenant[req[w].tenant] # NoRow
        /\ id \in MembershipIds /\ ~Clashes(new, {})
        /\ membership' = [membership EXCEPT ![id] = new] /\ inserted' = id
    BY <1>4 DEF InviteMember, Managing, IInv, TypeOK, Request, Serves
  <2>2. body \in [user : Users, role : Roles, is_primary : BOOLEAN]
    BY TenancyAssumption
  <2>3. new \in TenantUser /\ new.tenant = req[w].tenant
    BY <2>1, <2>2 DEF TenantUser
  <2>4. Stays
    BY <1>1, <2>1 DEF Stays, IInv, TypeOK
  <2> HIDE DEF new
  <2>5. OneMembershipEach' /\ Fresh' /\ Existing'
    BY <1>1, <2>1, <2>3, Insertion
  <2>6. ASSUME NEW v \in Workers PROVE Serves(v)'
    <3>1. CASE v = w
      BY <1>1, <3>1, IdleServes DEF IInv
    <3>2. CASE v # w
      <4>1. Serves(v) /\ inserted' \in Nat
        BY <2>1 DEF IInv, MembershipIds
      <4>2. pc[v] = "member" => seen[v].id # id /\ seen[v].id \in MembershipIds
        BY <4>1 DEF Serves, IInv, TypeOK, Loaded, MembershipIds
      <4>3. pc[v] = "member" /\ membership'[seen[v].id] # NoRow =>
              membership'[seen[v].id].tenant = req[v].tenant
        BY <2>1, <4>1, <4>2 DEF Serves, IInv, TypeOK
      <4>4. QED
        BY <1>2, <2>4, <3>2, <4>1, <4>3, OtherServes DEF IInv
    <3>3. QED
      BY <3>1, <3>2
  <2>7. QED
    BY <2>5, <2>6
<1>5. ASSUME NEW m \in MembershipIds, RemoveMember(w, m)
      PROVE  OneMembershipEach' /\ Fresh' /\ Existing' /\ \A v \in Workers : Serves(v)'
  <2>1. membership' = [membership EXCEPT ![m] = NoRow] /\ inserted' = inserted
    BY <1>5 DEF RemoveMember
  <2>2. \A n \in MembershipIds : membership'[n] # NoRow => membership'[n] = membership[n]
    BY <2>1 DEF IInv, TypeOK
  <2>3. OneMembershipEach' /\ Fresh' /\ Existing'
    BY <1>1, <2>1, <2>2 DEF IInv, TypeOK, OneMembershipEach, Fresh, Existing, Members
  <2>4. Stays
    BY <1>1, <2>1 DEF Stays, IInv, TypeOK
  <2>5. ASSUME NEW v \in Workers PROVE Serves(v)'
    <3>1. CASE v = w
      BY <1>1, <3>1, IdleServes DEF IInv
    <3>2. CASE v # w
      <4>1. Serves(v) /\ inserted' \in Nat
        BY <2>1 DEF IInv, TypeOK
      <4>2. pc[v] = "member" => seen[v].id \in MembershipIds
        BY DEF IInv, TypeOK, Loaded
      <4>3. pc[v] = "member" /\ membership'[seen[v].id] # NoRow =>
              membership'[seen[v].id].tenant = req[v].tenant
        BY <2>2, <4>1, <4>2 DEF Serves
      <4>4. QED
        BY <1>2, <2>4, <3>2, <4>1, <4>3, OtherServes DEF IInv
    <3>3. QED
      BY <3>1, <3>2
  <2>6. QED
    BY <2>3, <2>5
<1>6. ASSUME SaveMember(w)
      PROVE  OneMembershipEach' /\ Fresh' /\ Existing' /\ \A v \in Workers : Serves(v)'
  <2> DEFINE m == seen[w].id
             new == Merged(seen[w].body, seen[w].copy)
             id == inserted + 1
  <2>1. /\ new \in TenantUser /\ new.tenant = seen[w].copy.tenant
        /\ m \in MembershipIds /\ pc[w] = "member" /\ ~Clashes(new, {m})
    BY <1>6, WrittenMember DEF SaveMember, IInv, TypeOK, Loaded
  <2>2. new.tenant = req[w].tenant /\ m <= inserted /\ tenant[new.tenant] # NoRow
    <3>1. Serves(w) /\ seen[w].copy.tenant \in Tenants
      BY <2>1 DEF IInv, TypeOK, Loaded, TenantUser
    <3>2. QED
      BY <2>1, <3>1, TenancyAssumption DEF Serves
  <2>3. PICK put \in TenantUser :
          /\ membership' = [membership EXCEPT ![m] = put]
          /\ put.user = new.user /\ put.tenant = new.tenant
          /\ inserted' \in {inserted, inserted + 1} /\ inserted' \in Nat
    <3>1. CASE membership[m] # NoRow
      BY <1>6, <2>1, <3>1 DEF SaveMember, IInv, TypeOK
    <3>2. CASE membership[m] = NoRow
      <4>1. /\ id \in MembershipIds /\ inserted' = id
            /\ membership' = [membership EXCEPT ![m] = [new EXCEPT !.born = id]]
        BY <1>6, <3>2 DEF SaveMember
      <4>2. /\ [new EXCEPT !.born = id] \in TenantUser
            /\ [new EXCEPT !.born = id].user = new.user
            /\ [new EXCEPT !.born = id].tenant = new.tenant
        BY <2>1, <4>1 DEF TenantUser
      <4>3. inserted' \in Nat
        BY <4>1 DEF MembershipIds
      <4>4. QED
        BY <4>1, <4>2, <4>3
    <3>3. QED
      BY <3>1, <3>2
  <2> HIDE DEF new
  <2>4. /\ membership'[m] = put
        /\ \A n \in MembershipIds \ {m} : membership'[n] = membership[n]
    BY <2>1, <2>3 DEF IInv, TypeOK
  <2>5. \A n \in Members' \ {m} : n \in Members /\ membership'[n] = membership[n]
    BY <2>4 DEF Members
  <2>6. \A n \in Members \ {m} :
          ~(membership[n].user = put.user /\ membership[n].tenant = put.tenant)
    BY <2>1, <2>3 DEF Clashes
  <2>7. OneMembershipEach'
    BY <2>4, <2>5, <2>6 DEF OneMembershipEach, IInv
  <2>8. Fresh'
    BY <2>1, <2>2, <2>3, <2>4 DEF Fresh, IInv, TypeOK, MembershipIds
  <2>9. Existing'
    BY <1>1, <2>2, <2>3, <2>4, <2>5 DEF Existing, IInv
  <2>10. Stays
    BY <1>1, <2>3 DEF Stays, IInv, TypeOK
  <2>11. ASSUME NEW v \in Workers PROVE Serves(v)'
    <3>1. CASE v = w
      BY <1>1, <3>1, IdleServes DEF IInv
    <3>2. CASE v # w
      <4>1. Serves(v)
        BY DEF IInv
      <4>2. pc[v] = "member" => seen[v].id \in MembershipIds
        BY DEF IInv, TypeOK, Loaded
      <4>3. pc[v] = "member" /\ seen[v].id = m => req[v].tenant = put.tenant
        BY <2>1, <2>2, <2>3 DEF IInv, SameTenant
      <4>4. pc[v] = "member" /\ membership'[seen[v].id] # NoRow =>
              membership'[seen[v].id].tenant = req[v].tenant
        BY <2>4, <4>1, <4>2, <4>3 DEF Serves
      <4>5. QED
        BY <1>2, <2>3, <2>10, <3>2, <4>1, <4>4, OtherServes DEF IInv
    <3>3. QED
      BY <3>1, <3>2
  <2>12. QED
    BY <2>7, <2>8, <2>9, <2>11
<1>7. QED
  BY <1>3, <1>4, <1>5, <1>6

\* ... and all the others.
LEMMA InvStep ==
  ASSUME IInv, [Next]_vars
  PROVE  IInv'
<1> DEFINE Rest == /\ OneMembershipEach' /\ Fresh' /\ Existing' /\ SameTenant'
                   /\ \A v \in Workers : Serves(v)'
<1>1. TypeOK'
  BY TypeStep DEF IInv
<1>2. ASSUME NEW t \in Tenants, NEW u \in Users, Provision(t, u) PROVE Rest
  <2> DEFINE id == inserted + 1
             new == [user |-> u, tenant |-> t, role |-> "manager", is_active |-> TRUE,
                     is_primary |-> TRUE, born |-> id]
  <2>1. /\ tenant[t] = NoRow /\ id \in MembershipIds /\ inserted' = id
        /\ membership' = [membership EXCEPT ![id] = new]
        /\ tenant' = [tenant EXCEPT ![t] = [status |-> "ACTIVE", deleted |-> FALSE]]
        /\ UNCHANGED <<row, pc, req, seen>>
    BY <1>2 DEF Provision
  <2>2. new \in TenantUser /\ new.tenant = t
    BY <2>1 DEF TenantUser, Roles
  <2>3. ~Clashes(new, {})
    BY <2>1, <2>2 DEF Clashes, IInv, Existing
  <2>4. tenant'[t] # NoRow /\ \A x \in Tenants : tenant[x] # NoRow => tenant'[x] # NoRow
    <3>1. [status |-> "ACTIVE", deleted |-> FALSE] \in Tenant
      BY TenancyAssumption DEF Tenant
    <3>2. [status |-> "ACTIVE", deleted |-> FALSE] # NoRow
      BY <3>1, TenancyAssumption
    <3>3. QED
      BY <2>1, <3>2 DEF IInv, TypeOK
  <2>5. Stays
    BY <2>1, <2>4 DEF Stays, IInv, TypeOK
  <2> HIDE DEF new
  <2>6. OneMembershipEach' /\ Fresh' /\ Existing'
    BY <2>1, <2>2, <2>3, <2>4, Insertion
  <2>7. SameTenant'
    BY <2>1 DEF IInv, SameTenant
  <2>8. ASSUME NEW v \in Workers PROVE Serves(v)'
    <3>1. Serves(v) /\ inserted' \in Nat
      BY <2>1 DEF IInv, MembershipIds
    <3>2. pc[v] = "member" => seen[v].id # id /\ seen[v].id \in MembershipIds
      BY <3>1 DEF Serves, IInv, TypeOK, Loaded, MembershipIds
    <3>3. pc[v] = "member" /\ membership'[seen[v].id] # NoRow =>
            membership'[seen[v].id].tenant = req[v].tenant
      BY <2>1, <3>1, <3>2 DEF Serves, IInv, TypeOK
    <3>4. QED
      BY <2>1, <2>5, <3>1, <3>3, OtherServes DEF IInv
  <2>9. QED
    BY <2>6, <2>7, <2>8
<1>3. ASSUME NEW t \in Tenants, NEW status \in Statuses, CreateTenant(t, status) PROVE Rest
  <2>1. [status |-> status, deleted |-> FALSE] \in Tenant
    BY DEF Tenant
  <2>2. [status |-> status, deleted |-> FALSE] # NoRow
    BY <2>1, TenancyAssumption
  <2>3. Stays
    BY <1>3, <2>2 DEF Stays, CreateTenant, IInv, TypeOK
  <2>4. QED
    BY <1>3, <2>3, QuietStep DEF CreateTenant
<1>4. ASSUME NEW t \in Tenants, NEW status \in Statuses, SetStatus(t, status) PROVE Rest
  <2>1. tenant'[t] \in Tenant
    <3>1. tenant[t] \in Tenant
      BY <1>4 DEF IInv, TypeOK, SetStatus, Found
    <3>2. [tenant[t] EXCEPT !.status = status] \in Tenant
      BY <3>1 DEF Tenant
    <3>3. QED
      BY <1>4, <3>2 DEF SetStatus, IInv, TypeOK
  <2>2. Stays
    BY <1>4, <2>1, TenancyAssumption DEF Stays, SetStatus, IInv, TypeOK
  <2>3. QED
    BY <1>4, <2>2, QuietStep DEF SetStatus
<1>5. ASSUME NEW t \in Tenants, DeleteTenant(t) PROVE Rest
  <2>1. tenant'[t] \in Tenant
    <3>1. tenant[t] \in Tenant
      BY <1>5 DEF IInv, TypeOK, DeleteTenant, Found
    <3>2. [tenant[t] EXCEPT !.deleted = TRUE] \in Tenant
      BY <3>1 DEF Tenant
    <3>3. QED
      BY <1>5, <3>2 DEF DeleteTenant, IInv, TypeOK
  <2>2. /\ \A x \in Tenants \ {t} : tenant'[x] = tenant[x]
        /\ row' = row /\ inserted' = inserted
    BY <1>5 DEF DeleteTenant, IInv, TypeOK
  <2>3. Stays
    BY <2>1, <2>2, TenancyAssumption DEF Stays, IInv, TypeOK
  <2>4. QED
    BY <1>5, <2>3, QuietStep DEF DeleteTenant
<1>6. ASSUME NEW w \in Workers, NEW t \in Tenants, NEW body \in TenantBodies, NEW put \in BOOLEAN,
             LoadTenant(w, t, body, put)
      PROVE Rest
  <2>1. /\ pc[w] = "idle" /\ pc'[w] = "tenant" /\ req' = req /\ UNCHANGED tables
        /\ \A v \in Workers \ {w} : pc'[v] = pc[v] /\ req'[v] = req[v] /\ seen'[v] = seen[v]
    BY <1>6 DEF LoadTenant, Load, IInv, TypeOK
  <2>2. Serves(w)'
    BY <2>1 DEF Serves, IInv, tables
  <2>3. QED
    BY <2>1, <2>2, QuietLoad
<1>7. ASSUME NEW w \in Workers, NEW u \in Users, NEW named \in Headers, Admit(w, u, named) PROVE Rest
  <2>1. PICK m \in Resolved(u, named) :
          req' = [req EXCEPT ![w] =
            [user |-> u, named |-> named, tenant |-> membership[m].tenant,
             manager |-> membership[m].role = "manager"]]
    BY <1>7 DEF Admit
  <2>2. m \in Members /\ membership[m] \in TenantUser
    BY DEF Resolved, First, ActiveOf, Members, TypeOK, IInv
  <2>3. membership[m].tenant \in Tenants /\ tenant[membership[m].tenant] # NoRow
    BY <2>2 DEF IInv, Existing, TenantUser
  <2>4. /\ pc'[w] = "admitted" /\ UNCHANGED tables /\ req'[w].tenant = membership[m].tenant
        /\ \A v \in Workers \ {w} : pc'[v] = pc[v] /\ req'[v] = req[v] /\ seen'[v] = seen[v]
    BY <1>7, <2>1 DEF Admit, IInv, TypeOK
  <2>5. Serves(w)'
    BY <2>3, <2>4, TenancyAssumption DEF Serves, tables
  <2>6. QED
    BY <2>4, <2>5, QuietLoad
<1>8. ASSUME NEW w \in Workers, NEW u \in Admins, NEW named \in Headers, AdmitAdmin(w, u, named)
      PROVE Rest
  <2>1. /\ pc'[w] = "admitted" /\ UNCHANGED tables /\ req'[w].user = u
        /\ req'[w].tenant = IF Found(named) THEN named ELSE NoTenant
        /\ \A v \in Workers \ {w} : pc'[v] = pc[v] /\ req'[v] = req[v] /\ seen'[v] = seen[v]
    BY <1>8 DEF AdmitAdmin, IInv, TypeOK
  <2>2. Serves(w)'
    BY <2>1 DEF Serves, tables, Found
  <2>3. QED
    BY <2>1, <2>2, QuietLoad
<1>9. ASSUME NEW w \in Workers, NEW r \in Rows, NEW units \in SUBSET Units, NEW held \in BOOLEAN,
             CreateRow(w, r, units, held)
      PROVE Rest
  <2>1. PICK t \in Tenants :
          row' = [row EXCEPT ![r] = [tenant |-> t, deleted |-> FALSE, units |-> units, held |-> held]]
    BY <1>9 DEF CreateRow
  <2>2. row[r] = NoRow /\ Answer(w) /\ UNCHANGED <<tenant, membership, inserted>>
    BY <1>9 DEF CreateRow
  <2>3. Stays
    BY <2>1, <2>2 DEF Stays, IInv, TypeOK
  <2>4. QED
    BY <2>2, <2>3, QuietEnd
<1>10. ASSUME NEW w \in Workers, NEW r \in Rows, LoadRow(w, r) PROVE Rest
  <2>1. /\ pc[w] = "admitted" /\ pc'[w] = "row" /\ req' = req /\ UNCHANGED tables
        /\ seen'[w].id = r /\ seen'[w].copy = row[r]
        /\ \A v \in Workers \ {w} : pc'[v] = pc[v] /\ req'[v] = req[v] /\ seen'[v] = seen[v]
    BY <1>10 DEF LoadRow, Load, IInv, TypeOK
  <2>2. Serves(w)'
    BY <1>10, <2>1 DEF Serves, IInv, LoadRow, Visible, tables
  <2>3. QED
    BY <2>1, <2>2, QuietLoad
<1>11. ASSUME NEW w \in Workers, NEW r \in Rows, DeleteRow(w, r) PROVE Rest
  <2>1. row[r] \in Row
    BY <1>11 DEF DeleteRow, Visible, IInv, TypeOK
  <2>2. [row[r] EXCEPT !.deleted = TRUE] \in Row /\ [row[r] EXCEPT !.deleted = TRUE].tenant = row[r].tenant
    BY <2>1 DEF Row
  <2>3. row'[r] \in Row /\ row'[r].tenant = row[r].tenant /\ \A x \in Rows \ {r} : row'[x] = row[x]
    BY <1>11, <2>2 DEF DeleteRow, IInv, TypeOK
  <2>4. tenant' = tenant /\ inserted' = inserted /\ Answer(w) /\ membership' = membership
    BY <1>11 DEF DeleteRow
  <2>5. Stays
    BY <2>3, <2>4, TenancyAssumption DEF Stays, IInv, TypeOK
  <2>6. QED
    BY <2>4, <2>5, QuietEnd
<1>12. ASSUME NEW w \in Workers, NEW m \in MembershipIds, NEW body \in MemberBodies, LoadMember(w, m, body)
       PROVE Rest
  <2>1. /\ pc[w] = "admitted" /\ pc'[w] = "member" /\ req' = req /\ UNCHANGED tables
        /\ seen'[w].id = m /\ seen'[w].copy = membership[m]
        /\ \A v \in Workers \ {w} : pc'[v] = pc[v] /\ req'[v] = req[v] /\ seen'[v] = seen[v]
    BY <1>12 DEF LoadMember, Managing, Load, IInv, TypeOK
  <2>2. /\ req[w].manager /\ req[w].tenant # NoTenant
        /\ membership[m] # NoRow /\ membership[m].tenant = req[w].tenant
    BY <1>12 DEF LoadMember, Managing, Mine
  <2>3. m <= inserted
    BY <2>2 DEF IInv, Fresh, TypeOK, MembershipIds
  <2>4. Serves(w)'
    BY <2>1, <2>2, <2>3 DEF Serves, IInv, tables
  <2>5. \A v \in Workers \ {w} : Serves(v)'
    BY <2>1 DEF Serves, IInv, tables
  <2>6. OneMembershipEach' /\ Fresh' /\ Existing'
    BY <2>1 DEF IInv, OneMembershipEach, Fresh, Existing, Members, tables
  <2>7. \A v \in Workers : pc[v] = "member" /\ seen[v].id = m => req[v].tenant = req[w].tenant
    BY <2>2 DEF IInv, Serves
  <2>8. SameTenant'
    BY <2>1, <2>7 DEF IInv, SameTenant
  <2>9. QED
    BY <2>4, <2>5, <2>6, <2>8
<1>13. ASSUME NEW w \in Workers, SaveTenant(w) PROVE Rest
  <2>1. Written(w) # NoRow
    BY <1>13, WrittenTenant, TenancyAssumption DEF SaveTenant, IInv
  <2>2. Stays
    BY <1>13, <2>1 DEF Stays, SaveTenant, IInv, TypeOK
  <2>3. QED
    BY <1>13, <2>2, QuietEnd DEF SaveTenant
<1>14. ASSUME NEW w \in Workers, NEW units \in SUBSET Units, NEW held \in BOOLEAN, SaveRow(w, units, held)
       PROVE Rest
  <2>1. /\ seen[w].id \in Rows /\ seen[w].copy \in Row
        /\ row[seen[w].id].tenant = seen[w].copy.tenant
    BY <1>14 DEF SaveRow, IInv, TypeOK, Loaded, Serves
  <2>2. PICK new \in Row : /\ row' = [row EXCEPT ![seen[w].id] = new]
                           /\ new.tenant = seen[w].copy.tenant
    <3>1. /\ [seen[w].copy EXCEPT !.units = units, !.held = held] \in Row
          /\ [seen[w].copy EXCEPT !.units = units, !.held = held].tenant = seen[w].copy.tenant
      BY <2>1 DEF Row
    <3>2. QED
      BY <1>14, <3>1 DEF SaveRow
  <2>3. tenant' = tenant /\ inserted' = inserted /\ membership' = membership /\ Answer(w)
    BY <1>14 DEF SaveRow
  <2>4. Stays
    BY <2>1, <2>2, <2>3, TenancyAssumption DEF Stays, IInv, TypeOK
  <2>5. QED
    BY <2>3, <2>4, QuietEnd
<1>15. ASSUME NEW w \in Workers, Finish(w) PROVE Rest
  <2>1. Stays
    BY <1>15 DEF Stays, Finish, tables, IInv, TypeOK
  <2>2. QED
    BY <1>15, <2>1, QuietEnd DEF Finish, tables
<1>16. ASSUME UNCHANGED vars PROVE Rest
  <2>1. Stays
    BY <1>16 DEF Stays, vars, IInv, TypeOK
  <2>2. QED
    BY <1>16, <2>1, QuietStep DEF vars
<1>17. ASSUME NEW w \in Workers, NEW held \in BOOLEAN, WorkTrip(w, held) PROVE Rest
  <2>1. /\ seen[w].id \in Rows /\ pc[w] = "row" /\ seen[w].copy \in Row
        /\ tenant' = tenant /\ inserted' = inserted /\ membership' = membership /\ Answer(w)
        /\ row'[seen[w].id] = seen[w].copy
        /\ \A r \in Rows \ {seen[w].id} :
             \/ row'[r] = row[r]
             \/ row'[r] \in Row /\ row'[r].tenant = row[r].tenant
    BY <1>17, Worked DEF IInv
  <2>2. row[seen[w].id].tenant = seen[w].copy.tenant
    BY <2>1 DEF IInv, Serves
  <2>3. Stays
    BY <2>1, <2>2, TenancyAssumption DEF Stays, IInv, TypeOK
  <2>4. QED
    BY <2>1, <2>3, QuietEnd
<1>18. ASSUME NEW w \in Workers, NEW u \in Users \cup Admins, NEW t \in Tenants, LoadPlan(w, u, t)
       PROVE Rest
  <2>1. /\ pc'[w] = "choosing" /\ UNCHANGED tables /\ tenant[t] # NoRow
        /\ req'[w].tenant = NoTenant /\ seen'[w].id = t
        /\ \A v \in Workers \ {w} : pc'[v] = pc[v] /\ req'[v] = req[v] /\ seen'[v] = seen[v]
    BY <1>18 DEF LoadPlan, Found, NoRequest, Nothing, IInv, TypeOK
  <2>2. Serves(w)'
    BY <2>1 DEF Serves, tables
  <2>3. QED
    BY <2>1, <2>2, QuietLoad
<1>19. ASSUME NEW w \in Workers, FindPayer(w) PROVE Rest
  <2>1. /\ pc[w] = "choosing" /\ pc'[w] = "paying" /\ UNCHANGED tables /\ req' = req /\ seen' = seen
        /\ \A v \in Workers \ {w} : pc'[v] = pc[v] /\ req'[v] = req[v] /\ seen'[v] = seen[v]
    BY <1>19 DEF FindPayer, IInv, TypeOK
  <2>2. Serves(w)'
    BY <2>1 DEF Serves, IInv, tables
  <2>3. QED
    BY <2>1, <2>2, QuietLoad
<1>20. ASSUME NEW w \in Workers, SavePlan(w) PROVE Rest
  <2>1. /\ Answer(w) /\ UNCHANGED <<membership, inserted, row>>
        /\ \A t \in Tenants : tenant[t] # NoRow => tenant'[t] # NoRow
    BY <1>20, Paid DEF IInv
  <2>2. Stays
    BY <2>1 DEF Stays, IInv, TypeOK
  <2>3. QED
    BY <2>1, <2>2, QuietEnd
<1>21. Rest
  BY <1>2, <1>3, <1>4, <1>5, <1>6, <1>7, <1>8, <1>9, <1>10, <1>11, <1>12, <1>13, <1>14, <1>15, <1>16,
     <1>17, <1>18, <1>19, <1>20, MemberStep, TenancyAssumption DEF Next, Suspend, Activate
<1>22. QED
  BY <1>1, <1>21 DEF IInv

-----------------------------------------------------------------------------
\* What the action properties ask of a step, at the states that can be reached.
RowsStep ==
  \A r \in Rows : row'[r] # row[r] =>
    /\ row[r] # NoRow => row'[r].tenant = row[r].tenant
    /\ \E w \in Workers :
         /\ pc[w] \in {"admitted", "row"} /\ pc'[w] = "idle"
         /\ \/ req[w].tenant = row'[r].tenant
            \/ req[w].tenant = NoTenant /\ req[w].user \in Admins
            \/ /\ pc[w] = "row" /\ seen[w].copy.tenant = req[w].tenant
               /\ r \in seen[w].copy.units
               /\ row'[r] = [row[r] EXCEPT !.held = ~@]

\* Only the four actions of rows change rows, each as the request allows.
LEMMA RowsHome ==
  ASSUME IInv, [Next]_vars
  PROVE  RowsStep
<1>1. SUFFICES ASSUME NEW r \in Rows, row'[r] # row[r]
               PROVE  /\ row[r] # NoRow => row'[r].tenant = row[r].tenant
                      /\ \E w \in Workers :
                           /\ pc[w] \in {"admitted", "row"} /\ pc'[w] = "idle"
                           /\ \/ req[w].tenant = row'[r].tenant
                              \/ req[w].tenant = NoTenant /\ req[w].user \in Admins
                              \/ /\ pc[w] = "row" /\ seen[w].copy.tenant = req[w].tenant
                                 /\ r \in seen[w].copy.units
                                 /\ row'[r] = [row[r] EXCEPT !.held = ~@]
  BY DEF RowsStep
<1>2. PICK w \in Workers, x \in Rows, units \in SUBSET Units, held \in BOOLEAN :
        \/ CreateRow(w, x, units, held)
        \/ DeleteRow(w, x)
        \/ SaveRow(w, units, held)
        \/ WorkTrip(w, held)
  BY <1>1 DEF Next, vars, tables, Provision, CreateTenant, SetStatus, Suspend, Activate, DeleteTenant,
     LoadTenant, Load, Admit, AdmitAdmin, LoadRow, InviteMember, LoadMember, RemoveMember,
     SaveTenant, SaveMember, LoadPlan, FindPayer, SavePlan, Finish
<1>3. pc[w] \in {"admitted", "row"} /\ pc'[w] = "idle" /\ Serves(w)
  BY <1>2 DEF CreateRow, DeleteRow, SaveRow, WorkTrip, Answer, IInv, TypeOK
<1>4. CASE CreateRow(w, x, units, held)
  <2>1. PICK t \in Tenants :
          /\ req[w].tenant \in {NoTenant, t}
          /\ row' = [row EXCEPT ![x] = [tenant |-> t, deleted |-> FALSE, units |-> units, held |-> held]]
    BY <1>4 DEF CreateRow
  <2>2. x = r /\ row'[r].tenant = t /\ row[r] = NoRow
    BY <1>1, <1>4, <2>1 DEF CreateRow, IInv, TypeOK
  <2>3. QED
    BY <1>3, <2>1, <2>2 DEF Serves
<1>5. CASE DeleteRow(w, x)
  <2>1. x = r /\ row[r] \in Row
    BY <1>1, <1>5 DEF DeleteRow, Visible, IInv, TypeOK
  <2>2. row'[r] = [row[r] EXCEPT !.deleted = TRUE]
    BY <1>5, <2>1 DEF DeleteRow, IInv, TypeOK
  <2>3. row'[r].tenant = row[r].tenant
    BY <2>1, <2>2 DEF Row
  <2>4. QED
    BY <1>3, <1>5, <2>1, <2>3 DEF Serves, DeleteRow, Visible
<1>6. CASE SaveRow(w, units, held)
  <2>1. /\ seen[w].id = r /\ pc[w] = "row" /\ seen[w].copy \in Row
        /\ row'[r] = [seen[w].copy EXCEPT !.units = units, !.held = held]
    BY <1>1, <1>6 DEF SaveRow, IInv, TypeOK, Loaded
  <2>2. row'[r].tenant = seen[w].copy.tenant
    BY <2>1 DEF Row
  <2>3. QED
    BY <1>3, <2>1, <2>2 DEF Serves
<1>7. CASE WorkTrip(w, held)
  <2>1. /\ seen[w].id \in Rows /\ pc[w] = "row"
        /\ row'[seen[w].id] = seen[w].copy
        /\ \A q \in Rows \ {seen[w].id} :
             \/ row'[q] = row[q]
             \/ /\ q \in seen[w].copy.units /\ row[q] \in Row /\ row'[q] \in Row
                /\ row'[q].tenant = row[q].tenant
                /\ row'[q] = [row[q] EXCEPT !.held = held]
    BY <1>7, Worked DEF IInv
  <2>2. CASE r = seen[w].id
    BY <1>3, <2>1, <2>2 DEF Serves
  <2>3. CASE r # seen[w].id
    <3>1. /\ r \in seen[w].copy.units /\ row[r] \in Row
          /\ row'[r].tenant = row[r].tenant
          /\ row'[r] = [row[r] EXCEPT !.held = held]
      BY <1>1, <2>1, <2>3
    <3>2. held = ~row[r].held
      <4>1. row[r].held \in BOOLEAN
        BY <3>1 DEF Row
      <4>2. CASE held = row[r].held
        <5>1. [row[r] EXCEPT !.held = held] = row[r]
          BY <3>1, <4>2 DEF Row
        <5>2. QED
          BY <1>1, <3>1, <5>1
      <4>3. QED
        BY <4>1, <4>2
    <3>3. row'[r] = [row[r] EXCEPT !.held = ~@]
      BY <3>1, <3>2
    <3>4. \/ req[w].tenant = NoTenant /\ req[w].user \in Admins
          \/ seen[w].copy.tenant = req[w].tenant
      BY <1>3, <2>1 DEF Serves
    <3>5. QED
      BY <1>3, <2>1, <3>1, <3>3, <3>4
  <2>4. QED
    BY <2>2, <2>3
<1>8. QED
  BY <1>2, <1>4, <1>5, <1>6, <1>7

\* Members change by the hand of a manager of their tenant.
MembersStep ==
  \A m \in MembershipIds : membership'[m] # membership[m] =>
    \/ \E t \in Tenants, u \in Users : Provision(t, u)
    \/ \E w \in Workers :
         /\ req[w].manager /\ pc'[w] = "idle"
         /\ membership[m] # NoRow => membership[m].tenant = req[w].tenant
         /\ membership'[m] # NoRow => membership'[m].tenant = req[w].tenant

\* Only the three actions of members change memberships, besides Provision.
LEMMA ManagersOnly ==
  ASSUME IInv, [Next]_vars
  PROVE  MembersStep
<1>1. SUFFICES ASSUME NEW m \in MembershipIds, membership'[m] # membership[m],
                      ~ \E t \in Tenants, u \in Users : Provision(t, u)
               PROVE  \E w \in Workers :
                        /\ req[w].manager /\ pc'[w] = "idle"
                        /\ membership[m] # NoRow => membership[m].tenant = req[w].tenant
                        /\ membership'[m] # NoRow => membership'[m].tenant = req[w].tenant
  BY DEF MembersStep
<1>2. PICK w \in Workers :
        \/ \E body \in InviteBodies : InviteMember(w, body)
        \/ \E x \in MembershipIds : RemoveMember(w, x)
        \/ SaveMember(w)
  BY <1>1 DEF Next, vars, tables, CreateTenant, SetStatus, Suspend, Activate, DeleteTenant,
     LoadTenant, Load, Admit, AdmitAdmin, CreateRow, LoadRow, DeleteRow, LoadMember,
     SaveTenant, SaveRow, WorkTrip, LoadPlan, FindPayer, SavePlan, Finish
<1>3. pc'[w] = "idle" /\ Serves(w)
  BY <1>2 DEF InviteMember, RemoveMember, SaveMember, Answer, IInv, TypeOK
<1>4. ASSUME NEW body \in InviteBodies, InviteMember(w, body)
      PROVE  /\ req[w].manager /\ membership[m] = NoRow
             /\ membership'[m].tenant = req[w].tenant
  <2>1. /\ inserted + 1 \in MembershipIds /\ req[w].manager
        /\ membership' = [membership EXCEPT ![inserted + 1] =
             [user |-> body.user, tenant |-> req[w].tenant, role |-> body.role,
              is_active |-> TRUE, is_primary |-> body.is_primary, born |-> inserted + 1]]
    BY <1>4 DEF InviteMember, Managing
  <2>2. m = inserted + 1
    BY <1>1, <2>1 DEF IInv, TypeOK
  <2>3. membership[m] = NoRow
    BY <2>2 DEF IInv, Fresh, TypeOK, MembershipIds
  <2>4. membership'[m].tenant = req[w].tenant
    BY <2>1, <2>2 DEF IInv, TypeOK
  <2>5. QED
    BY <2>1, <2>3, <2>4
<1>5. ASSUME NEW x \in MembershipIds, RemoveMember(w, x)
      PROVE  req[w].manager /\ membership[m].tenant = req[w].tenant /\ membership'[m] = NoRow
  <2>1. x = m
    BY <1>1, <1>5 DEF RemoveMember, IInv, TypeOK
  <2>2. QED
    BY <1>5, <2>1 DEF RemoveMember, Managing, Mine, IInv, TypeOK
<1>6. ASSUME SaveMember(w)
      PROVE  /\ req[w].manager
             /\ membership[m] # NoRow => membership[m].tenant = req[w].tenant
             /\ membership'[m].tenant = req[w].tenant
  <2> DEFINE new == Merged(seen[w].body, seen[w].copy)
  <2>1. /\ new \in TenantUser /\ new.tenant = seen[w].copy.tenant
        /\ seen[w].id \in MembershipIds /\ pc[w] = "member"
    BY <1>6, WrittenMember DEF SaveMember, IInv, TypeOK, Loaded
  <2>2. seen[w].id = m
    BY <1>1, <1>6, <2>1 DEF SaveMember, IInv, TypeOK
  <2>3. membership'[m] = new \/ \E id \in MembershipIds : membership'[m] = [new EXCEPT !.born = id]
    BY <1>6, <2>1, <2>2 DEF SaveMember, IInv, TypeOK
  <2> HIDE DEF new
  <2>4. membership'[m].tenant = new.tenant
    BY <2>1, <2>3 DEF TenantUser
  <2>5. QED
    BY <1>3, <2>1, <2>2, <2>4 DEF Serves
<1>7. QED
  BY <1>2, <1>3, <1>4, <1>5, <1>6

\* How a closed tenant may open.
SuspensionStep ==
  \A t \in Tenants : tenant[t] # NoRow /\ ~Open(t) /\ Open(t)' =>
    \/ Activate(t)
    \/ \E w \in Workers :
         /\ seen[w].id = t
         /\ \/ /\ pc[w] = "tenant"
               /\ \/ "status" \in DOMAIN seen[w].body
                  \/ seen[w].put
                  \/ seen[w].copy.status \in OpenStatuses
            \/ pc[w] = "paying" /\ seen[w].copy.status \in WaitingStatuses

\* A PATCH that leaves the status out writes the one that was read, and a plan
\* writes none unless the one that was read waited for it.
LEMMA SuspensionEnds ==
  ASSUME TypeOK, \A w \in Workers : Serves(w), [Next]_vars
  PROVE  SuspensionStep
<1>1. SUFFICES ASSUME NEW t \in Tenants, tenant[t] # NoRow, ~Open(t), Open(t)', ~Activate(t)
               PROVE  \E w \in Workers :
                        /\ seen[w].id = t
                        /\ \/ /\ pc[w] = "tenant"
                              /\ \/ "status" \in DOMAIN seen[w].body
                                 \/ seen[w].put
                                 \/ seen[w].copy.status \in OpenStatuses
                           \/ pc[w] = "paying" /\ seen[w].copy.status \in WaitingStatuses
  BY DEF SuspensionStep
<1>2. tenant'[t] # tenant[t] /\ tenant[t] \in Tenant
  BY <1>1 DEF Open, TypeOK
<1>3. \A x \in Tenants : ~Suspend(x) /\ ~Activate(x) /\ ~DeleteTenant(x)
  <2>1. \A x \in Tenants \ {t} : ~Suspend(x) /\ ~Activate(x) /\ ~DeleteTenant(x)
    BY <1>2 DEF Suspend, Activate, SetStatus, DeleteTenant, TypeOK
  <2>2. ~Suspend(t)
    BY <1>1, <1>2 DEF Suspend, SetStatus, Open, OpenStatuses, TypeOK, Tenant
  <2>3. ~DeleteTenant(t)
    BY <1>1, <1>2 DEF DeleteTenant, Open, TypeOK, Tenant
  <2>4. QED
    BY <1>1, <2>1, <2>2, <2>3
<1>4. PICK w \in Workers : SaveTenant(w) \/ SavePlan(w)
  <2>1. \A x \in Tenants : /\ \A u \in Users : ~Provision(x, u)
                          /\ \A status \in Statuses : ~CreateTenant(x, status)
    BY <1>1, <1>2 DEF Provision, CreateTenant, TypeOK
  <2>2. QED
    BY <1>2, <1>3, <2>1 DEF Next, vars, tables, LoadTenant, Load, Admit, AdmitAdmin, CreateRow,
       LoadRow, DeleteRow, InviteMember, LoadMember, RemoveMember, SaveRow, WorkTrip, SaveMember,
       LoadPlan, FindPayer, Finish
<1>5. CASE SavePlan(w)
  <2>1. pc[w] = "paying" /\ seen[w].id = t /\ seen[w].copy.status \in WaitingStatuses
    BY <1>2, <1>5, Paid
  <2>2. QED
    BY <2>1
<1>6. CASE SaveTenant(w)
  <2>1. pc[w] = "tenant" /\ seen[w].id = t /\ tenant'[t] = Written(w) /\ seen[w].copy \in Tenant
    BY <1>2, <1>6 DEF SaveTenant, TypeOK, Loaded
  <2>2. ASSUME "status" \notin DOMAIN seen[w].body, ~seen[w].put
        PROVE  Written(w).status = seen[w].copy.status
    <3>1. Written(w) = Merged(seen[w].body, seen[w].copy)
      BY <2>2 DEF Written
    <3>2. "status" \in DOMAIN seen[w].copy
      BY <2>1 DEF Tenant
    <3>3. Merged(seen[w].body, seen[w].copy)["status"] = seen[w].copy["status"]
      BY <2>2, <3>2 DEF Merged
    <3>4. QED
      BY <3>1, <3>3
  <2>3. QED
    BY <1>1, <2>1, <2>2 DEF Open
<1>7. QED
  BY <1>4, <1>5, <1>6

-----------------------------------------------------------------------------
\* The invariant holds in every state that can be reached.
THEOREM Inductive == Spec => []IInv
<1>1. Init => IInv
  <2> SUFFICES ASSUME Init PROVE IInv
    OBVIOUS
  <2>1. NoRequest \in Request /\ Nothing \in Seen
    BY DEF NoRequest, Request, Nothing, Seen
  <2>2. TypeOK
    BY <2>1, TenancyAssumption DEF Init, TypeOK, PCStates, Loaded
  <2>3. Members = {}
    BY DEF Init, Members
  <2>4. \A w \in Workers : Serves(w)
    BY DEF Init, Serves, NoRequest
  <2>5. QED
    BY <2>2, <2>3, <2>4 DEF Init, IInv, OneMembershipEach, Fresh, Existing, SameTenant
<1>2. IInv /\ [Next]_vars => IInv'
  BY InvStep
<1>3. QED
  BY <1>1, <1>2, PTL DEF Spec

\* The rows have the types their columns say.
THEOREM TypeCorrect == Spec => []TypeOK
<1>1. IInv => TypeOK
  BY DEF IInv
<1>2. QED
  BY <1>1, Inductive, PTL

\* Nobody is in a tenant twice, whatever stale edits put back.
THEOREM MembershipsCorrect == Spec => []OneMembershipEach
<1>1. IInv => OneMembershipEach
  BY DEF IInv
<1>2. QED
  BY <1>1, Inductive, PTL

\* Rows stay in their tenant, and only requests served there touch them, but
\* for what a trip of another tenant that names them keeps of a unit.
THEOREM RowsCorrect == Spec => RowsStayHome
<1>1. IInv /\ [Next]_vars => [RowsStep]_vars
  BY RowsHome
<1>2. Spec => [][RowsStep]_vars
  BY <1>1, Inductive, PTL DEF Spec
<1>3. QED
  BY <1>2, PTL DEF RowsStayHome, RowsStep

\* Members change only by the hand of a manager of their tenant.
THEOREM ManagersCorrect == Spec => OnlyManagers
<1>1. IInv /\ [Next]_vars => [MembersStep]_vars
  BY ManagersOnly
<1>2. Spec => [][MembersStep]_vars
  BY <1>1, Inductive, PTL DEF Spec
<1>3. QED
  BY <1>2, PTL DEF OnlyManagers, MembersStep

\* A closed tenant opens only in one of the five ways.
THEOREM SuspensionCorrect == Spec => SuspensionHeld
<1>1. IInv /\ [Next]_vars => [SuspensionStep]_vars
  BY SuspensionEnds DEF IInv
<1>2. Spec => [][SuspensionStep]_vars
  BY <1>1, Inductive, PTL DEF Spec
<1>3. QED
  BY <1>2, PTL DEF SuspensionHeld, SuspensionStep
=============================================================================
