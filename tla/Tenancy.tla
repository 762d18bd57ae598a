------------------------------ MODULE Tenancy ------------------------------
(***************************************************************************)
(* Tenants, memberships, and the requests served in their name.            *)
(*                                                                         *)
(* A request finds its tenant and its user's membership once               *)
(* (resolve_tenant_context), is let in or refused by what it read then     *)
(* (HasTenantAccess, HasPermission), and works in that tenant until its    *)
(* answer, whatever becomes of tenant and membership meanwhile.  Platform  *)
(* administrators suspend, activate, edit and delete tenants at any time;  *)
(* the managers of a tenant invite, edit and remove its members.  Whoever  *)
(* is a member chooses the plan of a tenant, outside all of this.          *)
(***************************************************************************)
EXTENDS Naturals

CONSTANTS
  Tenants, Users, Admins,   \* ordinary users, platform administrators
  Trips,                    \* rows that name others and are worked on with them: trips,
                            \* and likewise pickups and deliveries
  Units,                    \* the rows they name: vehicles, drivers, shipments
  Workers,                  \* each serves one request at a time
  Statuses,                 \* of a tenant, as far as clients write them
  TenantBodies,             \* bodies of a PATCH or PUT of a tenant
  MemberBodies,             \* bodies of a PATCH of a membership
  InviteBodies,             \* bodies of a POST of a membership
  Headers,                  \* what requests say in X-Tenant-ID, if anything
  MaxInserts,               \* bounds the memberships ever inserted
  NoTenant, NoUser, NoRow

MembershipIds == 1..MaxInserts
Rows == Trips \cup Units
Roles == {"manager", "staff"}    \* TENANT_ADMIN, and the others

Tenant == [status : Statuses, deleted : BOOLEAN]

\* "born" stands for created_at.
TenantUser == [user : Users, tenant : Tenants, role : Roles, is_active : BOOLEAN,
               is_primary : BOOLEAN, born : MembershipIds]

\* "units" are the rows a trip names, "held" what trips keep of a unit: whether it
\* is ON_TRIP stands for its status, availability and odometer.
Row == [tenant : Tenants, deleted : BOOLEAN, units : SUBSET Units, held : BOOLEAN]

\* serializer.update: the fields a body has, over those the row had.
Merged(body, old) == [field \in DOMAIN old |-> IF field \in DOMAIN body THEN body[field] ELSE old[field]]

ASSUME TenancyAssumption ==
  /\ MaxInserts \in Nat
  /\ {"ACTIVE", "SUSPENDED"} \subseteq Statuses
  /\ Users \cap Admins = {}
  /\ Trips \cap Units = {}
  /\ NoTenant \notin Tenants
  /\ Headers \subseteq Tenants \cup {NoTenant}
  /\ NoRow \notin Tenant \cup TenantUser \cup Row
  /\ \A old \in Tenant, body \in TenantBodies : Merged(body, old) \in Tenant
  /\ \A old \in TenantUser, body \in MemberBodies :
       Merged(body, old) \in TenantUser /\ Merged(body, old).tenant = old.tenant
  /\ \A body \in InviteBodies : body \in [user : Users, role : Roles, is_primary : BOOLEAN]

VARIABLES
  tenant,      \* the Tenant rows
  membership,  \* the TenantUser rows
  inserted,    \* how many memberships have been inserted
  row,         \* the rows of the resources
  pc,          \* where each worker is
  req,         \* the request it serves
  seen         \* the row it has loaded, and what the client wants of it

vars == <<tenant, membership, inserted, row, pc, req, seen>>
tables == <<tenant, membership, inserted, row>>

PCStates == {"idle", "admitted", "row", "member", "tenant", "choosing", "paying"}

\* "named" is the header X-Tenant-ID, "tenant" what request.tenant became,
\* "manager" whether the membership found carries tenant.manage.
Request == [user : Users \cup Admins \cup {NoUser}, named : Tenants \cup {NoTenant},
            tenant : Tenants \cup {NoTenant}, manager : BOOLEAN]

Seen == [id : Tenants \cup MembershipIds \cup Rows \cup {NoRow},
         copy : Tenant \cup TenantUser \cup Row \cup {NoRow},
         body : TenantBodies \cup MemberBodies \cup {<<>>},
         put : BOOLEAN]

NoRequest == [user |-> NoUser, named |-> NoTenant, tenant |-> NoTenant, manager |-> FALSE]
Nothing == [id |-> NoRow, copy |-> NoRow, body |-> <<>>, put |-> FALSE]

Init ==
  /\ tenant = [t \in Tenants |-> NoRow]
  /\ membership = [m \in MembershipIds |-> NoRow]
  /\ inserted = 0
  /\ row = [r \in Rows |-> NoRow]
  /\ pc = [w \in Workers |-> "idle"]
  /\ req = [w \in Workers |-> NoRequest]
  /\ seen = [w \in Workers |-> Nothing]

-----------------------------------------------------------------------------
\* Helpers

Answer(w) ==
  /\ pc' = [pc EXCEPT ![w] = "idle"]
  /\ req' = [req EXCEPT ![w] = NoRequest]
  /\ seen' = [seen EXCEPT ![w] = Nothing]

Load(w, state, id, copy, body, put) ==
  /\ pc' = [pc EXCEPT ![w] = state]
  /\ seen' = [seen EXCEPT ![w] = [id |-> id, copy |-> copy, body |-> body, put |-> put]]
  /\ UNCHANGED <<tables, req>>

\* Tenant.objects: soft-deleted tenants are hidden.
Found(t) == t \in Tenants /\ tenant[t] # NoRow /\ ~tenant[t].deleted

\* HasTenantAccess
OpenStatuses == {"ACTIVE", "TRIAL"}

Open(t) == tenant[t] # NoRow /\ tenant[t].status \in OpenStatuses

Members == {m \in MembershipIds : membership[m] # NoRow}

MutActiveOf(u) == {m \in Members : membership[m].user = u}   \* mutant: is_active=True forgotten

\* TenantUser.objects.filter(user=user, is_active=True)
ActiveOf(u) == {m \in Members : membership[m].user = u /\ membership[m].is_active}

IsMember(u, t) ==
  \E m \in Members :
    membership[m].user = u /\ membership[m].tenant = t /\ membership[m].is_active

\* order_by('-is_primary', '-created_at')
Precedes(m, n) ==
  \/ membership[m].is_primary /\ ~membership[n].is_primary
  \/ /\ membership[m].is_primary = membership[n].is_primary
     /\ membership[m].born >= membership[n].born

First(ms) == {m \in ms : \A n \in ms : Precedes(m, n)}

\* resolve_tenant_context for an ordinary user: the membership in the tenant
\* named, or else the primary or newest one, even in a deleted tenant.
Resolved(u, named) ==
  LET there == {m \in ActiveOf(u) : Found(named) /\ membership[m].tenant = named} IN
  IF there # {} THEN there ELSE First(ActiveOf(u))

\* unique_together = ('tenant', 'user')
Clashes(new, ids) ==
  \E m \in Members \ ids : membership[m].user = new.user /\ membership[m].tenant = new.tenant

-----------------------------------------------------------------------------
\* The platform

\* TenantProvisioningService.provision: a tenant and the membership of its
\* first manager, in one transaction; the account may exist already.
Provision(t, u) ==
  LET id == inserted + 1 IN
  /\ tenant[t] = NoRow
  /\ id \in MembershipIds
  /\ tenant' = [tenant EXCEPT ![t] = [status |-> "ACTIVE", deleted |-> FALSE]]
  /\ membership' = [membership EXCEPT ![id] =
       [user |-> u, tenant |-> t, role |-> "manager", is_active |-> TRUE,
        is_primary |-> TRUE, born |-> id]]
  /\ inserted' = id
  /\ UNCHANGED <<row, pc, req, seen>>

\* POST /platform/tenants/: a tenant without members.
CreateTenant(t, status) ==
  /\ tenant[t] = NoRow
  /\ tenant' = [tenant EXCEPT ![t] = [status |-> status, deleted |-> FALSE]]
  /\ UNCHANGED <<membership, inserted, row, pc, req, seen>>

\* suspend and activate write one column.
SetStatus(t, status) ==
  /\ Found(t)
  /\ tenant' = [tenant EXCEPT ![t].status = status]
  /\ UNCHANGED <<membership, inserted, row, pc, req, seen>>

Suspend(t) == SetStatus(t, "SUSPENDED")

Activate(t) == SetStatus(t, "ACTIVE")

\* DELETE hides the tenant; its memberships stay.
DeleteTenant(t) ==
  /\ Found(t)
  /\ tenant' = [tenant EXCEPT ![t].deleted = TRUE]
  /\ UNCHANGED <<membership, inserted, row, pc, req, seen>>

\* PUT and PATCH of a tenant: the row is read ...
LoadTenant(w, t, body, put) ==
  /\ pc[w] = "idle"
  /\ Found(t)
  /\ Load(w, "tenant", t, tenant[t], body, put)

MutWritten(w) ==   \* mutant: the default applies to a PATCH too
  Merged(seen[w].body, [seen[w].copy EXCEPT !.status = "ACTIVE"])

\* What a serializer makes of a row read earlier: what the body leaves out a
\* PATCH takes from the row as it was read, a PUT from the serializer's default.
Written(w) ==
  Merged(seen[w].body,
         IF seen[w].put THEN [seen[w].copy EXCEPT !.status = "ACTIVE"] ELSE seen[w].copy)

\* ... and the whole of it is written back, is_deleted included.
SaveTenant(w) ==
  /\ pc[w] = "tenant"
  /\ tenant' = [tenant EXCEPT ![seen[w].id] = Written(w)]
  /\ Answer(w)
  /\ UNCHANGED <<membership, inserted, row>>

\* ActivatePlanView, for any account: the tenant is read ...
LoadPlan(w, u, t) ==
  /\ pc[w] = "idle"
  /\ Found(t)
  /\ pc' = [pc EXCEPT ![w] = "choosing"]
  /\ req' = [req EXCEPT ![w] = [NoRequest EXCEPT !.user = u]]
  /\ seen' = [seen EXCEPT ![w] = [Nothing EXCEPT !.id = t, !.copy = tenant[t]]]
  /\ UNCHANGED tables

\* ... its member is looked for, in whatever status the tenant is ...
FindPayer(w) ==
  /\ pc[w] = "choosing"
  /\ req[w].user \in Admins \/ IsMember(req[w].user, seen[w].id)
  /\ pc' = [pc EXCEPT ![w] = "paying"]
  /\ UNCHANGED <<tables, req, seen>>

WaitingStatuses == {"DRAFT", "PROVISIONING"}

\* ... and with the plan the status is written, if the one that was read waits
\* for it.
SavePlan(w) ==
  /\ pc[w] = "paying"
  /\ tenant' = IF seen[w].copy.status \in WaitingStatuses
               THEN [tenant EXCEPT ![seen[w].id].status = "ACTIVE"] ELSE tenant
  /\ Answer(w)
  /\ UNCHANGED <<membership, inserted, row>>

-----------------------------------------------------------------------------
\* Requests

\* Mutant: the status of the tenant is not looked at.
MutAdmit(w, u, named) ==
  /\ pc[w] = "idle"
  /\ \E m \in Resolved(u, named) :
       req' = [req EXCEPT ![w] =
          [user |-> u, named |-> named, tenant |-> membership[m].tenant,
           manager |-> membership[m].role = "manager"]]
  /\ pc' = [pc EXCEPT ![w] = "admitted"]
  /\ UNCHANGED <<tables, seen>>

\* The request of an ordinary user; one that is refused changes nothing.
Admit(w, u, named) ==
  /\ pc[w] = "idle"
  /\ \E m \in Resolved(u, named) :
       /\ Open(membership[m].tenant)
       /\ req' = [req EXCEPT ![w] =
            [user |-> u, named |-> named, tenant |-> membership[m].tenant,
             manager |-> membership[m].role = "manager"]]
  /\ pc' = [pc EXCEPT ![w] = "admitted"]
  /\ UNCHANGED <<tables, seen>>

\* A platform administrator is let in everywhere: in the tenant named, or in
\* all of them.
AdmitAdmin(w, u, named) ==
  /\ pc[w] = "idle"
  /\ req' = [req EXCEPT ![w] =
       [user |-> u, named |-> named, tenant |-> IF Found(named) THEN named ELSE NoTenant,
        manager |-> TRUE]]
  /\ pc' = [pc EXCEPT ![w] = "admitted"]
  /\ UNCHANGED <<tables, seen>>

\* The answer to a GET, a refusal, or the end of a worker: nothing is written.
Finish(w) ==
  /\ pc[w] # "idle"
  /\ Answer(w)
  /\ UNCHANGED tables

-----------------------------------------------------------------------------
\* TenantModelViewSet: rows of tenant-scoped resources

MutVisible(w, r) == row[r] # NoRow /\ ~row[r].deleted   \* mutant: get_queryset does not filter

Visible(w, r) ==
  /\ row[r] # NoRow
  /\ ~row[r].deleted
  /\ req[w].tenant = NoTenant \/ row[r].tenant = req[w].tenant

\* PrimaryKeyRelatedField: the rows the body of a trip may name are those of
\* every tenant.  TenantAwareManager hides the deleted ones only.
Nameable(r) == IF r \in Trips THEN {u \in Units : row[u] # NoRow /\ ~row[u].deleted} ELSE {}

\* perform_create: only a platform administrator outside any tenant says where.
CreateRow(w, r, units, held) ==
  /\ pc[w] = "admitted"
  /\ row[r] = NoRow
  /\ units \subseteq Nameable(r)
  /\ r \in Trips => ~held
  /\ \E t \in Tenants :
       /\ IF req[w].tenant = NoTenant THEN Found(t) ELSE t = req[w].tenant
       /\ row' = [row EXCEPT ![r] = [tenant |-> t, deleted |-> FALSE, units |-> units, held |-> held]]
  /\ Answer(w)
  /\ UNCHANGED <<tenant, membership, inserted>>

LoadRow(w, r) ==
  /\ pc[w] = "admitted"
  /\ Visible(w, r)
  /\ Load(w, "row", r, row[r], <<>>, FALSE)

\* The edit of a row: what the body leaves out is written as it was read.
SaveRow(w, units, held) ==
  LET r == seen[w].id IN
  /\ pc[w] = "row"
  /\ units \subseteq Nameable(r) \cup seen[w].copy.units
  /\ r \in Trips => ~held
  /\ row' = [row EXCEPT ![r] = [seen[w].copy EXCEPT !.units = units, !.held = held]]
  /\ Answer(w)
  /\ UNCHANGED <<tenant, membership, inserted>>

\* TripWorkflowService.transition: the trip as it was read, and of each unit it
\* named then the status, whatever tenant the unit belongs to.
WorkTrip(w, held) ==
  LET trip == seen[w].copy IN
  /\ pc[w] = "row"
  /\ \A u \in trip.units : row[u] # NoRow
  /\ row' = [r \in Rows |->
       IF r = seen[w].id THEN trip
       ELSE IF r \in trip.units THEN [row[r] EXCEPT !.held = held] ELSE row[r]]
  /\ Answer(w)
  /\ UNCHANGED <<tenant, membership, inserted>>

\* perform_destroy: a soft delete.
DeleteRow(w, r) ==
  /\ pc[w] = "admitted"
  /\ Visible(w, r)
  /\ row' = [row EXCEPT ![r].deleted = TRUE]
  /\ Answer(w)
  /\ UNCHANGED <<tenant, membership, inserted>>

-----------------------------------------------------------------------------
\* TenantUserViewSet: members, for those with tenant.manage

MutManaging(w) == pc[w] = "admitted" /\ req[w].manager   \* mutant: request.tenant may be None

Managing(w) == pc[w] = "admitted" /\ req[w].manager /\ req[w].tenant # NoTenant

MutMine(w, m) == membership[m] # NoRow   \* mutant: members of every tenant

Mine(w, m) == membership[m] # NoRow /\ membership[m].tenant = req[w].tenant

\* A membership that exists already is refused by the database.
InviteMember(w, body) ==
  LET id == inserted + 1
      new == [user |-> body.user, tenant |-> req[w].tenant, role |-> body.role,
              is_active |-> TRUE, is_primary |-> body.is_primary, born |-> id] IN
  /\ Managing(w)
  /\ ~Clashes(new, {})
  /\ id \in MembershipIds
  /\ membership' = [membership EXCEPT ![id] = new]
  /\ inserted' = id
  /\ Answer(w)
  /\ UNCHANGED <<tenant, row>>

LoadMember(w, m, body) ==
  /\ Managing(w)
  /\ Mine(w, m)
  /\ Load(w, "member", m, membership[m], body, FALSE)

\* DELETE removes the row.
RemoveMember(w, m) ==
  /\ Managing(w)
  /\ Mine(w, m)
  /\ membership' = [membership EXCEPT ![m] = NoRow]
  /\ Answer(w)
  /\ UNCHANGED <<tenant, inserted, row>>

MutSaveMember(w) ==   \* mutant: no unique_together
  LET m == seen[w].id
      new == Merged(seen[w].body, seen[w].copy)
      id == inserted + 1 IN
  /\ pc[w] = "member"
  /\ IF membership[m] # NoRow
     THEN membership' = [membership EXCEPT ![m] = new] /\ UNCHANGED inserted
     ELSE /\ id \in MembershipIds
          /\ membership' = [membership EXCEPT ![m] = [new EXCEPT !.born = id]]
          /\ inserted' = id
  /\ Answer(w)
  /\ UNCHANGED <<tenant, row>>

\* save() of the whole row as it was read: an UPDATE, or an INSERT of the row
\* again if it has been removed meanwhile.
SaveMember(w) ==
  LET m == seen[w].id
      new == Merged(seen[w].body, seen[w].copy)
      id == inserted + 1 IN
  /\ pc[w] = "member"
  /\ ~Clashes(new, {m})
  /\ IF membership[m] # NoRow
     THEN membership' = [membership EXCEPT ![m] = new] /\ UNCHANGED inserted
     ELSE /\ id \in MembershipIds
          /\ membership' = [membership EXCEPT ![m] = [new EXCEPT !.born = id]]
          /\ inserted' = id
  /\ Answer(w)
  /\ UNCHANGED <<tenant, row>>

-----------------------------------------------------------------------------
Next ==
  \/ \E t \in Tenants, u \in Users : Provision(t, u)
  \/ \E t \in Tenants, status \in Statuses : CreateTenant(t, status)
  \/ \E t \in Tenants : Suspend(t) \/ Activate(t) \/ DeleteTenant(t)
  \/ \E w \in Workers, t \in Tenants, body \in TenantBodies, put \in BOOLEAN :
       LoadTenant(w, t, body, put)
  \/ \E w \in Workers, u \in Users \cup Admins, t \in Tenants : LoadPlan(w, u, t)
  \/ \E w \in Workers, named \in Headers :
       \/ \E u \in Users : Admit(w, u, named)
       \/ \E u \in Admins : AdmitAdmin(w, u, named)
  \/ \E w \in Workers, r \in Rows : LoadRow(w, r) \/ DeleteRow(w, r)
  \/ \E w \in Workers, units \in SUBSET Units, held \in BOOLEAN :
       \/ \E r \in Rows : CreateRow(w, r, units, held)
       \/ SaveRow(w, units, held)
  \/ \E w \in Workers, held \in BOOLEAN : WorkTrip(w, held)
  \/ \E w \in Workers, body \in InviteBodies : InviteMember(w, body)
  \/ \E w \in Workers, m \in MembershipIds :
       \/ \E body \in MemberBodies : LoadMember(w, m, body)
       \/ RemoveMember(w, m)
  \/ \E w \in Workers : SaveTenant(w) \/ SaveMember(w) \/ FindPayer(w) \/ SavePlan(w) \/ Finish(w)

Spec == Init /\ [][Next]_vars

\* A request under way comes to its answer.
Fairness == \A w \in Workers : WF_vars(SaveTenant(w) \/ SaveMember(w) \/ SavePlan(w) \/ Finish(w))

FairSpec == Spec /\ Fairness

-----------------------------------------------------------------------------
\* Properties

Loaded(w) ==
  /\ pc[w] \in {"tenant", "choosing", "paying"} =>
       seen[w].id \in Tenants /\ seen[w].copy \in Tenant
  /\ pc[w] = "tenant" => seen[w].body \in TenantBodies
  /\ pc[w] = "row" => seen[w].id \in Rows /\ seen[w].copy \in Row
  /\ pc[w] = "member" =>
       /\ seen[w].id \in MembershipIds /\ seen[w].copy \in TenantUser
       /\ seen[w].body \in MemberBodies

TypeOK ==
  /\ tenant \in [Tenants -> Tenant \cup {NoRow}]
  /\ membership \in [MembershipIds -> TenantUser \cup {NoRow}]
  /\ inserted \in 0..MaxInserts
  /\ row \in [Rows -> Row \cup {NoRow}]
  /\ pc \in [Workers -> PCStates]
  /\ req \in [Workers -> Request]
  /\ seen \in [Workers -> Seen]
  /\ \A w \in Workers : Loaded(w)

\* A user is in a tenant once, although an edit may bring a removed membership
\* back after the user was invited again.
OneMembershipEach ==
  \A m, n \in Members :
    /\ membership[m].user = membership[n].user
    /\ membership[m].tenant = membership[n].tenant
    => m = n

\* A row stays in the tenant it was created in.  It is written by requests
\* served in that tenant, by those of an administrator outside any, and by
\* whoever works on a trip that named it when it was read: this one may be
\* served in another tenant, and writes only what trips keep of a unit.
RowsStayHome ==
  [][\A r \in Rows : row'[r] # row[r] =>
       /\ row[r] # NoRow => row'[r].tenant = row[r].tenant
       /\ \E w \in Workers :
            /\ pc[w] \in {"admitted", "row"} /\ pc'[w] = "idle"
            /\ \/ req[w].tenant = row'[r].tenant
               \/ req[w].tenant = NoTenant /\ req[w].user \in Admins
               \/ /\ pc[w] = "row" /\ seen[w].copy.tenant = req[w].tenant
                  /\ r \in seen[w].copy.units
                  /\ row'[r] = [row[r] EXCEPT !.held = ~@]]_vars

\* Members come, change and go by the hand of somebody let in as a manager of
\* that very tenant, and otherwise only with a new tenant.
OnlyManagers ==
  [][\A m \in MembershipIds : membership'[m] # membership[m] =>
       \/ \E t \in Tenants, u \in Users : Provision(t, u)
       \/ \E w \in Workers :
            /\ req[w].manager /\ pc'[w] = "idle"
            /\ membership[m] # NoRow => membership[m].tenant = req[w].tenant
            /\ membership'[m] # NoRow => membership'[m].tenant = req[w].tenant]_vars

\* A closed tenant opens only by activation, by an edit that says so, by a PUT
\* that leaves the status out, by an edit that read the tenant open, or by a
\* plan chosen by somebody who read it while it waited for one: the last two
\* end a suspension that came in between.
SuspensionHeld ==
  [][\A t \in Tenants : tenant[t] # NoRow /\ ~Open(t) /\ Open(t)' =>
       \/ Activate(t)
       \/ \E w \in Workers :
            /\ seen[w].id = t
            /\ \/ /\ pc[w] = "tenant"
                  /\ \/ "status" \in DOMAIN seen[w].body
                     \/ seen[w].put
                     \/ seen[w].copy.status \in OpenStatuses
               \/ pc[w] = "paying" /\ seen[w].copy.status \in WaitingStatuses]_vars

\* A suspension takes hold: if the tenant stays suspended, the requests let in
\* before it come to an end and no user is let in any more.  Choosing a plan
\* takes a membership only and is served in no tenant.
SuspensionTakesHold ==
  \A t \in Tenants :
    <>[](tenant[t] # NoRow /\ ~Open(t)) =>
      <>[](\A w \in Workers : req[w].user \in Users => req[w].tenant # t)

\* So does the end of a membership, removed or set inactive.
RemovalTakesHold ==
  \A u \in Users, t \in Tenants :
    <>[](~IsMember(u, t)) => <>[](\A w \in Workers : req[w].user = u => req[w].tenant # t)
=============================================================================
