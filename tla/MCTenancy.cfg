\* One tenant, two requests at a time.
SPECIFICATION FairSpec
CONSTANTS
  u1 = u1
  u2 = u2
  Tenants = {t1}
  Users = {u1, u2}
  Admins = {root}
  Trips = {}
  Units = {}
  w1 = w1
  w2 = w2
  Workers <- MCWorkers
  Statuses = {"ACTIVE", "SUSPENDED", "DRAFT"}
  TenantBodies <- MCTenantBodies
  MemberBodies <- MCMemberBodies
  InviteBodies <- MCInviteBodies
  Headers = {t1}
  MaxInserts = 4
  NoTenant = NoTenant
  NoUser = NoUser
  NoRow = NoRow
INVARIANTS
  OneMembershipEach
PROPERTIES
  SuspensionHeld
  SuspensionTakesHold
  RemovalTakesHold
