\* Two tenants, two requests at a time.
SPECIFICATION Spec
CONSTANTS
  u1 = u1
  u2 = u2
  Tenants = {t1, t2}
  Users = {u1, u2}
  Admins = {root}
  Trips = {p1}
  Units = {v1}
  w1 = w1
  w2 = w2
  Workers <- MCWorkers
  Statuses = {"ACTIVE", "SUSPENDED"}
  TenantBodies = {}
  MemberBodies <- MCMemberBodies
  InviteBodies <- MCInviteBodies
  Headers = {t1}
  MaxInserts = 2
  NoTenant = NoTenant
  NoUser = NoUser
  NoRow = NoRow
SYMMETRY Symmetric
CONSTRAINT Explored
PROPERTIES
  
  OnlyManagers
