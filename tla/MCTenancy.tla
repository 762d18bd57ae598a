----------------------------- MODULE MCTenancy -----------------------------
(***************************************************************************)
(* Two tenants, two users and what clients send in this instance.          *)
(***************************************************************************)
EXTENDS Tenancy, TLC

CONSTANTS u1, u2, w1, w2

MCTenantBodies == {<<>>, [status |-> "SUSPENDED"]}
MCMemberBodies == {[is_active |-> FALSE]}
MCInviteBodies == {[user |-> u2, role |-> "manager", is_primary |-> FALSE]}

MCWorkers == {w1, w2}
Symmetric == Permutations(MCWorkers)

\* A request works on rows in the tenant it was let in to, whatever becomes of
\* tenants and members: so both are explored as long as there are no rows, and
\* rows with tenants that stay open.
Explored ==
  \/ \A r \in Rows : row[r] = NoRow
  \/ /\ \A t \in Tenants : tenant[t] # NoRow => Open(t) /\ ~tenant[t].deleted
     /\ \A w \in Workers : pc[w] \notin {"choosing", "paying"}
=============================================================================
