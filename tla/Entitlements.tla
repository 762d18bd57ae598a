---------------------------- MODULE Entitlements ----------------------------
(***************************************************************************)
(* What one tenant may use: package and add-ons, the TenantFeature rows    *)
(* derived from them, overrides, and the answers the permission check      *)
(* caches.                                                                 *)
(*                                                                         *)
(* An upgrade (the tenant's own, the platform's, or plan activation) is    *)
(* one transaction: it writes subscription and tenant, derives the feature *)
(* rows, clears the cache, bills and commits.  Attaching an add-on is a    *)
(* series of statements without a transaction.  No cache is configured, so *)
(* every server process has one of its own, and a process can clear only   *)
(* that.  Entries live for 300 seconds.                                    *)
(***************************************************************************)
EXTENDS Naturals

CONSTANTS
  Features, Packages, Addons,
  PackageFeatures,   \* the features of each package
  AddonFeatures,     \* the features of each add-on
  Processes,         \* server processes, each with its cache
  Workers,           \* threads of server processes: each handles one request at a time
  ProcessOf,         \* the process of each worker
  Overrides,         \* what overrides say, "grant" or "revoke"
  EditPackages,      \* packages written into a tenant by hand, or none
  NoPackage,         \* a tenant that has no package
  NoWorker,          \* the rows of subscription and tenant are not locked
  NoRequest          \* an idle worker handles no request

ASSUME EntitlementsAssumption ==
  /\ PackageFeatures \in [Packages -> SUBSET Features]
  /\ AddonFeatures \in [Addons -> SUBSET Features]
  /\ ProcessOf \in [Workers -> Processes]
  /\ Packages \cap Addons = {}
  /\ Overrides \subseteq {"grant", "revoke"}
  /\ EditPackages \subseteq Packages \cup {NoPackage}
  /\ NoPackage \notin Packages \cup Addons
  /\ NoWorker \notin Workers

VARIABLES
  tenantPackage,  \* Tenant.package
  subscription,   \* the Subscription row and its add-ons
  enabled,        \* features with a TenantFeature row
  override,       \* the TenantFeatureOverride in force for each feature
  cache,          \* tenant_feature_<tenant>_<feature>, in each process
  holder,         \* which worker's transaction has written subscription and tenant
  pc,             \* where each worker is in its request
  req,            \* the feature, package or add-on it is about
  seen,           \* what it has read
  bought,         \* history: packages of committed upgrades, add-ons attached
  handed,         \* history: packages written into the tenant by hand
  cut,            \* history: add-ons whose request broke off before the features were enabled
  astray          \* history: a save put another package into the subscription or the tenant

history == <<bought, handed, cut, astray>>
vars == <<tenantPackage, subscription, enabled, override, cache, holder, pc, req, seen, history>>

Subscription == [package : Packages \cup {NoPackage}, addons : SUBSET Addons]

Cached == {"absent", "yes", "no"}

\* "todo" are the features a sync has still to enable.
Seen == [tenant : Packages \cup {NoPackage}, package : Packages \cup {NoPackage},
         todo : SUBSET Features, answer : Cached]

Checking == {"asking", "storing"}
InTransaction == {"locked", "synced"}   \* of an upgrade or of ActivatePlanView
Attached == {"saving", "syncing", "enabling"}
PCStates == Checking \cup InTransaction \cup Attached \cup {"idle", "upgrading", "attaching", "editing"}

Nothing == [tenant |-> NoPackage, package |-> NoPackage, todo |-> {}, answer |-> "absent"]

Init ==
  /\ tenantPackage = NoPackage
  /\ subscription = [package |-> NoPackage, addons |-> {}]
  /\ enabled = {}
  /\ override = [f \in Features |-> "none"]
  /\ cache = [p \in Processes |-> [f \in Features |-> "absent"]]
  /\ holder = NoWorker
  /\ pc = [w \in Workers |-> "idle"]
  /\ req = [w \in Workers |-> NoRequest]
  /\ seen = [w \in Workers |-> Nothing]
  /\ bought = {} /\ handed = {} /\ cut = {} /\ astray = FALSE

-----------------------------------------------------------------------------
\* Helpers

Provisioned == bought # {}

Goto(w, state) == pc' = [pc EXCEPT ![w] = state]

Answer(w) ==
  /\ pc' = [pc EXCEPT ![w] = "idle"]
  /\ req' = [req EXCEPT ![w] = NoRequest]
  /\ seen' = [seen EXCEPT ![w] = Nothing]

Release(w) == holder' = IF holder = w THEN NoWorker ELSE holder

\* sync_tenant_features: what package p and the add-ons attached now come to.
FeaturesOf(p, addons) == PackageFeatures[p] \cup UNION {AddonFeatures[a] : a \in addons}

\* cache.delete of every feature, in the worker's own process.
Cleared(w) == [cache EXCEPT ![ProcessOf[w]] = [f \in Features |-> "absent"]]

-----------------------------------------------------------------------------
\* TenantProvisioningService.provision: tenant, subscription, add-ons and
\* features in one transaction.
Provision(p, addons) ==
  /\ ~Provisioned
  /\ tenantPackage' = p
  /\ subscription' = [package |-> p, addons |-> addons]
  /\ enabled' = FeaturesOf(p, addons)
  /\ bought' = {p} \cup addons
  /\ UNCHANGED <<override, cache, holder, pc, req, seen, handed, cut, astray>>

\* HasFeature, tenant_has_feature: an override in force or a cached answer
\* decides at once and changes nothing; otherwise ...
StartCheck(w, f) ==
  /\ Provisioned
  /\ pc[w] = "idle"
  /\ override[f] = "none"
  /\ cache[ProcessOf[w]][f] = "absent"
  /\ req' = [req EXCEPT ![w] = f]
  /\ Goto(w, "asking")
  /\ UNCHANGED <<tenantPackage, subscription, enabled, override, cache, holder, seen, history>>

\* ... the feature rows are asked ...
AskDatabase(w) ==
  /\ pc[w] = "asking"
  /\ seen' = [seen EXCEPT ![w].answer = IF req[w] \in enabled THEN "yes" ELSE "no"]
  /\ Goto(w, "storing")
  /\ UNCHANGED <<tenantPackage, subscription, enabled, override, cache, holder, req, history>>

\* ... and the answer is cached, whatever happened since.
StoreAnswer(w) ==
  /\ pc[w] = "storing"
  /\ cache' = [cache EXCEPT ![ProcessOf[w]][req[w]] = seen[w].answer]
  /\ Answer(w)
  /\ UNCHANGED <<tenantPackage, subscription, enabled, override, holder, history>>

-----------------------------------------------------------------------------
\* SubscriptionUpgradeService.upgrade, ActivatePlanView: the request finds the
\* subscription.  Any package may be the target: the present one too, with
\* another billing cycle.
StartUpgrade(w, p) ==
  /\ Provisioned
  /\ pc[w] = "idle"
  /\ req' = [req EXCEPT ![w] = p]
  /\ Goto(w, "upgrading")
  /\ UNCHANGED <<tenantPackage, subscription, enabled, override, cache, holder, seen, history>>

\* subscription.save(update_fields=...), tenant.save(update_fields=...)
LockRows(w) ==
  /\ pc[w] = "upgrading"
  /\ holder = NoWorker
  /\ holder' = w
  /\ Goto(w, "locked")
  /\ UNCHANGED <<tenantPackage, subscription, enabled, override, cache, req, seen, history>>

\* Mutant: the cache is written through, before the commit.
MutSyncFeatures(w) ==
  LET todo == FeaturesOf(req[w], subscription.addons) IN
  /\ pc[w] = "locked"
  /\ seen' = [seen EXCEPT ![w].todo = todo]
  /\ cache' = [cache EXCEPT ![ProcessOf[w]] =
       [f \in Features |-> IF f \in todo THEN "yes" ELSE "absent"]]
  /\ Goto(w, "synced")
  /\ UNCHANGED <<tenantPackage, subscription, enabled, override, holder, req, history>>

\* Mutant: the rows are written outside the transaction.
MutSyncAtOnce(w) ==
  LET todo == FeaturesOf(req[w], subscription.addons) IN
  /\ pc[w] = "locked"
  /\ seen' = [seen EXCEPT ![w].todo = todo]
  /\ enabled' = enabled \cup todo
  /\ cache' = Cleared(w)
  /\ Goto(w, "synced")
  /\ UNCHANGED <<tenantPackage, subscription, override, holder, req, history>>

\* Mutant: the rows are derived from the package the tenant had.
MutSyncOld(w) ==
  /\ pc[w] = "locked"
  /\ seen' = [seen EXCEPT ![w].todo =
       IF tenantPackage = NoPackage THEN {} ELSE FeaturesOf(tenantPackage, subscription.addons)]
  /\ cache' = Cleared(w)
  /\ Goto(w, "synced")
  /\ UNCHANGED <<tenantPackage, subscription, enabled, override, holder, req, history>>

\* sync_tenant_features inside the transaction: the rows are written and not
\* yet visible, the cache is cleared at once.
SyncFeatures(w) ==
  /\ pc[w] = "locked"
  /\ seen' = [seen EXCEPT ![w].todo = FeaturesOf(req[w], subscription.addons)]
  /\ cache' = Cleared(w)
  /\ Goto(w, "synced")
  /\ UNCHANGED <<tenantPackage, subscription, enabled, override, holder, req, history>>

MutCommitUpgrade(w) ==   \* mutant: tenant.save(update_fields=['package']) forgotten
  /\ pc[w] = "synced"
  /\ subscription' = [subscription EXCEPT !.package = req[w]]
  /\ enabled' = enabled \cup seen[w].todo
  /\ bought' = bought \cup {req[w]}
  /\ Release(w)
  /\ Answer(w)
  /\ UNCHANGED <<tenantPackage, override, cache, handed, cut, astray>>

\* The invoice is written (Payments!BillUpgrade) and the transaction commits.
CommitUpgrade(w) ==
  /\ pc[w] = "synced"
  /\ tenantPackage' = req[w]
  /\ subscription' = [subscription EXCEPT !.package = req[w]]
  /\ enabled' = enabled \cup seen[w].todo
  /\ bought' = bought \cup {req[w]}
  /\ Release(w)
  /\ Answer(w)
  /\ UNCHANGED <<override, cache, handed, cut, astray>>

\* Billing fails (two billing customers of that name, an invoice number taken):
\* everything but the cleared cache is rolled back.
FailUpgrade(w) ==
  /\ pc[w] \in InTransaction
  /\ Release(w)
  /\ Answer(w)
  /\ UNCHANGED <<tenantPackage, subscription, enabled, override, cache, history>>

-----------------------------------------------------------------------------
\* POST /subscriptions/upgrade/ with an add-on: tenant and subscription are
\* read, the add-on is attached, ...
StartAddon(w, a) ==
  /\ Provisioned
  /\ pc[w] = "idle"
  /\ req' = [req EXCEPT ![w] = a]
  /\ seen' = [seen EXCEPT ![w].tenant = tenantPackage, ![w].package = subscription.package]
  /\ Goto(w, "attaching")
  /\ UNCHANGED <<tenantPackage, subscription, enabled, override, cache, holder, history>>

AttachAddon(w) ==
  /\ pc[w] = "attaching"
  /\ subscription' = [subscription EXCEPT !.addons = @ \cup {req[w]}]
  /\ bought' = bought \cup {req[w]}
  /\ Goto(w, "saving")
  /\ UNCHANGED <<tenantPackage, enabled, override, cache, holder, req, seen, handed, cut, astray>>

\* ... subscription.save() writes the whole row as it was read, ...
SaveSubscription(w) ==
  /\ pc[w] = "saving"
  /\ holder = NoWorker
  /\ subscription' = [subscription EXCEPT !.package = seen[w].package]
  /\ astray' = (astray \/ subscription.package # seen[w].package)
  /\ seen' = [seen EXCEPT ![w].package = NoPackage]
  /\ Goto(w, "syncing")
  /\ UNCHANGED <<tenantPackage, enabled, override, cache, holder, req, bought, handed, cut>>

\* ... and sync_tenant_features works from the package the tenant had, ...
StartSync(w) ==
  /\ pc[w] = "syncing"
  /\ IF seen[w].tenant = NoPackage
     THEN Answer(w) /\ cut' = cut \cup {req[w]}
     ELSE /\ seen' = [seen EXCEPT ![w] =
                 [Nothing EXCEPT !.todo = FeaturesOf(seen[w].tenant, subscription.addons)]]
          /\ Goto(w, "enabling")
          /\ UNCHANGED <<req, cut>>
  /\ UNCHANGED <<tenantPackage, subscription, enabled, override, cache, holder,
                 bought, handed, astray>>

\* ... row by row, ...
EnableFeature(w) ==
  /\ pc[w] = "enabling"
  /\ \E f \in seen[w].todo :
       /\ enabled' = enabled \cup {f}
       /\ seen' = [seen EXCEPT ![w].todo = @ \ {f}]
  /\ UNCHANGED <<tenantPackage, subscription, override, cache, holder, pc, req, history>>

\* ... before the cache is cleared.
FinishSync(w) ==
  /\ pc[w] = "enabling"
  /\ seen[w].todo = {}
  /\ cache' = Cleared(w)
  /\ Answer(w)
  /\ UNCHANGED <<tenantPackage, subscription, enabled, override, holder, history>>

\* A statement fails, and what follows it is never done.
BreakOff(w) ==
  /\ pc[w] \in Attached
  /\ cut' = cut \cup {req[w]}
  /\ Answer(w)
  /\ UNCHANGED <<tenantPackage, subscription, enabled, override, cache, holder,
                 bought, handed, astray>>

-----------------------------------------------------------------------------
\* TenantFeatureOverrideView: grants or revokes a feature, served by process p.
SetOverride(p, f, value) ==
  /\ Provisioned
  /\ override' = [override EXCEPT ![f] = value]
  /\ cache' = [cache EXCEPT ![p][f] = "absent"]
  /\ UNCHANGED <<tenantPackage, subscription, enabled, holder, pc, req, seen, history>>

\* expires_at has passed.
LapseOverride(f) ==
  /\ override[f] # "none"
  /\ override' = [override EXCEPT ![f] = "none"]
  /\ UNCHANGED <<tenantPackage, subscription, enabled, cache, holder, pc, req, seen, history>>

\* PUT/PATCH /platform/tenants/{id}/: the row is read, and some time later
\* written back, its package as it was or another one.
BeginEdit(w) ==
  /\ Provisioned
  /\ pc[w] = "idle"
  /\ seen' = [seen EXCEPT ![w].tenant = tenantPackage]
  /\ Goto(w, "editing")
  /\ UNCHANGED <<tenantPackage, subscription, enabled, override, cache, holder, req, history>>

MutSaveEdit(w) ==   \* mutant: the key is not checked to be that of a package
  /\ pc[w] = "editing"
  /\ holder = NoWorker
  /\ \E p \in {seen[w].tenant} \cup EditPackages \cup Addons :
       /\ tenantPackage' = p
       /\ handed' = handed \cup ({p} \ {NoPackage, seen[w].tenant})
       /\ astray' = (astray \/ p # tenantPackage)
  /\ Answer(w)
  /\ UNCHANGED <<subscription, enabled, override, cache, holder, bought, cut>>

SaveEdit(w) ==
  /\ pc[w] = "editing"
  /\ holder = NoWorker
  /\ \E p \in {seen[w].tenant} \cup EditPackages :
       /\ tenantPackage' = p
       /\ handed' = handed \cup ({p} \ {NoPackage, seen[w].tenant})
       /\ astray' = (astray \/ p # tenantPackage)
  /\ Answer(w)
  /\ UNCHANGED <<subscription, enabled, override, cache, holder, bought, cut>>

\* Mutant: cache.set(..., timeout=None)
MutExpire(p, f) ==
  /\ cache[p][f] = "yes"
  /\ cache' = [cache EXCEPT ![p][f] = "absent"]
  /\ UNCHANGED <<tenantPackage, subscription, enabled, override, holder, pc, req, seen, history>>

\* 300 seconds have passed.
Expire(p, f) ==
  /\ cache[p][f] # "absent"
  /\ cache' = [cache EXCEPT ![p][f] = "absent"]
  /\ UNCHANGED <<tenantPackage, subscription, enabled, override, holder, pc, req, seen, history>>

\* A server process dies, with its cache and the requests it was serving.
Restart(p) ==
  LET lost == {w \in Workers : ProcessOf[w] = p} IN
  /\ \E w \in lost : pc[w] # "idle"
  /\ cache' = [cache EXCEPT ![p] = [f \in Features |-> "absent"]]
  /\ pc' = [w \in Workers |-> IF w \in lost THEN "idle" ELSE pc[w]]
  /\ req' = [w \in Workers |-> IF w \in lost THEN NoRequest ELSE req[w]]
  /\ seen' = [w \in Workers |-> IF w \in lost THEN Nothing ELSE seen[w]]
  /\ holder' = IF holder \in lost THEN NoWorker ELSE holder
  /\ cut' = cut \cup {req[w] : w \in {v \in lost : pc[v] \in Attached}}
  /\ UNCHANGED <<tenantPackage, subscription, enabled, override, bought, handed, astray>>

-----------------------------------------------------------------------------
Next ==
  \/ \E p \in Packages, addons \in SUBSET Addons : Provision(p, addons)
  \/ \E w \in Workers, f \in Features : StartCheck(w, f)
  \/ \E w \in Workers, p \in Packages : StartUpgrade(w, p)
  \/ \E w \in Workers, a \in Addons : StartAddon(w, a)
  \/ \E w \in Workers :
       \/ AskDatabase(w) \/ StoreAnswer(w)
       \/ LockRows(w) \/ SyncFeatures(w) \/ CommitUpgrade(w) \/ FailUpgrade(w)
       \/ AttachAddon(w) \/ SaveSubscription(w) \/ StartSync(w) \/ EnableFeature(w) \/ FinishSync(w)
       \/ BreakOff(w)
       \/ BeginEdit(w) \/ SaveEdit(w)
  \/ \E p \in Processes, f \in Features, value \in Overrides : SetOverride(p, f, value)
  \/ \E f \in Features : LapseOverride(f)
  \/ \E p \in Processes, f \in Features : Expire(p, f)
  \/ \E p \in Processes : Restart(p)

Spec == Init /\ [][Next]_vars

\* A check under way goes on, and cached answers expire; nothing else need happen.
Fairness ==
  /\ \A w \in Workers : WF_vars(AskDatabase(w) \/ StoreAnswer(w))
  /\ \A p \in Processes, f \in Features : WF_vars(Expire(p, f))

FairSpec == Spec /\ Fairness

-----------------------------------------------------------------------------
\* Properties

TypeOK ==
  /\ tenantPackage \in Packages \cup {NoPackage}
  /\ subscription \in Subscription
  /\ enabled \subseteq Features
  /\ override \in [Features -> {"none", "grant", "revoke"}]
  /\ cache \in [Processes -> [Features -> Cached]]
  /\ holder \in Workers \cup {NoWorker}
  /\ pc \in [Workers -> PCStates]
  /\ req \in [Workers -> Features \cup Packages \cup Addons \cup {NoRequest}]
  /\ seen \in [Workers -> Seen]
  /\ bought \subseteq Packages \cup Addons /\ handed \subseteq Packages /\ cut \subseteq Addons
  /\ astray \in BOOLEAN

\* The features of packages and add-ons, bought or put in by hand.
Covered(items) ==
  (UNION {PackageFeatures[p] : p \in items \cap Packages})
    \cup (UNION {AddonFeatures[a] : a \in items \cap Addons})

\* An add-on whose request is still at work, or broke off.
Unfinished == cut \cup {req[w] : w \in {v \in Workers : pc[v] \in Attached}}

\* What a tenant has paid for it can use: the features of every package and
\* add-on it bought are enabled, except those of an add-on whose request is
\* still at work or broke off between its statements.
BoughtIsEnabled == Covered(bought \ Unfinished) \subseteq enabled

\* Nothing else is: an upgrade that fails or is cut short enables no feature.
NothingForFree == enabled \subseteq Covered(bought \cup handed)

\* The permission check never caches a yes ahead of the commit that makes it true.
CacheNeverAhead ==
  \A p \in Processes, f \in Features : cache[p][f] = "yes" => f \in enabled

\* Subscription and tenant name the same package (both are written by one
\* transaction, behind the same row lock), unless a save put an old or a
\* hand-picked one back.
PackagesAgree == ~astray => tenantPackage = subscription.package

\* However checks race with upgrades and whichever process served them, no
\* process refuses an enabled feature for ever: in the end no cached no is left.
EntitlementArrives ==
  \A p \in Processes, f \in Features : <>[](f \in enabled => cache[p][f] # "no")
=============================================================================
