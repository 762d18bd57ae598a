# OmniCore backend: a verification project in TLA+

OmniCore is a multi-tenant logistics backend (Django, Django REST framework, Celery,
PostgreSQL). This directory models the parts of it in which requests, tasks and
processes meet on the same rows, checks the models with TLC, and proves the central
results with TLAPS. It is written from the source: every definition that stands for code
has an entry in `PROJECT.json` under `map`, with the file and the lines.

Contents: 1 the system, 2 how the code is turned into actions, 3 the modules, 4 the runs,
5 what is proved, 6 what the models showed about the code, 7 what is not modelled,
8 the plan.

## 1. The system

One Django project, about twenty apps under `src/apps`. Web workers (processes, each with
threads) serve the API; Celery workers run periodic and queued tasks; one PostgreSQL
database holds everything (READ COMMITTED, `ATOMIC_REQUESTS` off; SQLite is a fallback for
development). No cache is configured, so Django's default applies: a local-memory cache in
each process.

| Component (`src/apps/...`) | State it keeps | Operations | Meets others through | What is hard | What makes it correct |
|---|---|---|---|---|---|
| `warehouse`: stock | spare parts with a balance, ledger rows, warehouses | record a movement, CRUD on parts and warehouses | nothing but its own rows | movements race for a balance; CRUD saves stale rows; two columns round separately | the ledger is a chain that explains the balance; the balance is never negative |
| `warehouse`: cross-docking, consolidation | cross-dock status, groups with totals | start, advance, add an item | tracking events of courier shipments | read-modify-write of totals without a lock | a group counts no parcel it does not hold; a sealed group does not grow |
| `finance` | invoices, payments, expenses | record a payment, CRUD | `subscriptions` writes invoices of upgrades | client retries with a key, races of two requests, stale saves | a key pays once; paid amount, balance and status agree |
| `trips` | trips | dispatch, start, complete, cancel, CRUD | writes status of vehicles and drivers | checks on rows read without a lock | the state machine; nobody is left on a trip that is over |
| `fleet`, `drivers` | vehicles, drivers, documents, branches | change of status, odometer, assignment, CRUD | `trips` | two writers of one status; an odometer compared with a reading that is old | status agrees with the trips; the odometer does not fall |
| `courier`: shipments | shipments, tracking events, pickup legs, deliveries, proofs | transition, pickup progress, one-time code, verification, CRUD | commissions; `warehouse` and `website` write events | every check is on a row read before the transaction | status, trail and legs agree; a verified proof was verified |
| `courier`: payouts | commissions, expenses, payouts | payout of an agent, batch task | proofs of delivery earn commissions | sum and update are two queries; the batch is retried as a whole | an earning is paid once |
| `subscriptions` | packages, add-ons, subscription, feature rows, overrides, a cache in each process | upgrade, add-on, override, permission check | `tenants` (choosing a plan activates), `finance`, every view that checks a feature | the cache races the commit; an add-on is attached without a transaction | what was bought, and only that, can be used |
| `tenants` | tenants, memberships, roles, settings | provision, suspend, activate, CRUD, invite, remove | `subscriptions`, `core` | stale saves of tenants and memberships; requests let in before a change | one membership each; a suspension holds and takes hold; managers manage their own tenant |
| `core` | none of its own | resolve the tenant of a request, permissions, base viewset, soft delete | every other app | what was read when the request was let in is used until its end; full-row saves; hidden rows that stay unique; bodies name rows of any tenant | rows stay in their tenant; its requests write them, and trips that name them |
| `shuttle` | daily trips, attendance | start, complete, attend | fleet, drivers | double start and completion | the status goes one way; each status has its times |
| `crm` | customers, leads | convert a lead, CRUD | finance (billing customer by name) | a lead converted twice, or edited while it is converted | a converted lead has its one customer |
| `notifications` | notifications | three periodic scans, mark as read | vehicles, drivers, parts, members | a scan that fails is retried from its start; what nobody can be told of stops it | a reminder is repeated once per try at most; everyone is told of what stays due |
| `accounts`: accounts | users, the roles of no tenant | register, change and reset a password, scripts | `tenants` provisions for it | the check of an e-mail and the use of it are apart; full saves of accounts | one company for an e-mail; the password is the one its owner was told; ranks stay |
| `accounts`: sessions | refresh tokens, device sessions | login, refresh, logout | simplejwt | verifying a token, blacklisting it and minting the next are statements | one token for a login, none after logout |
| `website` | sites; shipments booked in public | public bookings, CRUD of sites | `courier` shipments, `tenants` | codes drawn without a lock; an event written after the row can be seen | a code leads to its guest's shipment |
| scripts (`src/*.py`) | rows of every app | `seed_all_sample_data`, `seed_sample_users`, `init_superuser` | every app | they look rows up and create them, statement by statement, in a database in use | runs do not stop each other nor create a row twice |
| `contracts`, `hr`, `insurance`, `maintenance`, `marketing`, `audit`, `reports` | plain rows | CRUD, one unguarded status change here and there, reading | – | – | – |

The base class `TenantModelViewSet` gives every resource the same three writes, and most of
the hard cases come from them: POST inserts a row; PUT and PATCH read a row without a lock
and later save EVERY column of it, read-only ones and `is_deleted` included; DELETE sets
`is_deleted`. The services in `*/services.py` work beside them, in transactions and some of
them with row locks, on the same rows.

`PROJECT.json` lists the 40 hazards this gives rise to, each at its line, with the
properties that would notice it going wrong.

## 2. How code becomes actions

- **A request is as many steps as the database lets others see.** A view's `get_object`
  reads outside the transaction, so it is a step. A transaction that takes no lock before
  its last statement takes effect at its commit and is one step; one that locks, waits, or
  reads in several statements is one step for each.
- **What a request has read stays in the worker** (`seen`, or the `read` field of a
  request) and is used later as it was, as the code does.
- **Row locks** are `holder`. `UPDATE` waits for a lock like `SELECT ... FOR UPDATE`.
  Where several rows are written, the code writes them in one order, so nobody waits in a
  circle: `Inventory` and `Payments` check liveness with the locks in place, `Inventory`
  deadlock too, and `WaitsCorrect` proves it for the row locks and keys of `Payments`.
- **Crash** ends a worker anywhere inside its transaction: nothing of it remains. Work done
  in statements without a transaction (attaching an add-on, the batch of payouts) remains
  up to the statement reached.
- **Data** are abstract: features, packages, parts, codes and keys are model values.
  Amounts are integers, with the rounding of the DECIMAL columns where rows must add up
  (`Decimals`).
- **History variables** (`overwritten`, `rewritten`, `loose`, `astray`, `irregular`,
  `byHand`, `entered`, `told`, `bought`, ...) record what happened, never guard anything
  the code does, and name the exceptions a property allows. Each exception is itself a
  behaviour of the code, and the important ones have a run that exhibits it (section 4).
- **Mutants** (`Mut...`) stand beside the action they change. They are plausible bugs, used
  to see that every property notices one; no specification uses them.

External, and modelled from how the code relies on it: PostgreSQL (locks, unique
constraints, rollback, re-evaluation of a locked row), Django's cache, Celery's retry.

## 3. The modules

| Module | Models |
|---|---|
| `Decimals`, `StockArithmetic` | rounding of columns; the sign rule and the row of a stock movement |
| `StockLedger` | abstract specification: a balance moves by appending a ledger entry that starts at it, or goes back to a balance it has had |
| `KeyedPayments` | abstract specification: what an idempotency key promises whoever sends it |
| `Inventory` | parts, ledger, warehouses: `record_stock_movement` step by step, CRUD, crashes; implements `StockLedger` |
| `Payments` | invoices and payments: `record_payment` with its key look-up, lock, unique constraint and `update_balance`; CRUD of both; invoices of upgrades; implements `KeyedPayments` |
| `TripWorkflow` | trips with vehicles and drivers: `TripWorkflowService.transition` for the four endpoints, and every write past it |
| `Entitlements` | one tenant's package, add-ons, feature rows, overrides, caches: provisioning, upgrade, add-on, override, permission check, edit, restart |
| `Shipments` | one shipment with legs, trail, delivery, proof and commissions: transitions, pickups, events of the warehouse and of bookings, codes, verification, CRUD |
| `Payouts` | commissions, expenses and payouts of agents: `process_agent_payout` statement by statement, the batch task and its retries; implements `KeyedPayments` |
| `Tenancy` | tenants, memberships, tenant-scoped rows (trips and the units they name), requests: resolving the tenant, being let in, the tenant filter, rows named across tenants, platform administration, choosing a plan, member management |
| `Operations` | consolidation groups, leads, shuttle trips, odometers, cross-docks: rows that a service moves along after checking a copy of them, with CRUD |
| `Accounts` | accounts, the role of managers and companies under registrations, password changes and resets, `seed_sample_users` and `init_superuser` |
| `Sessions` | refresh tokens: login, rotation statement by statement, logout, lost answers |
| `Seeding` | the program of `seed_all_sample_data`, one `get_or_create` for each table, next to another run, API edits, deletions and registrations |
| `Website` | addresses of companies and sites, public bookings, what the companies do with their shipments meanwhile |
| `Scans` | the three notification scans: the beat, lists, recipients, retries, dying workers |
| `InventoryProofs`, `PaymentsProofs`, `EntitlementsProofs`, `ShipmentsProofs`, `PayoutsProofs`, `TenancyProofs`, `OperationsProofs`, `StandaloneProofs` (`Accounts`, `Sessions`, `Website`, `Scans`, `TripWorkflow`, `Seeding`) | the theorems and their proofs |
| `MC*` | small instances for TLC |

How state corresponds:

- `Inventory`: `rows` = SparePart (`state` joins existence and `is_deleted`), `ledger` =
  InventoryTransaction, `open` = warehouses not deleted, `pc`/`req`/`seen` = the request a
  worker is in. A movement goes `AdjustStock` (view and validation), `LockPart`,
  `FindWarehouse`, then `Commit` or `Reject`.
- `Payments`: `invoices`, `payments` = the rows; `told` = what clients were answered for a
  key. A payment goes `RecordPayment`, `CheckKey`, `LockInvoice`, `InsertPayment`,
  `CommitPayment`.
- `TripWorkflow`: a transition is `AskFor` (read and check) and then `DispatchTrip`,
  `StartTrip`, `CompleteTrip` or `CancelTrip` (the transaction), which saves the whole trip
  as it was read.
- `Entitlements`: `enabled` = TenantFeature rows, `cache` = the entries in each process. An
  upgrade is `StartUpgrade`, `LockRows`, `SyncFeatures` (clears the cache before the
  commit), `CommitUpgrade`; an add-on is `AttachAddon`, `SaveSubscription`, `StartSync`,
  `EnableFeature` row by row, `FinishSync`; a check is `StartCheck`, `AskDatabase`,
  `StoreAnswer`.
- `Shipments`: `latest` and `picked` are what the properties need of the tracking events;
  verification is `BeginVerify`, `CheckCode` and `CompletePod`. `BeginHandling` and
  `RecordHandling` are what writes an event and leaves the shipment alone: `add_item` and
  `advance_status` of the warehouse, and a booking after its row.
- `Payouts`: a sum of rows is kept as the set of the rows.
- `Tenancy`: `tenant`, `membership`, `row` = the tables; `req` = what the request object
  carries once the tenant is resolved (`request.tenant` and whether the membership found is
  a manager's), kept until the answer. A request is `Admit` or `AdmitAdmin` and then its
  work: one step for an insert or delete, `LoadRow`/`SaveRow`, `LoadMember`/`SaveMember` for
  an edit. An edit of a tenant is `LoadTenant`, `SaveTenant`; choosing a plan is `LoadPlan`,
  `FindPayer` (any active membership, in whatever status the tenant is), `SavePlan`. `Rows` are
  `Trips` and `Units` (vehicles and drivers): a body may name units of any tenant (`Nameable`),
  and `WorkTrip` writes those the trip named when it was read (`trips/services.py`).

- `Operations`: a row is a record whose `kind` says which table it is of; `attached` are the
  rows a service inserts with it (items of a group, by parcels; customers of a lead). A
  request is `Read` (`get_object` and the check) and then its service, which saves the
  columns the code names, computed from the copy; `advance_status` and edits save them all.

- `Accounts`: `user` = the account of an e-mail, `role` = how many rows TENANT_ADMIN has
  among the roles of no tenant (2 is two or more), `seen` = what a worker has read. A
  registration is `BeginRegister` (`validate_email`), `Provision` (the roles are looked up)
  and `RegisterCompany` (the commit); the loop of `seed_sample_users` is `FindUser`,
  `SaveUser`, `FindRole`, `CreateRole`, `Link`.
- `Sessions`: `token` = OutstandingToken with its blacklisting, and the login it descends
  from. A refresh is `Verify`, `Rotate` (blacklist), `Refresh` (mint).
- `Seeding`: `rows` counts the rows with a script's key, those deleted apart; a step of a
  run is `Get`, `Insert`, `GetAgain`, the three statements of Django's `get_or_create`. Of
  the rows of a table the first stands for all.
- `Website`: a booking is `FindSite`, `FindSlug`, `DrawCode`, `Store`, `Event`. The
  subdomain of a site goes before the slug of a company, as `resolve_public_tenant` has it.
- `Scans`: an execution is `BeginScan` (the list), then `ListRecipients`, `Send` to one
  member after another, `NextSubject`, and `EndScan`, or a failure and `Retried`.

The modules do not share variables: the components meet through single calls that are
actions here (`Payments!BillUpgrade` is what an upgrade leaves in finance, `Payouts!Earn`
what a verified delivery leaves among the commissions, `Operations!EndOfTrip` what a
completed trip leaves on its vehicle).

## 4. The runs

Runs that pass:

| Run | Instance | Shows |
|---|---|---|
| `inventory` | one part, two workers, quantities of ±1 and 1.5 units, column limit 3, three ledger rows | `LedgerExplainsStock`, `NoMovementOnDeletedPart`, `MovementAnswered`, refinement of `StockLedger` |
| `payments` | one invoice of two units, payments of 1.5 units, one key, the empty key and none, two workers, two payment rows | `KeysAreIdempotent`, `PaidIsExplained`, `BalanceFollows`, `NoPaymentOnCancelled`, `PaymentAnswered`, refinement of `KeyedPayments` |
| `trips` | two trips, one vehicle, one driver, two workers, one write by hand | `OnTripHasTrip`, `ActiveTripHasUnits`, `StateMachineKept` |
| `entitlements` | two packages, one add-on, one feature both bring, two threads of one process | `BoughtIsEnabled`, `NothingForFree`, `CacheNeverAhead`, `EntitlementArrives` |
| `shipments` | one leg, two codes, two workers (the warehouse is one), one commission | `StateMachineKept`, `MilestoneAgrees`, `LegsMatchTrail`, `VerifiedCodeWasEntered` |
| `payouts` | two agents, one commission, one expense, one key, two callers and the batch, one retry, two payouts | `PaidWhenSettled`, refinement of `KeyedPayments` |
| `tenancy` | one tenant, open, suspended or draft, two users, one administrator, two requests at a time, four memberships ever inserted | `OneMembershipEach`, `SuspensionHeld`, `SuspensionTakesHold`, `RemovalTakesHold` |
| `tenancy_two` | two tenants, two users, one administrator, one trip and one vehicle, two requests at a time, two memberships | `RowsStayHome`, `OnlyManagers` |
| `operations` | one row of any kind, two requests at a time, one or two parcels, three odometer readings, four parcels or customers | `BooksAgree`, `MovesAllowed` |
| `standalone` | one e-mail and two workers; three tokens and three clients; two runs of the script over a table with unique keys and one without, two interventions; two companies, one site, two guests, two codes, two acts of the companies | `AnswersHold`, `RoleIsOne`, `RanksKept`; `OneTokenPerLogin`, `LogoutHolds`; `RunsExplained`; `BookingsHold` |
| `scans` | three subjects in two companies with a member each, the first subject unsendable, one execution, one retry, one failure | `RepeatsBounded`, `EveryoneIsTold` |

`trip_sharing` exhibits a disagreement between the code and what it says of itself
(section 6): it checks one property, and TLC finds it violated.

**Why these bounds are enough to be of interest.** Every race in this code is between two
requests on the same row: two workers and one row (two trips for one vehicle) show each of
them, and a third request finds what a second left. `MaxEntries = 3` lets two movements
overlap after a first one has moved the balance; 1.5 units (6 quarters of the last decimal)
round differently in quantity and balance; `MaxStored = 3` makes overflow happen.
`MaxPayments = 2` pays an invoice in part and then in full, and lets two requests carry one
key. `MaxRewrites` bounds writes by hand that break the books: 1 shows what they spoil,
and `trip_sharing` needs none. `MaxPayouts = 2` and `MaxRetries = 1` suffice for a payout
that is repeated. In `shipments`, `Targets` are a transition every journey starts
with and one that ends it, and `HandWritten` one status that claims a milestone; in
`payouts`, callers ask for the one agent that has rows (`AskedFor`), while the batch pays
both. `MaxInserts` counts memberships ever inserted: with 4, a member is invited, removed,
invited again and brought back by an edit that read the first row; with 2, each of two
tenants has a manager, or one has two members. The bodies clients send are the empty one,
one that suspends and one that deactivates: the edits that overlap the changes they could
undo. `MaxAttached = 4` is two items of two parcels each, or a lead converted four times.
`tenancy_two` sends no edits of tenants, which `tenancy` covers; one trip and one vehicle are
a trip with its own or another tenant's unit, read before somebody else saved either.
`standalone` puts four specifications that share nothing into one run: a behaviour is one of
any of them, chosen at the start (`part`). Three tokens are a login and two rotations, or
two logins; three clients let a logout come between two refreshes. Two interventions
(`MaxEdits`) delete a row and bring it back, or add a second one. Two acts (`MaxWork`) move a
shipment and save it as it was before, or open a site and close its company. In `scans`
the code's three retries are one: a second try repeats what the first has sent, and a third
would repeat it in the same way (`RepeatsCorrect` is for any number); one execution at a time
is enough, as executions share nothing but the notifications they add.

**State constraints.** `MCShipments` explores the journey with a proof by signature, and
every proof while nobody else works on the shipment (`Explored == Journey \/ Proof`): the
two halves of the state meet only in `CompletePod`, which reads the proof and writes the
shipment without looking at its status. `MCTenancy` (in `tenancy_two`) explores tenants and
members as long as there are no rows, and rows with tenants that stay open: a request works
on rows in the tenant it was let in to, whatever becomes of that. `MCPayouts` explores the
batch without expenses and expenses without a batch: no action but the payout's own sum reads
them. For all the rest,
the theorems of section 5 hold with no constraint.

**One process in `entitlements`.** Each process has its own cache and nobody reads
another's, and for the properties about the cache (no yes ahead of its commit, no lasting
no) what another process does is what another thread does, less the clearing. The
constants allow any number, and the theorems hold for any.

**Symmetry** is used where no definition names an element and no liveness is checked
(`trips`, `shipments`, `payouts`, `tenancy_two`, `standalone`). **Deadlock** is checked except
in the trip, payment, operations and standalone runs, where every trip may be over, every row deleted,
every token spent or every run of the script done, with nothing left to do.

**Fairness.** `Inventory` and `Payments`: a transaction that has begun goes on (weak), and
whoever waits for a row lock or for a unique key gets it in the end (strong, because others
may take it in between: PostgreSQL queues the waiters of a row). `Entitlements`: a check
under way goes on, and a cache entry expires (300 seconds). `Tenancy`: a request that was
let in comes to an answer (weak): its steps wait for no lock and no other request, and a
worker that dies ends it too (`Finish`). `Scans`: a worker that has a scan goes on with it
(weak), and the beat sends every scan again and again, every 12 or 24 hours, whatever became
of the last (strong, because the model has room for few executions at a time, where the
broker's queue has no bound). Nothing else is fair: clients
need not send, nor workers crash. The other modules state no liveness: their requests
consist of a read and a commit that waits for nothing the model follows, and nothing
retries them.

## 5. What is proved

Assumptions are the `ASSUME`s of the component modules (types of the constants, and that
the markers such as `NoWorker` are not workers); TLC evaluates them in each run. The proofs
are for all values of the constants, without the state constraints. Each `...Proofs` module
has an inductive invariant `IInv`, lemmas `InitIInv` and `NextIInv` with one step per
action, and a theorem per property.

- **Payments** (`TypeCorrect`, `KeysCorrect`, `PaidCorrect`, `BalanceCorrect`,
  `CancelledCorrect`, `KeyedCorrect`, `WaitsCorrect`).
  `LockInv`: inside its transaction a worker holds the row lock, and the invoice is the row it
  read, neither deleted nor cancelled. `KeyInv`: a key that is inserted and not committed is
  in no payment and in no other open transaction; without it the unique constraint, which
  the commit does not look at again, says nothing. `BalanceInv`: the row an edit will put back
  is balanced too. `PaidInv`: an invoice still to come has paid nothing, and no edit brings
  back a row that never was; `LockInv` then makes the amount a commit adds to the one that is
  stored. What is recorded is a fold over the set of payment rows: that it grows by the
  row appended, and that marking a row as deleted leaves it alone, is shown by induction on
  finite sets (below).
  `KeyedCorrect`: a commit is a `Record`, as is POST of a payment; a look-up that finds the
  key is a `Repeat`; every other step stutters. The look-up hides deleted rows, but the unique
  constraint does not, so a key is never free again.
  `WaitsCorrect`: a request waits for an invoice's row or for an inserted key, and whoever it
  waits for has come further (`WaitsEnd`), so nobody waits in a circle. It rests on
  `HolderInv`: a lock belongs to an open transaction. The run has one invoice, where nobody
  waits for a key with a lock in hand; the theorem is for any number of them.
- **Inventory** (`TypeCorrect`, `LedgerCorrect`, `EntriesCorrect`, `DeletedPartsDoNotMove`,
  `Implements`). `LockInv`: inside its transaction a worker holds the lock, and the row
  still is as it read it. Without it `LedgerExplainsStock` is not inductive: the entry is
  computed from `seen`. `SnapshotInv`: what an edit will write back is a balance the part
  has had; it makes every edit a `Restore` of `StockLedger`, and so the refinement.
- **Shipments** (`TypeCorrect`, `TrailCorrect`, `LegsCorrect`, `ProofCorrect`,
  `StateMachineCorrect`). `TrailCorrect` leaves out what `astray` records: an edit, a failed
  pickup, or an event of the warehouse or a booking, from an older row, until the next
  milestone. `ReadTogether`: code and mark that a request holds in memory are a
  pair that was consistent when read, or will be when its code counts as entered.
- **Payouts** (`TypeCorrect`, `KeysCorrect`, `PaymentsCorrect`, `KeyedCorrect`). `KeyInv`: an inserted key
  is in no committed payout and in no other open one. `SumInv`: outside `irregular`, what a
  payout has summed is exactly what its update will settle, and no two payouts hold the same
  commission. `KeysAreIdempotent` is part of `IInv`, and `KeyedCorrect` the stronger form the
  run checks: with it a payout, once recorded, also stays.
- **Entitlements** (`TypeCorrect`, `BoughtCorrect`, `FreeCorrect`, `CacheCorrect`,
  `PackagesCorrect`). `SyncInv`: what a sync is about to enable is covered by what the tenant
  has had, the package of the upgrade included, and lacks nothing of its package or add-on.
  `AnswerInv`: a yes that is about to be cached is still true, as rows are only added.
  `OtherWorker` is the frame: a worker that takes no step keeps its invariant while
  everything it relies on only grows.
- **Tenancy** (`TypeCorrect`, `MembershipsCorrect`, `RowsCorrect`, `ManagersCorrect`,
  `SuspensionCorrect`). `Serves`: only administrators are served outside a tenant, and the
  row or membership a request has loaded is of its tenant, as is the one stored by now,
  whatever happened in between; this is what makes saving a stale copy harmless to the
  tenant of the row. `Worked` says the same of a trip's units, which may be another tenant's:
  of those only what trips keep is written. `Paid`: a plan opens a closed tenant only if it
  was read waiting for one. `SameTenant`: two edits of one membership are served in one tenant,
  needed because either may insert it again. `Fresh` and `Existing`: memberships are
  numbered as they are inserted, and are of tenants there are.
- **Operations** (`TypeCorrect`, `BooksCorrect`, `MovesCorrect`). `ReadInv`: what a worker
  has read was consistent when it read it, and allowed its request; since nothing attached
  to a row is taken away, what the copy counts is still there when it is saved, however late.
  `SaveIInv` then says once, for all services, that a save which overstates nothing and is
  exact on a row that still is the copy keeps the invariant; `SaveMoves` does the same for
  `MovesAllowed`. `Blank`: nothing is counted or recorded of a row before there is one.

- **Accounts** (`AccountsTypeCorrect`, `AnswersCorrect`, `RoleCorrect`, `RanksCorrect`).
  `Fits`: what a worker has read is what its next statement takes it to be, such as no account
  in a registration, no role before it is created; so a save that differs from the account
  as read, and is not in `overtaken`, changes only what its job changes. `NoAccount`: without
  an account there is no company and no answer.
- **Sessions** (`SessionsTypeCorrect`, `RotationCorrect`, `LogoutCorrect`). `Trees` and
  `OneEnd`: a chain goes on either with its one good token or with the one request about to
  mint the next, whose own token is spent; a step that spends a good token takes that end.
- **Website** (`WebsiteTypeCorrect`, `BookingsCorrect`). A booking about to write its event
  has its shipment, still where it was stored unless it is `behind`; rows are never removed,
  only marked, so a code is never free again.
- **Scans** (`ScansTypeCorrect`, `RepeatsCorrect`). `SentRight`: while a try has yet to come to
  a notification, only the tries before it have sent it; the list of a try only shrinks, and
  its first subject is the one being sent.

- **TripWorkflow** (`TripsTypeCorrect`, `UnitsCorrect`, `ActiveCorrect`, `TransitionsCorrect`).
  `OnTripHasTrip` is not inductive: whoever completes a trip frees the units it *read*, long
  after it read them. `AheadInv`: a trip that was read under way still has the units it had,
  and has come no less far, or those units are loose; so a unit freed late is one the trip
  still has, or one of which nothing is claimed. `HeldInv`: a unit ON_TRIP has an active trip,
  and who has read that trip as it is has read that the unit is ON_TRIP, and frees it.
  `AllowedInv`: the row a request has read allowed the status it is about to save.

- **Seeding** (`SeedingTypeCorrect`, `RunsCorrect`), for any tables kept and any number of
  runs. `RowInv`: a unique key has one row at most, deleted ones included; deleted rows and
  second rows are known as such. `RunInv`: a row that a run did not find and is about to insert
  is not there, or is known to have come (`doubled`); a run refused by a unique column finds the
  row when it looks again, unless it was deleted or lost since. That the program consists of
  tables the instance keeps, at least one, is by induction on the script (`KeptIs`,
  `ProgramIs`).

`StandaloneProofs` holds these last six, which share nothing. The invariants of types are
theorems and not properties of the runs, and so are `EntriesAddUp` (`EntriesCorrect`) and
`PackagesAgree` (`PackagesCorrect`).

Induction. The library's theorems of induction take an operator as parameter, which the
provers cannot instantiate. `PaymentsProofs` and `StandaloneProofs` state it for sets instead
(`SetInduction`: a set of numbers that holds 0 and with each number the next holds them all), and
prove that from the well-foundedness of the order on `Nat`; what is claimed of every number is
the set of the numbers it holds of.

Only model-checked: liveness (`MovementAnswered`, `PaymentAnswered`, `EntitlementArrives`,
`SuspensionTakesHold`, `RemovalTakesHold`, `EveryoneIsTold`), whose fairness is about ENABLED,
which the prover does not reason about. All other properties of the runs are theorems.

## 6. What the models showed about the code

Each is a finding in `PROJECT.json`, with its lines. With a run:

- `trip_sharing`: two trips are dispatched with one vehicle and driver, by one request
  after the other.

Without a run: a batch of payouts that fails at its second agent is retried from the first,
whose expense is deducted again; a request that names a tenant its user does not belong to
is served in another one; a PATCH of a part that overlaps a movement puts the old balance back, and one
of an invoice that overlaps a payment loses the payment from it (the exceptions that
`LedgerExplainsStock` and `PaidIsExplained` name); a trip that was cancelled is dispatched by
a request that read it before (`StateMachineKept` names it); a PUT of a suspended tenant without a
status activates it, and a plan chosen by somebody who read it as a draft ends a suspension
set in between (`SuspensionHeld` names both); a trip can name a vehicle of another tenant, and
dispatching it moves that vehicle (`RowsStayHome` names it); an event of the warehouse shows
a status the shipment has left (`MilestoneAgrees` names it); members of a deleted tenant are still
served in it; the name of a deleted tenant cannot be provisioned again; a new code discards
a verified proof; a deleted proof blocks its delivery for good; an assigned pickup agent is
not stored; three endpoints read an attribute that does not exist (payout, sorting and
attendance services have no caller); the answer to a payment shows the balance from before;
a change to a smaller package disables nothing; completing a trip may turn the odometer
back (`MovesAllowed` names it); a cross-dock's status can become any text; verifying a
delivery again earns a second commission; two requests for one upgrade are both billed.

In accounts, scripts, notifications and the website: a confirmed password reset changes
nothing, two registrations of one e-mail at once both succeed, and the second is told a
password that does not work (`AnswersHold` names both); a role made twice stops every
registration from then on (`RoleIsOne`); `seed_sample_users` cannot make the tenant it
needs; `seed_all_sample_data` stops for ever at a row a client deleted (`RunsExplained`); a
part whose name is too long for a title stops the low-stock scan of all companies at its place
(`EveryoneIsTold`); the lists of four maintenance resources cannot be reached; nothing reads
the booking rules of a website.

## 7. What is not modelled

- Reading, filtering, CSV, serialisation and validation of formats; e-mail; access tokens,
  which nothing revokes, and the expiry of refresh tokens.
- CRUD resources nobody else depends on, audit rows (written with what they describe, never
  read back), documents, invoice items. In `Operations`, weights (added like parcels), which
  shipments a cross-dock or a group holds (what they add to the trail is in `Shipments`),
  attendance (its endpoint fails before its service).
- SQLite's locking (the fallback database) and anything weaker or stronger than READ
  COMMITTED. Sorting in `courier`, whose endpoint fails before its service.
- Tenants outside `Tenancy`. A row keeps its tenant (`RowsStayHome`), but bodies may name
  rows of other tenants, and a trip then writes them. So the vehicles, drivers and trips of
  `TripWorkflow`, the shipment of `Shipments` and the rows of the other models are not those
  of one tenant, but all that requests of any tenant may reach: no guard there looks at a
  tenant, and requests of several are requests of several workers. Rows no body can name
  across tenants are a special case.
- The tenant a request falls back to, beyond its rights: that one request is served in
  another tenant than the one it named is a finding; `OnlyManagers` says that it has only the
  rights its user has there.
- A list in `Scans` has the same order each time. Of parts it has (`Meta.ordering`, newest
  first); of documents and drivers the models promise none, and with a varying order what
  stops a scan would do so at a varying place.
- `accounts` in the other models: who a user is, is taken as given there. Edits of a profile,
  which save the account as `ChangePassword` does; `is_active` and `is_mfa_enabled`, which no
  code sets.
- `notifications`: marking as read. `website`: pages, sections, posts and questions; taxi,
  bus and transport requests are answered without a row (`Abandon`). Shipments the staff
  creates draw codes as `Website`'s bookings do.
- `Seeding`: the values of the rows it creates, and the rows of a table after the first.
- `audit`, `contracts`, `hr`, `insurance`, `maintenance`, `marketing`, `reports`: plain rows that
  one request writes and no other depends on, or only reading; a model would restate CRUD.
- `Payouts` models a service with no HTTP caller and a task nothing enqueues: it says what
  they do when they are run. One period covers all rows.

## 8. The plan

1. `Inventory` over `StockLedger`, `Payments` and `Payouts` over `KeyedPayments`, `Entitlements`,
   `Shipments`, `Tenancy`, `Operations`, `Accounts`, `Sessions`, `Website`, `Scans`, `TripWorkflow`
   and `Seeding`, with proofs: done.
2. To come: theorems like `WaitsCorrect` for the other modules with locks, and PUT/PATCH of
   payments in `Payments`, with the books that are spoilt by it named.
3. Approval of contracts and payroll's `mark_paid` as further kinds of `Operations`.
