------------------------------ MODULE Inventory ------------------------------
(***************************************************************************)
(* Spare parts and their stock ledger as the API serves them: requests     *)
(* handled by concurrent web workers against one database.                 *)
(*                                                                         *)
(* A request is several steps.  The view's get_object reads the row        *)
(* outside any transaction (ATOMIC_REQUESTS is off).  The service then     *)
(* opens a transaction: SELECT ... FOR UPDATE waits for the row lock, the  *)
(* warehouse is read without a lock, and the three writes become visible   *)
(* together at commit.  PUT/PATCH and DELETE are one UPDATE each, which    *)
(* also waits for the row lock; PUT/PATCH writes EVERY column of the row   *)
(* it read, the read-only ones included.  A worker may die, or lose its    *)
(* connection, inside a transaction: the database then rolls back.         *)
(***************************************************************************)
EXTENDS StockArithmetic, Sequences, FiniteSets

CONSTANTS
  Parts,        \* spare parts of one tenant
  Warehouses,   \* warehouses of the same tenant
  Workers,      \* web workers: each handles one request at a time
  Types,        \* the transaction types clients send
  Quantities,   \* the quantities clients send, in unrounded units
  NoWorker,     \* the row lock of a part is free
  NoRequest,    \* an idle worker handles no request
  MaxEntries    \* bound: movements accepted for a part

ASSUME InventoryAssumption ==
  /\ Types \subseteq TransactionType
  /\ Quantities \subseteq Int
  /\ MaxEntries \in Nat
  /\ NoWorker \notin Workers
  /\ Warehouses # {}

VARIABLES
  rows,         \* the SparePart rows
  ledger,       \* the InventoryTransaction rows of each part, in commit order
  holder,       \* which worker's transaction holds the row lock of a part
  open,         \* warehouses that are not soft-deleted
  pc,           \* where each worker is in its request
  req,          \* the request it handles
  seen,         \* the SparePart row it read last
  overwritten   \* history: parts on which a save put back a balance that had moved

vars == <<rows, ledger, holder, open, pc, req, seen, overwritten>>

Row == [state : {"absent", "live", "deleted"}, stock : Balance]

Request == [part : Parts, warehouse : Warehouses, type : TransactionType, qty : Int]

\* The states of a worker: those of a movement up to "checked", then the rest.
InTransaction == {"locked", "checked"}
PCStates == InTransaction \cup {"idle", "movement", "editing", "deleting"}

NoRow == [state |-> "absent", stock |-> 0]

Init ==
  /\ rows = [p \in Parts |-> NoRow]
  /\ ledger = [p \in Parts |-> <<>>]
  /\ holder = [p \in Parts |-> NoWorker]
  /\ open = Warehouses
  /\ pc = [w \in Workers |-> "idle"]
  /\ req = [w \in Workers |-> NoRequest]
  /\ seen = [w \in Workers |-> NoRow]
  /\ overwritten = {}

-----------------------------------------------------------------------------
\* Helpers

Live(p) == rows[p].state = "live"

\* The request goes on; an answered request leaves nothing behind in its worker.
Goto(w, state) == pc' = [pc EXCEPT ![w] = state]

Answer(w) ==
  /\ pc' = [pc EXCEPT ![w] = "idle"]
  /\ req' = [req EXCEPT ![w] = NoRequest]
  /\ seen' = [seen EXCEPT ![w] = NoRow]

\* A request that names a part and nothing else.
OnlyPart(p) ==
  [part |-> p, warehouse |-> CHOOSE h \in Warehouses : TRUE, type |-> "ADJUSTMENT", qty |-> 0]

LockIsFree(p) == holder[p] = NoWorker

\* Ending the transaction, by commit or rollback, releases its row lock.
Release(w) == holder' = [p \in Parts |-> IF holder[p] = w THEN NoWorker ELSE holder[p]]

\* Movements that may still append to p's ledger (for the bound alone).
Pending(p) == {w \in Workers : pc[w] \in InTransaction \cup {"movement"} /\ req[w].part = p}

-----------------------------------------------------------------------------
\* POST /parts/: current_stock is read-only in the serializer, so it is 0.
CreatePart(p) ==
  /\ rows[p].state = "absent"
  /\ rows' = [rows EXCEPT ![p] = [state |-> "live", stock |-> 0]]
  /\ UNCHANGED <<ledger, holder, open, pc, req, seen, overwritten>>

\* POST /parts/{id}/adjust_stock/: the view finds the part, the service checks
\* the type and the quantity and gives the quantity its sign.
AdjustStock(w, p) ==
  /\ pc[w] = "idle"
  /\ Live(p)
  /\ Len(ledger[p]) + Cardinality(Pending(p)) < MaxEntries
  /\ \E h \in Warehouses, type \in Types, quantity \in Quantities \ {0} :
       req' = [req EXCEPT ![w] = [part |-> p, warehouse |-> h, type |-> type,
                                  qty |-> Signed(type, quantity)]]
  /\ Goto(w, "movement")
  /\ UNCHANGED <<rows, ledger, holder, open, seen, overwritten>>

\* Mutant: select_for_update() forgotten.
MutLockPart(w) ==
  LET p == req[w].part IN
  /\ pc[w] = "movement"
  /\ IF Live(p)
     THEN /\ seen' = [seen EXCEPT ![w] = rows[p]]
          /\ Goto(w, "locked")
          /\ UNCHANGED req
     ELSE Answer(w)
  /\ UNCHANGED <<rows, ledger, holder, open, overwritten>>

\* select_for_update().filter(...).first(): waits for the lock, then looks at
\* the row again; a part deleted meanwhile is not found.
LockPart(w) ==
  LET p == req[w].part IN
  /\ pc[w] = "movement"
  /\ LockIsFree(p)
  /\ IF Live(p)
     THEN /\ holder' = [holder EXCEPT ![p] = w]
          /\ seen' = [seen EXCEPT ![w] = rows[p]]
          /\ Goto(w, "locked")
          /\ UNCHANGED req
     ELSE Answer(w) /\ UNCHANGED holder
  /\ UNCHANGED <<rows, ledger, open, overwritten>>

\* Warehouse.objects.filter(id=..., tenant=...).first(), without a lock.
FindWarehouse(w) ==
  /\ pc[w] = "locked"
  /\ IF req[w].warehouse \in open
     THEN Goto(w, "checked") /\ UNCHANGED <<holder, req, seen>>
     ELSE Answer(w) /\ Release(w)
  /\ UNCHANGED <<rows, ledger, open, overwritten>>

\* Mutant: if new_stock < 0 forgotten.
MutCommit(w) ==
  LET p     == req[w].part
      entry == NewEntry(req[w].type, seen[w].stock, req[w].qty)
  IN  /\ pc[w] = "checked"
      /\ Fits(seen[w].stock, req[w].qty)
      /\ ledger' = [ledger EXCEPT ![p] = Append(@, entry)]
      /\ rows' = [rows EXCEPT ![p].stock = entry.new]
      /\ Answer(w)
      /\ Release(w)
      /\ UNCHANGED <<open, overwritten>>

\* The balance check passes, the ledger row, the balance and the audit row are
\* written, and the transaction commits.
Commit(w) ==
  LET p     == req[w].part
      entry == NewEntry(req[w].type, seen[w].stock, req[w].qty)
  IN  /\ pc[w] = "checked"
      /\ ~InsufficientStock(seen[w].stock, req[w].qty)
      /\ Fits(seen[w].stock, req[w].qty)
      /\ ledger' = [ledger EXCEPT ![p] = Append(@, entry)]
      /\ rows' = [rows EXCEPT ![p].stock = entry.new]
      /\ Answer(w)
      /\ Release(w)
      /\ UNCHANGED <<open, overwritten>>

\* Mutant: the error answer leaves the transaction open.
MutReject(w) ==
  /\ pc[w] = "checked"
  /\ \/ InsufficientStock(seen[w].stock, req[w].qty)
     \/ ~Fits(seen[w].stock, req[w].qty)
  /\ Answer(w)
  /\ UNCHANGED <<rows, ledger, holder, open, overwritten>>

\* INSUFFICIENT_STOCK, or a value no column can hold: the transaction rolls back.
Reject(w) ==
  /\ pc[w] = "checked"
  /\ \/ InsufficientStock(seen[w].stock, req[w].qty)
     \/ ~Fits(seen[w].stock, req[w].qty)
  /\ Answer(w)
  /\ Release(w)
  /\ UNCHANGED <<rows, ledger, open, overwritten>>

\* The worker dies or loses its connection with the transaction open.
Crash(w) ==
  /\ pc[w] \in InTransaction
  /\ Answer(w)
  /\ Release(w)
  /\ UNCHANGED <<rows, ledger, open, overwritten>>

\* PUT/PATCH /parts/{id}/: get_object, and some time later ...
BeginEdit(w, p) ==
  /\ pc[w] = "idle"
  /\ Live(p)
  /\ req' = [req EXCEPT ![w] = OnlyPart(p)]
  /\ seen' = [seen EXCEPT ![w] = rows[p]]
  /\ Goto(w, "editing")
  /\ UNCHANGED <<rows, ledger, holder, open, overwritten>>

\* Mutant: the client's current_stock is accepted.
MutSaveEdit(w) ==
  LET p == req[w].part IN
  /\ pc[w] = "editing"
  /\ LockIsFree(p)
  /\ rows' = [rows EXCEPT ![p].stock = MaxStored]
  /\ overwritten' = IF rows[p].stock = MaxStored THEN overwritten ELSE overwritten \cup {p}
  /\ Answer(w)
  /\ UNCHANGED <<ledger, holder, open>>

\* ... instance.save() writes every column as it was read: the balance, and
\* is_deleted too.
SaveEdit(w) ==
  LET p == req[w].part IN
  /\ pc[w] = "editing"
  /\ LockIsFree(p)
  /\ rows' = [rows EXCEPT ![p] = seen[w]]
  /\ overwritten' = IF rows[p].stock = seen[w].stock
                    THEN overwritten ELSE overwritten \cup {p}
  /\ Answer(w)
  /\ UNCHANGED <<ledger, holder, open>>

\* DELETE /parts/{id}/: get_object, and some time later ...
BeginDelete(w, p) ==
  /\ pc[w] = "idle"
  /\ Live(p)
  /\ req' = [req EXCEPT ![w] = OnlyPart(p)]
  /\ Goto(w, "deleting")
  /\ UNCHANGED <<rows, ledger, holder, open, seen, overwritten>>

\* Mutant: the UPDATE does not wait for the row lock.
MutSaveDelete(w) ==
  LET p == req[w].part IN
  /\ pc[w] = "deleting"
  /\ rows' = [rows EXCEPT ![p].state = "deleted"]
  /\ Answer(w)
  /\ UNCHANGED <<ledger, holder, open, overwritten>>

\* ... save(update_fields=['is_deleted', 'deleted_at']).
SaveDelete(w) ==
  LET p == req[w].part IN
  /\ pc[w] = "deleting"
  /\ LockIsFree(p)
  /\ rows' = [rows EXCEPT ![p].state = "deleted"]
  /\ Answer(w)
  /\ UNCHANGED <<ledger, holder, open, overwritten>>

\* DELETE /warehouses/{id}/, and a PUT/PATCH that read the warehouse before it
\* and saves after it, which brings the row back.
CloseWarehouse(h) ==
  /\ h \in open
  /\ open' = open \ {h}
  /\ UNCHANGED <<rows, ledger, holder, pc, req, seen, overwritten>>

ReopenWarehouse(h) ==
  /\ h \notin open
  /\ open' = open \cup {h}
  /\ UNCHANGED <<rows, ledger, holder, pc, req, seen, overwritten>>

-----------------------------------------------------------------------------
Next ==
  \/ \E p \in Parts : CreatePart(p)
  \/ \E w \in Workers, p \in Parts : AdjustStock(w, p) \/ BeginEdit(w, p) \/ BeginDelete(w, p)
  \/ \E w \in Workers :
       \/ LockPart(w) \/ FindWarehouse(w) \/ Commit(w) \/ Reject(w) \/ Crash(w)
       \/ SaveEdit(w) \/ SaveDelete(w)
  \/ \E h \in Warehouses : CloseWarehouse(h) \/ ReopenWarehouse(h)

Spec == Init /\ [][Next]_vars

\* A started transaction runs to its end, and PostgreSQL grants a row lock to
\* its waiters in turn; clients need not send anything, nor workers crash.
Fairness ==
  \A w \in Workers :
    /\ WF_vars(FindWarehouse(w) \/ Commit(w) \/ Reject(w))
    /\ SF_vars(LockPart(w))

FairSpec == Spec /\ Fairness

-----------------------------------------------------------------------------
\* Properties

\* Types of the state; a stored balance is never negative and always fits its
\* column (record_stock_movement's check and the DECIMAL(12,2) columns).
TypeOK ==
  /\ rows \in [Parts -> Row]
  /\ ledger \in [Parts -> Seq(Entry)]
  /\ holder \in [Parts -> Workers \cup {NoWorker}]
  /\ open \subseteq Warehouses
  /\ pc \in [Workers -> PCStates]
  /\ req \in [Workers -> Request \cup {NoRequest}]
  /\ seen \in [Workers -> Row]
  /\ overwritten \subseteq Parts

\* The balance the ledger of p ends at.
LedgerBalance(p) == IF ledger[p] = <<>> THEN 0 ELSE ledger[p][Len(ledger[p])].new

\* The entries of p follow on from one another, starting at 0.
Chained(p) ==
  \A i \in DOMAIN ledger[p] :
    ledger[p][i].previous = IF i = 1 THEN 0 ELSE ledger[p][i - 1].new

\* Whatever the interleaving of movements, deletions and crashes, the ledger of
\* a part is one unbroken chain that ends at the stored balance, unless a save
\* overwrote a balance that had moved since it was read (record_stock_movement
\* locks the row before it reads current_stock).
LedgerExplainsStock == \A p \in Parts \ overwritten : Chained(p) /\ rows[p].stock = LedgerBalance(p)

\* A ledger row adds up: it never ends below zero, its sign is that of its
\* type, and new_stock differs from previous_stock + quantity by at most one
\* unit of the last decimal, which is what separate rounding of the two
\* columns can cost when a quantity has more decimals than they store.
EntriesAddUp ==
  \A p \in Parts : \A i \in DOMAIN ledger[p] :
    LET e == ledger[p][i] IN
    /\ e.new >= 0 /\ e.previous >= 0
    /\ e.type = "ISSUE" => e.quantity <= 0
    /\ e.type \in {"RECEIVE", "RETURN"} => e.quantity >= 0
    /\ e.new - (e.previous + e.quantity) \in -1 .. 1

\* A movement commits only on a part that is not deleted at that moment: the
\* lock keeps a DELETE out from the look-up of the part to the commit.
NoMovementOnDeletedPart ==
  [][\A p \in Parts : ledger'[p] # ledger[p] => rows[p].state = "live"]_vars

\* A movement request that passed validation is answered: the row lock is always
\* released, by commit, error answer or rollback, so nobody waits forever.
MovementAnswered == \A w \in Workers : pc[w] = "movement" ~> pc[w] = "idle"

\* Seen from the balances and ledgers alone, the API implements StockLedger.
StockOf == [p \in Parts |-> rows[p].stock]

Abstract == INSTANCE StockLedger WITH stock <- StockOf

ImplementsStockLedger == Abstract!Spec
=============================================================================
