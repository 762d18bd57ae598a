------------------------------ MODULE Payments ------------------------------
(***************************************************************************)
(* Invoices and the payments recorded against them, as concurrent web      *)
(* workers serve them.                                                     *)
(*                                                                         *)
(* record_payment looks for the idempotency key BEFORE its transaction;    *)
(* inside it, SELECT ... FOR UPDATE locks the invoice, the payment row is  *)
(* inserted (where the unique constraint on the key waits for, and yields  *)
(* to, a row another transaction inserted), and paid amount, balance and   *)
(* status are written.  PUT/PATCH of an invoice writes the whole row back  *)
(* as it was read, paid_amount and balance_due included.  POST and DELETE  *)
(* of /payments/ touch payment rows only.  A worker may die inside its     *)
(* transaction, and an answer may be lost after the commit.                *)
(***************************************************************************)
EXTENDS Decimals, Sequences, FiniteSetsExt

CONSTANTS
  Invoices,     \* invoices of one tenant
  Workers,      \* web workers: each handles one request at a time
  Totals,       \* totals invoices may have, in units of the last stored decimal
  Amounts,      \* amounts clients send, in unrounded units
  Keys,         \* idempotency keys clients send
  EmptyKey,     \* the empty string as key: stored and unique, but never looked up
  NoKey,        \* no key: NULL in the column, which is never a duplicate
  EditStatuses, \* statuses clients write by PUT/PATCH
  NoWorker,     \* the row lock of an invoice is free
  NoRequest,    \* an idle worker handles no request
  MaxPayments   \* bound: payment rows

ASSUME PaymentsAssumption ==
  /\ Totals \subseteq Nat
  /\ Amounts \subseteq Nat \ {0}
  /\ NoWorker \notin Workers
  /\ EmptyKey \notin Keys /\ NoKey \notin Keys \cup {EmptyKey}
  /\ EditStatuses \subseteq {"DRAFT", "ISSUED", "PARTIALLY_PAID", "PAID", "OVERDUE", "CANCELLED"}
  /\ MaxPayments \in Nat

VARIABLES
  invoices,     \* the Invoice rows
  payments,     \* the Payment rows, in the order they were committed
  holder,       \* which worker's transaction holds the row lock of an invoice
  pc,           \* where each worker is in its request
  req,          \* the request it handles
  seen,         \* the Invoice row it read last
  told,         \* history: for each key, the payments answered as recorded
  overwritten   \* history: invoices on which a save put back a paid amount that had moved

vars == <<invoices, payments, holder, pc, req, seen, told, overwritten>>

InvoiceStatus == {"DRAFT", "ISSUED", "PARTIALLY_PAID", "PAID", "OVERDUE", "CANCELLED"}

AnyKey == Keys \cup {EmptyKey, NoKey}

\* "manual" tells rows whose total or status somebody wrote by hand since the
\* last update_balance; it is history, kept in the row to be read and written
\* back with it.
Invoice == [state : {"absent", "live", "deleted"}, total : Nat, paid : Nat, balance : Nat,
            status : InvoiceStatus, manual : BOOLEAN]

\* "service" rows come from record_payment, "crud" rows from POST /payments/.
Payment == [invoice : Invoices, amount : Nat, key : AnyKey, source : {"service", "crud"},
            deleted : BOOLEAN]

Request == [invoice : Invoices, amount : Nat, key : AnyKey]

InTransaction == {"locked", "inserted"}
PCStates == InTransaction \cup {"idle", "checking", "waiting", "editing"}

NoInvoice == [state |-> "absent", total |-> 0, paid |-> 0, balance |-> 0,
              status |-> "DRAFT", manual |-> FALSE]

Init ==
  /\ invoices = [i \in Invoices |-> NoInvoice]
  /\ payments = <<>>
  /\ holder = [i \in Invoices |-> NoWorker]
  /\ pc = [w \in Workers |-> "idle"]
  /\ req = [w \in Workers |-> NoRequest]
  /\ seen = [w \in Workers |-> NoInvoice]
  /\ told = [k \in Keys |-> {}]
  /\ overwritten = {}

-----------------------------------------------------------------------------
\* Helpers

Live(i) == invoices[i].state = "live"

LockIsFree(i) == holder[i] = NoWorker

Goto(w, state) == pc' = [pc EXCEPT ![w] = state]

Answer(w) ==
  /\ pc' = [pc EXCEPT ![w] = "idle"]
  /\ req' = [req EXCEPT ![w] = NoRequest]
  /\ seen' = [seen EXCEPT ![w] = NoInvoice]

Release(w) == holder' = [i \in Invoices |-> IF holder[i] = w THEN NoWorker ELSE holder[i]]

\* The rows the unique constraint (tenant, idempotency_key) ranges over: deleted
\* ones too.
WithKey(k) == {n \in DOMAIN payments : payments[n].key = k}

Duplicate(k) == k # NoKey /\ WithKey(k) # {}

\* The client of a keyed request learns that payment n was recorded, or the
\* answer is lost.
Deliver(k, n) ==
  \/ k \in Keys /\ told' = [told EXCEPT ![k] = @ \cup {n}]
  \/ UNCHANGED told

\* Payment rows still to come from requests under way (for the bound alone).
Pending == {w \in Workers : pc[w] \in InTransaction \cup {"checking", "waiting"}}

\* Mutant: an overpayment leaves a negative balance.
MutSettled(row, amount) ==
  LET paid  == Scale * row.paid + amount
      total == Scale * row.total
  IN  [row EXCEPT
         !.paid    = Rounded(paid),
         !.balance = Rounded(total - paid),
         !.status  = IF paid >= total /\ total > 0 THEN "PAID" ELSE "PARTIALLY_PAID",
         !.manual  = FALSE]

\* update_balance on a row whose paid_amount has just been raised by amount; the
\* comparisons use the amounts as they are, the columns round.
Settled(row, amount) ==
  LET paid  == Scale * row.paid + amount
      total == Scale * row.total
  IN  [row EXCEPT
         !.paid    = Rounded(paid),
         !.balance = Rounded(IF total > paid THEN total - paid ELSE 0),
         !.status  = IF paid >= total /\ total > 0 THEN "PAID"
                     ELSE IF paid > 0 THEN "PARTIALLY_PAID" ELSE row.status,
         !.manual  = FALSE]

-----------------------------------------------------------------------------
\* upgrade_tenant_package bills an upgrade: a consistent, issued invoice.
BillUpgrade(i, total) ==
  /\ invoices[i].state = "absent"
  /\ total > 0
  /\ invoices' = [invoices EXCEPT ![i] =
       [NoInvoice EXCEPT !.state = "live", !.total = total, !.balance = total, !.status = "ISSUED"]]
  /\ UNCHANGED <<payments, holder, pc, req, seen, told, overwritten>>

\* POST /invoices/: paid_amount and balance_due are read-only, so they are 0
\* whatever the total.
CreateInvoice(i, total) ==
  /\ invoices[i].state = "absent"
  /\ invoices' = [invoices EXCEPT ![i] =
       [NoInvoice EXCEPT !.state = "live", !.total = total, !.manual = TRUE]]
  /\ UNCHANGED <<payments, holder, pc, req, seen, told, overwritten>>

\* POST /invoices/{id}/record_payment/: the view finds the invoice.
RecordPayment(w, i) ==
  /\ pc[w] = "idle"
  /\ Live(i)
  /\ Len(payments) + Cardinality(Pending) < MaxPayments
  /\ \E amount \in Amounts, key \in AnyKey :
       req' = [req EXCEPT ![w] = [invoice |-> i, amount |-> amount, key |-> key]]
  /\ seen' = [seen EXCEPT ![w] = invoices[i]]
  /\ Goto(w, "checking")
  /\ UNCHANGED <<invoices, payments, holder, told, overwritten>>

\* "Check idempotency": a payment with this key that is not soft-deleted is the
\* answer, whatever invoice it is for.
CheckKey(w) ==
  LET found == {n \in WithKey(req[w].key) : ~payments[n].deleted} IN
  /\ pc[w] = "checking"
  /\ IF req[w].key \in Keys /\ found # {}
     THEN /\ \E n \in found : Deliver(req[w].key, n)
          /\ Answer(w)
     ELSE Goto(w, "waiting") /\ UNCHANGED <<req, seen, told>>
  /\ UNCHANGED <<invoices, payments, holder, overwritten>>

\* Mutant: the row is read without select_for_update().
MutNoLock(w) ==
  LET i == req[w].invoice IN
  /\ pc[w] = "waiting"
  /\ IF Live(i) /\ invoices[i].status # "CANCELLED"
     THEN /\ seen' = [seen EXCEPT ![w] = invoices[i]]
          /\ Goto(w, "locked")
          /\ UNCHANGED req
     ELSE Answer(w)
  /\ UNCHANGED <<invoices, payments, holder, told, overwritten>>

\* Mutant: the status is checked on the row the view read.
MutLockInvoice(w) ==
  LET i == req[w].invoice IN
  /\ pc[w] = "waiting"
  /\ LockIsFree(i)
  /\ IF Live(i) /\ seen[w].status # "CANCELLED"
     THEN /\ holder' = [holder EXCEPT ![i] = w]
          /\ seen' = [seen EXCEPT ![w] = invoices[i]]
          /\ Goto(w, "locked")
          /\ UNCHANGED req
     ELSE Answer(w) /\ UNCHANGED holder
  /\ UNCHANGED <<invoices, payments, told, overwritten>>

\* Invoice.objects.select_for_update().get(...), then the status check on the
\* locked row; a deleted or cancelled invoice is an error answer.
LockInvoice(w) ==
  LET i == req[w].invoice IN
  /\ pc[w] = "waiting"
  /\ LockIsFree(i)
  /\ IF Live(i) /\ invoices[i].status # "CANCELLED"
     THEN /\ holder' = [holder EXCEPT ![i] = w]
          /\ seen' = [seen EXCEPT ![w] = invoices[i]]
          /\ Goto(w, "locked")
          /\ UNCHANGED req
     ELSE Answer(w) /\ UNCHANGED holder
  /\ UNCHANGED <<invoices, payments, told, overwritten>>

\* Mutant: no unique constraint on the key.
MutInsertPayment(w) ==
  /\ pc[w] = "locked"
  /\ Goto(w, "inserted")
  /\ UNCHANGED <<invoices, payments, holder, req, seen, told, overwritten>>

\* Mutant: the IntegrityError leaves the transaction open.
MutInsertNoRollback(w) ==
  /\ pc[w] = "locked"
  /\ ~Duplicate(req[w].key)
  /\ Goto(w, "inserted")
  /\ UNCHANGED <<invoices, payments, holder, req, seen, told, overwritten>>

\* Payment.objects.create: a row with the same key that is not committed yet is
\* waited for, a committed one is an IntegrityError that rolls everything back.
InsertPayment(w) ==
  LET k == req[w].key IN
  /\ pc[w] = "locked"
  /\ ~\E v \in Workers : pc[v] = "inserted" /\ req[v].key = k /\ k # NoKey
  /\ IF Duplicate(k)
     THEN Answer(w) /\ Release(w)
     ELSE Goto(w, "inserted") /\ UNCHANGED <<holder, req, seen>>
  /\ UNCHANGED <<invoices, payments, told, overwritten>>

\* The three columns update_balance writes, and the end of the transaction.
MutCommitPayment(w) ==   \* mutant: update_balance does not save the status
  LET i   == req[w].invoice
      new == Settled(seen[w], req[w].amount)
  IN  /\ pc[w] = "inserted"
      /\ payments' = Append(payments,
           [invoice |-> i, amount |-> Rounded(req[w].amount), key |-> req[w].key,
            source |-> "service", deleted |-> FALSE])
      /\ invoices' = [invoices EXCEPT ![i].paid = new.paid, ![i].balance = new.balance,
                                      ![i].manual = FALSE]
      /\ Deliver(req[w].key, Len(payments) + 1)
      /\ Answer(w)
      /\ Release(w)
      /\ UNCHANGED overwritten

CommitPayment(w) ==
  LET i   == req[w].invoice
      new == Settled(seen[w], req[w].amount)
  IN  /\ pc[w] = "inserted"
      /\ payments' = Append(payments,
           [invoice |-> i, amount |-> Rounded(req[w].amount), key |-> req[w].key,
            source |-> "service", deleted |-> FALSE])
      /\ invoices' = [invoices EXCEPT ![i].paid = new.paid, ![i].balance = new.balance,
                                      ![i].status = new.status, ![i].manual = FALSE]
      /\ Deliver(req[w].key, Len(payments) + 1)
      /\ Answer(w)
      /\ Release(w)
      /\ UNCHANGED overwritten

\* The worker dies or loses its connection with the transaction open.
Crash(w) ==
  /\ pc[w] \in InTransaction
  /\ Answer(w)
  /\ Release(w)
  /\ UNCHANGED <<invoices, payments, told, overwritten>>

\* PUT/PATCH /invoices/{id}/: get_object, and some time later ...
BeginEdit(w, i) ==
  /\ pc[w] = "idle"
  /\ Live(i)
  /\ req' = [req EXCEPT ![w] = [invoice |-> i, amount |-> 0, key |-> NoKey]]
  /\ seen' = [seen EXCEPT ![w] = invoices[i]]
  /\ Goto(w, "editing")
  /\ UNCHANGED <<invoices, payments, holder, told, overwritten>>

\* ... the whole row is written as it was read, but for what the client changed:
\* nothing the model follows, the total, or the status.
SaveEdit(w) ==
  LET i == req[w].invoice IN
  /\ pc[w] = "editing"
  /\ LockIsFree(i)
  /\ \E new \in {seen[w]}
             \cup {[seen[w] EXCEPT !.total = t, !.manual = TRUE] : t \in Totals}
             \cup {[seen[w] EXCEPT !.status = s, !.manual = TRUE] : s \in EditStatuses} :
       invoices' = [invoices EXCEPT ![i] = new]
  /\ overwritten' = IF invoices[i].paid = seen[w].paid THEN overwritten ELSE overwritten \cup {i}
  /\ Answer(w)
  /\ UNCHANGED <<payments, holder, told>>

\* DELETE /invoices/{id}/: writes is_deleted and deleted_at only.
DeleteInvoice(i) ==
  /\ Live(i)
  /\ LockIsFree(i)
  /\ invoices' = [invoices EXCEPT ![i].state = "deleted"]
  /\ UNCHANGED <<payments, holder, pc, req, seen, told, overwritten>>

\* POST /payments/: a row and nothing else.  Its foreign key waits for the lock
\* on the invoice, its key for rows not committed yet; a duplicate is an error.
PostPayment(i) ==
  /\ Live(i)
  /\ LockIsFree(i)
  /\ Len(payments) + Cardinality(Pending) < MaxPayments
  /\ \E amount \in Amounts, k \in AnyKey :
       /\ ~\E v \in Workers : pc[v] = "inserted" /\ req[v].key = k /\ k # NoKey
       /\ ~Duplicate(k)
       /\ payments' = Append(payments,
            [invoice |-> i, amount |-> Rounded(amount), key |-> k,
             source |-> "crud", deleted |-> FALSE])
  /\ UNCHANGED <<invoices, holder, pc, req, seen, told, overwritten>>

\* Mutant: the row is deleted outright.
MutDeletePayment(n) ==
  /\ payments' = SubSeq(payments, 1, n - 1) \o SubSeq(payments, n + 1, Len(payments))
  /\ UNCHANGED <<invoices, holder, pc, req, seen, told, overwritten>>

\* DELETE /payments/{id}/: soft, and the invoice keeps its paid_amount.
DeletePayment(n) ==
  /\ ~payments[n].deleted
  /\ payments' = [payments EXCEPT ![n].deleted = TRUE]
  /\ UNCHANGED <<invoices, holder, pc, req, seen, told, overwritten>>

-----------------------------------------------------------------------------
Next ==
  \/ \E i \in Invoices, total \in Totals : BillUpgrade(i, total) \/ CreateInvoice(i, total)
  \/ \E w \in Workers, i \in Invoices : RecordPayment(w, i) \/ BeginEdit(w, i)
  \/ \E w \in Workers :
       \/ CheckKey(w) \/ LockInvoice(w) \/ InsertPayment(w) \/ CommitPayment(w) \/ Crash(w)
       \/ SaveEdit(w)
  \/ \E i \in Invoices : DeleteInvoice(i) \/ PostPayment(i)
  \/ \E n \in DOMAIN payments : DeletePayment(n)

Spec == Init /\ [][Next]_vars

\* A request under way goes on, and PostgreSQL serves those who wait for a row
\* lock or a unique key in turn; clients need not send anything, nor workers crash.
Fairness ==
  \A w \in Workers :
    /\ WF_vars(CheckKey(w) \/ CommitPayment(w))
    /\ SF_vars(LockInvoice(w) \/ InsertPayment(w))

FairSpec == Spec /\ Fairness

-----------------------------------------------------------------------------
\* Properties

\* Types of the state: amounts and balances are never negative.
TypeOK ==
  /\ invoices \in [Invoices -> Invoice]
  /\ payments \in Seq(Payment)
  /\ holder \in [Invoices -> Workers \cup {NoWorker}]
  /\ pc \in [Workers -> PCStates]
  /\ req \in [Workers -> Request \cup {NoRequest}]
  /\ seen \in [Workers -> Invoice]
  /\ told \in [Keys -> SUBSET Nat]
  /\ overwritten \subseteq Invoices

\* Idempotency: whatever a client sends, repeats or races, a key has at most one
\* payment, and every success answer for the key names that payment (the look-up
\* before the transaction and the unique constraint inside it, together).
KeysAreIdempotent ==
  /\ \A k \in Keys \cup {EmptyKey} : Cardinality(WithKey(k)) <= 1
  /\ \A k \in Keys : told[k] \subseteq WithKey(k)

\* What the recorded payments of invoice i come to.
Recorded(i) ==
  MapThenSumSet(LAMBDA n : payments[n].amount,
    {n \in DOMAIN payments : payments[n].invoice = i /\ payments[n].source = "service"})

\* The paid amount of an invoice is the sum of the payments recorded on it,
\* unless an edit saved over a paid amount that had moved since it was read: no
\* update is lost between concurrent payments (the row lock of record_payment).
PaidIsExplained == \A i \in Invoices \ overwritten : invoices[i].paid = Recorded(i)

\* As long as nobody writes total or status by hand, balance and status follow
\* from total and paid amount, also in a row an edit put back.  A fraction of
\* the last decimal may leave one unit of balance on a paid-up invoice, and keep
\* its status at PARTIALLY_PAID.
BalanceFollows ==
  \A i \in Invoices : ~invoices[i].manual =>
    LET r   == invoices[i]
        due == IF r.total > r.paid THEN r.total - r.paid ELSE 0
    IN  /\ r.balance - due \in 0 .. 1
        /\ r.status = "PAID" => r.balance = 0 /\ r.paid >= r.total
        /\ r.status # "PAID" /\ r.paid > 0 => r.status = "PARTIALLY_PAID"
        /\ r.paid > r.total /\ r.total > 0 => r.status = "PAID"

\* No payment is recorded on an invoice that is cancelled or deleted at that
\* moment: the lock keeps the status from the check to the commit.
NoPaymentOnCancelled ==
  [][\A n \in DOMAIN payments' \ DOMAIN payments : payments'[n].source = "service" =>
       LET r == invoices[payments'[n].invoice] IN r.state = "live" /\ r.status # "CANCELLED"]_vars

\* A payment request is answered: neither the row lock nor the wait for a key
\* another transaction inserted can hold it up forever.
PaymentAnswered == \A w \in Workers : pc[w] = "checking" ~> pc[w] = "idle"

\* Payment rows as KeyedPayments sees them: deleted or not, from wherever.
RecordedOf ==
  [n \in DOMAIN payments |->
     [key |-> payments[n].key, invoice |-> payments[n].invoice, amount |-> payments[n].amount]]

Entries ==
  {[key |-> k, invoice |-> i, amount |-> Rounded(amount)] : k \in AnyKey, i \in Invoices, amount \in Amounts}

Keyed == INSTANCE KeyedPayments WITH recorded <- RecordedOf

\* Requests that race, repeat, wait and crash, next to POST and DELETE of payments
\* and edits of the invoice, implement KeyedPayments: every payment is recorded
\* under a key nobody used, is there for good, and is what its key's senders are
\* told of (PUT/PATCH of a payment row itself is not modelled).
ImplementsKeyedPayments == Keyed!Spec
=============================================================================
