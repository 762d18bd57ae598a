--------------------------- MODULE PaymentsProofs ---------------------------
(***************************************************************************)
(* Proofs about Payments, for any invoices, workers, keys and amounts.     *)
(*                                                                         *)
(* The argument: a worker inside its transaction holds the row lock, so    *)
(* the invoice is still the row it read, neither deleted nor cancelled     *)
(* (LockInv); a key that is inserted and not committed is in no payment    *)
(* and in no other open transaction (KeyInv); and the row an edit will     *)
(* put back is a row the invoice has had, balanced as such (BalanceInv).   *)
(* What an invoice was paid is the sum of its payments and of what edits   *)
(* overwrote (PaidInv), by induction on the sets of rows that are summed.  *)
(***************************************************************************)
EXTENDS Payments, TLAPS, FiniteSetTheorems, SequenceTheorems, WellFoundedInduction

Paying == InTransaction \cup {"checking", "waiting"}

\* A request under way is a request, and a payment is of some amount.
RequestInv ==
  \A w \in Workers :
    /\ pc[w] # "idle" => req[w] \in Request
    /\ pc[w] \in Paying => req[w].amount > 0

\* In its transaction a worker has the lock, and the row is as it read it.
LockInv ==
  \A w \in Workers : pc[w] \in InTransaction =>
    /\ holder[req[w].invoice] = w
    /\ seen[w] = invoices[req[w].invoice]
    /\ seen[w].state = "live" /\ seen[w].status # "CANCELLED"

\* An inserted key is nobody else's.
KeyInv ==
  \A w \in Workers : pc[w] = "inserted" /\ req[w].key # NoKey =>
    /\ \A n \in DOMAIN payments : payments[n].key # req[w].key
    /\ \A v \in Workers \ {w} : pc[v] = "inserted" => req[v].key # req[w].key

\* Of two payments with one key there are none, and answers name their key's.
UniqueInv ==
  /\ \A m, n \in DOMAIN payments :
       payments[m].key = payments[n].key /\ payments[m].key # NoKey => m = n
  /\ \A k \in Keys : \A n \in told[k] : n \in DOMAIN payments /\ payments[n].key = k

\* BalanceFollows, of one row.
Due(r) == IF r.total > r.paid THEN r.total - r.paid ELSE 0

Balanced(r) ==
  ~r.manual =>
    /\ r.balance - Due(r) \in 0 .. 1
    /\ r.status = "PAID" => r.balance = 0 /\ r.paid >= r.total
    /\ r.status # "PAID" /\ r.paid > 0 => r.status = "PARTIALLY_PAID"
    /\ r.paid > r.total /\ r.total > 0 => r.status = "PAID"

BalanceInv ==
  /\ \A i \in Invoices : Balanced(invoices[i])
  /\ \A w \in Workers : pc[w] = "editing" => Balanced(seen[w])

IInv == TypeOK /\ RequestInv /\ LockInv /\ KeyInv /\ UniqueInv /\ BalanceInv

-----------------------------------------------------------------------------
\* Arithmetic

\* Rounding keeps the order of an amount and a total, and a balance that is
\* rounded is one unit off at most.
LEMMA RoundingBalance ==
  ASSUME NEW paid \in Nat, NEW total \in Nat
  PROVE  /\ Rounded(paid) \in Nat
         /\ paid >= Scale * total => Rounded(paid) >= total
         /\ Rounded(paid) > total => paid >= Scale * total
         /\ paid < Scale * total =>
              /\ Rounded(Scale * total - paid) \in Nat
              /\ Rounded(paid) <= total
              /\ Rounded(Scale * total - paid) - (total - Rounded(paid)) \in 0 .. 1
         /\ Rounded(0) = 0
BY DEF Rounded, Scale

\* What update_balance makes of a row is a row, and balanced.
LEMMA SettledRow ==
  ASSUME NEW row \in Invoice, NEW amount \in Nat, amount > 0
  PROVE  /\ Settled(row, amount) \in Invoice
         /\ Balanced(Settled(row, amount))
         /\ Settled(row, amount).state = row.state /\ Settled(row, amount).total = row.total
         /\ ~Settled(row, amount).manual
<1>1. PICK paid \in Nat, total \in Nat :
        paid = Scale * row.paid + amount /\ total = row.total /\ paid > 0
  BY DEF Invoice, Scale
<1>2. Scale * row.total = Scale * total
  BY <1>1
<1> DEFINE balance == Rounded(IF Scale * total > paid THEN Scale * total - paid ELSE 0)
           status  == IF paid >= Scale * total /\ Scale * total > 0 THEN "PAID" ELSE "PARTIALLY_PAID"
<1>3. Settled(row, amount) =
        [row EXCEPT !.paid = Rounded(paid), !.balance = balance, !.status = status, !.manual = FALSE]
  BY <1>1, <1>2 DEF Settled, Scale
<1>4. /\ Rounded(paid) \in Nat
      /\ paid >= Scale * total => Rounded(paid) >= total
      /\ Rounded(paid) > total => paid >= Scale * total
      /\ paid < Scale * total =>
           /\ Rounded(Scale * total - paid) \in Nat
           /\ Rounded(paid) <= total
           /\ Rounded(Scale * total - paid) - (total - Rounded(paid)) \in 0 .. 1
      /\ Rounded(0) = 0
  BY RoundingBalance
<1>5. Settled(row, amount) \in Invoice /\ Settled(row, amount).state = row.state
  <2>1. balance \in Nat
    <3>1. CASE Scale * total > paid
      BY <3>1, <1>4
    <3>2. CASE ~(Scale * total > paid)
      BY <3>2, <1>4
    <3>3. QED
      BY <3>1, <3>2
  <2>2. status \in InvoiceStatus
    BY DEF InvoiceStatus
  <2> HIDE DEF balance, status
  <2>3. Rounded(paid) \in Nat
    BY <1>4
  <2>4. PICK p \in Nat, b \in Nat, s \in InvoiceStatus :
          Settled(row, amount) = [row EXCEPT !.paid = p, !.balance = b, !.status = s, !.manual = FALSE]
    BY <2>1, <2>2, <2>3, <1>3, Zenon
  <2>5. QED
    BY <2>4 DEF Invoice
<1>6. Balanced(Settled(row, amount))
  BY <1>3, <1>4, <1>1 DEF Invoice, Balanced, Due, Scale
<1>7. Settled(row, amount).total = row.total /\ ~Settled(row, amount).manual
  BY <1>3, <1>5 DEF Invoice
<1>8. QED
  BY <1>5, <1>6, <1>7

-----------------------------------------------------------------------------
\* Consequences of the invariant

LEMMA KeysImplied ==
  ASSUME TypeOK, UniqueInv
  PROVE  KeysAreIdempotent
<1>1. ASSUME NEW k \in Keys \cup {EmptyKey}
      PROVE  Cardinality(WithKey(k)) <= 1
  <2>1. \A m, n \in WithKey(k) : m = n
    BY PaymentsAssumption DEF UniqueInv, WithKey
  <2>2. CASE WithKey(k) = {}
    BY <2>2, FS_EmptySet
  <2>3. CASE WithKey(k) # {}
    <3>1. PICK n : WithKey(k) = {n}
      BY <2>1, <2>3
    <3>2. QED
      BY <3>1, FS_Singleton
  <2>4. QED
    BY <2>2, <2>3
<1>2. \A k \in Keys : told[k] \subseteq WithKey(k)
  BY DEF UniqueInv, WithKey
<1>3. QED
  BY <1>1, <1>2 DEF KeysAreIdempotent

LEMMA BalanceImplied ==
  ASSUME BalanceInv
  PROVE  BalanceFollows
BY DEF BalanceInv, Balanced, Due, BalanceFollows

LEMMA Start == Init => IInv
<1> SUFFICES ASSUME Init PROVE IInv
  OBVIOUS
<1>1. NoInvoice \in Invoice /\ Balanced(NoInvoice)
  BY DEF NoInvoice, Invoice, InvoiceStatus, Balanced, Due
<1>2. TypeOK
  BY <1>1, EmptySeq DEF Init, TypeOK, PCStates
<1>3. RequestInv /\ LockInv /\ KeyInv /\ UniqueInv
  BY DEF Init, RequestInv, LockInv, KeyInv, UniqueInv, Paying, InTransaction
<1>4. BalanceInv
  BY <1>1 DEF Init, BalanceInv
<1>5. QED
  BY <1>2, <1>3, <1>4 DEF IInv

-----------------------------------------------------------------------------
\* Steps that leave requests and payments alone: a row changes that nobody has
\* locked.
LEMMA RowStep ==
  ASSUME IInv, NEW i \in Invoices, NEW row \in Invoice, Balanced(row),
         invoices' = [invoices EXCEPT ![i] = row],
         \A w \in Workers : pc[w] \in InTransaction => req[w].invoice # i,
         UNCHANGED <<payments, holder, pc, req, seen, told, overwritten>>
  PROVE  IInv'
<1> USE DEF IInv
<1>1. TypeOK'
  BY DEF TypeOK
<1>2. RequestInv' /\ KeyInv' /\ UniqueInv'
  BY DEF RequestInv, KeyInv, UniqueInv
<1>3. LockInv'
  BY DEF LockInv, TypeOK
<1>4. BalanceInv'
  BY DEF BalanceInv, TypeOK
<1>5. QED
  BY <1>1, <1>2, <1>3, <1>4

\* A row whose lock is free, or that does not exist, is in nobody's transaction.
LEMMA Unlocked ==
  ASSUME IInv, NEW i \in Invoices, LockIsFree(i) \/ invoices[i].state # "live"
  PROVE  \A w \in Workers : pc[w] \in InTransaction => req[w].invoice # i
BY PaymentsAssumption DEF IInv, LockInv, LockIsFree

LEMMA BillUpgradeStep ==
  ASSUME IInv, NEW i \in Invoices, NEW total \in Totals, BillUpgrade(i, total)
  PROVE  IInv'
<1> DEFINE row == [NoInvoice EXCEPT !.state = "live", !.total = total, !.balance = total,
                                    !.status = "ISSUED"]
<1>1. total \in Nat /\ total > 0
  BY PaymentsAssumption DEF BillUpgrade
<1>2. row \in Invoice /\ Balanced(row)
  <2>1. PICK none \in Invoice : none = NoInvoice /\ none.paid = 0 /\ ~none.manual
    <3>1. NoInvoice \in Invoice /\ NoInvoice.paid = 0 /\ ~NoInvoice.manual
      BY DEF NoInvoice, Invoice, InvoiceStatus
    <3>2. QED
      BY <3>1
  <2>2. row = [none EXCEPT !.state = "live", !.total = total, !.balance = total, !.status = "ISSUED"]
    BY <2>1
  <2>3. row \in Invoice
    BY <1>1, <2>2 DEF Invoice, InvoiceStatus
  <2>4. row.total = total /\ row.paid = 0 /\ row.balance = total /\ row.status = "ISSUED"
    BY <2>1, <2>2 DEF Invoice
  <2>5. QED
    BY <1>1, <2>3, <2>4 DEF Balanced, Due
<1>3. \A w \in Workers : pc[w] \in InTransaction => req[w].invoice # i
  BY Unlocked DEF BillUpgrade
<1>4. QED
  BY <1>2, <1>3, RowStep DEF BillUpgrade

LEMMA CreateInvoiceStep ==
  ASSUME IInv, NEW i \in Invoices, NEW total \in Totals, CreateInvoice(i, total)
  PROVE  IInv'
<1> DEFINE row == [NoInvoice EXCEPT !.state = "live", !.total = total, !.manual = TRUE]
<1>1. total \in Nat
  BY PaymentsAssumption
<1>2. row \in Invoice /\ Balanced(row)
  BY <1>1 DEF NoInvoice, Invoice, InvoiceStatus, Balanced
<1>3. \A w \in Workers : pc[w] \in InTransaction => req[w].invoice # i
  BY Unlocked DEF CreateInvoice
<1>4. QED
  BY <1>2, <1>3, RowStep DEF CreateInvoice

LEMMA DeleteInvoiceStep ==
  ASSUME IInv, NEW i \in Invoices, DeleteInvoice(i)
  PROVE  IInv'
<1> DEFINE row == [invoices[i] EXCEPT !.state = "deleted"]
<1>1. invoices[i] \in Invoice /\ Balanced(invoices[i])
  BY DEF IInv, TypeOK, BalanceInv
<1>2. row \in Invoice /\ Balanced(row)
  <2>1. /\ row \in Invoice
        /\ row.total = invoices[i].total /\ row.paid = invoices[i].paid
        /\ row.balance = invoices[i].balance /\ row.status = invoices[i].status
        /\ row.manual <=> invoices[i].manual
    BY <1>1 DEF Invoice
  <2>2. QED
    BY <1>1, <2>1 DEF Balanced, Due
<1>3. invoices' = [invoices EXCEPT ![i] = row]
  BY DEF DeleteInvoice
<1>4. \A w \in Workers : pc[w] \in InTransaction => req[w].invoice # i
  BY Unlocked DEF DeleteInvoice
<1>5. QED
  BY <1>2, <1>3, <1>4, RowStep DEF DeleteInvoice

-----------------------------------------------------------------------------
\* Steps of one request that change no invoice and no payment.

\* A worker outside every transaction begins or goes on, still outside.
LEMMA RequestStep ==
  ASSUME IInv, NEW w \in Workers, pc[w] \notin InTransaction,
         NEW stage \in {"checking", "waiting", "editing"},
         NEW r \in Request, NEW row \in Invoice,
         pc' = [pc EXCEPT ![w] = stage], req'= [req EXCEPT ![w] = r],
         seen' = [seen EXCEPT ![w] = row],
         stage = "editing" => Balanced(row),
         stage # "editing" => r.amount > 0,
         UNCHANGED <<invoices, payments, holder, told, overwritten>>
  PROVE  IInv'
<1> USE DEF IInv
<1>1. TypeOK'
  BY DEF TypeOK, PCStates
<1>2. RequestInv'
  BY DEF TypeOK, RequestInv, Paying, InTransaction
<1>3. LockInv' /\ KeyInv'
  BY DEF TypeOK, LockInv, KeyInv, InTransaction
<1>4. UniqueInv' /\ BalanceInv'
  BY DEF TypeOK, UniqueInv, BalanceInv
<1>5. QED
  BY <1>1, <1>2, <1>3, <1>4

LEMMA RecordPaymentStep ==
  ASSUME IInv, NEW w \in Workers, NEW i \in Invoices, RecordPayment(w, i)
  PROVE  IInv'
<1>1. PICK amount \in Amounts, key \in AnyKey :
        req' = [req EXCEPT ![w] = [invoice |-> i, amount |-> amount, key |-> key]]
  BY DEF RecordPayment
<1> DEFINE r == [invoice |-> i, amount |-> amount, key |-> key]
<1>2. r \in Request /\ r.amount > 0
  BY PaymentsAssumption DEF Request
<1>3. invoices[i] \in Invoice /\ pc[w] \notin InTransaction
  BY DEF IInv, TypeOK, RecordPayment, InTransaction
<1>4. QED
  BY <1>1, <1>2, <1>3, RequestStep DEF RecordPayment, Goto

LEMMA BeginEditStep ==
  ASSUME IInv, NEW w \in Workers, NEW i \in Invoices, BeginEdit(w, i)
  PROVE  IInv'
<1> DEFINE r == [invoice |-> i, amount |-> 0, key |-> NoKey]
<1>1. r \in Request
  BY DEF Request, AnyKey
<1>2. invoices[i] \in Invoice /\ Balanced(invoices[i]) /\ pc[w] \notin InTransaction
  BY DEF IInv, TypeOK, BalanceInv, BeginEdit, InTransaction
<1>3. QED
  BY <1>1, <1>2, RequestStep DEF BeginEdit, Goto

\* A request ends: its locks, and the key it inserted, are free again.
LEMMA AnswerStep ==
  ASSUME IInv, NEW w \in Workers, Answer(w),
         Release(w) \/ (UNCHANGED holder /\ pc[w] \notin InTransaction),
         UNCHANGED <<invoices, payments, overwritten>>,
         told' \in [Keys -> SUBSET Nat],
         \A k \in Keys : \A n \in told'[k] : n \in told[k] \/ (n \in DOMAIN payments /\ payments[n].key = k)
  PROVE  IInv'
<1> USE DEF IInv, Answer
<1>1. holder' \in [Invoices -> Workers \cup {NoWorker}]
      /\ \A v \in Workers \ {w} : \A i \in Invoices : holder[i] = v => holder'[i] = v
  BY PaymentsAssumption DEF TypeOK, Release
<1>2. NoInvoice \in Invoice
  BY DEF NoInvoice, Invoice, InvoiceStatus
<1>3. /\ pc' \in [Workers -> PCStates] /\ pc'[w] = "idle"
      /\ \A v \in Workers \ {w} : pc'[v] = pc[v] /\ req'[v] = req[v] /\ seen'[v] = seen[v]
  BY DEF TypeOK, PCStates
<1>4. TypeOK'
  BY <1>1, <1>2, <1>3 DEF TypeOK
<1>5. RequestInv'
  BY <1>3 DEF RequestInv, Paying, InTransaction
<1>6. LockInv'
  BY <1>1, <1>3 DEF LockInv, RequestInv, InTransaction, Request
<1>7. KeyInv' /\ BalanceInv'
  BY <1>3 DEF KeyInv, BalanceInv
<1>8. UniqueInv'
  BY DEF UniqueInv
<1>9. QED
  BY <1>4, <1>5, <1>6, <1>7, <1>8

LEMMA CheckKeyStep ==
  ASSUME IInv, NEW w \in Workers, CheckKey(w)
  PROVE  IInv'
<1>1. pc[w] = "checking" /\ pc[w] \notin InTransaction
  BY DEF CheckKey, InTransaction
<1>2. CASE Answer(w)
  <2>1. PICK n : n \in WithKey(req[w].key) /\ Deliver(req[w].key, n)
    BY <1>1, <1>2 DEF CheckKey, Answer, Goto, IInv, TypeOK
  <2>2. n \in Nat
    BY <2>1 DEF WithKey, IInv, TypeOK
  <2>3. told' \in [Keys -> SUBSET Nat]
        /\ \A k \in Keys : \A m \in told'[k] : m \in told[k] \/ (m \in DOMAIN payments /\ payments[m].key = k)
    BY <2>1, <2>2 DEF Deliver, WithKey, IInv, TypeOK
  <2>4. QED
    BY <1>1, <1>2, <2>3, AnswerStep DEF CheckKey
<1>3. CASE Goto(w, "waiting") /\ UNCHANGED <<req, seen, told>>
  <2>1. req[w] \in Request /\ req[w].amount > 0 /\ seen[w] \in Invoice
    BY <1>1 DEF IInv, TypeOK, RequestInv, Paying
  <2>2. PICK r \in Request, row \in Invoice :
          /\ r.amount > 0
          /\ req' = [req EXCEPT ![w] = r] /\ seen' = [seen EXCEPT ![w] = row]
    BY <1>3, <2>1 DEF IInv, TypeOK
  <2>3. /\ pc' = [pc EXCEPT ![w] = "waiting"]
        /\ UNCHANGED <<invoices, payments, holder, told, overwritten>>
    BY <1>3 DEF CheckKey, Goto
  <2>4. QED
    BY <1>1, <2>2, <2>3, RequestStep
<1>4. QED
  BY <1>2, <1>3 DEF CheckKey

LEMMA CrashStep ==
  ASSUME IInv, NEW w \in Workers, Crash(w)
  PROVE  IInv'
BY AnswerStep DEF Crash, IInv, TypeOK

-----------------------------------------------------------------------------
\* Steps inside the transaction.

LEMMA LockInvoiceStep ==
  ASSUME IInv, NEW w \in Workers, LockInvoice(w)
  PROVE  IInv'
<1>1. pc[w] = "waiting" /\ pc[w] \notin InTransaction
  BY DEF LockInvoice, InTransaction
<1>2. CASE Answer(w) /\ UNCHANGED holder
  BY <1>1, <1>2, AnswerStep DEF LockInvoice, IInv, TypeOK
<1>3. CASE ~(Answer(w) /\ UNCHANGED holder)
  <2> USE DEF IInv
  <2>1. PICK i \in Invoices : i = req[w].invoice
    BY <1>1 DEF RequestInv, Request
  <2>2. /\ invoices[i].state = "live" /\ invoices[i].status # "CANCELLED"
        /\ holder[i] = NoWorker
        /\ holder' = [holder EXCEPT ![i] = w]
        /\ seen' = [seen EXCEPT ![w] = invoices[i]]
        /\ pc' = [pc EXCEPT ![w] = "locked"]
        /\ UNCHANGED <<invoices, payments, req, told, overwritten>>
    BY <1>3, <2>1 DEF LockInvoice, LockIsFree, Live, Goto
  <2>3. TypeOK'
    BY <2>2 DEF TypeOK, PCStates, InTransaction
  <2>4. RequestInv'
    BY <1>1, <2>2 DEF TypeOK, RequestInv, Paying, InTransaction
  <2>5. LockInv'
    BY <2>1, <2>2, PaymentsAssumption DEF TypeOK, LockInv, RequestInv, InTransaction, Request
  <2>6. KeyInv' /\ UniqueInv' /\ BalanceInv'
    BY <2>2 DEF TypeOK, KeyInv, UniqueInv, BalanceInv
  <2>7. QED
    BY <2>3, <2>4, <2>5, <2>6
<1>4. QED
  BY <1>2, <1>3

LEMMA InsertPaymentStep ==
  ASSUME IInv, NEW w \in Workers, InsertPayment(w)
  PROVE  IInv'
<1>1. CASE Answer(w) /\ Release(w)
  BY <1>1, AnswerStep DEF InsertPayment, IInv, TypeOK
<1>2. CASE ~(Answer(w) /\ Release(w))
  <2> USE DEF IInv
  <2>1. /\ pc[w] = "locked"
        /\ pc' = [pc EXCEPT ![w] = "inserted"]
        /\ \A v \in Workers : pc[v] = "inserted" /\ req[w].key # NoKey => req[v].key # req[w].key
        /\ req[w].key # NoKey => \A n \in DOMAIN payments : payments[n].key # req[w].key
        /\ UNCHANGED <<invoices, payments, holder, req, seen, told, overwritten>>
    BY <1>2 DEF InsertPayment, Duplicate, WithKey, Goto
  <2>2. TypeOK'
    BY <2>1 DEF TypeOK, PCStates, InTransaction
  <2>3. RequestInv' /\ LockInv'
    BY <2>1 DEF TypeOK, RequestInv, LockInv, Paying, InTransaction
  <2>4. KeyInv'
    BY <2>1 DEF TypeOK, KeyInv
  <2>5. UniqueInv' /\ BalanceInv'
    BY <2>1 DEF TypeOK, UniqueInv, BalanceInv
  <2>6. QED
    BY <2>2, <2>3, <2>4, <2>5
<1>3. QED
  BY <1>1, <1>2

\* A payment is added whose key no other has and nobody has inserted.
LEMMA PaymentAdded ==
  ASSUME payments \in Seq(Payment), UniqueInv, NEW p \in Payment, payments' = Append(payments, p),
         p.key # NoKey => \A n \in DOMAIN payments : payments[n].key # p.key
  PROVE  /\ payments' \in Seq(Payment)
         /\ DOMAIN payments' = DOMAIN payments \cup {Len(payments) + 1}
         /\ Len(payments) + 1 \in Nat /\ Len(payments) + 1 \notin DOMAIN payments
         /\ \A n \in DOMAIN payments : payments'[n] = payments[n]
         /\ payments'[Len(payments) + 1] = p
         /\ \A m, n \in DOMAIN payments' :
              payments'[m].key = payments'[n].key /\ payments'[m].key # NoKey => m = n
<1>1. /\ payments' \in Seq(Payment)
      /\ Len(payments') = Len(payments) + 1
      /\ \A n \in 1 .. Len(payments) : payments'[n] = payments[n]
      /\ payments'[Len(payments) + 1] = p
  BY AppendProperties
<1>2. /\ DOMAIN payments = 1 .. Len(payments) /\ DOMAIN payments' = 1 .. Len(payments) + 1
      /\ Len(payments) \in Nat
  BY <1>1
<1>3. QED
  BY <1>1, <1>2 DEF UniqueInv

LEMMA CommitPaymentStep ==
  ASSUME IInv, NEW w \in Workers, CommitPayment(w)
  PROVE  IInv'
<1> USE DEF IInv
<1>1. PICK i \in Invoices : i = req[w].invoice
  BY DEF CommitPayment, RequestInv, Request
<1>2. /\ pc[w] = "inserted" /\ holder[i] = w /\ seen[w] = invoices[i]
      /\ req[w] \in Request /\ req[w].amount \in Nat /\ req[w].amount > 0
      /\ invoices[i] \in Invoice
  BY <1>1 DEF CommitPayment, TypeOK, RequestInv, LockInv, InTransaction, Paying, Request
<1>3. PICK new \in Invoice : new = Settled(invoices[i], req[w].amount) /\ Balanced(new) /\ ~new.manual
  <2>1. PICK row \in Invoice, amount \in Nat :
          row = invoices[i] /\ amount = req[w].amount /\ amount > 0
    BY <1>2
  <2>2. Settled(row, amount) \in Invoice /\ Balanced(Settled(row, amount)) /\ ~Settled(row, amount).manual
    BY <2>1, SettledRow
  <2>3. QED
    BY <2>1, <2>2
<1>4. /\ invoices' = [invoices EXCEPT ![i].paid = new.paid, ![i].balance = new.balance,
                                      ![i].status = new.status, ![i].manual = FALSE]
      /\ payments' = Append(payments, [invoice |-> i, amount |-> Rounded(req[w].amount),
                                       key |-> req[w].key, source |-> "service", deleted |-> FALSE])
      /\ Deliver(req[w].key, Len(payments) + 1)
      /\ Answer(w) /\ Release(w)
      /\ UNCHANGED overwritten
  BY <1>1, <1>2, <1>3 DEF CommitPayment
<1>5. /\ invoices' \in [Invoices -> Invoice]
      /\ Balanced(invoices'[i])
      /\ \A j \in Invoices \ {i} : invoices'[j] = invoices[j]
  <2> DEFINE row == [invoices[i] EXCEPT !.paid = new.paid, !.balance = new.balance,
                                        !.status = new.status, !.manual = FALSE]
  <2>1. invoices' = [invoices EXCEPT ![i] = row]
    BY <1>4 DEF TypeOK
  <2>2. row \in Invoice
    BY <1>2, <1>3 DEF Invoice
  <2>3. /\ row.total = invoices[i].total /\ row.paid = new.paid
        /\ row.balance = new.balance /\ row.status = new.status
    BY <1>2, <1>3 DEF Invoice
  <2>4. new.total = invoices[i].total
    BY <1>2, <1>3, SettledRow
  <2>5. Balanced(row)
    BY <1>3, <2>3, <2>4 DEF Balanced, Due
  <2> HIDE DEF row
  <2>6. QED
    BY <2>1, <2>2, <2>5 DEF TypeOK
<1> DEFINE p == [invoice |-> i, amount |-> Rounded(req[w].amount), key |-> req[w].key,
                 source |-> "service", deleted |-> FALSE]
           last == Len(payments) + 1
<1>6. p \in Payment /\ p.key = req[w].key
      /\ (p.key # NoKey => \A n \in DOMAIN payments : payments[n].key # p.key)
  <2>1. Rounded(req[w].amount) \in Nat
    BY <1>2, RoundingBalance
  <2>2. QED
    BY <1>2, <2>1 DEF Payment, Request, KeyInv
<1> HIDE DEF p
<1>7. /\ payments' \in Seq(Payment)
      /\ DOMAIN payments' = DOMAIN payments \cup {last}
      /\ last \in Nat /\ last \notin DOMAIN payments
      /\ \A n \in DOMAIN payments : payments'[n] = payments[n]
      /\ payments'[last] = p
      /\ \A m, n \in DOMAIN payments' :
           payments'[m].key = payments'[n].key /\ payments'[m].key # NoKey => m = n
  BY <1>4, <1>6, PaymentAdded DEF TypeOK, p
<1> HIDE DEF last
<1>8. told' \in [Keys -> SUBSET Nat]
      /\ \A k \in Keys : \A n \in told'[k] : n \in told[k] \/ (n = last /\ k = req[w].key)
  BY <1>4, <1>7 DEF Deliver, TypeOK, last
<1>9. /\ pc' \in [Workers -> PCStates] /\ pc'[w] = "idle"
      /\ \A v \in Workers \ {w} : pc'[v] = pc[v] /\ req'[v] = req[v] /\ seen'[v] = seen[v]
      /\ holder' \in [Invoices -> Workers \cup {NoWorker}]
      /\ \A v \in Workers \ {w} : \A j \in Invoices : holder[j] = v => holder'[j] = v
  BY <1>4, PaymentsAssumption DEF TypeOK, PCStates, Answer, Release
<1>10. TypeOK'
  <2>1. NoInvoice \in Invoice
    BY DEF NoInvoice, Invoice, InvoiceStatus
  <2>2. QED
    BY <1>4, <1>5, <1>7, <1>8, <1>9, <2>1 DEF TypeOK, Answer
<1>11. RequestInv'
  BY <1>9 DEF RequestInv, Paying, InTransaction
<1>12. LockInv'
  <2>1. ASSUME NEW v \in Workers \ {w}, pc[v] \in InTransaction
        PROVE  req[v].invoice \in Invoices \ {i}
    BY <2>1, <1>2 DEF LockInv, RequestInv, InTransaction, Request
  <2>2. QED
    BY <1>5, <1>9, <2>1 DEF LockInv, InTransaction
<1>13. KeyInv'
  <2>1. ASSUME NEW v \in Workers \ {w}, pc[v] = "inserted", req[v].key # NoKey
        PROVE  req[v].key # req[w].key
    BY <2>1, <1>2 DEF KeyInv
  <2>2. QED
    BY <1>6, <1>7, <1>9, <2>1 DEF KeyInv
<1>14. UniqueInv'
  BY <1>6, <1>7, <1>8 DEF UniqueInv
<1>15. BalanceInv'
  BY <1>5, <1>9 DEF BalanceInv
<1>16. QED
  BY <1>10, <1>11, <1>12, <1>13, <1>14, <1>15

-----------------------------------------------------------------------------
\* The remaining steps.

\* An edit writes back the row it read, or one marked as written by hand.
LEMMA SaveEditStep ==
  ASSUME IInv, NEW w \in Workers, SaveEdit(w)
  PROVE  IInv'
<1> USE DEF IInv
<1>1. PICK i \in Invoices : i = req[w].invoice
  BY DEF SaveEdit, RequestInv, Request
<1>2. PICK new : /\ new \in {seen[w]}
                     \cup {[seen[w] EXCEPT !.total = t, !.manual = TRUE] : t \in Totals}
                     \cup {[seen[w] EXCEPT !.status = s, !.manual = TRUE] : s \in EditStatuses}
                 /\ invoices' = [invoices EXCEPT ![i] = new]
  BY <1>1 DEF SaveEdit
<1>3. seen[w] \in Invoice /\ Balanced(seen[w])
  BY DEF SaveEdit, TypeOK, BalanceInv
<1>4. new \in Invoice /\ Balanced(new)
  <2>1. CASE new = seen[w]
    BY <1>3, <2>1
  <2>2. ASSUME NEW t \in Totals, new = [seen[w] EXCEPT !.total = t, !.manual = TRUE]
        PROVE  new \in Invoice /\ Balanced(new)
    BY <1>3, <2>2, PaymentsAssumption DEF Invoice, Balanced
  <2>3. ASSUME NEW s \in EditStatuses, new = [seen[w] EXCEPT !.status = s, !.manual = TRUE]
        PROVE  new \in Invoice /\ Balanced(new)
    BY <1>3, <2>3, PaymentsAssumption DEF Invoice, InvoiceStatus, Balanced
  <2>4. QED
    BY <1>2, <2>1, <2>2, <2>3
<1>5. \A v \in Workers : pc[v] \in InTransaction => req[v].invoice # i
  BY <1>1, Unlocked DEF SaveEdit
<1>6. NoInvoice \in Invoice
  BY DEF NoInvoice, Invoice, InvoiceStatus
<1>7. /\ pc[w] = "editing" /\ pc' \in [Workers -> PCStates] /\ pc'[w] = "idle"
      /\ \A v \in Workers \ {w} : pc'[v] = pc[v] /\ req'[v] = req[v] /\ seen'[v] = seen[v]
      /\ holder' = holder /\ payments' = payments /\ told' = told
      /\ overwritten' \subseteq Invoices
  BY <1>1 DEF SaveEdit, Answer, TypeOK, PCStates
<1>8. TypeOK'
  BY <1>2, <1>4, <1>6, <1>7 DEF TypeOK, SaveEdit, Answer
<1>9. RequestInv' /\ KeyInv' /\ UniqueInv'
  BY <1>7 DEF RequestInv, KeyInv, UniqueInv, Paying, InTransaction
<1>10. LockInv'
  <2>1. ASSUME NEW v \in Workers \ {w}, pc[v] \in InTransaction
        PROVE  req[v].invoice \in Invoices \ {i}
    BY <2>1, <1>5 DEF RequestInv, InTransaction, Request
  <2>2. \A j \in Invoices \ {i} : invoices'[j] = invoices[j]
    BY <1>2 DEF TypeOK
  <2>3. QED
    BY <1>7, <2>1, <2>2 DEF LockInv, InTransaction
<1>11. BalanceInv'
  BY <1>2, <1>4, <1>7 DEF TypeOK, BalanceInv
<1>12. QED
  BY <1>8, <1>9, <1>10, <1>11

LEMMA PostPaymentStep ==
  ASSUME IInv, NEW i \in Invoices, PostPayment(i)
  PROVE  IInv'
<1> USE DEF IInv
<1>1. PICK amount \in Amounts, k \in AnyKey :
        /\ \A v \in Workers : pc[v] = "inserted" /\ k # NoKey => req[v].key # k
        /\ ~Duplicate(k)
        /\ payments' = Append(payments, [invoice |-> i, amount |-> Rounded(amount), key |-> k,
                                         source |-> "crud", deleted |-> FALSE])
  BY DEF PostPayment
<1> DEFINE p == [invoice |-> i, amount |-> Rounded(amount), key |-> k,
                 source |-> "crud", deleted |-> FALSE]
<1>2. p \in Payment /\ p.key = k
      /\ (p.key # NoKey => \A n \in DOMAIN payments : payments[n].key # p.key)
  <2>1. Rounded(amount) \in Nat
    BY PaymentsAssumption, RoundingBalance
  <2>2. QED
    BY <1>1, <2>1 DEF Payment, Duplicate, WithKey
<1> HIDE DEF p
<1>3. /\ payments' \in Seq(Payment)
      /\ DOMAIN payments' = DOMAIN payments \cup {Len(payments) + 1}
      /\ Len(payments) + 1 \notin DOMAIN payments
      /\ \A n \in DOMAIN payments : payments'[n] = payments[n]
      /\ payments'[Len(payments) + 1] = p
      /\ \A m, n \in DOMAIN payments' :
           payments'[m].key = payments'[n].key /\ payments'[m].key # NoKey => m = n
  BY <1>1, <1>2, PaymentAdded DEF TypeOK, p
<1>4. UNCHANGED <<invoices, holder, pc, req, seen, told, overwritten>>
  BY DEF PostPayment
<1>5. TypeOK' /\ RequestInv' /\ LockInv' /\ BalanceInv'
  BY <1>3, <1>4 DEF TypeOK, RequestInv, LockInv, BalanceInv
<1>6. KeyInv'
  BY <1>1, <1>2, <1>3, <1>4 DEF KeyInv
<1>7. UniqueInv'
  BY <1>3, <1>4 DEF UniqueInv
<1>8. QED
  BY <1>5, <1>6, <1>7

LEMMA DeletePaymentStep ==
  ASSUME IInv, NEW n \in DOMAIN payments, DeletePayment(n)
  PROVE  IInv'
<1> USE DEF IInv
<1>1. /\ payments' \in Seq(Payment) /\ DOMAIN payments' = DOMAIN payments
      /\ \A m \in DOMAIN payments : payments'[m].key = payments[m].key
  <2>1. payments \in Seq(Payment) /\ payments[n] \in Payment
        /\ payments' = [payments EXCEPT ![n].deleted = TRUE]
    BY DEF DeletePayment, TypeOK
  <2>2. PICK p \in Payment : p = [payments[n] EXCEPT !.deleted = TRUE] /\ p.key = payments[n].key
    <3>1. /\ [payments[n] EXCEPT !.deleted = TRUE] \in Payment
          /\ [payments[n] EXCEPT !.deleted = TRUE].key = payments[n].key
      BY <2>1 DEF Payment
    <3>2. QED
      BY <3>1
  <2>3. payments' = [payments EXCEPT ![n] = p]
    BY <2>1, <2>2
  <2>4. QED
    BY <2>1, <2>2, <2>3
<1>2. UNCHANGED <<invoices, holder, pc, req, seen, told, overwritten>>
  BY DEF DeletePayment
<1>3. TypeOK' /\ RequestInv' /\ LockInv' /\ BalanceInv'
  BY <1>1, <1>2 DEF TypeOK, RequestInv, LockInv, BalanceInv
<1>4. KeyInv' /\ UniqueInv'
  BY <1>1, <1>2 DEF KeyInv, UniqueInv
<1>5. QED
  BY <1>3, <1>4

LEMMA Step == IInv /\ [Next]_vars => IInv'
<1> SUFFICES ASSUME IInv, [Next]_vars PROVE IInv'
  OBVIOUS
<1>1. CASE UNCHANGED vars
  BY <1>1 DEF vars, IInv, TypeOK, RequestInv, LockInv, KeyInv, UniqueInv, BalanceInv
<1>2. ASSUME NEW i \in Invoices, NEW total \in Totals, BillUpgrade(i, total) \/ CreateInvoice(i, total)
      PROVE  IInv'
  BY <1>2, BillUpgradeStep, CreateInvoiceStep
<1>3. ASSUME NEW w \in Workers, NEW i \in Invoices, RecordPayment(w, i) \/ BeginEdit(w, i)
      PROVE  IInv'
  BY <1>3, RecordPaymentStep, BeginEditStep
<1>4. ASSUME NEW w \in Workers, CheckKey(w) \/ LockInvoice(w) \/ InsertPayment(w)
                                \/ CommitPayment(w) \/ Crash(w) \/ SaveEdit(w)
      PROVE  IInv'
  BY <1>4, CheckKeyStep, LockInvoiceStep, InsertPaymentStep, CommitPaymentStep, CrashStep, SaveEditStep
<1>5. ASSUME NEW i \in Invoices, DeleteInvoice(i) \/ PostPayment(i)
      PROVE  IInv'
  BY <1>5, DeleteInvoiceStep, PostPaymentStep
<1>6. QED
  BY <1>1, <1>2, <1>3, <1>4, <1>5, DeletePaymentStep DEF Next

\* A step that adds a payment of record_payment commits one, on the row the
\* worker has locked.
LEMMA CancelledStep ==
  ASSUME IInv, [Next]_vars
  PROVE  \A n \in DOMAIN payments' \ DOMAIN payments : payments'[n].source = "service" =>
           LET r == invoices[payments'[n].invoice] IN r.state = "live" /\ r.status # "CANCELLED"
<1> USE DEF IInv
<1>1. CASE payments' = payments
  BY <1>1
<1>2. ASSUME NEW w \in Workers, CommitPayment(w),
             NEW n \in DOMAIN payments' \ DOMAIN payments
      PROVE  LET r == invoices[payments'[n].invoice] IN r.state = "live" /\ r.status # "CANCELLED"
  <2>1. payments'[n].invoice = req[w].invoice
    BY <1>2 DEF CommitPayment, TypeOK
  <2>2. pc[w] \in InTransaction
    BY <1>2 DEF CommitPayment, InTransaction
  <2>3. QED
    BY <2>1, <2>2 DEF LockInv
<1>3. ASSUME NEW i \in Invoices, PostPayment(i), NEW n \in DOMAIN payments' \ DOMAIN payments
      PROVE  payments'[n].source = "crud"
  BY <1>3 DEF PostPayment, TypeOK
<1>4. ASSUME NEW n \in DOMAIN payments, DeletePayment(n)
      PROVE  DOMAIN payments' = DOMAIN payments
  BY <1>4 DEF DeletePayment, TypeOK
<1>5. \/ payments' = payments
      \/ \E w \in Workers : CommitPayment(w)
      \/ \E i \in Invoices : PostPayment(i)
      \/ \E n \in DOMAIN payments : DeletePayment(n)
  BY DEF Next, vars, BillUpgrade, CreateInvoice, RecordPayment, BeginEdit, CheckKey, LockInvoice,
         InsertPayment, Crash, SaveEdit, DeleteInvoice
<1>6. QED
  BY <1>1, <1>2, <1>3, <1>4, <1>5

\* Payments: invoices, payments, locks, requests and histories keep their types;
\* no amount and no balance is ever negative.
THEOREM TypeCorrect == Spec => []TypeOK
<1>1. IInv => TypeOK
  BY DEF IInv
<1>2. QED
  BY <1>1, Start, Step, PTL DEF Spec

\* Payments: a key has one payment at most, and answers for it name that one,
\* however many workers race.
THEOREM KeysCorrect == Spec => []KeysAreIdempotent
<1>1. IInv => KeysAreIdempotent
  BY KeysImplied DEF IInv
<1>2. QED
  BY <1>1, Start, Step, PTL DEF Spec

\* Payments: balance and status follow from total and paid amount, for all
\* totals and amounts, also in rows that edits put back.
THEOREM BalanceCorrect == Spec => []BalanceFollows
<1>1. IInv => BalanceFollows
  BY BalanceImplied DEF IInv
<1>2. QED
  BY <1>1, Start, Step, PTL DEF Spec

\* Payments: the lock keeps an invoice from being cancelled or deleted between
\* the check of its status and the payment.
THEOREM CancelledCorrect == Spec => NoPaymentOnCancelled
<1>1. IInv /\ [Next]_vars =>
        [\A n \in DOMAIN payments' \ DOMAIN payments : payments'[n].source = "service" =>
           LET r == invoices[payments'[n].invoice] IN r.state = "live" /\ r.status # "CANCELLED"]_vars
  BY CancelledStep
<1>2. QED
  BY <1>1, Start, Step, PTL DEF Spec, NoPaymentOnCancelled

-----------------------------------------------------------------------------
\* Sums over finite sets of rows, by induction.  The library's rule takes a
\* predicate, this one a set.
LEMMA SetInduction ==
  ASSUME NEW G \in SUBSET Nat, 0 \in G, \A n \in G : n + 1 \in G
  PROVE  G = Nat
<1> SUFFICES ASSUME Nat \ G # {} PROVE FALSE
  OBVIOUS
<1>1. PICK m \in Nat \ G : \A n \in Nat \ G : ~(<<n, m>> \in OpToRel(<, Nat))
  BY NatLessThanWellFounded, WFMin
<1>2. m \in Nat /\ m \notin G /\ m - 1 \in Nat /\ m - 1 < m /\ (m - 1) + 1 = m
  OBVIOUS
<1>3. ~(m - 1 < m) \/ m - 1 \in G
  <2>1. m - 1 \in Nat \ G => ~(<<m - 1, m>> \in OpToRel(<, Nat))
    BY <1>1, Zenon
  <2>2. QED
    BY <2>1, <1>2 DEF OpToRel
<1>4. QED
  BY <1>2, <1>3

\* What rows add up to.
SumOf(rows, S) == MapThenSumSet(LAMBDA n : rows[n].amount, S)

Pick(s) == CHOOSE x \in s : TRUE

\* The function by which the sum over S is defined.
Adds(iter, rows, S) ==
  iter = [s \in SUBSET S |-> IF s = {} THEN 0 ELSE rows[Pick(s)].amount + iter[s \ {Pick(s)}]]

Summable(rows, S) == IsFiniteSet(S) /\ \A n \in S : rows[n].amount \in Nat

LEMMA SumIs ==
  ASSUME NEW rows, NEW S
  PROVE  SumOf(rows, S) = (CHOOSE iter : Adds(iter, rows, S))[S]
BY Zenon DEF SumOf, MapThenSumSet, MapThenFoldSet, Pick, Adds

\* The subsets of a finite set, one size at a time.
LEMMA Smaller ==
  ASSUME NEW S, IsFiniteSet(S), NEW T \in SUBSET S
  PROVE  /\ Cardinality(T) \in Nat
         /\ T = {} <=> Cardinality(T) = 0
         /\ \A x \in T : Cardinality(T \ {x}) = Cardinality(T) - 1
         /\ T # {} => Pick(T) \in T
<1>1. IsFiniteSet(T)
  BY FS_Subset
<1>2. Cardinality(T) \in Nat
  BY <1>1, FS_CardinalityType
<1>3. T = {} <=> Cardinality(T) = 0
  BY <1>1, FS_EmptySet
<1>4. \A x \in T : Cardinality(T \ {x}) = Cardinality(T) - 1
  BY <1>1, FS_RemoveElement
<1>5. T # {} => Pick(T) \in T
  BY DEF Pick
<1>6. QED
  BY <1>2, <1>3, <1>4, <1>5

\* Sums up to a size can be extended by one: there is such a function.
LEMMA SumsExist ==
  ASSUME NEW rows, NEW S, Summable(rows, S)
  PROVE  \E iter : Adds(iter, rows, S)
<1> DEFINE Sets(n) == {T \in SUBSET S : Cardinality(T) <= n}
           One(g, T) == IF T = {} THEN 0 ELSE rows[Pick(T)].amount + g[T \ {Pick(T)}]
           G == {n \in Nat : \E g : \A T \in Sets(n) : g[T] = One(g, T)}
<1>1. 0 \in G
  <2> DEFINE g == [T \in SUBSET S |-> 0]
  <2>1. ASSUME NEW T \in Sets(0) PROVE g[T] = One(g, T)
    <3>1. T = {}
      BY Smaller DEF Summable
    <3>2. QED
      BY <3>1
  <2> HIDE DEF g
  <2>2. \E h : \A T \in Sets(0) : h[T] = One(h, T)
    BY <2>1
  <2>3. QED
    BY <2>2
<1>2. ASSUME NEW n \in G PROVE n + 1 \in G
  <2>1. PICK g : \A T \in Sets(n) : g[T] = One(g, T)
    OBVIOUS
  <2> DEFINE h == [T \in SUBSET S |-> One(g, T)]
  <2>2. ASSUME NEW T \in Sets(n + 1) PROVE h[T] = One(h, T)
    <3>1. CASE T = {}
      BY <3>1
    <3>2. CASE T # {}
      <4>1. Pick(T) \in T /\ T \ {Pick(T)} \in Sets(n)
        BY <3>2, Smaller DEF Summable
      <4>2. h[T \ {Pick(T)}] = One(g, T \ {Pick(T)})
        BY <4>1
      <4>3. g[T \ {Pick(T)}] = One(g, T \ {Pick(T)})
        BY <2>1, <4>1
      <4>4. h[T] = One(g, T)
        OBVIOUS
      <4> HIDE DEF h
      <4>5. One(h, T) = One(g, T)
        BY <4>2, <4>3
      <4>6. QED
        BY <4>4, <4>5
    <3>3. QED
      BY <3>1, <3>2
  <2> HIDE DEF h
  <2>3. \E f : \A T \in Sets(n + 1) : f[T] = One(f, T)
    BY <2>2
  <2>4. n + 1 \in Nat
    OBVIOUS
  <2>5. QED
    BY <2>3, <2>4, Zenon
<1> HIDE DEF G
<1>3. G = Nat
  BY <1>1, <1>2, SetInduction DEF G
<1>4. Cardinality(S) \in Nat /\ \A T \in SUBSET S : T \in Sets(Cardinality(S))
  BY FS_CardinalityType, FS_Subset DEF Summable
<1>5. PICK g : \A T \in Sets(Cardinality(S)) : g[T] = One(g, T)
  BY <1>3, <1>4 DEF G
<1> DEFINE iter == [T \in SUBSET S |-> g[T]]
<1>6. Adds(iter, rows, S)
  <2>1. ASSUME NEW T \in SUBSET S PROVE iter[T] = One(iter, T)
    BY <1>4, <1>5
  <2> HIDE DEF iter
  <2>2. iter = [T \in SUBSET S |-> iter[T]]
    BY DEF iter
  <2>3. QED
    BY <2>1, <2>2 DEF Adds
<1>7. QED
  BY <1>6

\* Such a function, one element at a time.
LEMMA AddsOne ==
  ASSUME NEW iter, NEW rows, NEW S, Adds(iter, rows, S), IsFiniteSet(S)
  PROVE  /\ iter[{}] = 0
         /\ \A T \in SUBSET S : T # {} =>
              Pick(T) \in T /\ iter[T] = rows[Pick(T)].amount + iter[T \ {Pick(T)}]
<1>1. \A T \in SUBSET S : T # {} => Pick(T) \in T
  BY Smaller
<1>2. \A T \in SUBSET S :
        iter[T] = IF T = {} THEN 0 ELSE rows[Pick(T)].amount + iter[T \ {Pick(T)}]
  BY DEF Adds
<1>3. {} \in SUBSET S
  OBVIOUS
<1>4. QED
  BY <1>1, <1>2, <1>3

LEMMA AddsType ==
  ASSUME NEW iter, NEW rows, NEW S, Adds(iter, rows, S), Summable(rows, S)
  PROVE  \A T \in SUBSET S : iter[T] \in Nat
<1> DEFINE G == {n \in Nat : \A T \in SUBSET S : Cardinality(T) = n => iter[T] \in Nat}
<1>1. 0 \in G
  <2>1. ASSUME NEW T \in SUBSET S, Cardinality(T) = 0 PROVE iter[T] \in Nat
    <3>1. T = {}
      BY <2>1, Smaller DEF Summable
    <3>2. QED
      BY <3>1, AddsOne DEF Summable
  <2>2. QED
    BY <2>1
<1>2. ASSUME NEW n \in G PROVE n + 1 \in G
  <2>1. ASSUME NEW T \in SUBSET S, Cardinality(T) = n + 1 PROVE iter[T] \in Nat
    <3>1. T # {} /\ Pick(T) \in T /\ Cardinality(T \ {Pick(T)}) = n
      BY <2>1, Smaller DEF Summable
    <3>2. iter[T \ {Pick(T)}] \in Nat /\ rows[Pick(T)].amount \in Nat
      BY <3>1 DEF Summable
    <3>3. QED
      BY <3>1, <3>2, AddsOne DEF Summable
  <2>2. QED
    BY <2>1
<1> HIDE DEF G
<1>3. G = Nat
  BY <1>1, <1>2, SetInduction DEF G
<1>4. QED
  BY <1>3, Smaller DEF G, Summable

\* Any element may be taken last.
LEMMA AddsAny ==
  ASSUME NEW iter, NEW rows, NEW S, Adds(iter, rows, S), Summable(rows, S)
  PROVE  \A T \in SUBSET S : \A x \in T : iter[T] = rows[x].amount + iter[T \ {x}]
<1> DEFINE G == {n \in Nat : \A T \in SUBSET S : Cardinality(T) = n =>
                   \A x \in T : iter[T] = rows[x].amount + iter[T \ {x}]}
<1>0. \A T \in SUBSET S : T # {} => iter[T] = rows[Pick(T)].amount + iter[T \ {Pick(T)}]
  <2>1. IsFiniteSet(S)
    BY DEF Summable
  <2>2. QED
    BY <2>1, AddsOne
<1>1. 0 \in G
  BY Smaller DEF Summable
<1>2. ASSUME NEW n \in G PROVE n + 1 \in G
  <2>1. ASSUME NEW T \in SUBSET S, Cardinality(T) = n + 1, NEW x \in T
        PROVE  iter[T] = rows[x].amount + iter[T \ {x}]
    <3> DEFINE p == Pick(T)
    <3>1. /\ p \in T
          /\ T \ {p} \in SUBSET S /\ Cardinality(T \ {p}) = n
          /\ T \ {x} \in SUBSET S /\ Cardinality(T \ {x}) = n
      BY <2>1, Smaller DEF Summable
    <3>2. iter[T] = rows[p].amount + iter[T \ {p}]
      BY <1>0, <2>1
    <3>3. CASE x # p
      <4>1. iter[T \ {p}] = rows[x].amount + iter[(T \ {p}) \ {x}]
        BY <3>1, <3>3
      <4>2. iter[T \ {x}] = rows[p].amount + iter[(T \ {x}) \ {p}]
        BY <3>1, <3>3
      <4>3. (T \ {p}) \ {x} = (T \ {x}) \ {p}
        OBVIOUS
      <4>4. iter[(T \ {p}) \ {x}] \in Nat
        BY AddsType, <3>1
      <4>5. rows[p].amount \in Nat /\ rows[x].amount \in Nat
        BY <3>1 DEF Summable
      <4>6. PICK a \in Nat, b \in Nat, rest \in Nat :
              a = rows[p].amount /\ b = rows[x].amount /\ rest = iter[(T \ {p}) \ {x}]
        BY <4>4, <4>5
      <4>7. iter[T] = a + (b + rest)
        BY <3>2, <4>1, <4>6
      <4>8. iter[T \ {x}] = a + rest
        BY <4>2, <4>3, <4>6
      <4>9. QED
        BY <4>6, <4>7, <4>8
    <3>4. QED
      BY <3>2, <3>3
  <2>2. QED
    BY <2>1
<1> HIDE DEF G
<1>3. G = Nat
  BY <1>1, <1>2, SetInduction DEF G
<1>4. QED
  BY <1>3, Smaller DEF G, Summable

\* Two of them agree where their rows do.
LEMMA AddsAgree ==
  ASSUME NEW iter, NEW rows, NEW S, Adds(iter, rows, S), IsFiniteSet(S),
         NEW jter, NEW more, NEW R, Adds(jter, more, R), IsFiniteSet(R),
         NEW T, T \subseteq S, T \subseteq R,
         \A n \in T : rows[n].amount = more[n].amount
  PROVE  iter[T] = jter[T]
<1> DEFINE G == {n \in Nat : \A U \in SUBSET T : Cardinality(U) = n => iter[U] = jter[U]}
<1>0. /\ \A U \in SUBSET T : U # {} => iter[U] = rows[Pick(U)].amount + iter[U \ {Pick(U)}]
      /\ \A U \in SUBSET T : U # {} => jter[U] = more[Pick(U)].amount + jter[U \ {Pick(U)}]
  <2>1. \A U \in SUBSET T : U \in SUBSET S /\ U \in SUBSET R
    OBVIOUS
  <2>2. \A U \in SUBSET S : U # {} => iter[U] = rows[Pick(U)].amount + iter[U \ {Pick(U)}]
    BY AddsOne
  <2>3. \A U \in SUBSET R : U # {} => jter[U] = more[Pick(U)].amount + jter[U \ {Pick(U)}]
    BY AddsOne
  <2>4. QED
    BY <2>1, <2>2, <2>3
<1>1. 0 \in G
  <2>1. \A U \in SUBSET T : Cardinality(U) = 0 => U = {} /\ U \in SUBSET S /\ U \in SUBSET R
    BY Smaller
  <2>2. QED
    BY <2>1, AddsOne
<1>2. ASSUME NEW n \in G PROVE n + 1 \in G
  <2>1. ASSUME NEW U \in SUBSET T, Cardinality(U) = n + 1 PROVE iter[U] = jter[U]
    <3>1. U \in SUBSET S /\ U \in SUBSET R
      OBVIOUS
    <3>2. U # {} /\ Pick(U) \in U /\ Cardinality(U \ {Pick(U)}) = n
      BY <2>1, <3>1, Smaller
    <3>3. iter[U \ {Pick(U)}] = jter[U \ {Pick(U)}] /\ rows[Pick(U)].amount = more[Pick(U)].amount
      BY <3>2
    <3>4. QED
      BY <3>2, <3>3, <1>0
  <2>2. QED
    BY <2>1
<1> HIDE DEF G
<1>3. G = Nat
  BY <1>1, <1>2, SetInduction DEF G
<1>4. T \in SUBSET S /\ Cardinality(T) \in Nat
  BY Smaller
<1>5. QED
  BY <1>3, <1>4 DEF G

LEMMA SumBy ==
  ASSUME NEW rows, NEW S, Summable(rows, S)
  PROVE  \E iter : Adds(iter, rows, S) /\ SumOf(rows, S) = iter[S]
BY SumsExist, SumIs, Zenon

\* What the proofs use of sums: that of no rows, of the same amounts, and of one
\* row more.
LEMMA SumOfNone == ASSUME NEW rows PROVE SumOf(rows, {}) = 0
<1>1. Summable(rows, {})
  BY FS_EmptySet DEF Summable
<1>2. PICK iter : Adds(iter, rows, {}) /\ SumOf(rows, {}) = iter[{}]
  BY <1>1, SumBy
<1>3. iter[{}] = 0
  BY <1>2 DEF Adds
<1>4. QED
  BY <1>2, <1>3

LEMMA SumOfSame ==
  ASSUME NEW rows, NEW more, NEW S, Summable(rows, S),
         \A n \in S : more[n].amount = rows[n].amount
  PROVE  SumOf(more, S) = SumOf(rows, S)
<1>1. Summable(more, S)
  BY DEF Summable
<1>2. PICK iter : Adds(iter, rows, S) /\ SumOf(rows, S) = iter[S]
  BY SumBy
<1>3. PICK jter : Adds(jter, more, S) /\ SumOf(more, S) = jter[S]
  BY <1>1, SumBy
<1>4. QED
  BY <1>2, <1>3, AddsAgree DEF Summable

LEMMA SumOfOneMore ==
  ASSUME NEW rows, NEW S, NEW x, x \notin S, Summable(rows, S \cup {x})
  PROVE  SumOf(rows, S \cup {x}) = SumOf(rows, S) + rows[x].amount /\ SumOf(rows, S) \in Nat
<1> DEFINE all == S \cup {x}
<1>1. Summable(rows, S) /\ S \subseteq all /\ all \ {x} = S
  BY FS_Subset DEF Summable
<1>2. PICK iter : Adds(iter, rows, all) /\ SumOf(rows, all) = iter[all]
  BY SumBy
<1>3. PICK jter : Adds(jter, rows, S) /\ SumOf(rows, S) = jter[S]
  BY <1>1, SumBy
<1>4. iter[all] = rows[x].amount + iter[S]
  BY <1>1, <1>2, AddsAny
<1>5. iter[S] = jter[S]
  BY <1>1, <1>2, <1>3, AddsAgree DEF Summable
<1>6. iter[S] \in Nat /\ rows[x].amount \in Nat
  BY <1>1, <1>2, AddsType DEF Summable
<1>7. QED
  BY <1>2, <1>3, <1>4, <1>5, <1>6

-----------------------------------------------------------------------------
\* What was paid.

Service(i) == {n \in DOMAIN payments : payments[n].invoice = i /\ payments[n].source = "service"}

\* An invoice that is still to come has no payments, and no edit brings a row
\* back that never was.
PaidInv ==
  /\ PaidIsExplained
  /\ \A i \in Invoices : invoices[i].state = "absent" => invoices[i].paid = 0
  /\ \A w \in Workers : pc[w] = "editing" => seen[w].state # "absent"

LEMMA RecordedIs ==
  ASSUME NEW i \in Invoices
  PROVE  Recorded(i) = SumOf(payments, Service(i)) /\ Recorded(i)' = SumOf(payments', Service(i)')
<1>1. Recorded(i) = SumOf(payments, Service(i))
  BY Zenon DEF Recorded, SumOf, Service, MapThenSumSet, MapThenFoldSet
<1>2. Recorded(i)' = SumOf(payments', Service(i)')
  BY Zenon DEF Recorded, SumOf, Service, MapThenSumSet, MapThenFoldSet
<1>3. QED
  BY <1>1, <1>2

LEMMA ServiceSums ==
  ASSUME payments \in Seq(Payment), NEW S \in SUBSET DOMAIN payments
  PROVE  Summable(payments, S)
<1>1. DOMAIN payments = 1 .. Len(payments) /\ Len(payments) \in Nat
  OBVIOUS
<1>2. IsFiniteSet(S)
  <2>1. IsFiniteSet(1 .. Len(payments))
    BY <1>1, FS_Interval
  <2>2. S \in SUBSET (1 .. Len(payments))
    BY <1>1
  <2>3. QED
    BY <2>1, <2>2, FS_Subset
<1>3. \A n \in S : payments[n] \in Payment
  OBVIOUS
<1>4. QED
  BY <1>2, <1>3 DEF Summable, Payment

LEMMA PaidStart == Init => PaidInv
<1> SUFFICES ASSUME Init PROVE PaidInv
  OBVIOUS
<1>1. ASSUME NEW i \in Invoices PROVE invoices[i].paid = Recorded(i)
  <2>1. Service(i) = {} /\ invoices[i].paid = 0
    BY DEF Init, Service, NoInvoice
  <2>2. QED
    BY <2>1, RecordedIs, SumOfNone
<1>2. QED
  BY <1>1 DEF Init, PaidInv, PaidIsExplained, NoInvoice

\* The payments there are stay as they are, but for being deleted.
LEMMA SameRecorded ==
  ASSUME payments \in Seq(Payment), NEW i \in Invoices, Service(i)' = Service(i),
         \A n \in DOMAIN payments : payments'[n].amount = payments[n].amount
  PROVE  Recorded(i)' = Recorded(i)
<1>1. Summable(payments, Service(i))
  BY ServiceSums DEF Service
<1>2. SumOf(payments', Service(i)) = SumOf(payments, Service(i))
  BY <1>1, SumOfSame DEF Service
<1>3. QED
  BY <1>2, RecordedIs

\* Rows change that keep what they say was paid.
LEMMA PaidKept ==
  ASSUME IInv, PaidInv,
         \A i \in Invoices : Recorded(i)' = Recorded(i),
         \A i \in Invoices : invoices'[i].paid = invoices[i].paid \/ i \in overwritten',
         \A i \in Invoices : invoices'[i].state = "absent" => invoices'[i] = invoices[i],
         \A w \in Workers : pc'[w] = "editing" => seen'[w].state # "absent",
         overwritten \subseteq overwritten'
  PROVE  PaidInv'
BY DEF PaidInv, PaidIsExplained

LEMMA RecordedKept ==
  ASSUME IInv, UNCHANGED payments
  PROVE  \A i \in Invoices : Recorded(i)' = Recorded(i)
BY SameRecorded DEF IInv, TypeOK, Service

LEMMA PaidRowStep ==
  ASSUME IInv, PaidInv, NEW i \in Invoices, NEW row, row.state # "absent",
         row.paid = invoices[i].paid,
         invoices' = [invoices EXCEPT ![i] = row],
         UNCHANGED <<payments, pc, seen, overwritten>>
  PROVE  PaidInv'
<1>1. \A j \in Invoices : Recorded(j)' = Recorded(j)
  BY RecordedKept
<1>2. QED
  BY <1>1, PaidKept DEF PaidInv, IInv, TypeOK

LEMMA PaidBegins ==
  ASSUME IInv, PaidInv, NEW i \in Invoices, NEW total \in Totals,
         BillUpgrade(i, total) \/ CreateInvoice(i, total)
  PROVE  PaidInv'
<1>1. CASE BillUpgrade(i, total)
  BY <1>1, PaidRowStep DEF BillUpgrade, NoInvoice, PaidInv
<1>2. CASE CreateInvoice(i, total)
  BY <1>2, PaidRowStep DEF CreateInvoice, NoInvoice, PaidInv
<1>3. QED
  BY <1>1, <1>2

LEMMA PaidRemoves ==
  ASSUME IInv, PaidInv, NEW i \in Invoices, DeleteInvoice(i)
  PROVE  PaidInv'
<1>1. invoices[i] \in Invoice
  BY DEF IInv, TypeOK
<1>2. /\ [invoices[i] EXCEPT !.state = "deleted"].state = "deleted"
      /\ [invoices[i] EXCEPT !.state = "deleted"].paid = invoices[i].paid
  BY <1>1 DEF Invoice
<1>3. invoices' = [invoices EXCEPT ![i] = [invoices[i] EXCEPT !.state = "deleted"]]
  BY DEF DeleteInvoice
<1>4. QED
  BY <1>2, <1>3, PaidRowStep DEF DeleteInvoice

LEMMA RecordedType ==
  ASSUME payments \in Seq(Payment), NEW i \in Invoices
  PROVE  Recorded(i) \in Nat
<1>1. Summable(payments, Service(i))
  BY ServiceSums DEF Service
<1>2. PICK iter : Adds(iter, payments, Service(i)) /\ SumOf(payments, Service(i)) = iter[Service(i)]
  BY <1>1, SumBy
<1>3. QED
  BY <1>1, <1>2, AddsType, RecordedIs

\* The paid amount in whole units takes a payment as the column rounds it.
LEMMA RoundingAdds ==
  ASSUME NEW paid \in Nat, NEW amount \in Nat
  PROVE  Rounded(Scale * paid + amount) = paid + Rounded(amount) /\ Rounded(amount) \in Nat
BY DEF Rounded, Scale

LEMMA SettledPaid ==
  ASSUME NEW row \in Invoice, NEW amount \in Nat
  PROVE  Settled(row, amount).paid = row.paid + Rounded(amount)
<1>1. Settled(row, amount).paid = Rounded(Scale * row.paid + amount)
  BY DEF Settled, Invoice
<1>2. QED
  BY <1>1, RoundingAdds DEF Invoice

\* A payment row is added: of what it pays for, if the service added it, the sum
\* rises by its amount.
LEMMA RecordedAdded ==
  ASSUME payments \in Seq(Payment), NEW p \in Payment, payments' = Append(payments, p),
         NEW i \in Invoices
  PROVE  Recorded(i)' = Recorded(i) + IF p.invoice = i /\ p.source = "service" THEN p.amount ELSE 0
<1> DEFINE last == Len(payments) + 1
<1>1. /\ payments' \in Seq(Payment)
      /\ DOMAIN payments' = DOMAIN payments \cup {last} /\ last \notin DOMAIN payments
      /\ \A n \in DOMAIN payments : payments'[n] = payments[n]
      /\ payments'[last] = p
  <2>1. /\ payments' \in Seq(Payment)
        /\ Len(payments') = Len(payments) + 1
        /\ \A n \in 1 .. Len(payments) : payments'[n] = payments[n]
        /\ payments'[Len(payments) + 1] = p
    BY AppendProperties
  <2>2. QED
    BY <2>1
<1> HIDE DEF last
<1>2. CASE p.invoice = i /\ p.source = "service"
  <2>1. Service(i)' = Service(i) \cup {last} /\ last \notin Service(i)
    BY <1>1, <1>2 DEF Service
  <2>2. Summable(payments, Service(i))
    BY ServiceSums DEF Service
  <2>3. SumOf(payments', Service(i)) = SumOf(payments, Service(i))
    BY <1>1, <2>2, SumOfSame DEF Service
  <2>4. Summable(payments', Service(i) \cup {last})
    <3>1. IsFiniteSet(Service(i) \cup {last})
      BY <2>2, FS_AddElement DEF Summable
    <3>2. \A n \in Service(i) \cup {last} : payments'[n] \in Payment
      BY <1>1 DEF Service
    <3>3. QED
      BY <3>1, <3>2 DEF Summable, Payment
  <2>5. SumOf(payments', Service(i) \cup {last}) = SumOf(payments', Service(i)) + p.amount
    <3>1. PICK rows, S : rows = payments' /\ S = Service(i)
      OBVIOUS
    <3>2. Summable(rows, S \cup {last}) /\ last \notin S
      BY <2>1, <2>4, <3>1
    <3>3. SumOf(rows, S \cup {last}) = SumOf(rows, S) + rows[last].amount
      BY <3>2, SumOfOneMore
    <3>4. QED
      BY <1>1, <3>1, <3>3
  <2>6. QED
    BY <1>2, <2>1, <2>3, <2>5, RecordedIs
<1>3. CASE ~(p.invoice = i /\ p.source = "service")
  <2>1. Service(i)' = Service(i)
    BY <1>1, <1>3 DEF Service
  <2>2. Recorded(i)' = Recorded(i)
    BY <1>1, <2>1, SameRecorded
  <2>3. Recorded(i) \in Nat
    BY RecordedType
  <2>4. QED
    BY <1>3, <2>2, <2>3
<1>4. QED
  BY <1>2, <1>3

LEMMA PaidCommits ==
  ASSUME IInv, PaidInv, NEW w \in Workers, CommitPayment(w)
  PROVE  PaidInv'
<1> USE DEF IInv
<1>1. PICK i \in Invoices : i = req[w].invoice
  BY DEF CommitPayment, RequestInv, Request
<1>2. /\ seen[w] = invoices[i] /\ invoices[i] \in Invoice /\ invoices[i].state = "live"
      /\ req[w] \in Request /\ req[w].amount \in Nat
  BY <1>1 DEF CommitPayment, TypeOK, RequestInv, LockInv, InTransaction, Paying, Request
<1> DEFINE p == [invoice |-> i, amount |-> Rounded(req[w].amount), key |-> req[w].key,
                 source |-> "service", deleted |-> FALSE]
<1>3. p \in Payment /\ p.invoice = i /\ p.source = "service" /\ p.amount = Rounded(req[w].amount)
  BY <1>2, RoundingAdds DEF Payment, Request
<1>4. payments' = Append(payments, p)
  BY <1>1 DEF CommitPayment
<1> HIDE DEF p
<1>5. /\ Recorded(i)' = Recorded(i) + Rounded(req[w].amount)
      /\ \A j \in Invoices \ {i} : Recorded(j)' = Recorded(j) + 0
  BY <1>3, <1>4, RecordedAdded DEF TypeOK
<1>6. /\ invoices'[i].paid = invoices[i].paid + Rounded(req[w].amount)
      /\ invoices'[i].state = "live"
      /\ \A j \in Invoices \ {i} : invoices'[j] = invoices[j]
  <2>1. Settled(invoices[i], req[w].amount).paid = invoices[i].paid + Rounded(req[w].amount)
    BY <1>2, SettledPaid
  <2>2. QED
    BY <1>1, <1>2, <2>1 DEF CommitPayment, TypeOK, Invoice
<1>7. \A v \in Workers : pc'[v] = "editing" => pc[v] = "editing" /\ seen'[v] = seen[v]
  BY DEF CommitPayment, Answer, TypeOK
<1>8. \A j \in Invoices : Recorded(j) \in Nat
  BY RecordedType DEF TypeOK
<1>9. overwritten' = overwritten
  BY DEF CommitPayment
<1>10. PaidIsExplained'
  <2>1. ASSUME NEW j \in Invoices \ overwritten PROVE invoices'[j].paid = Recorded(j)'
    <3>1. CASE j = i
      BY <1>5, <1>6, <3>1 DEF PaidInv, PaidIsExplained
    <3>2. CASE j # i
      BY <1>5, <1>6, <1>8, <3>2 DEF PaidInv, PaidIsExplained
    <3>3. QED
      BY <3>1, <3>2
  <2>2. QED
    BY <2>1, <1>9 DEF PaidIsExplained
<1>11. QED
  BY <1>6, <1>7, <1>10 DEF PaidInv

\* An edit puts back the paid amount it read, and when it had moved, the invoice
\* is overwritten.
LEMMA PaidSaves ==
  ASSUME IInv, PaidInv, NEW w \in Workers, SaveEdit(w)
  PROVE  PaidInv'
<1> USE DEF IInv
<1>1. PICK i \in Invoices : i = req[w].invoice
  BY DEF SaveEdit, RequestInv, Request
<1>2. PICK new : /\ new \in {seen[w]}
                     \cup {[seen[w] EXCEPT !.total = t, !.manual = TRUE] : t \in Totals}
                     \cup {[seen[w] EXCEPT !.status = s, !.manual = TRUE] : s \in EditStatuses}
                 /\ invoices' = [invoices EXCEPT ![i] = new]
  BY <1>1 DEF SaveEdit
<1>3. seen[w] \in Invoice /\ seen[w].state # "absent"
  BY DEF SaveEdit, TypeOK, PaidInv
<1>4. new.paid = seen[w].paid /\ new.state # "absent"
  BY <1>2, <1>3 DEF Invoice
<1>5. seen[w].paid = invoices[i].paid \/ i \in overwritten'
  BY <1>1 DEF SaveEdit
<1>6. overwritten \subseteq overwritten' /\ payments' = payments
      /\ \A v \in Workers : pc'[v] = "editing" => pc[v] = "editing" /\ seen'[v] = seen[v]
  BY DEF SaveEdit, Answer, TypeOK
<1>7. \A j \in Invoices : Recorded(j)' = Recorded(j)
  BY <1>6, RecordedKept
<1>8. QED
  BY <1>2, <1>4, <1>5, <1>6, <1>7, PaidKept DEF TypeOK, PaidInv

LEMMA PaidPosts ==
  ASSUME IInv, PaidInv, NEW i \in Invoices, PostPayment(i)
  PROVE  PaidInv'
<1> USE DEF IInv
<1>1. PICK amount \in Amounts, k \in AnyKey :
        payments' = Append(payments, [invoice |-> i, amount |-> Rounded(amount), key |-> k,
                                      source |-> "crud", deleted |-> FALSE])
  BY DEF PostPayment
<1> DEFINE p == [invoice |-> i, amount |-> Rounded(amount), key |-> k,
                 source |-> "crud", deleted |-> FALSE]
<1>2. p \in Payment /\ p.source = "crud"
  BY PaymentsAssumption, RoundingAdds DEF Payment
<1> HIDE DEF p
<1>3. \A j \in Invoices : Recorded(j)' = Recorded(j) + 0
  BY <1>1, <1>2, RecordedAdded DEF TypeOK, p
<1>4. \A j \in Invoices : Recorded(j) \in Nat
  BY RecordedType DEF TypeOK
<1>5. \A j \in Invoices : Recorded(j)' = Recorded(j)
  BY <1>3, <1>4
<1>6. QED
  BY <1>5, PaidKept DEF PostPayment, PaidInv

LEMMA PaidDeletes ==
  ASSUME IInv, PaidInv, NEW n \in DOMAIN payments, DeletePayment(n)
  PROVE  PaidInv'
<1>1. /\ payments \in Seq(Payment) /\ payments[n] \in Payment
      /\ payments' = [payments EXCEPT ![n].deleted = TRUE]
  BY DEF IInv, TypeOK, DeletePayment
<1>2. /\ DOMAIN payments' = DOMAIN payments
      /\ \A m \in DOMAIN payments : /\ payments'[m].amount = payments[m].amount
                                    /\ payments'[m].invoice = payments[m].invoice
                                    /\ payments'[m].source = payments[m].source
  BY <1>1 DEF Payment
<1>3. \A i \in Invoices : Service(i)' = Service(i)
  BY <1>2 DEF Service
<1>4. \A i \in Invoices : Recorded(i)' = Recorded(i)
  BY <1>1, <1>2, <1>3, SameRecorded
<1>5. QED
  BY <1>4, PaidKept DEF DeletePayment, PaidInv

LEMMA PaidStep == IInv /\ PaidInv /\ [Next]_vars => PaidInv'
<1> SUFFICES ASSUME IInv, PaidInv, [Next]_vars PROVE PaidInv'
  OBVIOUS
<1>1. CASE UNCHANGED <<invoices, payments, overwritten>>
           /\ \A w \in Workers : pc'[w] = "editing" => seen'[w].state # "absent"
  <2>1. \A i \in Invoices : Recorded(i)' = Recorded(i)
    BY <1>1, RecordedKept
  <2>2. QED
    BY <1>1, <2>1, PaidKept DEF PaidInv
<1>2. ASSUME NEW w \in Workers, CheckKey(w) \/ LockInvoice(w) \/ InsertPayment(w) \/ Crash(w)
      PROVE  PaidInv'
  <2>1. UNCHANGED <<invoices, payments, overwritten>>
    BY <1>2 DEF CheckKey, LockInvoice, InsertPayment, Crash
  <2>2. \A v \in Workers : pc'[v] = "editing" => pc[v] = "editing" /\ seen'[v] = seen[v]
    BY <1>2 DEF CheckKey, LockInvoice, InsertPayment, Crash, Answer, Goto, InTransaction, IInv, TypeOK
  <2>3. QED
    BY <1>1, <2>1, <2>2 DEF PaidInv
<1>3. ASSUME NEW w \in Workers, NEW i \in Invoices, RecordPayment(w, i) \/ BeginEdit(w, i)
      PROVE  PaidInv'
  <2>1. UNCHANGED <<invoices, payments, overwritten>> /\ invoices[i].state = "live"
    BY <1>3 DEF RecordPayment, BeginEdit, Live
  <2>2. \A v \in Workers : pc'[v] = "editing" =>
          (pc[v] = "editing" /\ seen'[v] = seen[v]) \/ seen'[v] = invoices[i]
    BY <1>3 DEF RecordPayment, BeginEdit, Goto, IInv, TypeOK
  <2>3. QED
    BY <1>1, <2>1, <2>2 DEF PaidInv
<1>4. CASE UNCHANGED vars
  BY <1>1, <1>4 DEF vars, PaidInv
<1>5. ASSUME NEW i \in Invoices, DeleteInvoice(i) PROVE PaidInv'
  BY <1>5, PaidRemoves
<1>6. QED
  BY <1>2, <1>3, <1>4, <1>5, PaidBegins, PaidCommits, PaidSaves, PaidPosts, PaidDeletes DEF Next

\* Payments: the paid amount of an invoice is the sum of the payments recorded on
\* it, for any number of payments and whatever workers race, but where an edit
\* saved over a paid amount that had moved.
THEOREM PaidCorrect == Spec => []PaidIsExplained
<1>1. PaidInv => PaidIsExplained
  BY DEF PaidInv
<1>2. QED
  BY <1>1, Start, Step, PaidStart, PaidStep, PTL DEF Spec

-----------------------------------------------------------------------------
\* Payments as KeyedPayments sees them.

\* A request under way is for an amount a client sent.
AskedInv == \A w \in Workers : pc[w] \in Paying => req[w].amount \in Amounts

LEMMA AskedStep == IInv /\ AskedInv /\ [Next]_vars => AskedInv'
<1> SUFFICES ASSUME IInv, AskedInv, [Next]_vars PROVE AskedInv'
  OBVIOUS
<1> USE DEF IInv, TypeOK, AskedInv, Paying, InTransaction
<1>1. ASSUME NEW w \in Workers, NEW i \in Invoices, RecordPayment(w, i) PROVE AskedInv'
  <2>1. PICK amount \in Amounts, key \in AnyKey :
          req' = [req EXCEPT ![w] = [invoice |-> i, amount |-> amount, key |-> key]]
    BY <1>1 DEF RecordPayment
  <2>2. pc' = [pc EXCEPT ![w] = "checking"]
    BY <1>1 DEF RecordPayment, Goto
  <2>3. QED
    BY <2>1, <2>2
<1>2. ASSUME NEW w \in Workers, NEW i \in Invoices, BeginEdit(w, i) PROVE AskedInv'
  BY <1>2 DEF BeginEdit, Goto
<1>3. ASSUME NEW w \in Workers, Answer(w) PROVE AskedInv'
  BY <1>3 DEF Answer
<1>4. ASSUME NEW w \in Workers, NEW state, pc[w] \in Paying, Goto(w, state), req' = req
      PROVE  AskedInv'
  BY <1>4 DEF Goto
<1>5. ASSUME UNCHANGED <<pc, req>> PROVE AskedInv'
  BY <1>5
<1>6. ASSUME NEW w \in Workers, CheckKey(w) PROVE AskedInv'
  BY <1>3, <1>4, <1>6 DEF CheckKey
<1>7. ASSUME NEW w \in Workers, LockInvoice(w) PROVE AskedInv'
  BY <1>3, <1>4, <1>7 DEF LockInvoice
<1>8. ASSUME NEW w \in Workers, InsertPayment(w) PROVE AskedInv'
  BY <1>3, <1>4, <1>8 DEF InsertPayment
<1>9. ASSUME NEW w \in Workers, CommitPayment(w) \/ Crash(w) \/ SaveEdit(w) PROVE AskedInv'
  BY <1>3, <1>9 DEF CommitPayment, Crash, SaveEdit
<1>10. CASE \/ \E i \in Invoices, total \in Totals : BillUpgrade(i, total) \/ CreateInvoice(i, total)
            \/ \E i \in Invoices : DeleteInvoice(i) \/ PostPayment(i)
            \/ \E n \in DOMAIN payments : DeletePayment(n)
            \/ UNCHANGED vars
  BY <1>5, <1>10 DEF BillUpgrade, CreateInvoice, DeleteInvoice, PostPayment, DeletePayment, vars
<1>11. QED
  BY <1>1, <1>2, <1>6, <1>7, <1>8, <1>9, <1>10 DEF Next

\* Rows that pay the same under the same keys are the same payments.
LEMMA SameRecords ==
  ASSUME payments \in Seq(Payment), payments' \in Seq(Payment), Len(payments') = Len(payments),
         \A n \in DOMAIN payments :
           /\ payments'[n].key = payments[n].key /\ payments'[n].invoice = payments[n].invoice
           /\ payments'[n].amount = payments[n].amount
  PROVE  RecordedOf' = RecordedOf
<1>1. DOMAIN payments' = DOMAIN payments
  OBVIOUS
<1>2. QED
  BY <1>1 DEF RecordedOf

\* A row that is added is a payment that is added.
LEMMA RowRefines ==
  ASSUME payments \in Seq(Payment), NEW p \in Payment, payments' = Append(payments, p),
         NEW amount \in Amounts, p.amount = Rounded(amount), ~Duplicate(p.key),
         Deliver(p.key, Len(payments) + 1)
  PROVE  Keyed!Next
<1> DEFINE entry == [key |-> p.key, invoice |-> p.invoice, amount |-> p.amount]
           last  == Len(payments) + 1
<1>1. /\ payments' \in Seq(Payment)
      /\ Len(payments) \in Nat /\ Len(payments') = last
      /\ DOMAIN payments = 1 .. Len(payments) /\ DOMAIN payments' = 1 .. last
      /\ \A n \in 1 .. Len(payments) : payments'[n] = payments[n]
      /\ payments'[last] = p
  <2>1. /\ payments' \in Seq(Payment)
        /\ Len(payments') = Len(payments) + 1
        /\ \A n \in 1 .. Len(payments) : payments'[n] = payments[n]
        /\ payments'[Len(payments) + 1] = p
    BY AppendProperties
  <2>2. QED
    BY <2>1
<1>2. entry \in Entries
  BY DEF Entries, Payment
<1>3. DOMAIN RecordedOf = 1 .. Len(payments) /\ RecordedOf \in Seq(Entries \cup {RecordedOf[n] : n \in 1 .. Len(payments)})
  BY <1>1 DEF RecordedOf
<1>4. Len(RecordedOf) = Len(payments)
  BY <1>1, <1>3
<1>5. RecordedOf' = Append(RecordedOf, entry)
  <2>1. RecordedOf' = [n \in 1 .. last |-> IF n = last THEN entry ELSE RecordedOf[n]]
    <3>1. \A n \in 1 .. last : n # last => n \in 1 .. Len(payments)
      BY <1>1
    <3>2. RecordedOf' = [n \in 1 .. last |->
            [key |-> payments'[n].key, invoice |-> payments'[n].invoice, amount |-> payments'[n].amount]]
      BY <1>1 DEF RecordedOf
    <3>3. \A n \in 1 .. last :
            [key |-> payments'[n].key, invoice |-> payments'[n].invoice, amount |-> payments'[n].amount]
              = IF n = last THEN entry ELSE RecordedOf[n]
      BY <1>1, <3>1 DEF RecordedOf
    <3>4. QED
      BY <3>2, <3>3
  <2>2. Append(RecordedOf, entry) = [n \in 1 .. last |-> IF n = last THEN entry ELSE RecordedOf[n]]
    BY <1>3, <1>4 DEF Append
  <2>3. QED
    BY <2>1, <2>2
<1>6. entry.key # NoKey => \A n \in DOMAIN RecordedOf : RecordedOf[n].key # entry.key
  BY <1>1, <1>3 DEF RecordedOf, Duplicate, WithKey
<1>7. \/ entry.key \in Keys /\ Keyed!Tell(entry.key, Len(RecordedOf) + 1)
      \/ UNCHANGED told
  BY <1>4 DEF Deliver, Keyed!Tell
<1>8. Keyed!Record(entry)
  BY <1>5, <1>6, <1>7 DEF Keyed!Record
<1>9. QED
  BY <1>2, <1>8 DEF Keyed!Next

LEMMA KeyedStart == Init => Keyed!Init
BY DEF Init, Keyed!Init, RecordedOf

LEMMA KeyedStep == IInv /\ AskedInv /\ [Next]_vars => [Keyed!Next]_(Keyed!vars)
<1> SUFFICES ASSUME IInv, AskedInv, [Next]_vars PROVE Keyed!Next \/ UNCHANGED Keyed!vars
  OBVIOUS
<1> USE DEF IInv, TypeOK
<1>1. ASSUME UNCHANGED <<payments, told>> PROVE UNCHANGED Keyed!vars
  BY <1>1 DEF RecordedOf, Keyed!vars
<1>2. ASSUME NEW w \in Workers, CheckKey(w) PROVE Keyed!Next \/ UNCHANGED Keyed!vars
  <2>1. CASE UNCHANGED told
    BY <1>1, <1>2, <2>1 DEF CheckKey
  <2>2. CASE told' # told
    <3>1. PICK n \in DOMAIN payments :
            /\ payments[n].key = req[w].key /\ req[w].key \in Keys
            /\ told' = [told EXCEPT ![req[w].key] = @ \cup {n}]
      BY <1>2, <2>2 DEF CheckKey, Deliver, WithKey
    <3>2. RecordedOf' = RecordedOf /\ n \in DOMAIN RecordedOf /\ RecordedOf[n].key = req[w].key
      BY <1>2, <3>1 DEF CheckKey, RecordedOf
    <3>3. Keyed!Repeat(req[w].key, n)
      BY <3>1, <3>2 DEF Keyed!Repeat, Keyed!Tell
    <3>4. QED
      BY <3>1, <3>2, <3>3 DEF Keyed!Next
  <2>3. QED
    BY <2>1, <2>2
<1>3. ASSUME NEW w \in Workers, CommitPayment(w) PROVE Keyed!Next
  <2> DEFINE p == [invoice |-> req[w].invoice, amount |-> Rounded(req[w].amount), key |-> req[w].key,
                   source |-> "service", deleted |-> FALSE]
  <2>1. pc[w] = "inserted" /\ pc[w] \in Paying /\ req[w] \in Request /\ req[w].amount \in Amounts
    BY <1>3 DEF CommitPayment, RequestInv, AskedInv, Paying, InTransaction
  <2>2. Rounded(req[w].amount) \in Nat
    BY <2>1, RoundingAdds DEF Request
  <2>3. p \in Payment
    BY <2>1, <2>2 DEF Payment, Request
  <2>4. ~Duplicate(p.key)
    BY <2>1 DEF KeyInv, Duplicate, WithKey
  <2>5. payments' = Append(payments, p) /\ Deliver(p.key, Len(payments) + 1)
    BY <1>3 DEF CommitPayment
  <2>6. p.amount = Rounded(req[w].amount)
    OBVIOUS
  <2> HIDE DEF p
  <2>7. QED
    BY <2>1, <2>3, <2>4, <2>5, <2>6, RowRefines
<1>4. ASSUME NEW i \in Invoices, PostPayment(i) PROVE Keyed!Next
  <2>1. PICK amount \in Amounts, k \in AnyKey :
          /\ ~Duplicate(k)
          /\ payments' = Append(payments,
               [invoice |-> i, amount |-> Rounded(amount), key |-> k, source |-> "crud", deleted |-> FALSE])
    BY <1>4 DEF PostPayment
  <2> DEFINE p == [invoice |-> i, amount |-> Rounded(amount), key |-> k, source |-> "crud", deleted |-> FALSE]
  <2>2. amount \in Nat
    BY PaymentsAssumption
  <2>3. Rounded(amount) \in Nat
    BY <2>2, RoundingAdds
  <2>4. p \in Payment /\ p.key = k /\ p.amount = Rounded(amount)
    BY <2>3 DEF Payment
  <2>5. Deliver(p.key, Len(payments) + 1)
    BY <1>4 DEF PostPayment, Deliver
  <2>6. payments' = Append(payments, p)
    BY <2>1
  <2> HIDE DEF p
  <2>7. QED
    BY <2>1, <2>4, <2>5, <2>6, RowRefines
<1>5. ASSUME NEW n \in DOMAIN payments, DeletePayment(n) PROVE UNCHANGED Keyed!vars
  <2>1. payments' = [payments EXCEPT ![n].deleted = TRUE] /\ told' = told
    BY <1>5 DEF DeletePayment
  <2>2. PICK p \in Payment :
          /\ p = [payments[n] EXCEPT !.deleted = TRUE]
          /\ p.key = payments[n].key /\ p.invoice = payments[n].invoice /\ p.amount = payments[n].amount
    <3>1. payments[n] \in Payment
      OBVIOUS
    <3>2. /\ [payments[n] EXCEPT !.deleted = TRUE] \in Payment
          /\ [payments[n] EXCEPT !.deleted = TRUE].key = payments[n].key
          /\ [payments[n] EXCEPT !.deleted = TRUE].invoice = payments[n].invoice
          /\ [payments[n] EXCEPT !.deleted = TRUE].amount = payments[n].amount
      BY <3>1 DEF Payment
    <3>3. QED
      BY <3>2
  <2>3. /\ payments' \in Seq(Payment) /\ Len(payments') = Len(payments)
        /\ \A m \in DOMAIN payments :
             /\ payments'[m].key = payments[m].key /\ payments'[m].invoice = payments[m].invoice
             /\ payments'[m].amount = payments[m].amount
    <3>1. payments' = [payments EXCEPT ![n] = p]
      BY <2>1, <2>2
    <3>2. QED
      BY <2>2, <3>1
  <2>4. QED
    BY <2>1, <2>3, SameRecords DEF Keyed!vars
<1>6. CASE \/ \E i \in Invoices, total \in Totals : BillUpgrade(i, total) \/ CreateInvoice(i, total)
           \/ \E w \in Workers, i \in Invoices : RecordPayment(w, i) \/ BeginEdit(w, i)
           \/ \E w \in Workers : LockInvoice(w) \/ InsertPayment(w) \/ Crash(w) \/ SaveEdit(w)
           \/ \E i \in Invoices : DeleteInvoice(i)
           \/ UNCHANGED vars
  <2>1. UNCHANGED <<payments, told>>
    BY <1>6 DEF BillUpgrade, CreateInvoice, RecordPayment, BeginEdit, LockInvoice, InsertPayment,
       Crash, SaveEdit, DeleteInvoice, vars
  <2>2. QED
    BY <1>1, <2>1
<1>7. QED
  BY <1>2, <1>3, <1>4, <1>5, <1>6 DEF Next

\* Payments implements KeyedPayments, for any workers, keys and amounts: whatever
\* races, crashes, edits and deletions, money that was recorded stays as it is, its
\* key is not used again, and answers name it.
THEOREM KeyedCorrect == Spec => ImplementsKeyedPayments
<1>1. Init => AskedInv
  BY DEF Init, AskedInv, Paying, InTransaction
<1>2. QED
  BY <1>1, Start, Step, AskedStep, KeyedStart, KeyedStep, PTL
  DEF Spec, ImplementsKeyedPayments, Keyed!Spec

-----------------------------------------------------------------------------
\* Who waits for whom: for the row lock of an invoice, or for a key that was
\* inserted and is not committed.
WaitsFor(w, v) ==
  \/ pc[w] \in {"waiting", "editing"} /\ holder[req[w].invoice] = v
  \/ pc[w] = "locked" /\ pc[v] = "inserted" /\ req[v].key = req[w].key /\ req[w].key # NoKey

\* How far a request has come.
Stage(w) ==
  IF pc[w] = "inserted" THEN 3 ELSE IF pc[w] = "locked" THEN 2 ELSE IF pc[w] = "idle" THEN 0 ELSE 1

\* Whoever is waited for has come further than who waits: requests never wait in
\* a circle, however many there are, and never for a lock that nobody is left to
\* release.
WaitsEnd == \A w, v \in Workers : WaitsFor(w, v) => Stage(v) > Stage(w)

\* A lock belongs to an open transaction.
HolderInv == \A i \in Invoices : holder[i] # NoWorker => pc[holder[i]] \in InTransaction

LEMMA HolderStep == IInv /\ HolderInv /\ [Next]_vars => HolderInv'
<1> SUFFICES ASSUME IInv, HolderInv, [Next]_vars PROVE HolderInv'
  OBVIOUS
<1> USE DEF IInv, TypeOK, HolderInv, InTransaction
<1>1. ASSUME UNCHANGED <<holder, pc>> PROVE HolderInv'
  BY <1>1
<1>2. ASSUME NEW w \in Workers, Answer(w), Release(w) PROVE HolderInv'
  BY <1>2 DEF Answer, Release
<1>3. ASSUME NEW w \in Workers, NEW state \in PCStates, pc[w] \notin InTransaction,
             pc' = [pc EXCEPT ![w] = state], UNCHANGED holder
      PROVE  HolderInv'
  BY <1>3
<1>4. ASSUME NEW w \in Workers, NEW i \in Invoices, RecordPayment(w, i) \/ BeginEdit(w, i)
      PROVE  HolderInv'
  BY <1>3, <1>4 DEF RecordPayment, BeginEdit, Goto, PCStates
<1>5. ASSUME NEW w \in Workers, CheckKey(w) \/ SaveEdit(w) PROVE HolderInv'
  BY <1>3, <1>5 DEF CheckKey, SaveEdit, Answer, Goto, PCStates
<1>6. ASSUME NEW w \in Workers, LockInvoice(w) PROVE HolderInv'
  <2>1. CASE Answer(w) /\ UNCHANGED holder
    BY <1>3, <1>6, <2>1 DEF LockInvoice, Answer, PCStates
  <2>2. CASE /\ holder' = [holder EXCEPT ![req[w].invoice] = w]
             /\ Goto(w, "locked")
    BY <2>2 DEF Goto
  <2>3. QED
    BY <1>6, <2>1, <2>2 DEF LockInvoice
<1>7. ASSUME NEW w \in Workers, InsertPayment(w) PROVE HolderInv'
  <2>1. CASE Goto(w, "inserted") /\ UNCHANGED holder
    BY <2>1 DEF Goto
  <2>2. QED
    BY <1>2, <1>7, <2>1 DEF InsertPayment
<1>8. ASSUME NEW w \in Workers, CommitPayment(w) \/ Crash(w) PROVE HolderInv'
  BY <1>2, <1>8 DEF CommitPayment, Crash
<1>9. CASE \/ \E i \in Invoices, total \in Totals : BillUpgrade(i, total) \/ CreateInvoice(i, total)
           \/ \E i \in Invoices : DeleteInvoice(i) \/ PostPayment(i)
           \/ \E n \in DOMAIN payments : DeletePayment(n)
           \/ UNCHANGED vars
  BY <1>1, <1>9 DEF BillUpgrade, CreateInvoice, DeleteInvoice, PostPayment, DeletePayment, vars
<1>10. QED
  BY <1>4, <1>5, <1>6, <1>7, <1>8, <1>9 DEF Next

\* Payments: requests never wait in a circle for locks and keys, whatever is
\* requested at once: what PaymentAnswered rests on beside fairness.
THEOREM WaitsCorrect == Spec => []WaitsEnd
<1>1. Init => HolderInv
  BY DEF Init, HolderInv
<1>2. IInv /\ HolderInv => WaitsEnd
  <2> SUFFICES ASSUME IInv, HolderInv, NEW w \in Workers, NEW v \in Workers, WaitsFor(w, v)
               PROVE  Stage(v) > Stage(w)
    BY DEF WaitsEnd
  <2>1. CASE pc[w] \in {"waiting", "editing"} /\ holder[req[w].invoice] = v
    <3>1. req[w] \in Request /\ v # NoWorker
      BY <2>1, PaymentsAssumption DEF IInv, RequestInv
    <3>2. pc[v] \in InTransaction
      BY <2>1, <3>1 DEF HolderInv, Request
    <3>3. QED
      BY <2>1, <3>2 DEF Stage, InTransaction
  <2>2. CASE pc[w] = "locked" /\ pc[v] = "inserted"
    BY <2>2 DEF Stage
  <2>3. QED
    BY <2>1, <2>2 DEF WaitsFor
<1>3. QED
  BY <1>1, <1>2, Start, Step, HolderStep, PTL DEF Spec
=============================================================================
