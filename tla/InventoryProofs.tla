--------------------------- MODULE InventoryProofs ---------------------------
(***************************************************************************)
(* Proofs about Inventory, for any parts, warehouses, workers, quantities  *)
(* and column size.                                                        *)
(*                                                                         *)
(* The argument: a worker inside its transaction holds the row lock of the *)
(* part it works on, so the row is still the one it read (LockInv); so the *)
(* entry it appends starts where the ledger ends (LedgerExplainsStock);    *)
(* and a balance an edit puts back was once current (SnapshotInv), which   *)
(* is the Restore step of StockLedger.                                     *)
(***************************************************************************)
EXTENDS Inventory, TLAPS, SequenceTheorems

\* In its transaction a worker has the lock, and the row is as it read it.
LockInv ==
  \A w \in Workers :
    /\ pc[w] # "idle" => req[w] \in Request
    /\ pc[w] \in InTransaction =>
         /\ holder[req[w].part] = w
         /\ seen[w] = rows[req[w].part]
         /\ rows[req[w].part].state = "live"

\* The balance of a row, and the one an edit will write, are balances the part
\* has had.
SnapshotInv ==
  /\ \A p \in Parts : rows[p].stock \in Abstract!PastStock(p)
  /\ \A w \in Workers : pc[w] = "editing" =>
       seen[w].state = "live" /\ seen[w].stock \in Abstract!PastStock(req[w].part)

\* A part that was never created has no stock and no ledger.
AbsentInv ==
  \A p \in Parts : rows[p].state = "absent" => rows[p].stock = 0 /\ ledger[p] = <<>>

\* A movement under way carries a type a client sent and a quantity a client
\* sent, with the sign of the type.
Moving == InTransaction \cup {"movement"}

RequestInv ==
  \A w \in Workers : pc[w] \in Moving =>
    /\ req[w].type \in Types
    /\ \E quantity \in Quantities : req[w].qty = Signed(req[w].type, quantity)

Inv == TypeOK /\ LockInv

IInv == Inv /\ SnapshotInv /\ AbsentInv /\ RequestInv /\ LedgerExplainsStock /\ EntriesAddUp

-----------------------------------------------------------------------------
\* Arithmetic

\* Rounding keeps a sign.
LEMMA RoundedSign ==
  ASSUME NEW x \in Int
  PROVE  /\ Rounded(x) \in Int
         /\ x >= 0 => Rounded(x) >= 0
         /\ x <= 0 => Rounded(x) <= 0
BY DEF Rounded, Scale

\* Rounding the sum and rounding the addend differ by one unit at most.
LEMMA RoundingDrift ==
  ASSUME NEW previous \in Nat, NEW qty \in Int
  PROVE  Rounded(Unrounded(previous, qty)) - (previous + Rounded(qty)) \in -1 .. 1
BY DEF Rounded, Unrounded, Scale

\* The sign rule of record_stock_movement.
LEMMA SignedSign ==
  ASSUME NEW type \in TransactionType, NEW q \in Int
  PROVE  /\ Signed(type, q) \in Int
         /\ type = "ISSUE" => Signed(type, q) <= 0
         /\ type \in {"RECEIVE", "RETURN"} => Signed(type, q) >= 0
BY DEF Signed, TransactionType

\* What a committing movement appends is a well-formed row over the balance.
LEMMA NewEntryOK ==
  ASSUME NEW type \in TransactionType, NEW previous \in Balance, NEW qty \in Int,
         ~InsufficientStock(previous, qty), Fits(previous, qty)
  PROVE  /\ NewEntry(type, previous, qty) \in Entry
         /\ NewEntry(type, previous, qty).new \in Balance
<1>1. Unrounded(previous, qty) \in Int /\ Unrounded(previous, qty) >= 0
  BY MaxStoredAssumption DEF Unrounded, InsufficientStock, Scale, Balance
<1>2. Rounded(Unrounded(previous, qty)) \in Balance
  BY <1>1, RoundedSign, MaxStoredAssumption DEF Fits, Column, Balance
<1>3. QED
  BY <1>2, RoundedSign, MaxStoredAssumption DEF NewEntry, Entry, Balance

\* Appending a row: the old rows stay, the new one is last.
LEMMA AppendEntry ==
  ASSUME NEW s \in Seq(Entry), NEW e \in Entry
  PROVE  /\ Append(s, e) \in Seq(Entry)
         /\ Append(s, e) # <<>>
         /\ Append(s, e) # s
         /\ Len(Append(s, e)) = Len(s) + 1
         /\ Append(s, e)[Len(s) + 1] = e
         /\ \A i \in DOMAIN s : Append(s, e)[i] = s[i]
         /\ DOMAIN Append(s, e) = DOMAIN s \cup {Len(s) + 1}
         /\ DOMAIN s = 1 .. Len(s)
         /\ Len(s) \in Nat
<1>1. /\ Append(s, e) \in Seq(Entry)
      /\ Len(Append(s, e)) = Len(s) + 1
      /\ Append(s, e)[Len(s) + 1] = e
      /\ \A i \in 1 .. Len(s) : Append(s, e)[i] = s[i]
      /\ Len(s) \in Nat
  BY AppendProperties
<1>2. DOMAIN Append(s, e) = 1 .. Len(s) + 1 /\ DOMAIN s = 1 .. Len(s)
  BY <1>1, LenProperties
<1>3. Append(s, e) # s /\ Append(s, e) # <<>>
  BY <1>1
<1>4. DOMAIN Append(s, e) = DOMAIN s \cup {Len(s) + 1}
  BY <1>1, <1>2
<1>5. \A i \in DOMAIN s : Append(s, e)[i] = s[i]
  BY <1>1, <1>2
<1>6. QED
  BY <1>1, <1>2, <1>3, <1>4, <1>5

\* The part a deletion or an edit names makes a request.
LEMMA OnlyPartIsRequest ==
  ASSUME NEW p \in Parts
  PROVE  OnlyPart(p) \in Request /\ OnlyPart(p).part = p
<1>1. (CHOOSE h \in Warehouses : TRUE) \in Warehouses
  BY InventoryAssumption
<1>2. QED
  BY <1>1 DEF OnlyPart, Request, TransactionType

-----------------------------------------------------------------------------
\* Types and the row lock

\* Answering and releasing keep the types.
LEMMA AnswerTypes ==
  ASSUME TypeOK, NEW w \in Workers, Answer(w)
  PROVE  /\ pc' \in [Workers -> PCStates]
         /\ req' \in [Workers -> Request \cup {NoRequest}]
         /\ seen' \in [Workers -> Row]
BY MaxStoredAssumption DEF Answer, TypeOK, PCStates, InTransaction, NoRow, Row, Balance

\* A lock that is released, or was another worker's, stays well typed.
LEMMA ReleaseTypes ==
  ASSUME TypeOK, NEW w \in Workers, Release(w)
  PROVE  holder' \in [Parts -> Workers \cup {NoWorker}]
BY DEF Release, TypeOK

\* Types and locks are in order at the start.
LEMMA InitInv == Init => Inv
<1> SUFFICES ASSUME Init PROVE Inv
  OBVIOUS
<1>1. ledger \in [Parts -> Seq(Entry)]
  BY DEF Init
<1>2. QED
  BY <1>1, MaxStoredAssumption
  DEF Init, Inv, TypeOK, LockInv, NoRow, Row, Balance, PCStates, InTransaction

\* One step per action: types stay, and whoever is in a transaction still has
\* the lock and the row it read.
LEMMA NextInv == Inv /\ [Next]_vars => Inv'
<1> SUFFICES ASSUME Inv, [Next]_vars PROVE Inv'
  OBVIOUS
<1> USE DEF Inv
<1>1. ASSUME NEW p \in Parts, CreatePart(p) PROVE Inv'
  <2>1. TypeOK'
    BY <1>1, MaxStoredAssumption DEF CreatePart, TypeOK, Row, Balance
  <2>2. LockInv'
    BY <1>1 DEF CreatePart, TypeOK, LockInv, InTransaction, Request
  <2>3. QED
    BY <2>1, <2>2
<1>2. ASSUME NEW w \in Workers, NEW p \in Parts, AdjustStock(w, p) PROVE Inv'
  <2>1. PICK h \in Warehouses, type \in Types, quantity \in Quantities \ {0} :
          req' = [req EXCEPT ![w] = [part |-> p, warehouse |-> h, type |-> type,
                                     qty |-> Signed(type, quantity)]]
    BY <1>2 DEF AdjustStock
  <2>2. Signed(type, quantity) \in Int /\ type \in TransactionType
    BY SignedSign, InventoryAssumption
  <2>3. req'[w] \in Request
    BY <2>1, <2>2 DEF TypeOK, Request
  <2>4. TypeOK'
    BY <1>2, <2>1, <2>3 DEF AdjustStock, Goto, TypeOK, PCStates
  <2>5. LockInv'
    BY <1>2, <2>1, <2>3 DEF AdjustStock, Goto, TypeOK, LockInv, InTransaction
  <2>6. QED
    BY <2>4, <2>5
<1>3. ASSUME NEW w \in Workers, NEW p \in Parts, BeginEdit(w, p) PROVE Inv'
  BY <1>3, OnlyPartIsRequest
  DEF BeginEdit, Goto, TypeOK, LockInv, InTransaction, PCStates
<1>4. ASSUME NEW w \in Workers, NEW p \in Parts, BeginDelete(w, p) PROVE Inv'
  BY <1>4, OnlyPartIsRequest
  DEF BeginDelete, Goto, TypeOK, LockInv, InTransaction, PCStates
<1>5. ASSUME NEW w \in Workers, LockPart(w) PROVE Inv'
  <2>1. req[w] \in Request
    BY <1>5 DEF LockPart, LockInv
  <2>2. req[w].part \in Parts
    BY <2>1 DEF Request
  <2>3. TypeOK'
    <3>1. CASE Live(req[w].part)
      BY <1>5, <2>2, <3>1 DEF LockPart, Goto, TypeOK, PCStates, InTransaction
    <3>2. CASE ~Live(req[w].part)
      BY <1>5, <3>2, AnswerTypes DEF LockPart, TypeOK
    <3>3. QED
      BY <3>1, <3>2
  <2>4. LockInv'
    BY <1>5, <2>1, <2>2, InventoryAssumption
    DEF LockPart, Goto, Answer, Live, LockIsFree, TypeOK, LockInv, InTransaction, Request
  <2>5. QED
    BY <2>3, <2>4
<1>6. ASSUME NEW w \in Workers, FindWarehouse(w) PROVE Inv'
  <2>1. TypeOK'
    <3>1. CASE req[w].warehouse \in open
      BY <1>6, <3>1 DEF FindWarehouse, Goto, TypeOK, PCStates, InTransaction
    <3>2. CASE req[w].warehouse \notin open
      BY <1>6, <3>2, AnswerTypes, ReleaseTypes DEF FindWarehouse, TypeOK
    <3>3. QED
      BY <3>1, <3>2
  <2>2. LockInv'
    BY <1>6
    DEF FindWarehouse, Goto, Answer, Release, TypeOK, LockInv, InTransaction, Request
  <2>3. QED
    BY <2>1, <2>2
<1>7. ASSUME NEW w \in Workers, Commit(w) PROVE Inv'
  <2> DEFINE p == req[w].part
             entry == NewEntry(req[w].type, seen[w].stock, req[w].qty)
  <2>1. /\ req[w] \in Request
        /\ p \in Parts
        /\ holder[p] = w
        /\ rows[p].state = "live"
        /\ seen[w].stock \in Balance
    BY <1>7 DEF Commit, LockInv, InTransaction, Request, TypeOK, Row
  <2>2. entry \in Entry /\ entry.new \in Balance
    BY <1>7, <2>1, NewEntryOK DEF Commit, Request
  <2>3. Append(ledger[p], entry) \in Seq(Entry)
    BY <2>1, <2>2, AppendEntry DEF TypeOK
  <2> HIDE DEF entry
  <2>4. /\ ledger' = [ledger EXCEPT ![p] = Append(ledger[p], entry)]
        /\ rows' = [rows EXCEPT ![p].stock = entry.new]
    BY <1>7 DEF Commit, entry
  <2>5. TypeOK'
    <3>1. rows' \in [Parts -> Row]
      BY <2>1, <2>2, <2>4 DEF TypeOK, Row
    <3>2. ledger' \in [Parts -> Seq(Entry)]
      BY <2>3, <2>4 DEF TypeOK
    <3>3. QED
      BY <1>7, <3>1, <3>2, MaxStoredAssumption
      DEF Commit, Answer, Release, TypeOK, PCStates, NoRow, Row, Balance
  <2>6. LockInv'
    BY <1>7, <2>1, <2>4
    DEF Commit, Answer, Release, TypeOK, LockInv, InTransaction, Request
  <2>7. QED
    BY <2>5, <2>6
<1>8. ASSUME NEW w \in Workers, Reject(w) PROVE Inv'
  BY <1>8, MaxStoredAssumption
  DEF Reject, Answer, Release, TypeOK, LockInv, InTransaction, PCStates, NoRow, Row, Balance, Request
<1>9. ASSUME NEW w \in Workers, Crash(w) PROVE Inv'
  BY <1>9, MaxStoredAssumption
  DEF Crash, Answer, Release, TypeOK, LockInv, InTransaction, PCStates, NoRow, Row, Balance, Request
<1>10. ASSUME NEW w \in Workers, SaveEdit(w) PROVE Inv'
  <2>1. req[w] \in Request /\ req[w].part \in Parts
    BY <1>10 DEF SaveEdit, LockInv, Request
  <2>2. TypeOK'
    BY <1>10, <2>1, MaxStoredAssumption
    DEF SaveEdit, Answer, TypeOK, PCStates, NoRow, Row, Balance
  <2>3. LockInv'
    BY <1>10, <2>1, InventoryAssumption
    DEF SaveEdit, Answer, LockIsFree, TypeOK, LockInv, InTransaction, Request
  <2>4. QED
    BY <2>2, <2>3
<1>11. ASSUME NEW w \in Workers, SaveDelete(w) PROVE Inv'
  <2>1. req[w] \in Request /\ req[w].part \in Parts
    BY <1>11 DEF SaveDelete, LockInv, Request
  <2>2. TypeOK'
    <3>1. rows' \in [Parts -> Row]
      BY <1>11, <2>1 DEF SaveDelete, TypeOK, Row
    <3>2. QED
      BY <1>11, <3>1, AnswerTypes DEF SaveDelete, TypeOK
  <2>3. LockInv'
    BY <1>11, <2>1, InventoryAssumption
    DEF SaveDelete, Answer, LockIsFree, TypeOK, LockInv, InTransaction, Request
  <2>4. QED
    BY <2>2, <2>3
<1>12. ASSUME NEW h \in Warehouses, CloseWarehouse(h) \/ ReopenWarehouse(h) PROVE Inv'
  BY <1>12 DEF CloseWarehouse, ReopenWarehouse, TypeOK, LockInv
<1>13. CASE UNCHANGED vars
  BY <1>13 DEF vars, TypeOK, LockInv
<1>14. QED
  BY <1>1, <1>2, <1>3, <1>4, <1>5, <1>6, <1>7, <1>8, <1>9, <1>10, <1>11, <1>12, <1>13 DEF Next

\* The types of Inventory hold in every reachable state: in particular a stored
\* balance is never negative and never exceeds its column.
THEOREM TypeCorrect == Spec => []TypeOK
<1>1. Spec => []Inv
  BY InitInv, NextInv, PTL DEF Spec
<1>2. Inv => TypeOK
  BY DEF Inv
<1>3. QED
  BY <1>1, <1>2, PTL

-----------------------------------------------------------------------------
\* The ledger

\* Only a commit touches a ledger; of the other actions only three touch a row.
LEMMA StepShape ==
  ASSUME [Next]_vars
  PROVE  \/ \E w \in Workers : Commit(w)
         \/ /\ ledger' = ledger
            /\ \/ \E p \in Parts : CreatePart(p)
               \/ \E w \in Workers : SaveEdit(w)
               \/ \E w \in Workers : SaveDelete(w)
               \/ rows' = rows /\ overwritten' = overwritten
BY DEF Next, vars, CreatePart, AdjustStock, BeginEdit, BeginDelete, LockPart, FindWarehouse,
       Reject, Crash, SaveEdit, SaveDelete, CloseWarehouse, ReopenWarehouse

\* What a commit does: the row it appends, and where.
Appends(w, p, type, qty) ==
  /\ p = req[w].part /\ type = req[w].type /\ qty = req[w].qty
  /\ rows[p].state = "live"
  /\ rows[p].stock \in Balance
  /\ ~InsufficientStock(rows[p].stock, qty)
  /\ Fits(rows[p].stock, qty)
  /\ NewEntry(type, rows[p].stock, qty) \in Entry
  /\ ledger[p] \in Seq(Entry)
  /\ ledger' = [ledger EXCEPT ![p] = Append(ledger[p], NewEntry(type, rows[p].stock, qty))]
  /\ rows' = [rows EXCEPT ![p].stock = NewEntry(type, rows[p].stock, qty).new]
  /\ overwritten' = overwritten

\* What a commit makes of the ledger and the row of its part.
LEMMA CommitShape ==
  ASSUME Inv, NEW w \in Workers, Commit(w)
  PROVE  \E p \in Parts, type \in TransactionType, qty \in Int : Appends(w, p, type, qty)
<1>1. /\ req[w] \in Request
      /\ rows[req[w].part].state = "live"
      /\ rows[req[w].part].stock \in Balance
      /\ seen[w] = rows[req[w].part]
      /\ ledger[req[w].part] \in Seq(Entry)
  BY DEF Commit, Inv, LockInv, InTransaction, Request, TypeOK, Row
<1>2. req[w].part \in Parts /\ req[w].type \in TransactionType /\ req[w].qty \in Int
  BY <1>1 DEF Request
<1>3. /\ ~InsufficientStock(rows[req[w].part].stock, req[w].qty)
      /\ Fits(rows[req[w].part].stock, req[w].qty)
  BY <1>1 DEF Commit
<1>4. NewEntry(req[w].type, rows[req[w].part].stock, req[w].qty) \in Entry
  BY <1>1, <1>2, <1>3, NewEntryOK
<1>5. /\ ledger' = [ledger EXCEPT ![req[w].part] =
                      Append(ledger[req[w].part],
                             NewEntry(req[w].type, rows[req[w].part].stock, req[w].qty))]
      /\ rows' = [rows EXCEPT ![req[w].part].stock =
                    NewEntry(req[w].type, rows[req[w].part].stock, req[w].qty).new]
      /\ overwritten' = overwritten
  BY <1>1 DEF Commit
<1>6. QED
  BY <1>1, <1>2, <1>3, <1>4, <1>5 DEF Appends

\* A request keeps the part and the quantity it came with.
LEMMA NextRequest == Inv /\ RequestInv /\ [Next]_vars => RequestInv'
<1> SUFFICES ASSUME Inv, RequestInv, [Next]_vars PROVE RequestInv'
  OBVIOUS
<1> USE DEF RequestInv
<1>1. ASSUME NEW w \in Workers, NEW p \in Parts, AdjustStock(w, p) PROVE RequestInv'
  <2>1. PICK h \in Warehouses, type \in Types, quantity \in Quantities \ {0} :
          req' = [req EXCEPT ![w] = [part |-> p, warehouse |-> h, type |-> type,
                                     qty |-> Signed(type, quantity)]]
    BY <1>1 DEF AdjustStock
  <2>2. \A v \in Workers \ {w} : pc'[v] = pc[v] /\ req'[v] = req[v]
    BY <1>1, <2>1 DEF AdjustStock, Goto, Inv, TypeOK
  <2>3. req'[w].type = type /\ req'[w].qty = Signed(type, quantity)
    BY <2>1 DEF Inv, TypeOK
  <2>4. QED
    BY <2>2, <2>3
<1>2. ASSUME NEW w \in Workers, NEW p \in Parts, BeginEdit(w, p) \/ BeginDelete(w, p) PROVE RequestInv'
  <2>1. /\ pc'[w] \notin Moving
        /\ \A v \in Workers \ {w} : pc'[v] = pc[v] /\ req'[v] = req[v]
    BY <1>2 DEF BeginEdit, BeginDelete, Goto, Inv, TypeOK, Moving, InTransaction
  <2>2. QED
    BY <2>1
<1>3. ASSUME NEW w \in Workers,
             \/ LockPart(w) \/ FindWarehouse(w) \/ Commit(w) \/ Reject(w) \/ Crash(w)
             \/ SaveEdit(w) \/ SaveDelete(w)
      PROVE RequestInv'
  <2>1. \/ Answer(w)
        \/ pc[w] \in Moving /\ (\E s \in PCStates : Goto(w, s)) /\ req' = req
    BY <1>3 DEF LockPart, FindWarehouse, Commit, Reject, Crash, SaveEdit, SaveDelete, PCStates,
                InTransaction, Moving
  <2>2. \A v \in Workers \ {w} : pc'[v] = pc[v] /\ req'[v] = req[v]
    BY <2>1 DEF Answer, Goto, Inv, TypeOK
  <2>3. \/ pc'[w] \notin Moving
        \/ pc[w] \in Moving /\ req'[w] = req[w]
    BY <2>1 DEF Answer, Goto, Inv, TypeOK, Moving, InTransaction
  <2>4. QED
    BY <2>2, <2>3
<1>4. CASE UNCHANGED <<pc, req>>
  BY <1>4
<1>5. QED
  BY <1>1, <1>2, <1>3, <1>4
  DEF Next, vars, CreatePart, CloseWarehouse, ReopenWarehouse

\* Every row a commit appends adds up; the others are as they were.
LEMMA NextEntries == Inv /\ RequestInv /\ EntriesAddUp /\ [Next]_vars => EntriesAddUp'
<1> SUFFICES ASSUME Inv, RequestInv, EntriesAddUp, [Next]_vars PROVE EntriesAddUp'
  OBVIOUS
<1>1. CASE ledger' = ledger
  BY <1>1 DEF EntriesAddUp
<1>2. ASSUME NEW w \in Workers, Commit(w) PROVE EntriesAddUp'
  <2>1. PICK p \in Parts, type \in TransactionType, qty \in Int : Appends(w, p, type, qty)
    BY <1>2, CommitShape
  <2> USE DEF Appends
  <2> DEFINE e == NewEntry(type, rows[p].stock, qty)
  <2>2. rows[p].stock \in Nat
    BY <2>1, MaxStoredAssumption DEF Balance
  <2>3. Unrounded(rows[p].stock, qty) \in Int /\ Unrounded(rows[p].stock, qty) >= 0
    BY <2>1, <2>2 DEF InsufficientStock, Unrounded, Scale
  <2>4. /\ type = "ISSUE" => qty <= 0
        /\ type \in {"RECEIVE", "RETURN"} => qty >= 0
    <3>1. PICK quantity \in Quantities : qty = Signed(type, quantity)
      BY <1>2, <2>1 DEF RequestInv, Commit, Moving, InTransaction
    <3>2. QED
      BY <3>1, SignedSign, InventoryAssumption
  <2>5. /\ e.new >= 0 /\ e.previous >= 0
        /\ e.type = "ISSUE" => e.quantity <= 0
        /\ e.type \in {"RECEIVE", "RETURN"} => e.quantity >= 0
        /\ e.new - (e.previous + e.quantity) \in -1 .. 1
    BY <2>2, <2>3, <2>4, RoundedSign, RoundingDrift DEF NewEntry
  <2>6. ledger'[p] = Append(ledger[p], e) /\ \A q \in Parts \ {p} : ledger'[q] = ledger[q]
    BY <2>1 DEF Inv, TypeOK
  <2> HIDE DEF e
  <2>7. SUFFICES ASSUME NEW q \in Parts, NEW i \in DOMAIN ledger'[q]
                 PROVE  LET x == ledger'[q][i] IN
                        /\ x.new >= 0 /\ x.previous >= 0
                        /\ x.type = "ISSUE" => x.quantity <= 0
                        /\ x.type \in {"RECEIVE", "RETURN"} => x.quantity >= 0
                        /\ x.new - (x.previous + x.quantity) \in -1 .. 1
    BY DEF EntriesAddUp
  <2>8. CASE q = p /\ i = Len(ledger[p]) + 1
    <3>1. ledger'[q][i] = e
      BY <2>1, <2>6, <2>8, AppendEntry DEF e
    <3>2. QED
      BY <2>5, <3>1
  <2>9. CASE q # p \/ i # Len(ledger[p]) + 1
    <3>1. i \in DOMAIN ledger[q] /\ ledger'[q][i] = ledger[q][i]
      BY <2>1, <2>6, <2>9, AppendEntry DEF e
    <3>2. QED
      BY <3>1 DEF EntriesAddUp
  <2>10. QED
    BY <2>8, <2>9
<1>3. QED
  BY <1>1, <1>2, StepShape

\* Outside the overwritten parts, a ledger stays one chain that ends at the balance.
LEMMA NextLedger == Inv /\ LedgerExplainsStock /\ AbsentInv /\ [Next]_vars => LedgerExplainsStock'
<1> SUFFICES ASSUME Inv, LedgerExplainsStock, AbsentInv, [Next]_vars PROVE LedgerExplainsStock'
  OBVIOUS
<1>1. ASSUME NEW w \in Workers, Commit(w) PROVE LedgerExplainsStock'
  <2>1. PICK p \in Parts, type \in TransactionType, qty \in Int : Appends(w, p, type, qty)
    BY <1>1, CommitShape
  <2> USE DEF Appends
  <2> DEFINE e == NewEntry(type, rows[p].stock, qty)
  <2>2. e.previous = rows[p].stock
    BY DEF NewEntry
  <2> HIDE DEF e
  <2>3. /\ ledger'[p] = Append(ledger[p], e)
        /\ rows'[p].stock = e.new
        /\ \A q \in Parts \ {p} : ledger'[q] = ledger[q] /\ rows'[q] = rows[q]
        /\ ledger[p] \in Seq(Entry) /\ e \in Entry
    BY <2>1 DEF Inv, TypeOK, Row, e
  <2>4. ASSUME p \notin overwritten PROVE Chained(p)' /\ rows'[p].stock = LedgerBalance(p)'
    <3>1. Chained(p) /\ e.previous = LedgerBalance(p)
      BY <2>2, <2>4 DEF LedgerExplainsStock
    <3>2. LedgerBalance(p)' = e.new
      BY <2>1, <2>3, AppendEntry DEF LedgerBalance, e
    <3>3. ASSUME NEW i \in DOMAIN ledger'[p]
          PROVE  ledger'[p][i].previous = IF i = 1 THEN 0 ELSE ledger'[p][i - 1].new
      <4>1. /\ DOMAIN ledger[p] = 1 .. Len(ledger[p])
            /\ Len(ledger[p]) \in Nat
            /\ ledger'[p][Len(ledger[p]) + 1] = e
            /\ \A j \in DOMAIN ledger[p] : ledger'[p][j] = ledger[p][j]
            /\ i \in DOMAIN ledger[p] \cup {Len(ledger[p]) + 1}
        BY ONLY <2>3, <3>3, AppendEntry
      <4>2. CASE i \in DOMAIN ledger[p]
        BY <3>1, <4>1, <4>2 DEF Chained
      <4>3. CASE i = Len(ledger[p]) + 1
        <5>1. CASE ledger[p] = <<>>
          BY <3>1, <4>1, <4>3, <5>1 DEF LedgerBalance
        <5>2. CASE ledger[p] # <<>>
          <6>1. Len(ledger[p]) > 0
            BY <2>1, <4>1, <5>2, EmptySeq
          <6>2. QED
            BY <3>1, <4>1, <4>3, <5>2, <6>1 DEF LedgerBalance
        <5>3. QED
          BY <5>1, <5>2
      <4>4. QED
        BY <4>1, <4>2, <4>3
    <3>4. QED
      BY <2>3, <3>2, <3>3 DEF Chained
  <2>5. ASSUME NEW q \in Parts \ overwritten, q # p
        PROVE  Chained(q)' /\ rows'[q].stock = LedgerBalance(q)'
    BY <2>3, <2>5 DEF LedgerExplainsStock, Chained, LedgerBalance
  <2>6. QED
    BY <2>1, <2>4, <2>5 DEF LedgerExplainsStock
<1>2. ASSUME ledger' = ledger,
             \A p \in Parts : rows'[p].stock = rows[p].stock \/ p \in overwritten',
             overwritten \subseteq overwritten'
      PROVE  LedgerExplainsStock'
  BY <1>2 DEF LedgerExplainsStock, Chained, LedgerBalance
<1>3. ASSUME NEW p \in Parts, CreatePart(p), ledger' = ledger PROVE LedgerExplainsStock'
  BY <1>2, <1>3 DEF CreatePart, AbsentInv, Inv, TypeOK
<1>4. ASSUME NEW w \in Workers, SaveEdit(w), ledger' = ledger PROVE LedgerExplainsStock'
  <2>1. req[w].part \in Parts
    BY <1>4 DEF SaveEdit, Inv, LockInv, Request
  <2>2. QED
    BY <1>2, <1>4, <2>1 DEF SaveEdit, Inv, TypeOK
<1>5. ASSUME NEW w \in Workers, SaveDelete(w), ledger' = ledger PROVE LedgerExplainsStock'
  <2>1. req[w].part \in Parts
    BY <1>5 DEF SaveDelete, Inv, LockInv, Request
  <2>2. \A p \in Parts : rows'[p].stock = rows[p].stock
    BY <1>5, <2>1 DEF SaveDelete, Inv, TypeOK, Row
  <2>3. QED
    BY <1>2, <1>5, <2>2 DEF SaveDelete
<1>6. QED
  BY <1>1, <1>2, <1>3, <1>4, <1>5, StepShape

\* Parts come into being with a balance of 0, and no step makes one absent again.
LEMMA NextAbsent == Inv /\ AbsentInv /\ SnapshotInv /\ [Next]_vars => AbsentInv'
<1> SUFFICES ASSUME Inv, AbsentInv, SnapshotInv, [Next]_vars PROVE AbsentInv'
  OBVIOUS
<1>1. ASSUME NEW w \in Workers, Commit(w) PROVE AbsentInv'
  <2>1. PICK p \in Parts, type \in TransactionType, qty \in Int : Appends(w, p, type, qty)
    BY <1>1, CommitShape
  <2> USE DEF Appends
  <2>2. /\ rows'[p].state = "live"
        /\ \A q \in Parts \ {p} : ledger'[q] = ledger[q] /\ rows'[q] = rows[q]
    BY <2>1 DEF Inv, TypeOK, Row
  <2>3. QED
    BY <2>2 DEF AbsentInv
<1>2. ASSUME NEW p \in Parts, CreatePart(p) PROVE AbsentInv'
  BY <1>2 DEF CreatePart, AbsentInv, Inv, TypeOK
<1>3. ASSUME NEW w \in Workers, SaveEdit(w) PROVE AbsentInv'
  BY <1>3 DEF SaveEdit, AbsentInv, SnapshotInv, Inv, LockInv, TypeOK, Request
<1>4. ASSUME NEW w \in Workers, SaveDelete(w) PROVE AbsentInv'
  BY <1>4 DEF SaveDelete, AbsentInv, Inv, LockInv, TypeOK, Request, Row
<1>5. CASE ledger' = ledger /\ rows' = rows
  BY <1>5 DEF AbsentInv
<1>6. QED
  BY <1>1, <1>2, <1>3, <1>4, <1>5, StepShape

\* Balances a part has had are never forgotten, and only those are put back.
LEMMA NextSnapshot == Inv /\ SnapshotInv /\ [Next]_vars => SnapshotInv'
<1> SUFFICES ASSUME Inv, SnapshotInv, [Next]_vars PROVE SnapshotInv'
  OBVIOUS
<1> USE DEF SnapshotInv
<1>1. \A p \in Parts : Abstract!PastStock(p) \subseteq Abstract!PastStock(p)'
  <2>1. ASSUME NEW w \in Workers, Commit(w), NEW p \in Parts
        PROVE  Abstract!PastStock(p) \subseteq Abstract!PastStock(p)'
    <3>1. PICK q \in Parts, type \in TransactionType, qty \in Int : Appends(w, q, type, qty)
      BY <2>1, CommitShape
    <3> USE DEF Appends
    <3>2. \A i \in DOMAIN ledger[p] : i \in DOMAIN ledger'[p] /\ ledger'[p][i] = ledger[p][i]
      BY <3>1, AppendEntry DEF Inv, TypeOK
    <3>3. QED
      BY <3>2 DEF Abstract!PastStock
  <2>2. CASE ledger' = ledger
    BY <2>2 DEF Abstract!PastStock
  <2>3. QED
    BY <2>1, <2>2, StepShape
<1>2. ASSUME NEW p \in Parts PROVE rows'[p].stock \in Abstract!PastStock(p)'
  <2>1. ASSUME NEW w \in Workers, Commit(w) PROVE rows'[p].stock \in Abstract!PastStock(p)'
    <3>1. PICK q \in Parts, type \in TransactionType, qty \in Int : Appends(w, q, type, qty)
      BY <2>1, CommitShape
    <3> USE DEF Appends
    <3>2. CASE p = q
      <4>1. /\ Len(ledger[q]) + 1 \in DOMAIN ledger'[q]
            /\ ledger'[q][Len(ledger[q]) + 1].new = rows'[q].stock
        BY <3>1, AppendEntry DEF Inv, TypeOK, Row
      <4>2. QED
        BY <3>2, <4>1 DEF Abstract!PastStock
    <3>3. CASE p # q
      BY <1>1, <3>1, <3>3 DEF Inv, TypeOK
    <3>4. QED
      BY <3>2, <3>3
  <2>2. ASSUME NEW q \in Parts, CreatePart(q) PROVE rows'[p].stock \in Abstract!PastStock(p)'
    <3>1. rows'[p].stock = 0 \/ rows'[p] = rows[p]
      BY <2>2 DEF CreatePart, Inv, TypeOK
    <3>2. QED
      BY <1>1, <3>1 DEF Abstract!PastStock
  <2>3. ASSUME NEW w \in Workers, SaveEdit(w) PROVE rows'[p].stock \in Abstract!PastStock(p)'
    <3>1. rows'[p].stock \in Abstract!PastStock(p)
      BY <2>3 DEF SaveEdit, Inv, TypeOK
    <3>2. QED
      BY <1>1, <3>1
  <2>4. ASSUME NEW w \in Workers, SaveDelete(w) PROVE rows'[p].stock \in Abstract!PastStock(p)'
    <3>1. rows'[p].stock = rows[p].stock
      BY <2>4 DEF SaveDelete, Inv, LockInv, TypeOK, Request, Row
    <3>2. QED
      BY <1>1, <3>1
  <2>5. CASE rows' = rows
    BY <1>1, <2>5
  <2>6. QED
    BY <2>1, <2>2, <2>3, <2>4, <2>5, StepShape
<1>3. ASSUME NEW w \in Workers, pc'[w] = "editing"
      PROVE  seen'[w].state = "live" /\ seen'[w].stock \in Abstract!PastStock(req[w].part)'
  <2>1. CASE pc[w] = "editing" /\ seen'[w] = seen[w] /\ req'[w] = req[w]
    <3>1. req[w].part \in Parts
      BY <2>1 DEF Inv, LockInv, Request
    <3>2. QED
      BY <1>1, <2>1, <3>1
  <2>2. ASSUME NEW p \in Parts, BeginEdit(w, p)
        PROVE seen'[w].state = "live" /\ seen'[w].stock \in Abstract!PastStock(req[w].part)'
    <3>1. seen'[w] = rows[p] /\ req'[w] = OnlyPart(p) /\ rows[p].state = "live"
      BY <2>2 DEF BeginEdit, Live, Inv, TypeOK
    <3>2. req'[w].part = p
      BY <3>1, OnlyPartIsRequest
    <3>3. QED
      BY <1>1, <3>1, <3>2
  <2>3. \/ pc[w] = "editing" /\ seen'[w] = seen[w] /\ req'[w] = req[w]
        \/ \E p \in Parts : BeginEdit(w, p)
    <3>1. ASSUME NEW v \in Workers,
                 \/ LockPart(v) \/ FindWarehouse(v) \/ Commit(v) \/ Reject(v) \/ Crash(v)
                 \/ SaveEdit(v) \/ SaveDelete(v)
                 \/ \E p \in Parts : AdjustStock(v, p) \/ BeginDelete(v, p)
          PROVE  pc[w] = "editing" /\ seen'[w] = seen[w] /\ req'[w] = req[w]
      <4>1. \A u \in Workers \ {v} : pc'[u] = pc[u] /\ seen'[u] = seen[u] /\ req'[u] = req[u]
        BY <3>1 DEF LockPart, FindWarehouse, Commit, Reject, Crash, SaveEdit, SaveDelete,
                    AdjustStock, BeginDelete, Answer, Goto, Inv, TypeOK
      <4>2. pc'[v] # "editing"
        BY <3>1 DEF LockPart, FindWarehouse, Commit, Reject, Crash, SaveEdit, SaveDelete,
                    AdjustStock, BeginDelete, Answer, Goto, Inv, TypeOK
      <4>3. QED
        BY <1>3, <4>1, <4>2
    <3>2. ASSUME NEW v \in Workers \ {w}, NEW p \in Parts, BeginEdit(v, p)
          PROVE  pc[w] = "editing" /\ seen'[w] = seen[w] /\ req'[w] = req[w]
      BY <1>3, <3>2 DEF BeginEdit, Goto, Inv, TypeOK
    <3>3. CASE UNCHANGED <<pc, seen, req>>
      BY <1>3, <3>3
    <3>4. QED
      BY <3>1, <3>2, <3>3 DEF Next, vars, CreatePart, CloseWarehouse, ReopenWarehouse
  <2>4. QED
    BY <2>1, <2>2, <2>3
<1>4. QED
  BY <1>2, <1>3

-----------------------------------------------------------------------------
\* The theorems

\* The inductive invariant holds at the start.
LEMMA InitIInv == Init => IInv
<1> SUFFICES ASSUME Init PROVE IInv
  OBVIOUS
<1>1. Inv
  BY InitInv
<1>2. SnapshotInv /\ AbsentInv
  BY DEF Init, SnapshotInv, AbsentInv, Abstract!PastStock, NoRow
<1>3. RequestInv
  BY DEF Init, RequestInv, Moving, InTransaction
<1>4. LedgerExplainsStock /\ EntriesAddUp
  BY DEF Init, LedgerExplainsStock, Chained, LedgerBalance, EntriesAddUp, NoRow
<1>5. QED
  BY <1>1, <1>2, <1>3, <1>4 DEF IInv

\* Every step keeps the inductive invariant.
LEMMA NextIInv == IInv /\ [Next]_vars => IInv'
BY NextInv, NextSnapshot, NextAbsent, NextRequest, NextLedger, NextEntries DEF IInv

\* The inductive invariant holds in every reachable state.
THEOREM Inductive == Spec => []IInv
BY InitIInv, NextIInv, PTL DEF Spec

\* For any number of workers, parts and movements: the ledger of a part is an
\* unbroken chain that ends at the stored balance, unless an edit saved over a
\* balance that had moved (the row lock of record_stock_movement).
THEOREM LedgerCorrect == Spec => []LedgerExplainsStock
<1>1. IInv => LedgerExplainsStock
  BY DEF IInv
<1>2. QED
  BY <1>1, Inductive, PTL

\* Every ledger row adds up to within one unit of the last decimal, never goes
\* below zero, and has the sign of its type.
THEOREM EntriesCorrect == Spec => []EntriesAddUp
<1>1. IInv => EntriesAddUp
  BY DEF IInv
<1>2. QED
  BY <1>1, Inductive, PTL

\* No movement commits on a part that is deleted at that moment.
THEOREM DeletedPartsDoNotMove == Spec => NoMovementOnDeletedPart
<1>1. Inv /\ [Next]_vars =>
        [\A p \in Parts : ledger'[p] # ledger[p] => rows[p].state = "live"]_vars
  <2> SUFFICES ASSUME Inv, [Next]_vars, NEW p \in Parts, ledger'[p] # ledger[p]
               PROVE  rows[p].state = "live"
    OBVIOUS
  <2>1. PICK w \in Workers : Commit(w)
    BY StepShape
  <2>2. PICK q \in Parts, type \in TransactionType, qty \in Int : Appends(w, q, type, qty)
    BY <2>1, CommitShape
  <2> USE DEF Appends
  <2>3. QED
    BY <2>2 DEF Inv, TypeOK
<1>2. IInv => Inv
  BY DEF IInv
<1>3. QED
  BY <1>1, <1>2, Inductive, PTL DEF Spec, NoMovementOnDeletedPart

-----------------------------------------------------------------------------
\* Refinement: balances and ledgers alone, with requests and locks hidden

\* The initial state is one of the abstract ledger.
LEMMA InitRefines == Init => Abstract!Init
BY DEF Init, Abstract!Init, StockOf, NoRow

\* The arithmetic of the two specifications is the same.
LEMMA SameArithmetic ==
  ASSUME NEW type, NEW previous, NEW qty
  PROVE  /\ Abstract!Signed(type, qty) = Signed(type, qty)
         /\ Abstract!InsufficientStock(previous, qty) <=> InsufficientStock(previous, qty)
         /\ Abstract!Fits(previous, qty) <=> Fits(previous, qty)
         /\ Abstract!NewEntry(type, previous, qty) = NewEntry(type, previous, qty)
BY DEF Abstract!Signed, Signed, Abstract!InsufficientStock, InsufficientStock,
       Abstract!Fits, Fits, Abstract!NewEntry, NewEntry, Abstract!Rounded, Rounded,
       Abstract!Unrounded, Unrounded, Abstract!Column, Column, Abstract!Scale, Scale

\* A commit is the Record step of the abstract specification: the type and the
\* quantity it uses are those a client sent.
LEMMA CommitRefines ==
  ASSUME Inv, RequestInv, NEW w \in Workers, Commit(w)
  PROVE  Abstract!Next
<1>1. PICK p \in Parts, type \in TransactionType, qty \in Int : Appends(w, p, type, qty)
  BY CommitShape
<1> USE DEF Appends
<1>2. PICK quantity \in Quantities : type \in Types /\ qty = Signed(type, quantity)
  BY <1>1 DEF RequestInv, Commit, Moving, InTransaction
<1>3. StockOf[p] = rows[p].stock
  BY DEF StockOf
<1> DEFINE e == NewEntry(type, rows[p].stock, qty)
<1> HIDE DEF e
<1>4. StockOf' = [StockOf EXCEPT ![p] = e.new]
  BY <1>1 DEF StockOf, Inv, TypeOK, Row, e
<1>5. LET r == Abstract!NewEntry(type, StockOf[p], Abstract!Signed(type, quantity)) IN
      /\ ~Abstract!InsufficientStock(StockOf[p], Abstract!Signed(type, quantity))
      /\ Abstract!Fits(StockOf[p], Abstract!Signed(type, quantity))
      /\ ledger' = [ledger EXCEPT ![p] = Append(@, r)]
      /\ StockOf' = [StockOf EXCEPT ![p] = r.new]
  <2>1. /\ Abstract!Signed(type, quantity) = qty
        /\ Abstract!NewEntry(type, StockOf[p], qty) = e
        /\ ~Abstract!InsufficientStock(StockOf[p], qty)
        /\ Abstract!Fits(StockOf[p], qty)
    BY <1>1, <1>2, <1>3, SameArithmetic DEF e
  <2>2. ledger' = [ledger EXCEPT ![p] = Append(@, e)]
    BY <1>1 DEF e
  <2>3. QED
    BY <1>4, <2>1, <2>2
<1>6. Abstract!Record(p)
  BY <1>2, <1>5 DEF Abstract!Record
<1>7. QED
  BY <1>6 DEF Abstract!Next

\* An edit is the Restore step: what it writes is a balance the part has had.
LEMMA SaveEditRefines ==
  ASSUME Inv, SnapshotInv, NEW w \in Workers, SaveEdit(w)
  PROVE  Abstract!Next
<1>1. req[w].part \in Parts /\ seen[w].stock \in Abstract!PastStock(req[w].part)
  BY DEF SaveEdit, Inv, LockInv, SnapshotInv, Request
<1>2. StockOf' = [StockOf EXCEPT ![req[w].part] = seen[w].stock]
  BY <1>1 DEF SaveEdit, StockOf, Inv, TypeOK
<1>3. Abstract!Restore(req[w].part)
  BY <1>1, <1>2 DEF SaveEdit, Abstract!Restore
<1>4. QED
  BY <1>1, <1>3 DEF Abstract!Next

\* Every step is a step of the abstract ledger, or leaves it alone.
LEMMA NextRefines == IInv /\ [Next]_vars => [Abstract!Next]_(Abstract!vars)
<1> SUFFICES ASSUME IInv, [Next]_vars PROVE Abstract!Next \/ UNCHANGED Abstract!vars
  OBVIOUS
<1> USE DEF IInv
<1>1. ASSUME NEW w \in Workers, Commit(w) PROVE Abstract!Next
  BY <1>1, CommitRefines
<1>2. ASSUME NEW w \in Workers, SaveEdit(w) PROVE Abstract!Next
  BY <1>2, SaveEditRefines
<1>3. ASSUME ledger' = ledger, \A p \in Parts : rows'[p].stock = rows[p].stock
      PROVE  UNCHANGED Abstract!vars
  BY <1>3 DEF StockOf, Abstract!vars
<1>4. ASSUME NEW p \in Parts, CreatePart(p) PROVE \A q \in Parts : rows'[q].stock = rows[q].stock
  BY <1>4 DEF CreatePart, AbsentInv, Inv, TypeOK
<1>5. ASSUME NEW w \in Workers, SaveDelete(w) PROVE \A q \in Parts : rows'[q].stock = rows[q].stock
  BY <1>5 DEF SaveDelete, Inv, LockInv, TypeOK, Request, Row
<1>6. QED
  BY <1>1, <1>2, <1>3, <1>4, <1>5, StepShape

\* The API implements StockLedger: whatever workers, locks and crashes do, each
\* balance moves by recorded entries or by going back to a balance it has had.
THEOREM Implements == Spec => ImplementsStockLedger
<1>1. Spec => [][Abstract!Next]_(Abstract!vars)
  BY Inductive, NextRefines, PTL DEF Spec
<1>2. QED
  BY <1>1, InitRefines, PTL DEF Spec, ImplementsStockLedger, Abstract!Spec
=============================================================================
