----------------------------- MODULE StockLedger -----------------------------
(***************************************************************************)
(* What the warehouse promises about a spare part's balance, with no       *)
(* requests, row locks or transactions in sight: the balance moves by      *)
(* appending a ledger entry that starts at the balance and ends at the new *)
(* one, and entries are never changed (the docstrings of InventoryService  *)
(* and InventoryTransaction).  Restore is what the CRUD endpoint adds to   *)
(* that promise: a full-row save may put back a balance the part had       *)
(* before, and nothing else.                                               *)
(***************************************************************************)
EXTENDS StockArithmetic, Sequences

CONSTANTS Parts, Types, Quantities

VARIABLES
  stock,    \* SparePart.current_stock
  ledger    \* the InventoryTransaction rows of each part, in commit order

vars == <<stock, ledger>>

\* Every balance the part has had: none yet recorded, or where an entry ended.
PastStock(p) == {0} \cup {ledger[p][i].new : i \in DOMAIN ledger[p]}

Init ==
  /\ stock = [p \in Parts |-> 0]
  /\ ledger = [p \in Parts |-> <<>>]

Record(p) ==
  \E type \in Types, quantity \in Quantities :
    LET qty   == Signed(type, quantity)
        entry == NewEntry(type, stock[p], qty)
    IN  /\ ~InsufficientStock(stock[p], qty)
        /\ Fits(stock[p], qty)
        /\ ledger' = [ledger EXCEPT ![p] = Append(@, entry)]
        /\ stock' = [stock EXCEPT ![p] = entry.new]

Restore(p) ==
  /\ \E s \in PastStock(p) : stock' = [stock EXCEPT ![p] = s]
  /\ UNCHANGED ledger

Next == \E p \in Parts : Record(p) \/ Restore(p)

Spec == Init /\ [][Next]_vars
=============================================================================
