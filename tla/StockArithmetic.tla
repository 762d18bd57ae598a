--------------------------- MODULE StockArithmetic ---------------------------
(***************************************************************************)
(* The arithmetic of a stock movement (warehouse/services.py,              *)
(* InventoryService.record_stock_movement): the sign a quantity takes from *)
(* its transaction type, the rounding the DECIMAL(12,2) columns apply when *)
(* a row is written, and the ledger row that results.                      *)
(***************************************************************************)
EXTENDS Decimals

CONSTANT MaxStored      \* the largest value a stock column can hold

ASSUME MaxStoredAssumption == MaxStored \in Nat \ {0}

TransactionType == {"RECEIVE", "ISSUE", "RETURN", "ADJUSTMENT", "TRANSFER"}

\* What a stock column can hold; a write of anything else is a database error.
Column == -MaxStored .. MaxStored

Balance == 0 .. MaxStored

MutSigned(type, quantity) == quantity   \* mutant: the caller's sign is kept

\* Deductions become negative and additions positive; ADJUSTMENT and TRANSFER
\* keep the sign they came with.
Signed(type, quantity) ==
  CASE type = "ISSUE" /\ quantity > 0                -> -quantity
    [] type \in {"RECEIVE", "RETURN"} /\ quantity < 0 -> -quantity
    [] OTHER                                          -> quantity

\* new_stock = previous_stock + qty, as Python computes it: before any rounding.
Unrounded(previous, qty) == Scale * previous + qty

InsufficientStock(previous, qty) == Unrounded(previous, qty) < 0

\* The row the movement writes can be stored.
Fits(previous, qty) ==
  /\ Rounded(qty) \in Column
  /\ Rounded(Unrounded(previous, qty)) \in Column

Entry == [type : TransactionType, quantity : Int, previous : Int, new : Int]

NewEntry(type, previous, qty) ==
  [type     |-> type,
   quantity |-> Rounded(qty),
   previous |-> previous,
   new      |-> Rounded(Unrounded(previous, qty))]
=============================================================================
