------------------------------ MODULE Decimals ------------------------------
(***************************************************************************)
(* Amounts of the API and of its DECIMAL(n,2) columns.  A quantity or an   *)
(* amount arrives as a Decimal of any precision and is used as it came;    *)
(* only the columns round.  Unrounded amounts are integers counting        *)
(* quarters of the last stored decimal, stored amounts are integers        *)
(* counting that decimal: Scale unrounded units make one.                  *)
(***************************************************************************)
EXTENDS Integers

Scale == 4

\* PostgreSQL rounds a NUMERIC half away from zero when it stores it.
Rounded(amount) ==
  IF amount >= 0 THEN (amount + 2) \div Scale ELSE -((2 - amount) \div Scale)
=============================================================================
