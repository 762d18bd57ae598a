----------------------------- MODULE MCPayments -----------------------------
(***************************************************************************)
(* Payments for TLC: an invoice over two units; an amount of one and a     *)
(* half units (6), which the columns round, and one of two units (8).      *)
(***************************************************************************)
EXTENDS Payments

MCTotals == {2}
MCAmounts == {6}
MCEditStatuses == {"CANCELLED"}
=============================================================================
