----------------------------- MODULE MCInventory -----------------------------
(***************************************************************************)
(* A small warehouse for TLC.  6 is a unit and a half, so each of the      *)
(* columns rounds on its own; -4 is a unit out as ADJUSTMENT, and a unit   *)
(* out as ISSUE or in as RECEIVE, whatever its sign.                       *)
(***************************************************************************)
EXTENDS Inventory

MCTypes == {"RECEIVE", "ISSUE", "ADJUSTMENT"}
MCQuantities == {-4, 6}
=============================================================================
