---------------------------- MODULE MCOperations ----------------------------
(***************************************************************************)
(* One row, of any kind, and two requests at a time.                       *)
(***************************************************************************)
EXTENDS Operations

MCParcels == {1, 2}
MCReadings == {1, 2, 3}
=============================================================================
