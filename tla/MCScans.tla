------------------------------ MODULE MCScans ------------------------------
(***************************************************************************)
(* Scans for TLC: two parts, the first with a name too long to notify     *)
(* anybody of, and a document; two companies with a member each.           *)
(***************************************************************************)
EXTENDS Scans, TLC

CONSTANTS ann, bob

MCSubjects == 1..3
MCCompany == (ann :> "a") @@ (bob :> "b") @@ (1 :> "b") @@ (2 :> "a") @@ (3 :> "a")
MCScan == (1 :> "stock") @@ (2 :> "stock") @@ (3 :> "documents")
MCUnsendable == {1}
=============================================================================
