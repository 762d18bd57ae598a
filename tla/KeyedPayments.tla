---------------------------- MODULE KeyedPayments ----------------------------
(***************************************************************************)
(* What an idempotency key promises whoever sends it, with no requests,    *)
(* transactions or locks in sight: money that was recorded stays recorded  *)
(* as it is, a key is used for one payment at most, and who is answered    *)
(* for a key is told that payment (idempotency_key of Payment and of       *)
(* CourierPayout).  A payment without a key is always a new one.           *)
(***************************************************************************)
EXTENDS Naturals, Sequences

CONSTANTS
  Keys,      \* keys that answers are given for
  NoKey,     \* no key
  Entries    \* records with a key, and what is paid under it

VARIABLES
  recorded,  \* the payments, in the order they were committed
  told       \* for each key, the payments its senders were told of

vars == <<recorded, told>>

Init ==
  /\ recorded = <<>>
  /\ told = [k \in Keys |-> {}]

Tell(k, n) == told' = [told EXCEPT ![k] = @ \cup {n}]

\* The answer may be lost, or be for a key nobody is answered for.
Record(entry) ==
  /\ entry.key # NoKey => \A n \in DOMAIN recorded : recorded[n].key # entry.key
  /\ recorded' = Append(recorded, entry)
  /\ \/ entry.key \in Keys /\ Tell(entry.key, Len(recorded) + 1)
     \/ UNCHANGED told

Repeat(k, n) ==
  /\ recorded[n].key = k
  /\ Tell(k, n)
  /\ UNCHANGED recorded

Next ==
  \/ \E entry \in Entries : Record(entry)
  \/ \E k \in Keys, n \in DOMAIN recorded : Repeat(k, n)

Spec == Init /\ [][Next]_vars
=============================================================================
