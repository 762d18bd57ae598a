----------------------------- MODULE MCShipments -----------------------------
\* One shipment with one pickup leg, two codes and two requests at a time:
\* enough for a request to be overtaken, and for an old code to come back.
EXTENDS Shipments, TLC

CONSTANTS l1, c1, c2, w1, w2

MCLegs == {l1}
MCCodes == {c1, c2}
MCWorkers == {w1, w2}

Symmetric == Permutations(MCCodes) \cup Permutations(MCWorkers)

\* The journey of the shipment and the proof of its delivery meet only where
\* a verification is completed, so each is explored with the other held to
\* what that takes: the whole journey with a proof by signature, and every
\* proof with a shipment on which nobody else works.
Journey == pod \in {NoPod, [NoPod EXCEPT !.state = "live", !.method = "DIGITAL_SIGNATURE"]}

Proof ==
  /\ legs = [l \in Legs |-> "PENDING"]
  /\ \A w \in Workers : req[w].op \notin {"transition", "pickup", "handle", "edit"}

Explored == Journey \/ Proof

=============================================================================
