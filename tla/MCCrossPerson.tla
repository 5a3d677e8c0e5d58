--------------------------- MODULE MCCrossPerson ---------------------------
\* Small instances of CrossPerson.
EXTENDS CrossPerson, TLC

CONSTANTS w1, w2

OneAsk == [r \in Requests |-> "work"]
InOrder == [r \in Requests |-> r]
\* One worker records, retries and follows syncs; the other answers, and overlaps.
Shared == w1 :> {"record", "settle", "retry", "merge"} @@
          w2 :> {"reply", "asked", "requester", "retry", "merge"}
=============================================================================
