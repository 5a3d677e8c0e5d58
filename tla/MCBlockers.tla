---------------------------- MODULE MCBlockers ----------------------------
EXTENDS Blockers, TLC

CONSTANTS k1, k2

MCShim == (k1 :> 1) @@ (k2 :> 2)

\* One process drains replies, closes days and, as either may, settles; the
\* console's calls run in the other.
MCDoes == [w \in Workers |-> IF w = 1 THEN {"checkin", "resolve_all", "close_out", "settle"}
                                      ELSE {"authoritative_set", "confirm_all", "settle"}]
=============================================================================
