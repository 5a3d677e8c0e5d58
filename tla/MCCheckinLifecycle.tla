------------------------- MODULE MCCheckinLifecycle -------------------------
(* CheckinLifecycle on small instances. *)
EXTENDS CheckinLifecycle

CONSTANTS m1, m2

OneMessage == {m1}
TwoMessages == {m1, m2}
OneDrain == {1}
TwoDrains == {1, 2}
=============================================================================
