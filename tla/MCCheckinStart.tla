-------------------------- MODULE MCCheckinStart --------------------------
(* CheckinStart for TLC.                                                   *)
EXTENDS CheckinStart

=============================================================================
