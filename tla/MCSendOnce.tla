---------------------------- MODULE MCSendOnce ----------------------------
(* SendOnce for TLC: three calls with one key, so that a second taker can  *)
(* lose its claim to a third.                                              *)
EXTENDS SendOnce
=============================================================================
