----------------------------- MODULE MCFillDay -----------------------------
EXTENDS FillDay
=============================================================================
