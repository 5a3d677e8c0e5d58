---------------------------- MODULE MCDayReport ----------------------------
EXTENDS DayReport, TLC
CONSTANTS w1, w2

\* East of Greenwich the day begins an hour earlier.
Home == [on |-> TRUE, at |-> 0, zone |-> 0, to |-> {"channel", "email"}]
East == [on |-> TRUE, at |-> 1, zone |-> 1, to |-> {"channel"}]

Saved == {Home, East}
Symmetry == Permutations({w1, w2})
=============================================================================
