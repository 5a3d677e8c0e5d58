SPECIFICATION Spec
CONSTANTS
  w1 = w1
  w2 = w2
  Workers = {w1}
  States = {"todo", "in_progress", "done"}
  Targets = {"in_progress", "done"}
  Todo = "todo"
  Done = "done"
  Updates = {"u1"}
  MaxCalls = 5
  MaxEdits = 1
  MaxLost = 0
INVARIANTS RefusedWasReverted
CHECK_DEADLOCK FALSE
