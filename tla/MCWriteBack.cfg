SPECIFICATION Spec
CONSTANTS
  w1 = w1
  w2 = w2
  Workers = {w1, w2}
  States = {"todo", "in_progress", "done"}
  Targets = {"in_progress", "done"}
  Todo = "todo"
  Done = "done"
  Updates = {"u1"}
  MaxCalls = 3
  MaxEdits = 1
  MaxLost = 1
SYMMETRY Symmetry
INVARIANTS TypeOK MovesAreAudited AnswerMovesOnce RevertedOnce
CHECK_DEADLOCK FALSE
