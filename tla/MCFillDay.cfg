SPECIFICATION FairFillSpec
CONSTANTS
  Last = 2
  Passes = {1, 2}
  OnLeave = {1}
  Askable = {2}
  MaxActs = 1
  MaxFaults = 1
INVARIANTS AnswerFilledOverOnlyIfRaced NotReachedIsTrue
PROPERTIES EveryoneGetsADay
CHECK_DEADLOCK FALSE
