SPECIFICATION Spec
CONSTANTS
  Writers = {w1, w2}
  NoWriter = none
  MaxLines = 1
  MaxSize = 3
  Daily = TRUE
  MaxDays = 1
  MaxNum = 2
  TakenNums = {1}
  DaysPerMonth = 2
  MaxDate = 3
  MaxCalls = 3
  MaxFailures = 2
INVARIANTS CounterExact LineBound FiledByDay LinesAccounted KeepsCurrent
PROPERTY LogWriteReturns
