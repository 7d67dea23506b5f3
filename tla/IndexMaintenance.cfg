SPECIFICATION Spec
CONSTANTS
  Key = {1, 2, 3}
  MaxRid = 4
  MaxVal = 2
  MaxIndex = 2
  MaxRows = 2
  Faults = {}
  OneLeaf = TRUE
CHECK_DEADLOCK FALSE
INVARIANTS
  IndexesMatchTable
  AnsweredStatementsAreComplete
PROPERTY
  RowsAreDoneOrUndone
