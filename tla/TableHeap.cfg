SPECIFICATION Spec
CONSTANTS
  Thread = {t1, t2}
  Heap = {h1, h2}
  Rec = {r1, r2}
  Owner <- MCOwner
  NoRec = NoRec
  MaxPage = 3
  Capacity = 4
  Length <- MCLength
  MaxFaults = 1
  FailsAgain = FALSE
  Careful = TRUE
INVARIANTS ChainsAreSound AnsweredRecordsAreFound ScanIsExact
PROPERTIES RecordsComeAndGoByCalls EveryCallEnds
CHECK_DEADLOCK FALSE
