SPECIFICATION Spec
CONSTANTS
  Thread = {t1}
  Name = {n1}
  IndexName = {x1}
  MaxPage = 4
  MaxOid = 2
  PerPage = 2
  MaxPins = 1
  HeadsMayGo = TRUE
  GivesUp = {}
CHECK_DEADLOCK FALSE
INVARIANT ReopenRestoresCatalog
