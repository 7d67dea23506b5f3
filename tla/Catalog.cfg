SPECIFICATION Spec
CONSTANTS
  Thread = {t1, t2}
  Name = {n1, n2}
  IndexName = {x1}
  MaxPage = 6
  MaxOid = 2
  PerPage = 1
  MaxPins = 1
  HeadsMayGo = FALSE
  GivesUp = {}
SYMMETRY Symmetry
CHECK_DEADLOCK FALSE
INVARIANTS
  ReopenRestoresCatalog
  NoPageHasTwoOwners
  PagesAreAccountedFor
  OidsAreNotReused
