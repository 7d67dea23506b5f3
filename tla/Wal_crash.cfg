SPECIFICATION Spec

CONSTANTS
  Client = {c1, c2}
  Page = {p1, p2}
  Tuple = {t1, t2}
  Foreign = foreign
  MaxLog = 3
  Shared = FALSE

SYMMETRY Symmetry

INVARIANTS
  AnsweredOperationsSurvive
  LogRebuildsPages
  LsnsIncrease
