SPECIFICATION Spec

CONSTANTS
  Byte = {x, y}
  Other = other
  PageSize = 8
  HeaderSize = 1
  SlotSize = 1
  MaxLength = 3
  Interrupted = FALSE

SYMMETRY Symmetry

INVARIANTS
  PageIsSound
  RefusesOnlyWhenFull

PROPERTY ImplementsRecords
