\* Six keys in leaves of up to three: a scan is open while insertions shift entries
\* and split the leaf it stands on, or the one it is about to enter.
SPECIFICATION ScanSpec
CONSTANTS
  Key = {1, 2, 3, 4, 5, 6}
  LeafMax = 3
  InternalMax = 4
  MaxPage = 8
  MaxShort = 0
  GivesUp = {}
  Careful = TRUE
  RemovalsMeanwhile = FALSE
INVARIANT ScanMissesNothing
PROPERTY EveryScanEnds
