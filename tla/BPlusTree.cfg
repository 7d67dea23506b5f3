\* Small pages, so that seven keys make a tree of three levels; a rebalancing
\* may stop at any level, leaving one page too short at a time.
SPECIFICATION Spec
CONSTANTS
  Key = {1, 2, 3, 4, 5, 6, 7}
  LeafMax = 2
  InternalMax = 4
  MaxPage = 9
  MaxShort = 1
  GivesUp = {"rebalance"}
  Careful = TRUE
INVARIANTS
  TreeIsSound
  LookupFindsEveryKey
  ScanYieldsKeysInOrder
PROPERTY ImplementsIndex
