\* Two clients compete for one frame: pins are shared, a flush meets a client
\* that is changing the page, every read and write of a page may fail, and
\* the clients also ask for pages the file does not have.
CONSTANTS
  MaxPage = 3
  Data = {Zero, Blank, d1}
  Zero = Zero
  Faults = {"read", "write"}
  PoolSize = 1
  Client = {c1, c2}
  Update = {d1}
  Blank = Blank
  StrayFetch = {"past"}
SYMMETRY ClientSymmetry
SPECIFICATION Spec
INVARIANTS
  PinsCountHolders
  OfferedFramesAreIdle
  CleanPagesAreSaved
PROPERTIES
  CheckpointIsComplete
