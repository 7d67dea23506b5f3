\* Three pages in two frames: a page is evicted while another stays pinned,
\* freed pages come back, and frames go round between the two lists.
CONSTANTS
  MaxPage = 3
  Data = {Zero, d1}
  Zero = Zero
  Faults = {}
  PoolSize = 2
  Client = {c1}
  Update = {d1}
  Blank = Zero
  StrayFetch = {}
SPECIFICATION Spec
INVARIANTS
  PageHasOneFrame
  PinnedPageStays
  FreePagesAreNobodys
  UnpinnedFramesAreAvailable
PROPERTIES
  ImplementsPageStore
