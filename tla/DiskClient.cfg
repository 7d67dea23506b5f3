\* Three pages, every file access may fail, crashes anywhere.
CONSTANTS
  MaxPage = 3
  Data = {Zero, d1}
  Zero = Zero
  Faults = {"read", "write", "header"}
SPECIFICATION Spec
INVARIANTS
  NoPageInUseIsReused
  NoPageIsLost
  CatalogEntryExists
PROPERTIES
  OnlyTheOwnerWrites
