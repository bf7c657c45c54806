SPECIFICATION Spec
CONSTANTS
  NUL <- MCNUL
  HeaderSize = 14
  BlockSize = 1
  MaxImages = 2
  Contents <- MCContents
  Vendor <- MCVendor
  Foreign <- MCForeign
  MaxDamage = 1
  MaxPacks = 2
INVARIANTS RoundTrip ExtractedExact
PROPERTY CommandEnds
CHECK_DEADLOCK FALSE
