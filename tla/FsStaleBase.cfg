CONSTANTS
  b1 = b1
  b2 = b2
  none = none
  junk = junk
  NoBase = none
  Junk = junk
  Base <- MCBase
  Size <- MCSize
  Uris <- GoodUris
  Results <- Success
  MaxPools = 2
  MaxVer = 1
SPECIFICATION Spec
INVARIANTS OwnBase
