CONSTANTS
  b1 = b1
  b2 = b2
  none = none
  junk = junk
  NoBase = none
  Junk = junk
  Base <- MCBase
  Size <- MCSize
  Uris <- MixedUris
  Results <- AnyResult
  MaxPools = 4
  MaxVer = 3
SPECIFICATION Spec
INVARIANTS TypeOK InOrder Reloaded LinesThere TracingOff
PROPERTY OneFile
