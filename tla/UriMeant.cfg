CONSTANTS
  Word <- MCWord
  OneChar <- MCOneChar
  Clipped <- MCClipped
  PortOf <- MCPortOf
  Uris <- MCUris
  Tails <- MCTails
  Freed <- MCFreed
  Forms <- MCForms
  MaxParses = 2
SPECIFICATION TestedSpec
INVARIANTS TypeOK Settled Accepted AllColumns Located UrisAsTested ParamsAsTested
