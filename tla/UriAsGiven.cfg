CONSTANTS
  Word <- MCWord
  OneChar <- MCOneChar
  Clipped <- MCClipped
  PortOf <- MCPortOf
  Uris <- DocUris
  Tails <- MCTails
  Freed <- MCFreed
  Forms <- MCForms
  MaxParses = 1
SPECIFICATION Spec
INVARIANT AsGiven
