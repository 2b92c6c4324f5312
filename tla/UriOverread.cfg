CONSTANTS
  Word <- MCWord
  OneChar <- MCOneChar
  Clipped <- MCClipped
  PortOf <- MCPortOf
  Uris <- ExampleUris
  Tails <- MCTails
  Freed <- MCFreed
  Forms <- MCForms
  MaxParses = 1
SPECIFICATION Spec
INVARIANT DefaultColumns
