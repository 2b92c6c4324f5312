CONSTANTS
  la = la
  lb = lb
  l0 = l0
  root = root
  ta = ta
  tb = tb
  td = td
  d1 = d1
  d2 = d2
  blank = blank
  zero = zero
  Default = root
  Label <- MCLabel
  Type <- MCType
  TypeOf <- MCTypeOf
  Dir <- MCDir
  Files <- MCFiles
  MaxRuns = 2
  Reader <- Readers
  Blank = blank
  Shown <- MCShown
  ZeroId = zero
  NullAs = "empty"
  EmptyRow <- AnyEmpty
  MaxDepth = 3
SPECIFICATION RoundTripSpec
INVARIANTS EndToEnd OneConfiguration NoMixture Bounded
