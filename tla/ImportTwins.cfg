CONSTANTS
  la = la
  lb = lb
  root = root
  ta = ta
  tb = tb
  td = td
  d1 = d1
  d2 = d2
  Default = root
  Label <- MCLabel
  Type <- MCType
  TypeOf <- MCTypeOf
  Dir <- MCDir
  Files <- TwinFiles
  MaxRuns = 1
SPECIFICATION Spec
INVARIANT OwnDirectives
