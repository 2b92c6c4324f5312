CONSTANTS
  la = la
  lb = lb
  root = root
  ta = ta
  tb = tb
  td = td
  d1 = d1
  d2 = d2
  Default = root
  Label <- MCLabel
  Type <- MCType
  TypeOf <- MCTypeOf
  Dir <- MCDir
  Files <- SomeFiles
  MaxRuns = 2
SPECIFICATION Spec
INVARIANTS TypeOK Imported Connected OneRoot MapsRight
PROPERTIES Grows Finishes
