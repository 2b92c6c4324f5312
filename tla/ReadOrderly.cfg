CONSTANTS
  c1 = c1
  c2 = c2
  c3 = c3
  c4 = c4
  d1 = d1
  d2 = d2
  none = none
  zero = zero
  NoCtx = none
  ZeroId = zero
  Dir <- MCDir
  Ctx <- MCCtx4
  Histories <- OrderlyHistories
  Bases <- NoBase
  CtxWhere <- MCCtx3
  ConfWhere <- MCDir
  Faults <- NoFaults
  NullAs = "empty"
  EmptyRow <- AnyEmpty
  FreedReads <- Intact
  MaxFrames = 4
SPECIFICATION Spec
INVARIANTS TypeOK OnlyOnce Nested Complete
