CONSTANTS
  c1 = c1
  c2 = c2
  c3 = c3
  c4 = c4
  d1 = d1
  d2 = d2
  none = none
  zero = zero
  NoCtx = none
  ZeroId = zero
  Dir <- MCDir
  Ctx <- MCCtx3
  Histories <- SharedHistories
  Bases <- AnyBase
  CtxWhere <- MCCtx3
  ConfWhere <- MCDir
  Faults <- AllCalls
  NullAs = "null"
  EmptyRow <- AnyEmpty
  FreedReads <- BothReads
  MaxFrames = 4
SPECIFICATION Spec
INVARIANTS OwnScope NoReentry FailuresReported
PROPERTIES Returns SessionKept
