SPECIFICATION Spec
CONSTANTS
  Ctx <- MCCtx
  CtxInit <- MCCtxInit
  SliceQP = 51
  rangeTabLPS <- LpsTable
  transIdxLPS <- LpsTrans
  transIdxMPS <- MpsTrans
  Headers <- MCHeaders
  RbspCap = 14
  Margin = 4
  RawShare = 3
  Elements <- MCElements
  MaxElements = 4
  MaxSlices = 2
  OutCap = 30
  NalHeader = 65
  HeaderRest = 1
INVARIANTS CarryFits DecoderReadsBins BinBoundHolds
PROPERTY WrittenStays
\* A picture ends: written, or lost.
CHECK_DEADLOCK FALSE
