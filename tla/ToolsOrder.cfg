CONSTANTS
  Calls = {c1, c2}
  Requests <- MCRequests
  Adapted <- MCAdapted
  NoFilter = NoFilter
  Ranks <- MCRanks
  Texts <- MCTexts
  text1 = text1
  text2 = text2
  NoText = NoText
  NoAmount = NoAmount
  NaN = NaN
  NoLimit = NoLimit
  Malformed = Malformed
  OperatorFill = OperatorFill
  Categories = {fees, payroll}
  Foreign = Foreign
SPECIFICATION Spec
SYMMETRY MCSymmetry
CHECK_DEADLOCK FALSE
INVARIANT SameStatementSameResult
