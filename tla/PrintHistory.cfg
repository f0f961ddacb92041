SPECIFICATION Spec
CONSTANTS
  Prices = {c1, c2}
  SalePrices = {s1}
  None = None
  MatchBefore = 5
  MatchAfter = 9
  Apart = 10
  MaxChanges = 2
  MaxJobs = 2
  MaxLabels = 2
  MaxPauses = 1
INVARIANTS HistoryShowsTheLabel WarningIsTrue
SYMMETRY PriceSymmetry
CHECK_DEADLOCK FALSE
