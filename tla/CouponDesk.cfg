SPECIFICATION Spec
CONSTANTS
  m1 = m1  m2 = m2
  Matches = {m1, m2}
  Calendar <- MCCalendar
  Markets <- MCMarkets
  Answers <- MCAnswers
  Predictions <- MCPredictions
  Requests <- MCRequests
  HistoryLimit = 3
  MaxRequests = 2  MaxSyncs = 1  MaxSeconds = 2  MaxFaults = 1
INVARIANTS
  TypeOK
  ToldIsStored
  CombinedOddIsStored
  QuoteWasPublished
CHECK_DEADLOCK FALSE
