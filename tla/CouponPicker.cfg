SPECIFICATION FairSpec
CONSTANTS
  m1 = m1  m2 = m2  m3 = m3
  Matches = {m1, m2, m3}
  Markets = {"home_win", "draw", "away_win", "btts", "over_2_5"}
  Offers <- MCOffers
  Requests <- MCRequests
INVARIANTS
  TypeOK
  NeverTooMuch
  CannotBeHelped
PROPERTIES
  ReachedStays
  ImplementsPick
  Terminates
CHECK_DEADLOCK FALSE
