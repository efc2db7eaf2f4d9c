SPECIFICATION CollectorSpec
CONSTANTS
  m1 = m1  m2 = m2  w1 = w1  w2 = w2  r1 = r1  r2 = r2
  Poller = Poller
  Matches = {m1}
  Workers = {w1, w2}
  Readers = {}
  Kickoff <- MCKickoff
  Tracked = {m1}
  LiveScope = "tracked"
  LastDay = 1
  LiveMaxFixtures = 1
  Codes = {"NS", "SUSP", "FT"}
  MaxCrashes = 1
  MaxSaved <- MCMaxSaved
  MaxMisreads = 0
  MaxLost = 0
INVARIANTS
  AnnouncedFinishIsReal
PROPERTIES
  RegressionNeedsStaleAnswer
SYMMETRY Symmetry
