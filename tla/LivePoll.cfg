SPECIFICATION PollSpec
CONSTANTS
  m1 = m1  m2 = m2  w1 = w1  w2 = w2  r1 = r1  r2 = r2
  Poller = Poller
  Matches = {m1, m2}
  Workers = {w1}
  Readers = {}
  Kickoff <- MCKickoff
  Tracked = {m1}
  LiveScope = "all"
  LastDay = 0
  LiveMaxFixtures = 1
  Codes = {"NS", "1H"}
  MaxCrashes = 0
  MaxSaved <- MCMaxSaved
  MaxMisreads = 0
  MaxLost = 0
PROPERTIES
  LiveMatchGetsLivePrediction
