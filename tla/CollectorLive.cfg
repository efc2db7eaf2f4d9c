SPECIFICATION QuietSpec
CONSTANTS
  m1 = m1  w1 = w1  w2 = w2
  Poller = Poller
  Matches = {m1}
  Workers = {w1, w2}
  Readers = {}
  Kickoff <- MCKickoff
  Tracked = {m1}
  LiveScope = "all"
  LastDay = 1
  LiveMaxFixtures = 1
  Codes = {"NS", "1H", "FT"}
  MaxCrashes = 1
  TicksPerDay = 2
  MaxSaved <- MCMaxSaved
  MaxMisreads = 0
  MaxLost = 0
PROPERTIES
  FinishIsRecorded
