SPECIFICATION Spec
CONSTANTS
  Calendar <- MCCalendar
  StatsLimit = 2
  HistoryLimit = 3
  MeetingsLimit = 2
  MaxAwarded = 1
  MaxFaults = 1
INVARIANT
  PastOnly
