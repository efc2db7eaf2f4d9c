------------------------------- MODULE MCHistory -------------------------------
EXTENDS History

F(h, a, d, w) == [home |-> h, away |-> a, kickoff |-> d, winner |-> w]

\* Two teams that meet three times, and once a third that plays one of them.
MCCalendar ==
  {F("A", "B", 1, "A"), F("B", "A", 2, "draw"), F("A", "C", 3, "C"), F("A", "B", 4, "B")}
=============================================================================
