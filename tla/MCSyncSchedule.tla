---------------------------- MODULE MCSyncSchedule ----------------------------
EXTENDS SyncSchedule

CONSTANTS m1, w1, w2

\* Every match is played on the first day.
MCKickoff == [m \in Matches |-> 0]

\* One goroutine for the boot and the ticks and one for the live jobs with their
\* look at the calendar.
MyJobs(w) == IF w = w1 THEN {"boot", "today"} ELSE {"today", "live", "rollover"}

\* Events are never read by the collector, so here every PUBLISH is one that fails.
QuietSpec ==
  /\ SchedInit
  /\ [][ /\ SchedNext
         /\ UNCHANGED published
         /\ \A w \in Workers : run'[w] = Idle \/ run'[w].job \in MyJobs(w) ]_<<vars, schedVars>>
  /\ SchedFairness

\* Nobody asks for predictions here.
MCMaxSaved == [o \in Origins |-> 0]
=============================================================================
