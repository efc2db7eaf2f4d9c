----------------------------- MODULE SyncSchedule -----------------------------
(***************************************************************************)
(* The collector under its own cron: the date job runs at 00:05 and every  *)
(* sync interval, so a day has a number of ticks, and what happens after   *)
(* the last of them is not asked for again.  MatchSync lets the date job   *)
(* start whenever it likes, which is all its safety properties need; what  *)
(* the schedule guarantees in the end is stated here.                      *)
(***************************************************************************)
EXTENDS LivePlatform

CONSTANT TicksPerDay     \* how often the cron entries of the date job fire in a day

ASSUME ScheduleAssumption == TicksPerDay \in Nat \ {0}

VARIABLES
  ticks,   \* ticks of the date job still to come today
  missed   \* history: matches whose final result a date job got and then lost,
           \* or did not get at all, and nobody has written since

schedVars == <<ticks, missed>>

\* The daemon starts at any time of the first day.
SchedInit ==
  /\ Init
  /\ ticks \in 0..TicksPerDay
  /\ missed = {}

-----------------------------------------------------------------------------
Tick(w) ==
  /\ ticks > 0
  /\ ticks' = ticks - 1
  /\ StartToday(w)
  /\ UNCHANGED missed

\* A day is not over before its ticks have fired, unless the daemon is down.
NewDate ==
  /\ booted => ticks = 0
  /\ Midnight
  /\ ticks' = TicksPerDay
  /\ UNCHANGED missed

\* The request of a date job fails, or one of its upserts does: nobody retries.
Lose(w) ==
  /\ run[w].job = "today"
  /\ \/ /\ FetchFails(w)
        /\ missed' = missed \cup {m \in Fixtures(run[w]) : api[m] \in Over}
     \/ /\ SkipFixture(w)
        /\ missed' = missed \cup {m \in {run[w].cur} : run[w].snap[m] \in Over}
  /\ UNCHANGED ticks

\* The row is written, by whatever job.
Keep(w) ==
  /\ WriteMatch(w)
  /\ missed' = missed \ {m \in {run[w].cur} : run[w].snap[m] \in Over}
  /\ UNCHANGED ticks

\* Every other step of a job.
Proceed(w) ==
  /\ \/ run[w].job # "today" /\ (FetchFails(w) \/ SkipFixture(w))
     \/ FetchOk(w) \/ NextFixture(w) \/ EndLoop(w) \/ ReadPrev(w)
     \/ Announce(w) \/ Unmark(w) \/ Uncache(w)
     \/ Mark(w) \/ MarkFails(w) \/ Drop(w) \/ PublishLive(w)
     \/ SameDay(w) \/ NewDay(w) \/ Stamp(w)
  /\ UNCHANGED schedVars

\* What its jobs had in hand is lost with the collector, and so are the ticks
\* it sleeps through.
Die ==
  /\ Crash
  /\ missed' = missed \cup {m \in Matches : api[m] \in Over}
  /\ UNCHANGED ticks

SchedNext ==
  /\ \/ NewDate
     \/ Die
     \/ \E w \in Workers : Tick(w) \/ Lose(w) \/ Keep(w) \/ Proceed(w)
     \/ /\ \/ \E m \in Matches : ApiStep(m) \/ ExpireLiveKey(m)
           \/ \E w \in Workers : StartBoot(w) \/ StartLive(w)
        /\ UNCHANGED schedVars
  /\ UNCHANGED predVars

\* The daemon boots, each tick starts a goroutine of its own (a worker that is
\* free again and again stands for it), a started job goes on step by step, and a
\* key that nobody writes any more runs into its lifetime.
SchedFairness ==
  LET v == <<syncVars, dataVars>>
  IN  /\ SF_v(\E w \in Workers : StartBoot(w))
      /\ SF_<<v, schedVars>>(\E w \in Workers : Tick(w))
      /\ \A w \in Workers : WF_v(WorkerStep(w))
      /\ \A m \in Matches : WF_v(api[m] \notin InPlay /\ ExpireLiveKey(m))

SchedSpec == SchedInit /\ [][SchedNext]_<<vars, schedVars>> /\ SchedFairness

-----------------------------------------------------------------------------
\* A job has yet to write what the API said of m before m was over.
OldAnswer(w, m) ==
  LET r == run[w]
  IN  /\ r.pc \in {"loop", "read", "write"}
      /\ r.snap[m] \notin Over
      /\ m \in r.todo \/ (r.pc # "loop" /\ r.cur = m)

\* m is over in time: a tick of its day is still to come.
OverInTime(m) ==
  /\ api[m] \in Over
  /\ today = Kickoff[m]
  /\ booted /\ ticks > 0
  /\ \A w \in Workers : ~OldAnswer(w, m)

\* A match of a tracked league that is over before the last tick of its day ends up
\* finished, its live key gone, for good, whatever live jobs and new-day jobs overlap
\* with the date job, unless the jobs that ask for it fail.  Nothing is promised for
\* a match of another league, which the live scope "all" lets in, nor for one that
\* ends after the last tick of its day.
FinishIsRecorded ==
  \A m \in Tracked :
    [](OverInTime(m)
         => <>[](m \in missed \/ (status[m] = "finished" /\ ~liveKey[m])))
=============================================================================
