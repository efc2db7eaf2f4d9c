------------------------------ MODULE MatchSync ------------------------------
(***************************************************************************)
(* The collector: cron jobs, the boot sync, the admin endpoint and the     *)
(* backfill modes all copy fixtures from API-Football into the match rows. *)
(* Every job is a goroutine of its own with its own copy of the API's      *)
(* answer, nothing keeps two jobs from overlapping, and each statement on  *)
(* PostgreSQL or Redis is a step of its own.                               *)
(***************************************************************************)
EXTENDS MatchData

CONSTANTS
  Workers,          \* goroutines that run jobs
  Kickoff,          \* Kickoff[m]: the day m is played on
  Tracked,          \* matches of the leagues in the leagues file, the coupon leagues
  LiveScope,        \* COLLECTOR_LIVE_SCOPE
  LastDay,          \* bound: the calendar stops at this day
  LiveMaxFixtures,  \* LIVE_MAX_FIXTURES of the collector
  Codes,            \* the short statuses of the API that may occur
  MaxCrashes        \* bound: restarts of the collector

Days == 0..LastDay

AllCodes ==
  {"NS", "TBD", "1H", "HT", "2H", "ET", "BT", "P", "LIVE", "FT", "AET", "PEN",
   "PST", "CANC", "SUSP", "INT", "AWD", "WO", "ABD"}

Over == {"FT", "AET", "PEN"}

InPlay == {"1H", "HT", "2H", "ET", "BT", "P", "LIVE", "SUSP", "INT"}

ASSUME SyncAssumption ==
  /\ LastDay \in Nat
  /\ Kickoff \in [Matches -> Days]
  /\ Tracked \subseteq Matches
  /\ LiveScope \in {"all", "tracked", "top5"}
  /\ LiveMaxFixtures \in Nat \ {0}
  /\ Codes \subseteq AllCodes
  /\ "NS" \in Codes
  /\ MaxCrashes \in Nat

VARIABLES
  api,        \* api[m]     the short status API-Football reports for m now
  today,      \* the calendar day
  booted,     \* has RegisterDaemonJobs returned, so that cron runs?
  lastSync,   \* collector:last_sync_date, LastDay + 1 when unset
  run,        \* run[w]     the job worker w is in, with its local variables
  crashes,
  published,  \* published[m] <<from, to>> of every event published on ws:broadcast
  opened      \* opened[m]  has m's row ever held a status other than finished?

worldVars == <<api, today>>
daemonVars == <<booted, lastSync, crashes>>
historyVars == <<published, opened>>
syncVars == <<run, worldVars, daemonVars, historyVars>>

Jobs == {"boot", "today", "rollover", "live", "admin", "season"}

Steps ==
  {"idle", "fetch", "loop", "read", "write", "announce", "unmark", "uncache",
   "mark", "drop", "golive", "newday", "stamp"}

\* A job in progress: its next step, the date it asks for, the statuses in the
\* API's answer, the fixtures of that answer still to process, the one being
\* processed, processFixture's prevStatus ("none" for "") and SyncLive's counter.
Run ==
  [pc : Steps, job : Jobs, day : Days, snap : [Matches -> Codes],
   todo : SUBSET Matches, cur : Matches, prev : RowStatus \cup {"none"},
   synced : 0..LiveMaxFixtures]

Idle ==
  [pc |-> "idle", job |-> "today", day |-> 0, snap |-> [m \in Matches |-> "NS"],
   todo |-> {}, cur |-> CHOOSE m \in Matches : TRUE, prev |-> "none", synced |-> 0]

Event == (RowStatus \cup {"none"}) \X {"live", "finished"}

SyncTypeOK ==
  /\ api \in [Matches -> Codes]
  /\ today \in Days
  /\ booted \in BOOLEAN
  /\ lastSync \in Nat
  /\ run \in [Workers -> Run]
  /\ crashes \in Nat
  /\ published \in [Matches -> SUBSET Event]
  /\ opened \in [Matches -> BOOLEAN]

SyncInit ==
  /\ api = [m \in Matches |-> "NS"]
  /\ today = 0
  /\ booted = FALSE
  /\ lastSync = LastDay + 1
  /\ run = [w \in Workers |-> Idle]
  /\ crashes = 0
  /\ published = [m \in Matches |-> {}]
  /\ opened = [m \in Matches |-> FALSE]

-----------------------------------------------------------------------------
\* The outside world: the match itself, the calendar and Redis expiry.

\* How a fixture's short status may change; over, cancelled and awarded are final.
Follows(c) ==
  CASE c \in {"NS", "TBD"} -> InPlay \cup {"PST", "CANC", "AWD", "WO"}
    [] c \in InPlay        -> InPlay \cup Over \cup {"ABD", "AWD"}
    [] c = "PST"           -> {"NS", "TBD", "CANC"}
    [] OTHER               -> {}

ApiStep(m) ==
  /\ \E c \in Codes \cap Follows(api[m]) : api' = [api EXCEPT ![m] = c]
  /\ UNCHANGED <<today, run, daemonVars, historyVars, dataVars>>

Midnight ==
  /\ today < LastDay
  /\ today' = today + 1
  /\ UNCHANGED <<api, run, daemonVars, historyVars, dataVars>>

\* The five minute lifetime of a live key.
ExpireLiveKey(m) ==
  /\ liveKey[m]
  /\ liveKey' = [liveKey EXCEPT ![m] = FALSE]
  /\ UNCHANGED <<status, predCache, preds, syncVars>>

-----------------------------------------------------------------------------
\* Starting a job.

GoTo(w, s) == run' = [run EXCEPT ![w].pc = s]

GoOn(w, r) == run' = [run EXCEPT ![w] = r]

Start(w, j, d) ==
  /\ run[w].pc = "idle"
  /\ GoOn(w, [Idle EXCEPT !.pc = "fetch", !.job = j, !.day = d])
  /\ UNCHANGED <<worldVars, daemonVars, historyVars, dataVars>>

\* RegisterDaemonJobs runs the first sync before it registers anything.
StartBoot(w) ==
  /\ ~booted
  /\ \A v \in Workers : run[v].job # "boot"
  /\ Start(w, "boot", today)

\* The cron entries at 00:05 and every sync interval; how often they fire in a
\* day is left to SyncSchedule.
StartToday(w) == booted /\ Start(w, "today", today)

\* The cron entry of every live interval.
StartLive(w) == booted /\ Start(w, "live", today)

\* POST /sync/today and /sync/date, from anybody and at any time.
StartAdmin(w, d) == Start(w, "admin", d)

\* The backfill mode, a process of its own.
StartSeason(w) == Start(w, "season", today)

-----------------------------------------------------------------------------
\* The API call.  The date jobs and the backfill only want the tracked leagues;
\* SyncLive takes whatever is in play unless its scope says otherwise.

LiveFixtures ==
  {m \in Matches : api[m] \in InPlay /\ (LiveScope = "all" \/ m \in Tracked)}

\* A variant that forgets the matches that are not in play.
Fixtures_LiveOnly(r) == LiveFixtures

Fixtures(r) ==
  CASE r.job = "live"   -> LiveFixtures
    [] r.job = "season" -> Tracked
    [] OTHER            -> {m \in Tracked : Kickoff[m] = r.day}

\* Where a job is once its sync is done: the live job looks at the calendar,
\* the boot and new-day jobs stamp last_sync_date, the others have ended.
AfterSync(r) ==
  CASE r.job = "live"                 -> [Idle EXCEPT !.pc = "newday", !.job = "live"]
    [] r.job \in {"boot", "rollover"} ->
         [Idle EXCEPT !.pc = "stamp", !.job = r.job, !.day = r.day]
    [] OTHER                          -> Idle

FetchOk(w) ==
  /\ run[w].pc = "fetch"
  /\ GoOn(w, [run[w] EXCEPT !.pc = "loop", !.snap = api, !.todo = Fixtures(run[w])])
  /\ UNCHANGED <<worldVars, daemonVars, historyVars, dataVars>>

FetchFails(w) ==
  /\ run[w].pc = "fetch"
  /\ GoOn(w, AfterSync(run[w]))
  /\ UNCHANGED <<worldVars, daemonVars, historyVars, dataVars>>

-----------------------------------------------------------------------------
\* The loop over the fixtures of the answer, and processFixture.

MoreFixtures(r) == r.todo # {} /\ (r.job = "live" => r.synced < LiveMaxFixtures)

NextFixture(w) ==
  /\ run[w].pc = "loop"
  /\ MoreFixtures(run[w])
  /\ \E m \in run[w].todo :
       GoOn(w, [run[w] EXCEPT !.pc = "read", !.cur = m, !.todo = @ \ {m}, !.prev = "none"])
  /\ UNCHANGED <<worldVars, daemonVars, historyVars, dataVars>>

EndLoop(w) ==
  /\ run[w].pc = "loop"
  /\ ~MoreFixtures(run[w])
  /\ GoOn(w, AfterSync(run[w]))
  /\ UNCHANGED <<worldVars, daemonVars, historyVars, dataVars>>

\* A league, team or match upsert fails, or the kickoff does not parse: the
\* error is logged and the loop goes on.
SkipFixture(w) ==
  /\ run[w].pc \in {"read", "write"}
  /\ GoTo(w, "loop")
  /\ UNCHANGED <<worldVars, daemonVars, historyVars, dataVars>>

\* prevStatus stays "" when there is no row yet or the read fails.
ReadPrev(w) ==
  /\ run[w].pc = "read"
  /\ \E s \in {status[run[w].cur], "none"} :
       GoOn(w, [run[w] EXCEPT !.pc = "write", !.prev = s])
  /\ UNCHANGED <<worldVars, daemonVars, historyVars, dataVars>>

mapStatus_SuspendedIsFinished(c) ==
  CASE c \in {"1H", "HT", "2H", "ET", "BT", "P", "LIVE"} -> "live"
    [] c \in {"FT", "AET", "PEN", "SUSP", "INT"}         -> "finished"
    [] OTHER                                             -> "scheduled"

mapStatus_DefaultIsCode(c) ==
  CASE c \in {"1H", "HT", "2H", "ET", "BT", "P", "LIVE"} -> "live"
    [] c \in {"FT", "AET", "PEN"}                        -> "finished"
    [] OTHER                                             -> c

\* Awarded, walkover and abandoned games fall into the default.
mapStatus(c) ==
  CASE c \in {"NS", "TBD"}                               -> "scheduled"
    [] c \in {"1H", "HT", "2H", "ET", "BT", "P", "LIVE"} -> "live"
    [] c \in {"FT", "AET", "PEN"}                        -> "finished"
    [] c = "PST"                                         -> "postponed"
    [] c = "CANC"                                        -> "cancelled"
    [] c \in {"SUSP", "INT"}                             -> "suspended"
    [] OTHER                                             -> "scheduled"

\* processFixture returns: SyncLive has more to do, the other jobs loop.
AfterFixture(r) == IF r.job = "live" THEN "mark" ELSE "loop"

JustFinished_AnyPrev(old, new) == new = "finished" /\ old # "finished"

JustFinished(old, new) == new = "finished" /\ old \notin {"none", "finished"}

WriteMatch(w) ==
  LET r   == run[w]
      new == mapStatus(r.snap[r.cur])
  IN  /\ r.pc = "write"
      /\ UpsertMatch(r.cur, new)
      /\ opened' = [opened EXCEPT ![r.cur] = @ \/ new # "finished"]
      /\ GoTo(w, IF JustFinished(r.prev, new) THEN "announce" ELSE AfterFixture(r))
      /\ UNCHANGED <<worldVars, daemonVars, published, liveKey, predCache, preds>>

\* PUBLISH on ws:broadcast; its error is ignored too.
Publish(m, from, to) ==
  published' \in {published, [published EXCEPT ![m] = @ \cup {<<from, to>>}]}

Announce(w) ==
  /\ run[w].pc = "announce"
  /\ Publish(run[w].cur, run[w].prev, "finished")
  /\ GoTo(w, "unmark")
  /\ UNCHANGED <<worldVars, daemonVars, opened, dataVars>>

Unmark(w) ==
  /\ run[w].pc = "unmark"
  /\ DelLiveKey(run[w].cur)
  /\ GoTo(w, "uncache")
  /\ UNCHANGED <<worldVars, daemonVars, historyVars, status, predCache, preds>>

Uncache(w) ==
  /\ run[w].pc = "uncache"
  /\ DelPrediction(run[w].cur)
  /\ GoTo(w, AfterFixture(run[w]))
  /\ UNCHANGED <<worldVars, daemonVars, historyVars, status, liveKey, preds>>

-----------------------------------------------------------------------------
\* The rest of SyncLive's loop body.

Mark(w) ==
  /\ run[w].pc = "mark"
  /\ SetLiveKey(run[w].cur)
  /\ GoTo(w, "drop")
  /\ UNCHANGED <<worldVars, daemonVars, historyVars, status, predCache, preds>>

Counted(r) == [r EXCEPT !.pc = "loop", !.synced = @ + 1]

\* GetMatchIDByExternal fails: the fixture counts as synced all the same.
MarkFails(w) ==
  /\ run[w].pc = "mark"
  /\ GoOn(w, Counted(run[w]))
  /\ UNCHANGED <<worldVars, daemonVars, historyVars, dataVars>>

Drop(w) ==
  /\ run[w].pc = "drop"
  /\ DelPrediction(run[w].cur)
  /\ GoTo(w, "golive")
  /\ UNCHANGED <<worldVars, daemonVars, historyVars, status, liveKey, preds>>

\* The event says "scheduled" whatever the row said before.
PublishLive(w) ==
  /\ run[w].pc = "golive"
  /\ Publish(run[w].cur, "scheduled", "live")
  /\ GoOn(w, Counted(run[w]))
  /\ UNCHANGED <<worldVars, daemonVars, opened, dataVars>>

-----------------------------------------------------------------------------
\* maybeSyncNewDay, the end of the live job, and last_sync_date.

\* Redis knows today's date: nothing to do.
SameDay(w) ==
  /\ run[w].pc = "newday"
  /\ lastSync = today
  /\ GoOn(w, Idle)
  /\ UNCHANGED <<worldVars, daemonVars, historyVars, dataVars>>

\* Another date, no date, or a failed read.
NewDay(w) ==
  /\ run[w].pc = "newday"
  /\ GoOn(w, [run[w] EXCEPT !.pc = "fetch", !.job = "rollover", !.day = today])
  /\ UNCHANGED <<worldVars, daemonVars, historyVars, dataVars>>

\* The date is set whether the sync succeeded or not.  The boot job asks the
\* clock again, maybeSyncNewDay stamps the day it looked up first.
Stamp(w) ==
  /\ run[w].pc = "stamp"
  /\ lastSync' \in {lastSync, IF run[w].job = "boot" THEN today ELSE run[w].day}
  /\ booted' = TRUE
  /\ GoOn(w, Idle)
  /\ UNCHANGED <<worldVars, crashes, historyVars, dataVars>>

\* The collector dies: its jobs are gone, the databases keep what they have.
Crash ==
  /\ crashes < MaxCrashes
  /\ crashes' = crashes + 1
  /\ booted' = FALSE
  /\ run' = [w \in Workers |-> IF run[w].job = "season" THEN run[w] ELSE Idle]
  /\ UNCHANGED <<worldVars, lastSync, historyVars, dataVars>>

-----------------------------------------------------------------------------
WorkerStep(w) ==
  \/ FetchOk(w) \/ FetchFails(w)
  \/ NextFixture(w) \/ EndLoop(w) \/ SkipFixture(w)
  \/ ReadPrev(w) \/ WriteMatch(w) \/ Announce(w) \/ Unmark(w) \/ Uncache(w)
  \/ Mark(w) \/ MarkFails(w) \/ Drop(w) \/ PublishLive(w)
  \/ SameDay(w) \/ NewDay(w) \/ Stamp(w)

StartJob(w) ==
  \/ StartBoot(w) \/ StartToday(w) \/ StartLive(w) \/ StartSeason(w)
  \/ \E d \in Days : StartAdmin(w, d)

SyncNext ==
  \/ \E m \in Matches : ApiStep(m) \/ ExpireLiveKey(m)
  \/ Midnight
  \/ \E w \in Workers : StartJob(w) \/ WorkerStep(w)
  \/ Crash
=============================================================================
