-------------------------- MODULE LivePlatformProofs --------------------------
(***************************************************************************)
(* Proofs about LivePlatform, for any number of matches, workers and       *)
(* readers: type correctness, that a cached prediction is a saved one, and *)
(* what a row, a snapshot and an event say about a match that is over.     *)
(***************************************************************************)
EXTENDS LivePlatform, FiniteSetTheorems, SequenceTheorems, TLAPS

\* In SyncLive's loop body the counter has not reached its limit.
InLiveBody(r) ==
  \/ r.pc \in {"mark", "drop", "golive"}
  \/ r.job = "live" /\ r.pc \in {"read", "write", "announce", "unmark", "uncache"}

CounterOK == \A w \in Workers : InLiveBody(run[w]) => run[w].synced < LiveMaxFixtures

\* Type correctness is inductive together with the counter's limit.
TypeInv == TypeOK /\ CounterOK

-----------------------------------------------------------------------------
\* The statuses a row can hold.
LEMMA mapStatusType == \A c : mapStatus(c) \in RowStatus
BY DEF mapStatus, RowStatus

\* A job works on matches.
LEMMA FixturesType == \A r : Fixtures(r) \subseteq Matches
BY SyncAssumption DEF Fixtures, LiveFixtures

\* A worker that has nothing to do is a well-formed one.
LEMMA IdleType == Idle \in Run
<1>1. (CHOOSE m \in Matches : TRUE) \in Matches
  BY MatchesAssumption
<1>2. [m \in Matches |-> "NS"] \in [Matches -> Codes]
  BY SyncAssumption
<1>3. 0 \in Days /\ 0 \in 0..LiveMaxFixtures
  BY SyncAssumption DEF Days
<1>. QED
  BY <1>1, <1>2, <1>3 DEF Idle, Run, Steps, Jobs

\* ... and so is a predictor without a request.
LEMMA NoRequestType == NoRequest \in Request
<1>1. (CHOOSE m \in Matches : TRUE) \in Matches
  BY MatchesAssumption
<1>. QED
  BY <1>1 DEF NoRequest, Request, RequestSteps, RowStatus, Origins

LEMMA AfterSyncType ==
  ASSUME NEW r \in Run
  PROVE  AfterSync(r) \in Run /\ ~InLiveBody(AfterSync(r))
<1>. DEFINE Ended(s) == s \in Run /\ ~InLiveBody(s)
<1>. USE IdleType
<1>1. Ended(Idle)
  BY DEF Idle, InLiveBody
<1>2. Ended([Idle EXCEPT !.pc = "newday", !.job = "live"])
  BY DEF Run, Steps, Jobs, InLiveBody
<1>3. Ended([Idle EXCEPT !.pc = "stamp", !.job = r.job, !.day = r.day])
  BY DEF Run, Steps, InLiveBody
<1>. QED
  BY <1>1, <1>2, <1>3 DEF AfterSync

-----------------------------------------------------------------------------
LEMMA TypeInit == Init => TypeInv
<1>. SUFFICES ASSUME Init PROVE TypeInv
  OBVIOUS
<1>1. DataTypeOK
  BY DEF Init, DataInit, DataTypeOK
<1>2. SyncTypeOK
  <2>1. "NS" \in Codes /\ 0 \in Days /\ LastDay + 1 \in Nat
    BY SyncAssumption DEF Days
  <2>2. run \in [Workers -> Run]
    BY IdleType DEF Init, SyncInit
  <2>. QED
    BY <2>1, <2>2 DEF Init, SyncInit, SyncTypeOK
<1>3. PredTypeOK
  BY NoRequestType DEF Init, PredInit, PredTypeOK
<1>4. CounterOK
  BY DEF Init, SyncInit, CounterOK, InLiveBody, Idle
<1>. QED
  BY <1>1, <1>2, <1>3, <1>4 DEF TypeInv, TypeOK

\* Replacing one worker's job by a well-formed one.
LEMMA RunUpdate ==
  ASSUME SyncTypeOK, CounterOK, NEW w \in Workers, NEW r \in Run,
         InLiveBody(r) => r.synced < LiveMaxFixtures,
         run' = [run EXCEPT ![w] = r]
  PROVE  run' \in [Workers -> Run] /\ CounterOK'
<1>1. run' \in [Workers -> Run]
  BY DEF SyncTypeOK
<1>2. \A v \in Workers : run'[v] = IF v = w THEN r ELSE run[v]
  BY DEF SyncTypeOK
<1>3. CounterOK'
  BY <1>2 DEF CounterOK, InLiveBody
<1>. QED
  BY <1>1, <1>3

\* Moving one worker to another step of its job.
LEMMA GoToType ==
  ASSUME SyncTypeOK, CounterOK, NEW w \in Workers, NEW s \in Steps,
         InLiveBody([run[w] EXCEPT !.pc = s]) => run[w].synced < LiveMaxFixtures,
         GoTo(w, s)
  PROVE  run' \in [Workers -> Run] /\ CounterOK'
<1>. DEFINE r == [run[w] EXCEPT !.pc = s]
<1>1. run[w] \in Run
  BY DEF SyncTypeOK
<1>2. r \in Run /\ r.synced = run[w].synced
  BY <1>1 DEF Run
<1>3. run' = [run EXCEPT ![w] = r]
  BY DEF GoTo
<1>. QED
  BY <1>2, <1>3, RunUpdate

-----------------------------------------------------------------------------
LEMMA CountedType ==
  ASSUME NEW r \in Run, r.synced < LiveMaxFixtures
  PROVE  Counted(r) \in Run /\ ~InLiveBody(Counted(r))
<1>1. r.synced \in 0..LiveMaxFixtures
  BY DEF Run
<1>2. r.synced + 1 \in 0..LiveMaxFixtures
  BY <1>1, SyncAssumption
<1>3. "loop" \in Steps
  BY DEF Steps
<1>4. Counted(r) = [r EXCEPT !.pc = "loop", !.synced = r.synced + 1]
  BY DEF Counted
<1>5. Counted(r) \in Run
  BY <1>2, <1>3, <1>4 DEF Run
<1>6. Counted(r).pc = "loop"
  BY <1>4 DEF Run
<1>. QED
  BY <1>5, <1>6 DEF InLiveBody

\* Every step of a worker keeps its job well-formed and the counter in bounds.
LEMMA WorkerStepRun ==
  ASSUME TypeInv, NEW w \in Workers, WorkerStep(w)
  PROVE  run' \in [Workers -> Run] /\ CounterOK'
<1>. USE DEF TypeInv, TypeOK, GoOn
<1>0. run[w] \in Run /\ (InLiveBody(run[w]) => run[w].synced < LiveMaxFixtures)
  BY DEF SyncTypeOK, CounterOK
<1>1. ASSUME NEW r \in Run, run' = [run EXCEPT ![w] = r],
             InLiveBody(r) => r.synced < LiveMaxFixtures
      PROVE  run' \in [Workers -> Run] /\ CounterOK'
  BY <1>1, RunUpdate
\* A step that stays inside the body of the loop, or leaves it.
<1>2. ASSUME NEW s \in Steps, GoTo(w, s),
             InLiveBody(run[w]) \/ ~InLiveBody([run[w] EXCEPT !.pc = s])
      PROVE  run' \in [Workers -> Run] /\ CounterOK'
  BY <1>0, <1>2, GoToType
<1>3. CASE FetchOk(w)
  <2>. DEFINE r == [run[w] EXCEPT !.pc = "loop", !.snap = api, !.todo = Fixtures(run[w])]
  <2>1. Fixtures(run[w]) \in SUBSET Matches
    BY FixturesType
  <2>2. r \in Run /\ ~InLiveBody(r)
    BY <1>0, <2>1 DEF Run, Steps, InLiveBody, SyncTypeOK
  <2>. QED
    BY <1>1, <1>3, <2>2 DEF FetchOk
<1>4. CASE FetchFails(w) \/ EndLoop(w)
  BY <1>0, <1>1, <1>4, AfterSyncType DEF FetchFails, EndLoop
<1>5. CASE NextFixture(w)
  <2>1. PICK m \in run[w].todo :
          GoOn(w, [run[w] EXCEPT !.pc = "read", !.cur = m, !.todo = @ \ {m}, !.prev = "none"])
    BY <1>5 DEF NextFixture
  <2>. DEFINE r == [run[w] EXCEPT !.pc = "read", !.cur = m, !.todo = run[w].todo \ {m},
                                  !.prev = "none"]
  <2>2. r \in Run
    BY <1>0 DEF Run, Steps
  <2>3. r.job = run[w].job /\ r.synced = run[w].synced /\ r.pc = "read"
    BY <1>0 DEF Run
  <2>4. run[w].job = "live" => run[w].synced < LiveMaxFixtures
    BY <1>5 DEF NextFixture, MoreFixtures
  <2>5. InLiveBody(r) => r.synced < LiveMaxFixtures
    BY <2>3, <2>4 DEF InLiveBody
  <2>6. run' = [run EXCEPT ![w] = r]
    BY <2>1 DEF GoOn
  <2>. QED
    BY <1>1, <2>2, <2>5, <2>6
<1>6. CASE SkipFixture(w)
  <2>1. ~InLiveBody([run[w] EXCEPT !.pc = "loop"])
    BY <1>0 DEF Run, InLiveBody
  <2>. QED
    BY <1>6, <2>1, GoToType DEF SkipFixture, Steps
<1>7. CASE ReadPrev(w)
  <2>1. PICK s \in {status[run[w].cur], "none"} :
          GoOn(w, [run[w] EXCEPT !.pc = "write", !.prev = s])
    BY <1>7 DEF ReadPrev
  <2>. DEFINE r == [run[w] EXCEPT !.pc = "write", !.prev = s]
  <2>2. run[w].cur \in Matches
    BY <1>0 DEF Run
  <2>3. s \in RowStatus \cup {"none"}
    BY <2>2 DEF DataTypeOK
  <2>4. r \in Run
    BY <1>0, <2>3 DEF Run, Steps
  <2>5. r.job = run[w].job /\ r.synced = run[w].synced /\ r.pc = "write"
    BY <1>0 DEF Run
  <2>6. InLiveBody(r) => r.synced < LiveMaxFixtures
    BY <1>0, <1>7, <2>5 DEF InLiveBody, ReadPrev
  <2>. QED
    BY <1>1, <2>1, <2>4, <2>6
<1>8. CASE MarkFails(w)
  <2>1. run[w].synced < LiveMaxFixtures
    BY <1>0, <1>8 DEF MarkFails, InLiveBody
  <2>. QED
    BY <1>0, <1>1, <1>8, <2>1, CountedType DEF MarkFails
<1>9. CASE SameDay(w)
  BY <1>1, <1>9, IdleType DEF SameDay, InLiveBody, Idle
<1>10. CASE NewDay(w)
  <2>. DEFINE r == [run[w] EXCEPT !.pc = "fetch", !.job = "rollover", !.day = today]
  <2>1. r \in Run /\ ~InLiveBody(r)
    BY <1>0 DEF Run, Steps, Jobs, InLiveBody, SyncTypeOK
  <2>. QED
    BY <1>1, <1>10, <2>1 DEF NewDay
<1>11. CASE WriteMatch(w)
  <2>1. PICK s \in {"announce", "mark", "loop"} : 
          GoTo(w, s) /\ (s # "loop" => InLiveBody(run[w]) \/ run[w].job # "live")
    BY <1>11 DEF WriteMatch, AfterFixture, InLiveBody
  <2>. QED
    BY <1>0, <1>2, <1>11, <2>1 DEF InLiveBody, Steps, Run, WriteMatch, AfterFixture
<1>12. CASE Announce(w) \/ Unmark(w)
  BY <1>0, <1>2, <1>12 DEF Announce, Unmark, InLiveBody, Steps, Run
<1>13. CASE Uncache(w)
  BY <1>0, <1>2, <1>13 DEF Uncache, AfterFixture, InLiveBody, Steps, Run
<1>14. CASE Mark(w) \/ Drop(w)
  BY <1>0, <1>2, <1>14 DEF Mark, Drop, InLiveBody, Steps, Run
<1>15. CASE PublishLive(w)
  <2>1. run[w].synced < LiveMaxFixtures
    BY <1>0, <1>15 DEF PublishLive, InLiveBody
  <2>. QED
    BY <1>0, <1>1, <1>15, <2>1, CountedType DEF PublishLive
<1>16. CASE Stamp(w)
  BY <1>1, <1>16, IdleType DEF Stamp, InLiveBody, Idle
<1>. QED
  BY <1>3, <1>4, <1>5, <1>6, <1>7, <1>8, <1>9, <1>10, <1>11, <1>12, <1>13, <1>14,
     <1>15, <1>16 DEF WorkerStep

LEMMA StartJobRun ==
  ASSUME TypeInv, NEW w \in Workers, StartJob(w)
  PROVE  run' \in [Workers -> Run] /\ CounterOK'
<1>1. PICK j \in Jobs, d \in Days : Start(w, j, d)
  BY DEF StartJob, StartBoot, StartToday, StartLive, StartAdmin, StartSeason, Jobs,
         TypeInv, TypeOK, SyncTypeOK
<1>. DEFINE r == [Idle EXCEPT !.pc = "fetch", !.job = j, !.day = d]
<1>2. r \in Run /\ ~InLiveBody(r)
  BY IdleType DEF Run, Steps, InLiveBody
<1>3. run' = [run EXCEPT ![w] = r]
  BY <1>1 DEF Start, GoOn
<1>. QED
  BY <1>2, <1>3, RunUpdate DEF TypeInv, TypeOK

LEMMA CrashRun ==
  ASSUME TypeInv, Crash
  PROVE  run' \in [Workers -> Run] /\ CounterOK'
<1>1. \A w \in Workers : run'[w] = run[w] \/ run'[w] = Idle
  BY DEF Crash
<1>2. run' \in [Workers -> Run]
  BY IdleType DEF Crash, TypeInv, TypeOK, SyncTypeOK
<1>3. ~InLiveBody(Idle)
  BY DEF InLiveBody, Idle
<1>4. ASSUME NEW w \in Workers, InLiveBody(run'[w])
      PROVE  run'[w].synced < LiveMaxFixtures
  <2>1. run'[w] = run[w]
    BY <1>1, <1>3, <1>4
  <2>. QED
    BY <1>4, <2>1 DEF CounterOK, TypeInv
<1>5. CounterOK'
  BY <1>4 DEF CounterOK, InLiveBody
<1>. QED
  BY <1>2, <1>5

\* The collector's variables other than run.
LEMMA WorkerStepRest ==
  ASSUME TypeInv, NEW w \in Workers, WorkerStep(w)
  PROVE  /\ api' = api /\ today' = today /\ crashes' = crashes
         /\ lastSync' \in Nat /\ booted' \in BOOLEAN
         /\ published' \in [Matches -> SUBSET Event]
         /\ opened' \in [Matches -> BOOLEAN]
<1>. USE DEF TypeInv, TypeOK, SyncTypeOK, worldVars, daemonVars, historyVars
<1>0. /\ run[w].cur \in Matches /\ run[w].prev \in RowStatus \cup {"none"}
      /\ run[w].day \in Nat /\ today \in Nat
  BY SyncAssumption DEF Run, Days
<1>1. CASE WriteMatch(w)
  BY <1>0, <1>1 DEF WriteMatch
<1>2. CASE Announce(w)
  <2>1. <<run[w].prev, "finished">> \in Event
    BY <1>0 DEF Event
  <2>. QED
    BY <1>0, <1>2, <2>1 DEF Announce, Publish
<1>3. CASE PublishLive(w)
  <2>1. <<"scheduled", "live">> \in Event
    BY DEF Event, RowStatus
  <2>. QED
    BY <1>0, <1>3, <2>1 DEF PublishLive, Publish
<1>4. CASE Stamp(w)
  BY <1>0, <1>4 DEF Stamp
<1>5. CASE FetchOk(w) \/ FetchFails(w) \/ NextFixture(w) \/ EndLoop(w) \/ SkipFixture(w)
  BY <1>5 DEF FetchOk, FetchFails, NextFixture, EndLoop, SkipFixture
<1>6. CASE ReadPrev(w) \/ Unmark(w) \/ Uncache(w) \/ Mark(w) \/ MarkFails(w) \/ Drop(w)
  BY <1>6 DEF ReadPrev, Unmark, Uncache, Mark, MarkFails, Drop
<1>7. CASE SameDay(w) \/ NewDay(w)
  BY <1>7 DEF SameDay, NewDay
<1>. QED
  BY <1>1, <1>2, <1>3, <1>4, <1>5, <1>6, <1>7 DEF WorkerStep

LEMMA SyncStepType ==
  ASSUME TypeInv, SyncNext
  PROVE  SyncTypeOK' /\ CounterOK'
<1>. USE DEF TypeInv, TypeOK
<1>1. ASSUME NEW w \in Workers, WorkerStep(w)
      PROVE  SyncTypeOK' /\ CounterOK'
  BY <1>1, WorkerStepRun, WorkerStepRest DEF SyncTypeOK
<1>2. ASSUME NEW w \in Workers, StartJob(w)
      PROVE  SyncTypeOK' /\ CounterOK'
  <2>1. UNCHANGED <<worldVars, daemonVars, historyVars>>
    BY <1>2 DEF StartJob, StartBoot, StartToday, StartLive, StartAdmin, StartSeason, Start
  <2>. QED
    BY <1>2, <2>1, StartJobRun DEF SyncTypeOK, worldVars, daemonVars, historyVars
<1>3. CASE Crash
  <2>1. UNCHANGED <<api, today, lastSync, published, opened>>
    BY <1>3 DEF Crash, worldVars, historyVars
  <2>2. booted' = FALSE /\ crashes' = crashes + 1
    BY <1>3 DEF Crash
  <2>3. crashes' \in Nat
    BY <2>2 DEF SyncTypeOK
  <2>. QED
    BY <1>3, <2>1, <2>2, <2>3, CrashRun DEF SyncTypeOK
<1>4. CASE Midnight
  <2>1. today' \in Days
    BY <1>4, SyncAssumption DEF Midnight, SyncTypeOK, Days
  <2>. QED
    BY <1>4, <2>1 DEF Midnight, SyncTypeOK, CounterOK, InLiveBody, daemonVars, historyVars
<1>5. ASSUME NEW m \in Matches, ApiStep(m)
      PROVE  SyncTypeOK' /\ CounterOK'
  <2>1. api' \in [Matches -> Codes]
    BY <1>5 DEF ApiStep, SyncTypeOK
  <2>2. UNCHANGED <<today, run, daemonVars, historyVars>>
    BY <1>5 DEF ApiStep
  <2>. QED
    BY <2>1, <2>2 DEF SyncTypeOK, CounterOK, InLiveBody, daemonVars, historyVars
<1>6. ASSUME NEW m \in Matches, ExpireLiveKey(m)
      PROVE  SyncTypeOK' /\ CounterOK'
  BY <1>6 DEF ExpireLiveKey, SyncTypeOK, CounterOK, InLiveBody, syncVars, worldVars, daemonVars,
              historyVars
<1>. QED
  BY <1>1, <1>2, <1>3, <1>4, <1>5, <1>6 DEF SyncNext

\* The rows and keys, after a step of the collector.
LEMMA SyncStepData ==
  ASSUME TypeInv, SyncNext
  PROVE  DataTypeOK'
<1>. USE DEF TypeInv, TypeOK, DataTypeOK, dataVars
<1>1. ASSUME NEW w \in Workers, WriteMatch(w)
      PROVE  DataTypeOK'
  BY <1>1, mapStatusType DEF WriteMatch, UpsertMatch
<1>2. ASSUME NEW w \in Workers, Unmark(w) \/ Uncache(w) \/ Mark(w) \/ Drop(w)
      PROVE  DataTypeOK'
  <2>1. run[w].cur \in Matches
    BY DEF SyncTypeOK, Run
  <2>2. liveKey' \in [Matches -> BOOLEAN]
    BY <1>2, <2>1 DEF Unmark, Uncache, Mark, Drop, SetLiveKey, DelLiveKey
  <2>3. predCache' \in [Matches -> Nat]
    BY <1>2, <2>1 DEF Unmark, Uncache, Mark, Drop, DelPrediction
  <2>4. UNCHANGED <<status, preds>>
    BY <1>2 DEF Unmark, Uncache, Mark, Drop
  <2>. QED
    BY <2>2, <2>3, <2>4
<1>3. ASSUME NEW m \in Matches, ExpireLiveKey(m)
      PROVE  DataTypeOK'
  BY <1>3 DEF ExpireLiveKey, DelLiveKey
<1>4. ASSUME NEW w \in Workers, StartJob(w)
      PROVE  UNCHANGED dataVars
  BY <1>4 DEF StartJob, StartBoot, StartToday, StartLive, StartAdmin, StartSeason, Start
<1>5. ASSUME NEW w \in Workers,
             FetchOk(w) \/ FetchFails(w) \/ NextFixture(w) \/ EndLoop(w) \/ SkipFixture(w)
      PROVE  UNCHANGED dataVars
  BY <1>5 DEF FetchOk, FetchFails, NextFixture, EndLoop, SkipFixture
<1>6. ASSUME NEW w \in Workers,
             \/ ReadPrev(w) \/ Announce(w) \/ MarkFails(w) \/ PublishLive(w)
             \/ SameDay(w) \/ NewDay(w) \/ Stamp(w)
      PROVE  UNCHANGED dataVars
  BY <1>6 DEF ReadPrev, Announce, MarkFails, PublishLive, SameDay, NewDay, Stamp
<1>7. Crash \/ Midnight \/ (\E m \in Matches : ApiStep(m)) => UNCHANGED dataVars
  BY DEF Crash, Midnight, ApiStep
<1>8. UNCHANGED dataVars => DataTypeOK'
  OBVIOUS
<1>. QED
  BY <1>1, <1>2, <1>3, <1>4, <1>5, <1>6, <1>7, <1>8 DEF SyncNext, WorkerStep

\* A predictor's step keeps its request well-formed; only Save adds a row.
LEMMA PredStepType ==
  ASSUME TypeInv, PredNext
  PROVE  PredTypeOK' /\ DataTypeOK'
<1>. USE DEF TypeInv, TypeOK, PredTypeOK, DataTypeOK, dataVars, predVars, counts
<1>1. ASSUME NEW p \in Predictors, NEW m \in Matches, NEW s \in RequestSteps,
             NEW by \in Origins, Begin(p, s, m, by)
      PROVE  req' \in [Predictors -> Request]
  <2>1. [NoRequest EXCEPT !.pc = s, !.m = m, !.by = by] \in Request
    BY NoRequestType DEF Request
  <2>. QED
    BY <1>1, <2>1 DEF Begin
<1>2. ASSUME NEW p \in Predictors, NEW s \in RequestSteps, Advance(p, s)
      PROVE  req' \in [Predictors -> Request]
  BY <1>2 DEF Advance, Request
<1>3. ASSUME NEW p \in Predictors, Done(p)
      PROVE  req' \in [Predictors -> Request]
  BY <1>3, NoRequestType DEF Done
<1>4. ASSUME NEW r \in Readers, NEW m \in Matches, Ask(r, m) \/ Analyze(r, m)
      PROVE  PredTypeOK' /\ DataTypeOK'
  BY <1>1, <1>4 DEF Ask, Analyze, Predictors, RequestSteps, Origins
<1>5. ASSUME NEW r \in Readers, LookUp(r)
      PROVE  PredTypeOK' /\ DataTypeOK'
  <2>1. r \in Predictors /\ {"latest", "match"} \subseteq RequestSteps
    BY DEF Predictors, RequestSteps
  <2>2. CASE CacheHit(r) \/ TableHit(r)
    BY <1>3, <2>1, <2>2 DEF CacheHit, TableHit
  <2>3. CASE CacheMiss(r) \/ TableMiss(r)
    BY <1>2, <2>1, <2>3 DEF CacheMiss, TableMiss
  <2>4. CASE TableMisread(r)
    BY <1>2, <2>1, <2>4 DEF TableMisread
  <2>. QED
    BY <1>5, <2>2, <2>3, <2>4 DEF LookUp
<1>6. CASE Poll
  BY <1>6 DEF Poll
<1>7. ASSUME NEW m \in Matches, PollMatch(m) \/ ExpirePrediction(m)
      PROVE  PredTypeOK' /\ DataTypeOK'
  <2>1. CASE PollMatch(m)
    <3>1. req' \in [Predictors -> Request]
      BY <1>1, <2>1 DEF PollMatch, Predictors, RequestSteps, Origins
    <3>. QED
      BY <2>1, <3>1 DEF PollMatch
  <2>2. CASE ExpirePrediction(m)
    BY <2>2 DEF ExpirePrediction, DelPrediction
  <2>. QED
    BY <1>7, <2>1, <2>2
<1>8. ASSUME NEW p \in Predictors, ReadMatch(p)
      PROVE  PredTypeOK' /\ DataTypeOK'
  <2>1. req[p] \in Request /\ status[req[p].m] \in RowStatus
    BY <1>8 DEF ReadMatch, Request
  <2>2. [req[p] EXCEPT !.pc = "save", !.basis = status[req[p].m]] \in Request
    BY <2>1 DEF Request, RequestSteps
  <2>3. readRuns' \in [Matches -> Nat]
    BY <1>8, <2>1 DEF ReadMatch, Noted, Request
  <2>. QED
    BY <1>8, <2>2, <2>3 DEF ReadMatch
<1>9. ASSUME NEW p \in Predictors, NoMatch(p) \/ Fail(p)
      PROVE  PredTypeOK' /\ DataTypeOK'
  <2>1. CASE NoMatch(p)
    BY <1>3, <2>1 DEF NoMatch
  <2>2. CASE Fail(p)
    <3>1. req[p].m \in Matches
      BY DEF Request
    <3>2. lost' \in [Matches -> Nat]
      BY <2>2, <3>1 DEF Fail, Noted
    <3>. QED
      BY <1>3, <2>2, <3>2 DEF Fail
  <2>. QED
    BY <1>9, <2>1, <2>2
<1>10. ASSUME NEW p \in Predictors, Save(p)
       PROVE  PredTypeOK' /\ DataTypeOK'
  <2>1. req[p] \in Request
    OBVIOUS
  <2>2. Len(preds[req[p].m]) + 1 \in Nat
    BY <2>1 DEF Request
  <2>3. [req[p] EXCEPT !.pc = "cache", !.id = Len(preds[req[p].m]) + 1] \in Request
    BY <2>1, <2>2 DEF Request, RequestSteps
  <2>4. [basis |-> req[p].basis, by |-> req[p].by] \in Prediction
    BY <2>1 DEF Request, Prediction
  <2>5. preds' \in [Matches -> Seq(Prediction)]
    BY <1>10, <2>1, <2>4 DEF Save, SavePrediction, Request
  <2>. QED
    BY <1>10, <2>3, <2>5 DEF Save
<1>11. ASSUME NEW p \in Predictors, CacheSaved(p)
       PROVE  PredTypeOK' /\ DataTypeOK'
  <2>1. req[p].id \in Nat
    BY DEF Request
  <2>. QED
    BY <1>3, <1>11, <2>1 DEF CacheSaved, SetPrediction
<1>. QED
  BY <1>4, <1>5, <1>6, <1>7, <1>8, <1>9, <1>10, <1>11 DEF PredNext, RunPrediction

LEMMA TypeStep == TypeInv /\ [Next]_vars => TypeInv'
<1>. SUFFICES ASSUME TypeInv, [Next]_vars PROVE TypeInv'
  OBVIOUS
<1>1. CASE Collect
  BY <1>1, SyncStepType, SyncStepData DEF Collect, TypeInv, TypeOK, PredTypeOK, predVars, counts
<1>2. CASE PredNext /\ UNCHANGED syncVars
  BY <1>2, PredStepType DEF TypeInv, TypeOK, SyncTypeOK, CounterOK, InLiveBody, syncVars,
                            worldVars, daemonVars, historyVars
<1>3. CASE UNCHANGED vars
  BY <1>3 DEF vars, TypeInv, TypeOK, SyncTypeOK, CounterOK, InLiveBody, DataTypeOK, PredTypeOK,
              syncVars, predVars, counts, dataVars, worldVars, daemonVars, historyVars
<1>. QED
  BY <1>1, <1>2, <1>3 DEF Next

\* Every variable keeps its type, and SyncLive never processes more fixtures than
\* LIVE_MAX_FIXTURES (the synced field of Run).
THEOREM TypeCorrect == Spec => []TypeOK
<1>1. TypeInv => TypeOK
  BY DEF TypeInv
<1>. QED
  BY TypeInit, TypeStep, <1>1, PTL DEF Spec

-----------------------------------------------------------------------------
\* A cached prediction is a saved one.  Inductively: a request about to fill the
\* cache holds the number of a row as well, and rows are only ever appended.

FillIsSaved ==
  \A p \in Predictors : req[p].pc = "cache" => req[p].id \in 1..Len(preds[req[p].m])

CacheInv == CachedPredictionIsSaved /\ FillIsSaved

LEMMA CacheInit == Init => CacheInv
BY DEF Init, DataInit, PredInit, CacheInv, CachedPredictionIsSaved, FillIsSaved, NoRequest

\* The collector only empties cache entries.
LEMMA SyncStepCache ==
  ASSUME TypeInv, SyncNext
  PROVE  /\ preds' = preds
         /\ \A m \in Matches : predCache'[m] \in {0, predCache[m]}
<1>. USE DEF TypeInv, TypeOK, DataTypeOK, dataVars
<1>1. ASSUME NEW w \in Workers, Uncache(w) \/ Drop(w)
      PROVE  /\ preds' = preds
             /\ \A m \in Matches : predCache'[m] \in {0, predCache[m]}
  BY <1>1 DEF Uncache, Drop, DelPrediction
<1>2. ASSUME NEW w \in Workers, WorkerStep(w), ~(Uncache(w) \/ Drop(w))
      PROVE  UNCHANGED <<preds, predCache>>
  BY <1>2 DEF WorkerStep, FetchOk, FetchFails, NextFixture, EndLoop, SkipFixture, ReadPrev,
              WriteMatch, Announce, Unmark, Mark, MarkFails, PublishLive, SameDay, NewDay, Stamp
<1>3. ASSUME NEW w \in Workers, StartJob(w)
      PROVE  UNCHANGED <<preds, predCache>>
  BY <1>3 DEF StartJob, StartBoot, StartToday, StartLive, StartAdmin, StartSeason, Start
<1>4. Crash \/ Midnight \/ (\E m \in Matches : ApiStep(m) \/ ExpireLiveKey(m))
        => UNCHANGED <<preds, predCache>>
  BY DEF Crash, Midnight, ApiStep, ExpireLiveKey
<1>. QED
  BY <1>1, <1>2, <1>3, <1>4 DEF SyncNext

LEMMA PredStepCache ==
  ASSUME TypeInv, CacheInv, PredNext
  PROVE  CacheInv'
<1>. USE DEF TypeInv, TypeOK, DataTypeOK, PredTypeOK, dataVars, predVars, counts
<1>0. \A p \in Predictors : req[p] \in Request /\ req[p].m \in Matches
  BY DEF Request
\* A step that changes neither rows nor cache and leaves nobody about to fill it.
<1>1. ASSUME NEW p \in Predictors, NEW r \in Request, r.pc # "cache",
             req' = [req EXCEPT ![p] = r], UNCHANGED <<preds, predCache>>
      PROVE  CacheInv'
  BY <1>1 DEF CacheInv, CachedPredictionIsSaved, FillIsSaved
<1>2. ASSUME NEW p \in Predictors, NEW m \in Matches, NEW by \in Origins,
             Begin(p, "look", m, by) \/ Begin(p, "match", m, by), UNCHANGED <<preds, predCache>>
      PROVE  CacheInv'
  <2>1. PICK s \in {"look", "match"} : Begin(p, s, m, by)
    BY <1>2
  <2>. DEFINE r == [NoRequest EXCEPT !.pc = s, !.m = m, !.by = by]
  <2>2. r \in Request /\ r.pc # "cache"
    BY NoRequestType DEF Request, RequestSteps
  <2>. QED
    BY <1>1, <1>2, <2>1, <2>2 DEF Begin
<1>3. ASSUME NEW p \in Predictors, Advance(p, "latest") \/ Advance(p, "match"),
             UNCHANGED <<preds, predCache>>
      PROVE  CacheInv'
  <2>1. PICK s \in {"latest", "match"} : Advance(p, s)
    BY <1>3
  <2>. DEFINE r == [req[p] EXCEPT !.pc = s]
  <2>2. r \in Request /\ r.pc # "cache"
    BY <1>0 DEF Request, RequestSteps
  <2>3. req' = [req EXCEPT ![p] = r]
    BY <2>1 DEF Advance
  <2>. QED
    BY <1>1, <1>3, <2>2, <2>3
<1>4. ASSUME NEW p \in Predictors, Done(p), UNCHANGED <<preds, predCache>>
      PROVE  CacheInv'
  BY <1>1, <1>4, NoRequestType DEF Done, NoRequest
<1>5. ASSUME NEW r \in Readers, NEW m \in Matches, Ask(r, m) \/ Analyze(r, m)
      PROVE  CacheInv'
  BY <1>2, <1>5 DEF Ask, Analyze, Predictors, Origins
<1>6. ASSUME NEW r \in Readers, LookUp(r)
      PROVE  CacheInv'
  BY <1>3, <1>4, <1>6 DEF LookUp, CacheHit, CacheMiss, TableHit, TableMiss, TableMisread, Predictors
<1>7. CASE Poll
  BY <1>7 DEF Poll, CacheInv, CachedPredictionIsSaved, FillIsSaved
<1>8. ASSUME NEW m \in Matches, PollMatch(m)
      PROVE  CacheInv'
  BY <1>2, <1>8 DEF PollMatch, Predictors, Origins
<1>9. ASSUME NEW m \in Matches, ExpirePrediction(m)
      PROVE  CacheInv'
  BY <1>9 DEF ExpirePrediction, DelPrediction, CacheInv, CachedPredictionIsSaved, FillIsSaved
<1>10. ASSUME NEW p \in Predictors, ReadMatch(p)
       PROVE  CacheInv'
  <2>. DEFINE r == [req[p] EXCEPT !.pc = "save", !.basis = status[req[p].m]]
  <2>1. status[req[p].m] \in RowStatus
    BY <1>0, <1>10 DEF ReadMatch
  <2>2. r \in Request /\ r.pc # "cache"
    BY <1>0, <2>1 DEF Request, RequestSteps
  <2>. QED
    BY <1>1, <1>10, <2>2 DEF ReadMatch
<1>11. ASSUME NEW p \in Predictors, NoMatch(p) \/ Fail(p)
       PROVE  CacheInv'
  BY <1>4, <1>11 DEF NoMatch, Fail
<1>12. ASSUME NEW p \in Predictors, Save(p)
       PROVE  CacheInv'
  <2>. DEFINE m  == req[p].m
              id == Len(preds[m]) + 1
              r  == [req[p] EXCEPT !.pc = "cache", !.id = id]
  <2>1. preds[m] \in Seq(Prediction) /\ Len(preds[m]) \in Nat
    BY <1>0
  <2>2. \A n \in Matches : Len(preds'[n]) = IF n = m THEN id ELSE Len(preds[n])
    BY <1>0, <1>12, <2>1 DEF Save, SavePrediction
  <2>3. \A n \in Matches : Len(preds[n]) \in Nat /\ Len(preds'[n]) \in Nat
                           /\ Len(preds[n]) <= Len(preds'[n])
    <3>1. \A n \in Matches : Len(preds[n]) \in Nat
      BY <1>0
    <3>2. id \in Nat /\ Len(preds[m]) <= id
      BY <2>1
    <3>. SUFFICES ASSUME NEW n \in Matches
                  PROVE  /\ Len(preds[n]) \in Nat /\ Len(preds'[n]) \in Nat
                         /\ Len(preds[n]) <= Len(preds'[n])
      OBVIOUS
    <3>. HIDE DEF id
    <3>3. CASE n = m
      BY <2>2, <3>1, <3>2, <3>3
    <3>4. CASE n # m
      <4>1. Len(preds'[n]) = Len(preds[n])
        BY <2>2, <3>4
      <4>. QED
        BY <3>1, <4>1
    <3>. QED
      BY <3>3, <3>4
  <2>4. CachedPredictionIsSaved'
    BY <1>12, <2>3 DEF Save, CacheInv, CachedPredictionIsSaved
  <2>5. r.m = m /\ r.id = id /\ req' = [req EXCEPT ![p] = r]
    BY <1>0, <1>12 DEF Save, Request
  <2>6. ASSUME NEW q \in Predictors, req'[q].pc = "cache"
        PROVE  req'[q].id \in 1..Len(preds'[req'[q].m])
    <3>1. CASE q = p
      BY <1>0, <2>1, <2>2, <2>5, <3>1
    <3>2. CASE q # p
      <4>1. req'[q] = req[q]
        BY <2>5, <3>2
      <4>2. req[q].id \in 1..Len(preds[req[q].m])
        BY <2>6, <4>1 DEF CacheInv, FillIsSaved
      <4>. QED
        BY <1>0, <2>3, <4>1, <4>2
    <3>. QED
      BY <3>1, <3>2
  <2>. QED
    BY <2>4, <2>6 DEF CacheInv, FillIsSaved
<1>13. ASSUME NEW p \in Predictors, CacheSaved(p)
       PROVE  CacheInv'
  <2>1. req[p].id \in 1..Len(preds[req[p].m])
    BY <1>13 DEF CacheSaved, CacheInv, FillIsSaved
  <2>2. preds' = preds /\ Len(preds[req[p].m]) \in Nat
    BY <1>0, <1>13 DEF CacheSaved
  <2>3. predCache' = [predCache EXCEPT ![req[p].m] = req[p].id] \/ predCache' = predCache
    BY <1>13 DEF CacheSaved, SetPrediction
  <2>4. \A m \in Matches : predCache'[m] = predCache[m] \/ (m = req[p].m /\ predCache'[m] = req[p].id)
    BY <1>0, <2>3
  <2>5. CachedPredictionIsSaved'
    <3>1. ASSUME NEW m \in Matches
          PROVE  predCache'[m] \in 0..Len(preds[m])
      <4>1. CASE predCache'[m] = predCache[m]
        BY <4>1 DEF CacheInv, CachedPredictionIsSaved
      <4>2. CASE m = req[p].m /\ predCache'[m] = req[p].id
        <5>. DEFINE n == Len(preds[m])
        <5>1. n \in Nat /\ predCache'[m] \in 1..n
          BY <2>1, <2>2, <4>2
        <5>. HIDE DEF n
        <5>2. predCache'[m] \in 0..n
          BY <5>1
        <5>. QED
          BY <5>2 DEF n
      <4>. QED
        BY <2>4, <4>1, <4>2
    <3>. QED
      BY <2>2, <3>1 DEF CachedPredictionIsSaved
  <2>6. FillIsSaved'
    BY <1>13, NoRequestType DEF CacheSaved, Done, NoRequest, CacheInv, FillIsSaved
  <2>. QED
    BY <2>5, <2>6 DEF CacheInv
<1>. QED
  BY <1>5, <1>6, <1>7, <1>8, <1>9, <1>10, <1>11, <1>12, <1>13 DEF PredNext, RunPrediction

LEMMA CacheStep == TypeInv /\ CacheInv /\ [Next]_vars => CacheInv'
<1>. SUFFICES ASSUME TypeInv, CacheInv, [Next]_vars PROVE CacheInv'
  OBVIOUS
<1>1. CASE Collect
  <2>1. UNCHANGED <<req, preds>> /\ \A m \in Matches : predCache'[m] \in {0, predCache[m]}
    BY <1>1, SyncStepCache DEF Collect, predVars, counts
  <2>2. \A m \in Matches : Len(preds[m]) \in Nat
    BY DEF TypeInv, TypeOK, DataTypeOK
  <2>. QED
    BY <2>1, <2>2 DEF CacheInv, CachedPredictionIsSaved, FillIsSaved
<1>2. CASE PredNext
  BY <1>2, PredStepCache
<1>3. CASE UNCHANGED vars
  BY <1>3 DEF vars, dataVars, predVars, counts, CacheInv, CachedPredictionIsSaved, FillIsSaved
<1>. QED
  BY <1>1, <1>2, <1>3 DEF Next

\* Whatever jobs, readers and poller interleave, the cache of a match never serves
\* a prediction whose row was not saved.
THEOREM CacheServesSavedRows == Spec => []CachedPredictionIsSaved
<1>1. CacheInv => CachedPredictionIsSaved
  BY DEF CacheInv
<1>. QED
  BY TypeInit, TypeStep, CacheInit, CacheStep, <1>1, PTL DEF Spec

-----------------------------------------------------------------------------
\* What "over" means to the rows, the jobs and the events.  The API never takes a
\* final status back, so a copy of its answer that says "over" stays true; the row
\* that processFixture read before its upsert was written by somebody, and a job
\* about to announce the end carries both facts with it.

SnapsAreOld == \A w \in Workers, m \in Matches : run[w].snap[m] \in Over => api[m] \in Over

FinishedRowIsOver == \A m \in Matches : status[m] = "finished" => api[m] \in Over

OtherRowIsOpened == \A m \in Matches : status[m] \notin {"none", "finished"} => opened[m]

ReadIsOpened ==
  \A w \in Workers :
    run[w].pc \in {"write", "announce"} /\ run[w].prev \notin {"none", "finished"}
      => opened[run[w].cur]

AnnouncingTheEnd ==
  \A w \in Workers :
    run[w].pc = "announce" => /\ run[w].prev \notin {"none", "finished"}
                              /\ run[w].snap[run[w].cur] \in Over

OverInv ==
  /\ SnapsAreOld /\ FinishedRowIsOver /\ OtherRowIsOpened
  /\ ReadIsOpened /\ AnnouncingTheEnd /\ AnnouncedFinishIsReal

LEMMA mapStatusFinished ==
  \A c : /\ mapStatus(c) = "finished" <=> c \in Over
         /\ mapStatus(c) # "none"
BY DEF mapStatus, Over

LEMMA OverInit == Init => OverInv
BY DEF Init, DataInit, SyncInit, OverInv, SnapsAreOld, FinishedRowIsOver, OtherRowIsOpened,
       ReadIsOpened, AnnouncingTheEnd, AnnouncedFinishIsReal, Idle, Over

\* A worker's step that leaves rows and events alone, and whose job afterwards has
\* nothing to announce and has read nothing new.
LEMMA QuietRun ==
  ASSUME TypeInv, OverInv, NEW w \in Workers, NEW r \in Run,
         run' = [run EXCEPT ![w] = r], UNCHANGED <<api, status, published, opened>>,
         \A m \in Matches : r.snap[m] \in Over => api[m] \in Over,
         r.pc # "announce",
         r.pc = "write" /\ r.prev \notin {"none", "finished"} => opened[r.cur]
  PROVE  OverInv'
<1>1. \A v \in Workers : run'[v] = IF v = w THEN r ELSE run[v]
  BY DEF TypeInv, TypeOK, SyncTypeOK
<1>2. SnapsAreOld'
  BY <1>1 DEF OverInv, SnapsAreOld
<1>3. FinishedRowIsOver' /\ OtherRowIsOpened' /\ AnnouncedFinishIsReal'
  BY DEF OverInv, FinishedRowIsOver, OtherRowIsOpened, AnnouncedFinishIsReal
<1>4. ReadIsOpened'
  BY <1>1 DEF OverInv, ReadIsOpened
<1>5. AnnouncingTheEnd'
  BY <1>1 DEF OverInv, AnnouncingTheEnd
<1>. QED
  BY <1>2, <1>3, <1>4, <1>5 DEF OverInv

LEMMA IdleQuiet ==
  /\ Idle.pc = "idle"
  /\ \A m \in Matches : Idle.snap[m] \notin Over
BY DEF Idle, Over

LEMMA AfterSyncQuiet ==
  ASSUME NEW r
  PROVE  /\ AfterSync(r).pc \notin {"write", "announce"}
         /\ \A m \in Matches : AfterSync(r).snap[m] \notin Over
BY DEF AfterSync, Idle, Over

LEMMA WorkerStepOver ==
  ASSUME TypeInv, OverInv, NEW w \in Workers, WorkerStep(w)
  PROVE  OverInv'
<1>. USE DEF TypeInv, TypeOK
<1>0. /\ run[w] \in Run /\ run[w].cur \in Matches
      /\ run[w].snap \in [Matches -> Codes]
      /\ \A m \in Matches : run[w].snap[m] \in Over => api[m] \in Over
  BY DEF SyncTypeOK, Run, OverInv, SnapsAreOld
<1>1. CASE FetchOk(w)
  <2>. DEFINE r == [run[w] EXCEPT !.pc = "loop", !.snap = api, !.todo = Fixtures(run[w])]
  <2>1. r \in Run /\ r.pc = "loop" /\ r.snap = api
    BY <1>0, FixturesType DEF Run, Steps, SyncTypeOK
  <2>2. UNCHANGED <<api, status, published, opened>> /\ run' = [run EXCEPT ![w] = r]
    BY <1>1 DEF FetchOk, GoOn, worldVars, historyVars, dataVars
  <2>. QED
    BY <2>1, <2>2, QuietRun
<1>2. CASE FetchFails(w) \/ EndLoop(w)
  <2>1. UNCHANGED <<api, status, published, opened>> /\ GoOn(w, AfterSync(run[w]))
    BY <1>2 DEF FetchFails, EndLoop, worldVars, historyVars, dataVars
  <2>. QED
    BY <1>0, <2>1, AfterSyncType, AfterSyncQuiet, QuietRun DEF GoOn
<1>3. CASE NextFixture(w)
  <2>1. UNCHANGED <<api, status, published, opened>>
    BY <1>3 DEF NextFixture, worldVars, historyVars, dataVars
  <2>2. PICK m \in run[w].todo :
          GoOn(w, [run[w] EXCEPT !.pc = "read", !.cur = m, !.todo = @ \ {m}, !.prev = "none"])
    BY <1>3 DEF NextFixture
  <2>. DEFINE r == [run[w] EXCEPT !.pc = "read", !.cur = m, !.todo = run[w].todo \ {m},
                                  !.prev = "none"]
  <2>3. r \in Run /\ r.pc = "read" /\ r.snap = run[w].snap
    BY <1>0 DEF Run, Steps
  <2>4. run' = [run EXCEPT ![w] = r]
    BY <2>2 DEF GoOn
  <2>. QED
    BY <1>0, <2>1, <2>3, <2>4, QuietRun
<1>4. CASE ReadPrev(w)
  <2>1. UNCHANGED <<api, status, published, opened>>
    BY <1>4 DEF ReadPrev, worldVars, historyVars, dataVars
  <2>2. PICK s \in {status[run[w].cur], "none"} :
          GoOn(w, [run[w] EXCEPT !.pc = "write", !.prev = s])
    BY <1>4 DEF ReadPrev
  <2>. DEFINE r == [run[w] EXCEPT !.pc = "write", !.prev = s]
  <2>3. s \in RowStatus \cup {"none"}
    BY <1>0 DEF DataTypeOK
  <2>4. r \in Run /\ r.pc = "write" /\ r.prev = s /\ r.snap = run[w].snap /\ r.cur = run[w].cur
    BY <1>0, <2>3 DEF Run, Steps
  <2>5. s \notin {"none", "finished"} => opened[run[w].cur]
    BY <1>0 DEF OverInv, OtherRowIsOpened
  <2>. QED
    BY <1>0, <2>1, <2>2, <2>4, <2>5, QuietRun DEF GoOn
<1>5. ASSUME NEW s \in Steps \ {"write", "announce"}, GoTo(w, s),
             UNCHANGED <<api, status, published, opened>>
      PROVE  OverInv'
  <2>. DEFINE r == [run[w] EXCEPT !.pc = s]
  <2>1. r \in Run /\ r.pc = s /\ r.snap = run[w].snap
    BY <1>0 DEF Run
  <2>2. run' = [run EXCEPT ![w] = r]
    BY <1>5 DEF GoTo
  <2>. QED
    BY <1>0, <1>5, <2>1, <2>2, QuietRun
<1>6. CASE SkipFixture(w) \/ Unmark(w) \/ Uncache(w) \/ Mark(w) \/ Drop(w)
  <2>1. UNCHANGED <<api, status, published, opened>>
    BY <1>6 DEF SkipFixture, Unmark, Uncache, Mark, Drop, worldVars, historyVars, dataVars
  <2>2. \E s \in {"loop", "mark", "uncache", "drop", "golive"} : GoTo(w, s)
    BY <1>6 DEF SkipFixture, Unmark, Uncache, Mark, Drop, AfterFixture
  <2>. QED
    BY <1>5, <2>1, <2>2 DEF Steps
<1>7. CASE MarkFails(w)
  <2>1. run[w].synced < LiveMaxFixtures
    BY <1>0, <1>7 DEF MarkFails, CounterOK, InLiveBody
  <2>2. Counted(run[w]) \in Run /\ Counted(run[w]).pc = "loop" /\ Counted(run[w]).snap = run[w].snap
    BY <1>0, <2>1, CountedType DEF Counted, Run
  <2>3. UNCHANGED <<api, status, published, opened>> /\ GoOn(w, Counted(run[w]))
    BY <1>7 DEF MarkFails, worldVars, historyVars, dataVars
  <2>. QED
    BY <1>0, <2>2, <2>3, QuietRun DEF GoOn
<1>8. CASE SameDay(w) \/ Stamp(w)
  <2>1. UNCHANGED <<api, status, published, opened>> /\ GoOn(w, Idle)
    BY <1>8 DEF SameDay, Stamp, worldVars, historyVars, dataVars
  <2>. QED
    BY <2>1, IdleType, IdleQuiet, QuietRun DEF GoOn
<1>9. CASE NewDay(w)
  <2>. DEFINE r == [run[w] EXCEPT !.pc = "fetch", !.job = "rollover", !.day = today]
  <2>1. r \in Run /\ r.pc = "fetch" /\ r.snap = run[w].snap
    BY <1>0 DEF Run, Steps, Jobs, SyncTypeOK
  <2>2. UNCHANGED <<api, status, published, opened>> /\ run' = [run EXCEPT ![w] = r]
    BY <1>9 DEF NewDay, GoOn, worldVars, historyVars, dataVars
  <2>. QED
    BY <1>0, <2>1, <2>2, QuietRun
<1>10. CASE WriteMatch(w)
  <2>. DEFINE m   == run[w].cur
              new == mapStatus(run[w].snap[m])
  <2>1. /\ status' = [status EXCEPT ![m] = new]
        /\ opened' = [opened EXCEPT ![m] = opened[m] \/ new # "finished"]
        /\ UNCHANGED <<api, published>>
        /\ run[w].pc = "write"
    BY <1>10 DEF WriteMatch, UpsertMatch, worldVars
  <2>2. PICK s \in Steps :
          /\ GoTo(w, s)
          /\ s # "write"
          /\ s = "announce" => new = "finished" /\ run[w].prev \notin {"none", "finished"}
    BY <1>10 DEF WriteMatch, JustFinished, AfterFixture, Steps
  <2>3. \A v \in Workers : /\ run'[v].snap = run[v].snap /\ run'[v].cur = run[v].cur
                           /\ run'[v].prev = run[v].prev
                           /\ run'[v].pc = IF v = w THEN s ELSE run[v].pc
    BY <2>2 DEF GoTo, SyncTypeOK, Run
  <2>4. \A n \in Matches : /\ status'[n] = IF n = m THEN new ELSE status[n]
                           /\ opened[n] => opened'[n]
                           /\ n = m /\ new # "finished" => opened'[n]
    BY <1>0, <2>1 DEF DataTypeOK, SyncTypeOK
  <2>5. new = "finished" => run[w].snap[m] \in Over
    BY mapStatusFinished
  <2>6. SnapsAreOld'
    BY <2>1, <2>3 DEF OverInv, SnapsAreOld
  <2>7. FinishedRowIsOver'
    BY <1>0, <2>1, <2>4, <2>5 DEF OverInv, FinishedRowIsOver
  <2>8. OtherRowIsOpened'
    BY <2>4 DEF OverInv, OtherRowIsOpened
  <2>9. ReadIsOpened'
    <3>1. \A v \in Workers : run[v].cur \in Matches
      BY DEF SyncTypeOK, Run
    <3>. QED
      BY <2>1, <2>2, <2>3, <2>4, <3>1 DEF OverInv, ReadIsOpened
  <2>10. AnnouncingTheEnd'
    BY <2>2, <2>3, <2>5 DEF OverInv, AnnouncingTheEnd
  <2>11. AnnouncedFinishIsReal'
    BY <2>1, <2>4 DEF OverInv, AnnouncedFinishIsReal
  <2>. QED
    BY <2>6, <2>7, <2>8, <2>9, <2>10, <2>11 DEF OverInv
\* Publishing an event that is true of its match, and then a quiet step.
<1>11. ASSUME NEW e \in Event, NEW r \in Run, run' = [run EXCEPT ![w] = r],
              published' \in {published, [published EXCEPT ![run[w].cur] = @ \cup {e}]},
              UNCHANGED <<api, status, opened>>,
              r.pc \notin {"write", "announce"}, r.snap = run[w].snap,
              e[2] = "finished" => /\ api[run[w].cur] \in Over /\ opened[run[w].cur]
                                   /\ e[1] \notin {"none", "finished"}
       PROVE  OverInv'
  <2>1. \A v \in Workers : run'[v] = IF v = w THEN r ELSE run[v]
    BY <1>11 DEF SyncTypeOK
  <2>2. SnapsAreOld' /\ ReadIsOpened' /\ AnnouncingTheEnd'
    BY <1>0, <1>11, <2>1 DEF OverInv, SnapsAreOld, ReadIsOpened, AnnouncingTheEnd
  <2>3. FinishedRowIsOver' /\ OtherRowIsOpened'
    BY <1>11 DEF OverInv, FinishedRowIsOver, OtherRowIsOpened
  <2>4. \A n \in Matches : \A f \in published'[n] :
          f \in published[n] \/ (n = run[w].cur /\ f = e)
    BY <1>0, <1>11 DEF SyncTypeOK
  <2>5. AnnouncedFinishIsReal'
    BY <1>11, <2>4 DEF OverInv, AnnouncedFinishIsReal
  <2>. QED
    BY <2>2, <2>3, <2>5 DEF OverInv
<1>12. CASE Announce(w)
  <2>. DEFINE e == <<run[w].prev, "finished">>
              r == [run[w] EXCEPT !.pc = "unmark"]
  <2>1. run[w].prev \notin {"none", "finished"} /\ run[w].snap[run[w].cur] \in Over
    BY <1>12 DEF Announce, OverInv, AnnouncingTheEnd
  <2>2. api[run[w].cur] \in Over /\ opened[run[w].cur]
    BY <1>0, <1>12, <2>1 DEF Announce, OverInv, ReadIsOpened
  <2>3. e \in Event /\ e[1] = run[w].prev
    BY <1>0 DEF Event, Run
  <2>4. r \in Run /\ r.pc = "unmark" /\ r.snap = run[w].snap
    BY <1>0 DEF Run, Steps
  <2>5. /\ run' = [run EXCEPT ![w] = r] /\ UNCHANGED <<api, status, opened>>
        /\ published' \in {published, [published EXCEPT ![run[w].cur] = @ \cup {e}]}
    BY <1>12 DEF Announce, Publish, GoTo, worldVars, dataVars
  <2>. QED
    BY <1>11, <2>1, <2>2, <2>3, <2>4, <2>5
<1>13. CASE PublishLive(w)
  <2>. DEFINE e == <<"scheduled", "live">>
  <2>1. run[w].synced < LiveMaxFixtures
    BY <1>0, <1>13 DEF PublishLive, CounterOK, InLiveBody
  <2>2. Counted(run[w]) \in Run /\ Counted(run[w]).pc = "loop" /\ Counted(run[w]).snap = run[w].snap
    BY <1>0, <2>1, CountedType DEF Counted, Run
  <2>3. e \in Event /\ e[2] # "finished"
    BY DEF Event, RowStatus
  <2>4. /\ run' = [run EXCEPT ![w] = Counted(run[w])] /\ UNCHANGED <<api, status, opened>>
        /\ published' \in {published, [published EXCEPT ![run[w].cur] = @ \cup {e}]}
    BY <1>13 DEF PublishLive, Publish, GoOn, worldVars, dataVars
  <2>. QED
    BY <1>11, <2>2, <2>3, <2>4
<1>. QED
  BY <1>1, <1>2, <1>3, <1>4, <1>6, <1>7, <1>8, <1>9, <1>10, <1>12, <1>13 DEF WorkerStep

LEMMA OverStep == TypeInv /\ OverInv /\ [Next]_vars => OverInv'
<1>. SUFFICES ASSUME TypeInv, OverInv, [Next]_vars PROVE OverInv'
  OBVIOUS
<1>. USE DEF TypeInv, TypeOK
<1>0. ASSUME UNCHANGED <<api, run, status, published, opened>>
      PROVE  OverInv'
  BY <1>0 DEF OverInv, SnapsAreOld, FinishedRowIsOver, OtherRowIsOpened, ReadIsOpened,
              AnnouncingTheEnd, AnnouncedFinishIsReal
<1>1. ASSUME NEW w \in Workers, StartJob(w)
      PROVE  OverInv'
  <2>1. PICK j \in Jobs, d \in Days : Start(w, j, d)
    BY <1>1 DEF StartJob, StartBoot, StartToday, StartLive, StartAdmin, StartSeason, Jobs, SyncTypeOK
  <2>. DEFINE r == [Idle EXCEPT !.pc = "fetch", !.job = j, !.day = d]
  <2>2. r \in Run /\ r.pc = "fetch" /\ r.snap = Idle.snap
    BY IdleType DEF Run, Steps
  <2>3. UNCHANGED <<api, status, published, opened>> /\ run' = [run EXCEPT ![w] = r]
    BY <2>1 DEF Start, GoOn, worldVars, historyVars, dataVars
  <2>. QED
    BY <2>2, <2>3, IdleQuiet, QuietRun
<1>2. CASE Crash
  <2>1. UNCHANGED <<api, status, published, opened>>
    BY <1>2 DEF Crash, worldVars, historyVars, dataVars
  <2>2. \A w \in Workers : run'[w] = run[w] \/ run'[w] = Idle
    BY <1>2 DEF Crash
  <2>3. SnapsAreOld' /\ ReadIsOpened' /\ AnnouncingTheEnd'
    BY <2>1, <2>2, IdleQuiet DEF OverInv, SnapsAreOld, ReadIsOpened, AnnouncingTheEnd
  <2>. QED
    BY <2>1, <2>3 DEF OverInv, FinishedRowIsOver, OtherRowIsOpened, AnnouncedFinishIsReal
<1>3. ASSUME NEW m \in Matches, ApiStep(m)
      PROVE  OverInv'
  <2>1. UNCHANGED <<run, status, published, opened>>
    BY <1>3 DEF ApiStep, historyVars, dataVars
  <2>2. api[m] \notin Over
    BY <1>3 DEF ApiStep, Follows, Over, InPlay
  <2>3. \A n \in Matches : api[n] \in Over => api'[n] \in Over
    BY <1>3, <2>2 DEF ApiStep, SyncTypeOK
  <2>. QED
    BY <2>1, <2>3 DEF OverInv, SnapsAreOld, FinishedRowIsOver, OtherRowIsOpened, ReadIsOpened,
                      AnnouncingTheEnd, AnnouncedFinishIsReal
<1>4. CASE Midnight \/ \E m \in Matches : ExpireLiveKey(m)
  BY <1>0, <1>4 DEF Midnight, ExpireLiveKey, syncVars, worldVars, historyVars, dataVars
<1>5. CASE PredNext /\ UNCHANGED syncVars
  <2>1. UNCHANGED status
    BY <1>5 DEF PredNext, LookUp, RunPrediction, Ask, Analyze, CacheHit, CacheMiss, TableHit,
                TableMiss, TableMisread, Poll, PollMatch, ExpirePrediction, ReadMatch, NoMatch, Fail,
                Save, CacheSaved, dataVars
  <2>. QED
    BY <1>0, <1>5, <2>1 DEF syncVars, worldVars, historyVars
<1>6. CASE UNCHANGED vars
  BY <1>0, <1>6 DEF vars, syncVars, dataVars, worldVars, historyVars
<1>. QED
  BY <1>1, <1>2, <1>3, <1>4, <1>5, <1>6, WorkerStepOver DEF Next, Collect, SyncNext

\* However many jobs overlap, and whatever crashes: a published end of a match is
\* one the API has declared, of a match whose row was not already finished.
THEOREM AnnouncementsAreReal == Spec => []AnnouncedFinishIsReal
<1>1. OverInv => AnnouncedFinishIsReal
  BY DEF OverInv
<1>. QED
  BY TypeInit, TypeStep, OverInit, OverStep, <1>1, PTL DEF Spec

\* Only WriteMatch moves a row, so a row that leaves finished is taken back by a job
\* whose copy of the API's answer predates the end of the match.
THEOREM RegressionsAreStale == Spec => RegressionNeedsStaleAnswer
<1>. DEFINE Stale(m) == /\ api[m] \in Over
                        /\ \E w \in Workers : /\ run[w].pc = "write"
                                              /\ run[w].cur = m
                                              /\ run[w].snap[m] \notin Over
            Regression == \A m \in Matches :
                            status[m] = "finished" /\ status'[m] # "finished" => Stale(m)
<1>1. TypeInv /\ OverInv /\ [Next]_vars => [Regression]_vars
  <2>. SUFFICES ASSUME TypeInv, OverInv, [Next]_vars,
                       NEW m \in Matches, status[m] = "finished", status'[m] # "finished"
                PROVE  Stale(m)
    OBVIOUS
  <2>. USE DEF TypeInv, TypeOK
  <2>1. ASSUME status' = status
        PROVE  Stale(m)
    BY <2>1
  <2>2. CASE PredNext \/ UNCHANGED vars
    BY <2>1, <2>2 DEF PredNext, LookUp, RunPrediction, Ask, Analyze, CacheHit, CacheMiss, TableHit,
                TableMiss, TableMisread, Poll, PollMatch, ExpirePrediction, ReadMatch, NoMatch, Fail,
                Save, CacheSaved, dataVars, vars
  <2>3. ASSUME NEW w \in Workers, StartJob(w) \/ (WorkerStep(w) /\ ~WriteMatch(w))
        PROVE  status' = status
    BY <2>3 DEF StartJob, StartBoot, StartToday, StartLive, StartAdmin, StartSeason, Start,
                WorkerStep, FetchOk, FetchFails, NextFixture, EndLoop, SkipFixture, ReadPrev,
                Announce, Unmark, Uncache, Mark, MarkFails, Drop, PublishLive, SameDay, NewDay,
                Stamp, dataVars
  <2>4. ASSUME NEW w \in Workers, WriteMatch(w)
        PROVE  Stale(m)
    <3>1. run[w].cur = m /\ mapStatus(run[w].snap[m]) # "finished" /\ run[w].pc = "write"
      BY <2>4 DEF WriteMatch, UpsertMatch, DataTypeOK
    <3>2. run[w].snap[m] \notin Over
      BY <3>1, mapStatusFinished
    <3>3. api[m] \in Over
      BY DEF OverInv, FinishedRowIsOver
    <3>. QED
      BY <3>1, <3>2, <3>3
  <2>5. Crash \/ Midnight \/ (\E n \in Matches : ApiStep(n) \/ ExpireLiveKey(n))
          => status' = status
    BY DEF Crash, Midnight, ApiStep, ExpireLiveKey, dataVars
  <2>. QED
    BY <2>1, <2>2, <2>3, <2>4, <2>5 DEF Next, Collect, SyncNext
<1>. QED
  BY TypeInit, TypeStep, OverInit, OverStep, <1>1, PTL DEF Spec, RegressionNeedsStaleAnswer
-----------------------------------------------------------------------------
\* A match that has been in play never again holds a status from before it, so a
\* copy of the API's answer, a row or a request that says "live" stays right.

Unplayed == {"NS", "TBD", "PST"}

SnapsWerePlayed ==
  \A w \in Workers, m \in Matches : run[w].snap[m] \notin Unplayed => api[m] \notin Unplayed

LiveRowWasPlayed == \A m \in Matches : status[m] = "live" => api[m] \notin Unplayed

LiveBasisWasPlayed ==
  \A p \in Predictors : req[p].basis = "live" => api[req[p].m] \notin Unplayed

PlayInv ==
  SnapsWerePlayed /\ LiveRowWasPlayed /\ LiveBasisWasPlayed /\ LivePredictionWasInPlay

LEMMA mapStatusLive == \A c : mapStatus(c) = "live" => c \notin Unplayed
BY DEF mapStatus, Unplayed

LEMMA PlayInit == Init => PlayInv
BY DEF Init, DataInit, SyncInit, PredInit, Idle, NoRequest, Unplayed, PlayInv, SnapsWerePlayed,
       LiveRowWasPlayed, LiveBasisWasPlayed, LivePredictionWasInPlay

\* A job's copy of the API's answer is the one it had, a new one or none.
LEMMA WorkerStepSnap ==
  ASSUME TypeInv, NEW w \in Workers, WorkerStep(w) \/ StartJob(w)
  PROVE  \A v \in Workers, m \in Matches :
           run'[v].snap[m] \in {run[v].snap[m], api[m], "NS"}
<1>. USE DEF TypeInv, TypeOK
<1>0. run[w] \in Run /\ \A m \in Matches : Idle.snap[m] = "NS"
  BY DEF SyncTypeOK, Idle
<1>1. ASSUME NEW r, run' = [run EXCEPT ![w] = r],
             \A m \in Matches : r.snap[m] \in {run[w].snap[m], api[m], "NS"}
      PROVE  \A v \in Workers, m \in Matches :
               run'[v].snap[m] \in {run[v].snap[m], api[m], "NS"}
  BY <1>1 DEF SyncTypeOK
<1>2. CASE FetchOk(w)
  <2>. DEFINE r == [run[w] EXCEPT !.pc = "loop", !.snap = api, !.todo = Fixtures(run[w])]
  <2>1. r.snap = api
    BY <1>0 DEF Run
  <2>. QED
    BY <1>1, <1>2, <2>1 DEF FetchOk, GoOn
<1>3. CASE FetchFails(w) \/ EndLoop(w)
  <2>1. \A m \in Matches : AfterSync(run[w]).snap[m] = "NS"
    BY DEF AfterSync, Idle
  <2>. QED
    BY <1>1, <1>3, <2>1 DEF FetchFails, EndLoop, GoOn
<1>4. ASSUME NEW r, GoOn(w, r), r.snap = run[w].snap
      PROVE  \A v \in Workers, m \in Matches :
               run'[v].snap[m] \in {run[v].snap[m], api[m], "NS"}
  BY <1>1, <1>4 DEF GoOn
<1>9. CASE NextFixture(w)
  <2>1. PICK m \in run[w].todo :
          GoOn(w, [run[w] EXCEPT !.pc = "read", !.cur = m, !.todo = @ \ {m}, !.prev = "none"])
    BY <1>9 DEF NextFixture
  <2>. DEFINE r == [run[w] EXCEPT !.pc = "read", !.cur = m, !.todo = @ \ {m}, !.prev = "none"]
  <2>2. r.snap = run[w].snap
    BY <1>0 DEF Run
  <2>. QED
    BY <1>4, <2>1, <2>2
<1>10. CASE ReadPrev(w)
  <2>1. PICK s \in {status[run[w].cur], "none"} :
          GoOn(w, [run[w] EXCEPT !.pc = "write", !.prev = s])
    BY <1>10 DEF ReadPrev
  <2>2. [run[w] EXCEPT !.pc = "write", !.prev = s].snap = run[w].snap
    BY <1>0 DEF Run
  <2>. QED
    BY <1>4, <2>1, <2>2
<1>11. CASE MarkFails(w) \/ PublishLive(w)
  <2>1. Counted(run[w]).snap = run[w].snap
    BY <1>0 DEF Counted, Run
  <2>. QED
    BY <1>4, <1>11, <2>1 DEF MarkFails, PublishLive
<1>12. CASE NewDay(w)
  <2>1. [run[w] EXCEPT !.pc = "fetch", !.job = "rollover", !.day = today].snap = run[w].snap
    BY <1>0 DEF Run
  <2>. QED
    BY <1>4, <1>12, <2>1 DEF NewDay
<1>5. CASE \E s \in Steps : GoTo(w, s)
  <2>1. PICK s \in Steps : run' = [run EXCEPT ![w] = [run[w] EXCEPT !.pc = s]]
    BY <1>5 DEF GoTo
  <2>2. [run[w] EXCEPT !.pc = s].snap = run[w].snap
    BY <1>0 DEF Run
  <2>. QED
    BY <1>1, <2>1, <2>2
<1>6. CASE SkipFixture(w) \/ WriteMatch(w) \/ Announce(w) \/ Unmark(w) \/ Uncache(w)
           \/ Mark(w) \/ Drop(w)
  BY <1>5, <1>6 DEF SkipFixture, WriteMatch, Announce, Unmark, Uncache, Mark, Drop,
                    AfterFixture, Steps
<1>7. CASE SameDay(w) \/ Stamp(w)
  BY <1>0, <1>1, <1>7 DEF SameDay, Stamp, GoOn
<1>8. CASE StartJob(w)
  <2>1. PICK j, d : run' = [run EXCEPT ![w] = [Idle EXCEPT !.pc = "fetch", !.job = j, !.day = d]]
    BY <1>8 DEF StartJob, StartBoot, StartToday, StartLive, StartAdmin, StartSeason, Start, GoOn
  <2>2. [Idle EXCEPT !.pc = "fetch", !.job = j, !.day = d].snap = Idle.snap
    BY DEF Idle
  <2>. QED
    BY <1>0, <1>1, <2>1, <2>2
<1>. QED
  BY <1>2, <1>3, <1>6, <1>7, <1>8, <1>9, <1>10, <1>11, <1>12 DEF WorkerStep

\* Rows are written from such copies, and the API does not take a start back.
LEMMA SyncStepPlay ==
  ASSUME TypeInv, SyncNext
  PROVE  /\ \A w \in Workers, m \in Matches :
              run'[w].snap[m] \in {run[w].snap[m], api[m], "NS"}
         /\ \A m \in Matches :
              \/ status'[m] = status[m]
              \/ \E w \in Workers : status'[m] = mapStatus(run[w].snap[m])
         /\ \A m \in Matches : api[m] \notin Unplayed => api'[m] \notin Unplayed
<1>. USE DEF TypeInv, TypeOK
<1>1. \A w \in Workers, m \in Matches : run'[w].snap[m] \in {run[w].snap[m], api[m], "NS"}
  <2>1. CASE UNCHANGED run \/ Crash
    BY <2>1 DEF Crash, Idle
  <2>2. CASE (\E m \in Matches : ApiStep(m) \/ ExpireLiveKey(m)) \/ Midnight
    BY <2>1, <2>2 DEF ApiStep, ExpireLiveKey, Midnight, syncVars
  <2>. QED
    BY <2>1, <2>2, WorkerStepSnap DEF SyncNext
<1>2. \A m \in Matches : \/ status'[m] = status[m]
                         \/ \E w \in Workers : status'[m] = mapStatus(run[w].snap[m])
  <2>1. ASSUME NEW w \in Workers, WriteMatch(w), NEW m \in Matches
        PROVE  status'[m] = status[m] \/ status'[m] = mapStatus(run[w].snap[m])
    BY <2>1 DEF WriteMatch, UpsertMatch, DataTypeOK
  <2>2. ASSUME NEW w \in Workers, StartJob(w) \/ (WorkerStep(w) /\ ~WriteMatch(w))
        PROVE  status' = status
    BY <2>2 DEF StartJob, StartBoot, StartToday, StartLive, StartAdmin, StartSeason, Start,
                WorkerStep, FetchOk, FetchFails, NextFixture, EndLoop, SkipFixture, ReadPrev,
                Announce, Unmark, Uncache, Mark, MarkFails, Drop, PublishLive, SameDay, NewDay,
                Stamp, dataVars
  <2>3. Crash \/ Midnight \/ (\E n \in Matches : ApiStep(n) \/ ExpireLiveKey(n))
          => status' = status
    BY DEF Crash, Midnight, ApiStep, ExpireLiveKey, dataVars
  <2>. QED
    BY <2>1, <2>2, <2>3 DEF SyncNext
<1>3. \A m \in Matches : api[m] \notin Unplayed => api'[m] \notin Unplayed
  <2>1. ASSUME NEW n \in Matches, ApiStep(n), NEW m \in Matches, api[m] \notin Unplayed
        PROVE  api'[m] \notin Unplayed
    <3>1. api' = api \/ \E c \in Follows(api[n]) : api' = [api EXCEPT ![n] = c]
      BY <2>1 DEF ApiStep
    <3>2. api[n] \notin Unplayed => Follows(api[n]) \cap Unplayed = {}
      BY DEF Follows, Unplayed, InPlay, Over
    <3>. QED
      BY <2>1, <3>1, <3>2 DEF SyncTypeOK
  <2>2. ASSUME NEW w \in Workers, StartJob(w) \/ WorkerStep(w)
        PROVE  api' = api
    BY <2>2 DEF StartJob, StartBoot, StartToday, StartLive, StartAdmin, StartSeason, Start,
                WorkerStep, FetchOk, FetchFails, NextFixture, EndLoop, SkipFixture, ReadPrev,
                WriteMatch, Announce, Unmark, Uncache, Mark, MarkFails, Drop, PublishLive,
                SameDay, NewDay, Stamp, worldVars
  <2>3. Crash \/ Midnight \/ (\E n \in Matches : ExpireLiveKey(n)) => api' = api
    BY DEF Crash, Midnight, ExpireLiveKey, worldVars, syncVars
  <2>. QED
    BY <2>1, <2>2, <2>3 DEF SyncNext
<1>. QED
  BY <1>1, <1>2, <1>3

\* A request takes "live" from the row it reads and keeps its match until the end;
\* a row takes it from its request.
LEMMA PredStepPlay ==
  ASSUME TypeInv, PlayInv, PredNext, UNCHANGED syncVars
  PROVE  PlayInv'
<1>. USE DEF TypeInv, TypeOK, DataTypeOK, PredTypeOK, dataVars, predVars, counts
<1>0. \A p \in Predictors : req[p] \in Request /\ req[p].m \in Matches
  BY DEF Request
<1>1. UNCHANGED <<run, api, status>>
  BY DEF syncVars, worldVars, PredNext, LookUp, RunPrediction, Ask, Analyze, CacheHit, CacheMiss,
         TableHit, TableMiss, TableMisread, Poll, PollMatch, ExpirePrediction, ReadMatch, NoMatch, Fail,
         Save, CacheSaved
<1>2. SnapsWerePlayed' /\ LiveRowWasPlayed'
  BY <1>1 DEF PlayInv, SnapsWerePlayed, LiveRowWasPlayed
<1>3. ASSUME NEW p \in Predictors, NEW r, req' = [req EXCEPT ![p] = r],
             r.basis = "live" => api[r.m] \notin Unplayed
      PROVE  LiveBasisWasPlayed'
  BY <1>1, <1>3 DEF PlayInv, LiveBasisWasPlayed
<1>4. ASSUME preds' = preds
      PROVE  LivePredictionWasInPlay'
  BY <1>1, <1>4 DEF PlayInv, LivePredictionWasInPlay
<1>5. ASSUME NEW p \in Predictors, NEW s, NEW m, NEW by, Begin(p, s, m, by) \/ Done(p)
      PROVE  LiveBasisWasPlayed'
  <2>1. CASE Begin(p, s, m, by)
    <3>. DEFINE r == [NoRequest EXCEPT !.pc = s, !.m = m, !.by = by]
    <3>1. r.basis = "scheduled" /\ req' = [req EXCEPT ![p] = r]
      BY <2>1 DEF Begin, NoRequest
    <3>. QED
      BY <1>3, <3>1
  <2>2. CASE Done(p)
    <3>1. NoRequest.basis = "scheduled" /\ req' = [req EXCEPT ![p] = NoRequest]
      BY <2>2 DEF Done, NoRequest
    <3>. QED
      BY <1>3, <3>1
  <2>. QED
    BY <1>5, <2>1, <2>2
<1>6. ASSUME NEW p \in Predictors, NEW s, Advance(p, s)
      PROVE  LiveBasisWasPlayed'
  <2>. DEFINE r == [req[p] EXCEPT !.pc = s]
  <2>1. req' = [req EXCEPT ![p] = r] /\ r.basis = req[p].basis /\ r.m = req[p].m
    BY <1>0, <1>6 DEF Advance, Request
  <2>. QED
    BY <1>3, <2>1 DEF PlayInv, LiveBasisWasPlayed
<1>7. ASSUME NEW p \in Readers, (\E m \in Matches : Ask(p, m) \/ Analyze(p, m)) \/ LookUp(p)
      PROVE  PlayInv'
  <2>1. preds' = preds /\ p \in Predictors
    BY <1>7 DEF Ask, Analyze, LookUp, CacheHit, CacheMiss, TableHit, TableMiss, TableMisread,
                Predictors
  <2>2. LiveBasisWasPlayed'
    BY <1>5, <1>6, <1>7, <2>1 DEF Ask, Analyze, LookUp, CacheHit, CacheMiss, TableHit, TableMiss,
                                  TableMisread
  <2>. QED
    BY <1>2, <1>4, <2>1, <2>2 DEF PlayInv
<1>8. CASE Poll \/ \E m \in Matches : PollMatch(m) \/ ExpirePrediction(m)
  <2>1. preds' = preds /\ Poller \in Predictors
    BY <1>8 DEF Poll, PollMatch, ExpirePrediction, Predictors
  <2>2. ASSUME UNCHANGED req
        PROVE  LiveBasisWasPlayed'
    BY <1>1, <2>2 DEF PlayInv, LiveBasisWasPlayed
  <2>3. LiveBasisWasPlayed'
    BY <1>5, <1>8, <2>1, <2>2 DEF Poll, PollMatch, ExpirePrediction
  <2>. QED
    BY <1>2, <1>4, <2>1, <2>3 DEF PlayInv
<1>9. ASSUME NEW p \in Predictors, NoMatch(p) \/ Fail(p) \/ CacheSaved(p)
      PROVE  PlayInv'
  BY <1>2, <1>4, <1>5, <1>9 DEF NoMatch, Fail, CacheSaved, PlayInv
<1>10. ASSUME NEW p \in Predictors, ReadMatch(p)
       PROVE  PlayInv'
  <2>. DEFINE r == [req[p] EXCEPT !.pc = "save", !.basis = status[req[p].m]]
  <2>1. req' = [req EXCEPT ![p] = r] /\ r.basis = status[req[p].m] /\ r.m = req[p].m
    BY <1>0, <1>10 DEF ReadMatch, Request
  <2>2. r.basis = "live" => api[r.m] \notin Unplayed
    BY <1>0, <2>1 DEF PlayInv, LiveRowWasPlayed
  <2>. QED
    BY <1>2, <1>3, <1>4, <1>10, <2>1, <2>2 DEF ReadMatch, PlayInv
<1>11. ASSUME NEW p \in Predictors, Save(p)
       PROVE  PlayInv'
  <2>. DEFINE m   == req[p].m
              row == [basis |-> req[p].basis, by |-> req[p].by]
              r   == [req[p] EXCEPT !.pc = "cache", !.id = Len(preds[m]) + 1]
  <2>1. req' = [req EXCEPT ![p] = r] /\ r.basis = req[p].basis /\ r.m = m
    BY <1>0, <1>11 DEF Save, Request
  <2>2. LiveBasisWasPlayed'
    BY <1>3, <2>1 DEF PlayInv, LiveBasisWasPlayed
  <2>3. preds' = [preds EXCEPT ![m] = Append(preds[m], row)] /\ m \in Matches
    BY <1>0, <1>11 DEF Save, SavePrediction
  <2>4. ASSUME NEW n \in Matches, NEW i \in 1..Len(preds'[n]), IsLive(preds'[n][i])
        PROVE  api'[n] \notin Unplayed
    <3>1. CASE n # m
      BY <1>1, <2>3, <2>4, <3>1 DEF PlayInv, LivePredictionWasInPlay, Unplayed
    <3>2. CASE n = m
      <4>1. preds[m] \in Seq(Prediction) /\ preds'[m] = Append(preds[m], row)
        BY <2>3
      <4>2. (i \in 1..Len(preds[m]) /\ preds'[m][i] = preds[m][i]) \/ preds'[m][i] = row
        BY <2>4, <3>2, <4>1
      <4>3. CASE preds'[m][i] = row
        BY <1>1, <2>4, <3>2, <4>3 DEF IsLive, PlayInv, LiveBasisWasPlayed
      <4>4. CASE i \in 1..Len(preds[m]) /\ preds'[m][i] = preds[m][i]
        BY <1>1, <2>3, <2>4, <3>2, <4>4 DEF PlayInv, LivePredictionWasInPlay, Unplayed
      <4>. QED
        BY <4>2, <4>3, <4>4
    <3>. QED
      BY <3>1, <3>2
  <2>5. LivePredictionWasInPlay'
    BY <2>4 DEF LivePredictionWasInPlay, Unplayed
  <2>. QED
    BY <1>2, <2>2, <2>5 DEF PlayInv
<1>. QED
  BY <1>7, <1>8, <1>9, <1>10, <1>11 DEF PredNext, RunPrediction

LEMMA PlayStep == TypeInv /\ PlayInv /\ [Next]_vars => PlayInv'
<1>. SUFFICES ASSUME TypeInv, PlayInv, [Next]_vars PROVE PlayInv'
  OBVIOUS
<1>1. CASE Collect
  <2>1. UNCHANGED <<req, preds>> /\ SyncNext
    BY <1>1, SyncStepCache DEF Collect, predVars, counts
  <2>2. \A p \in Predictors : req[p].m \in Matches
    BY DEF TypeInv, TypeOK, PredTypeOK, Request
  <2>3. SnapsWerePlayed'
    BY <2>1, SyncStepPlay DEF PlayInv, SnapsWerePlayed, Unplayed
  <2>4. LiveRowWasPlayed'
    BY <2>1, SyncStepPlay, mapStatusLive DEF PlayInv, SnapsWerePlayed, LiveRowWasPlayed
  <2>5. LiveBasisWasPlayed'
    BY <2>1, <2>2, SyncStepPlay DEF PlayInv, LiveBasisWasPlayed
  <2>6. LivePredictionWasInPlay'
    BY <2>1, SyncStepPlay DEF PlayInv, LivePredictionWasInPlay, Unplayed
  <2>. QED
    BY <2>3, <2>4, <2>5, <2>6 DEF PlayInv
<1>2. CASE PredNext /\ UNCHANGED syncVars
  BY <1>2, PredStepPlay
<1>3. CASE UNCHANGED vars
  BY <1>3 DEF vars, dataVars, predVars, counts, syncVars, worldVars, PlayInv, SnapsWerePlayed,
              LiveRowWasPlayed, LiveBasisWasPlayed, LivePredictionWasInPlay
<1>. QED
  BY <1>1, <1>2, <1>3 DEF Next

\* A live prediction is of a match that has been in play, for any jobs, readers and
\* snapshots however old.
THEOREM LivePredictionsAreOfPlay == Spec => []LivePredictionWasInPlay
<1>1. PlayInv => LivePredictionWasInPlay
  BY DEF PlayInv
<1>. QED
  BY TypeInit, TypeStep, PlayInit, PlayStep, <1>1, PTL DEF Spec
-----------------------------------------------------------------------------
\* The rows the reads have saved for a match and the reads that are about to run the
\* model for it: a read joins the second only when the table has no row at all, or its
\* answer is lost, and moves on to the first by saving.

Computing(m) ==
  {r \in Readers : req[r].by = "read" /\ req[r].m = m /\ req[r].pc \in {"match", "save"}}

ReadsAreFew ==
  \A m \in Matches :
    Cardinality(SavedBy(m, "read")) + Cardinality(Computing(m)) <= Cardinality(Readers) + misreads

\* ... and none of them is the poller's.
PollerPolls == req[Poller].pc # "idle" => req[Poller].by = "poll"

ReadsInv == PollerPolls /\ ReadsAreFew

\* One element more makes a set larger by one at most.
LEMMA OneMore ==
  ASSUME NEW S, IsFiniteSet(S), NEW x
  PROVE  /\ IsFiniteSet(S \cup {x})
         /\ Cardinality(S \cup {x}) \in Nat
         /\ Cardinality(S \cup {x}) <= Cardinality(S) + 1
<1>1. Cardinality(S \cup {x}) = IF x \in S THEN Cardinality(S) ELSE Cardinality(S) + 1
  BY FS_AddElement
<1>2. IsFiniteSet(S \cup {x})
  BY FS_AddElement
<1>3. Cardinality(S) \in Nat
  BY FS_CardinalityType
<1>. QED
  BY <1>1, <1>2, <1>3

LEMMA ReadsFinite ==
  ASSUME TypeInv, NEW m \in Matches
  PROVE  /\ IsFiniteSet(SavedBy(m, "read")) /\ IsFiniteSet(Computing(m))
         /\ Cardinality(SavedBy(m, "read")) \in Nat /\ Cardinality(Computing(m)) \in Nat
         /\ Cardinality(Computing(m)) <= Cardinality(Readers)
         /\ Cardinality(Readers) \in Nat /\ misreads \in Nat
<1>1. Len(preds[m]) \in Nat
  BY DEF TypeInv, TypeOK, DataTypeOK
<1>2. IsFiniteSet(1..Len(preds[m]))
  BY <1>1, FS_Interval
<1>3. SavedBy(m, "read") \subseteq 1..Len(preds[m])
  BY DEF SavedBy
<1>4. Computing(m) \subseteq Readers
  BY DEF Computing
<1>5. IsFiniteSet(SavedBy(m, "read"))
  BY <1>2, <1>3, FS_Subset
<1>6. IsFiniteSet(Computing(m)) /\ Cardinality(Computing(m)) <= Cardinality(Readers)
  BY <1>4, FS_Subset, PredictionsAssumption
<1>. QED
  BY <1>5, <1>6, FS_CardinalityType, PredictionsAssumption DEF TypeInv, TypeOK, PredTypeOK

LEMMA ReadsInit == Init => ReadsInv
<1>. SUFFICES ASSUME Init PROVE ReadsInv
  OBVIOUS
<1>1. PollerPolls
  BY DEF Init, PredInit, NoRequest, PollerPolls, Predictors
<1>2. ASSUME NEW m \in Matches
      PROVE  SavedBy(m, "read") = {} /\ Computing(m) = {}
  BY DEF Init, DataInit, PredInit, NoRequest, Predictors, SavedBy, Computing
<1>3. Cardinality(Readers) \in Nat /\ misreads = 0
  BY FS_CardinalityType, PredictionsAssumption DEF Init, PredInit
<1>4. ReadsAreFew
  BY <1>2, <1>3, FS_EmptySet DEF ReadsAreFew
<1>. QED
  BY <1>1, <1>4 DEF ReadsInv

\* A step that saves nothing and puts no other reader to computing.
LEMMA NoMoreReads ==
  ASSUME TypeInv, ReadsAreFew, NEW m \in Matches, preds' = preds, misreads' = misreads,
         \A r \in Readers : r \in Computing(m)' => r \in Computing(m)
  PROVE  Cardinality(SavedBy(m, "read"))' + Cardinality(Computing(m))'
           <= Cardinality(Readers) + misreads'
<1>1. SavedBy(m, "read")' = SavedBy(m, "read")
  BY DEF SavedBy
<1>2. Computing(m)' \subseteq Computing(m)
  BY DEF Computing
<1>3. Cardinality(Computing(m)') <= Cardinality(Computing(m)) /\ Cardinality(Computing(m)') \in Nat
  BY <1>2, ReadsFinite, FS_Subset, FS_CardinalityType
<1>4. Cardinality(SavedBy(m, "read")) + Cardinality(Computing(m))
        <= Cardinality(Readers) + misreads
  BY DEF ReadsAreFew
<1>. QED
  BY <1>1, <1>3, <1>4, ReadsFinite

\* A failed read of the table: one more computes, and one more read has failed.
LEMMA MisreadReads ==
  ASSUME TypeInv, ReadsAreFew, NEW p \in Readers, TableMisread(p), NEW m \in Matches
  PROVE  Cardinality(SavedBy(m, "read"))' + Cardinality(Computing(m))'
           <= Cardinality(Readers) + misreads'
<1>1. SavedBy(m, "read")' = SavedBy(m, "read") /\ misreads' = misreads + 1
  BY DEF SavedBy, TableMisread, dataVars
<1>2. \A r \in Predictors : r # p => req'[r] = req[r]
  BY DEF TableMisread, Advance, TypeInv, TypeOK, PredTypeOK
<1>3. Computing(m)' \subseteq Computing(m) \cup {p}
  BY <1>2 DEF Computing, Predictors
<1>4. /\ IsFiniteSet(Computing(m) \cup {p})
      /\ Cardinality(Computing(m) \cup {p}) <= Cardinality(Computing(m)) + 1
  BY ReadsFinite, OneMore
<1>5. /\ Cardinality(Computing(m)') <= Cardinality(Computing(m) \cup {p})
      /\ Cardinality(Computing(m)') \in Nat /\ Cardinality(Computing(m) \cup {p}) \in Nat
  BY <1>3, <1>4, FS_Subset, FS_CardinalityType
<1>6. Cardinality(SavedBy(m, "read")) + Cardinality(Computing(m))
        <= Cardinality(Readers) + misreads
  BY DEF ReadsAreFew
<1>. QED
  BY <1>1, <1>4, <1>5, <1>6, ReadsFinite

\* The table has no row: whoever is computing, they are readers and nothing is saved.
LEMMA MissReads ==
  ASSUME TypeInv, ReadsAreFew, NEW p \in Readers, TableMiss(p), NEW m \in Matches
  PROVE  Cardinality(SavedBy(m, "read"))' + Cardinality(Computing(m))'
           <= Cardinality(Readers) + misreads'
<1>1. preds' = preds /\ misreads' = misreads
  BY DEF TableMiss, dataVars, counts
<1>2. \A r \in Predictors : r # p => req'[r] = req[r]
  BY DEF TableMiss, Advance, TypeInv, TypeOK, PredTypeOK
<1>3. req'[p].m = req[p].m
  BY DEF TableMiss, Advance, TypeInv, TypeOK, PredTypeOK, Predictors, Request
<1>4. CASE m # req[p].m
  <2>1. \A r \in Readers : r \in Computing(m)' => r \in Computing(m)
    BY <1>2, <1>3, <1>4 DEF Computing, Predictors
  <2>. QED
    BY <1>1, <2>1, NoMoreReads
<1>5. CASE m = req[p].m
  <2>1. SavedBy(m, "read")' = {}
    BY <1>1, <1>5 DEF SavedBy, TableMiss, GetLatestPrediction
  <2>2. Computing(m)' \subseteq Readers
    BY DEF Computing
  <2>3. Cardinality(Computing(m)') <= Cardinality(Readers) /\ Cardinality(Computing(m)') \in Nat
    BY <2>2, FS_Subset, FS_CardinalityType, PredictionsAssumption
  <2>4. Cardinality(SavedBy(m, "read")') = 0
    BY <2>1, FS_EmptySet
  <2>. QED
    BY <1>1, <2>3, <2>4, ReadsFinite
<1>. QED
  BY <1>4, <1>5

\* A prediction is saved: a read that does so has stopped computing.
LEMMA SaveReads ==
  ASSUME TypeInv, ReadsInv, NEW p \in Predictors, Save(p), NEW m \in Matches
  PROVE  Cardinality(SavedBy(m, "read"))' + Cardinality(Computing(m))'
           <= Cardinality(Readers) + misreads'
<1>. DEFINE n   == req[p].m
            row == [basis |-> req[p].basis, by |-> req[p].by]
            old == preds[n]
<1>1. n \in Matches /\ req[p] \in Request /\ old \in Seq(Prediction)
  BY DEF TypeInv, TypeOK, PredTypeOK, DataTypeOK, Request
<1>2. preds' = [preds EXCEPT ![n] = Append(old, row)] /\ misreads' = misreads
  BY DEF Save, SavePrediction, counts
<1>3. \A r \in Predictors : r # p => req'[r] = req[r]
  BY DEF Save, TypeInv, TypeOK, PredTypeOK
<1>4. req'[p].pc = "cache" /\ req[p].pc = "save"
  BY <1>1 DEF Save, TypeInv, TypeOK, PredTypeOK, Request
<1>5. Computing(m)' = Computing(m) \ {p}
  <2>1. p \notin Computing(m)'
    BY <1>4 DEF Computing
  <2>2. \A r \in Readers : r # p => (r \in Computing(m)' <=> r \in Computing(m))
    BY <1>3 DEF Computing, Predictors
  <2>3. Computing(m)' \subseteq Readers /\ Computing(m) \subseteq Readers
    BY DEF Computing
  <2>. QED
    BY <2>1, <2>2, <2>3
<1>6. Cardinality(SavedBy(m, "read")) + Cardinality(Computing(m))
        <= Cardinality(Readers) + misreads
  BY DEF ReadsInv, ReadsAreFew
<1>7. Cardinality(Computing(m)') <= Cardinality(Computing(m)) /\ Cardinality(Computing(m)') \in Nat
  BY <1>5, ReadsFinite, FS_Subset, FS_CardinalityType
<1>8. CASE m # n \/ req[p].by # "read"
  <2>1. SavedBy(m, "read")' = SavedBy(m, "read")
    <3>1. CASE m # n
      <4>1. preds'[m] = preds[m]
        BY <1>2, <3>1 DEF TypeInv, TypeOK, DataTypeOK
      <4>. QED
        BY <4>1 DEF SavedBy
    <3>2. CASE m = n /\ req[p].by # "read"
      <4>1. preds'[m] = Append(old, row) /\ row.by # "read"
        BY <1>1, <1>2, <3>2 DEF TypeInv, TypeOK, DataTypeOK
      <4>2. Len(old) \in Nat /\ Len(Append(old, row)) = Len(old) + 1
        BY <1>1
      <4>3. \A i \in 1..Len(old) : Append(old, row)[i] = old[i]
        BY <1>1
      <4>4. Append(old, row)[Len(old) + 1] = row
        BY <1>1
      <4>. QED
        BY <3>2, <4>1, <4>2, <4>3, <4>4 DEF SavedBy
    <3>. QED
      BY <1>8, <3>1, <3>2
  <2>. QED
    BY <1>2, <1>6, <1>7, <2>1, ReadsFinite
<1>9. CASE m = n /\ req[p].by = "read"
  <2>1. p \in Computing(m)
    <3>1. p \in Readers
      BY <1>4, <1>9 DEF ReadsInv, PollerPolls, Predictors
    <3>. QED
      BY <1>4, <1>9, <3>1 DEF Computing
  <2>2. Cardinality(Computing(m)') = Cardinality(Computing(m)) - 1
    BY <1>5, <2>1, ReadsFinite, FS_RemoveElement
  <2>3. SavedBy(m, "read")' \subseteq SavedBy(m, "read") \cup {Len(old) + 1}
    <3>1. preds'[m] = Append(old, row)
      BY <1>1, <1>2, <1>9 DEF TypeInv, TypeOK, DataTypeOK
    <3>2. Len(old) \in Nat /\ Len(Append(old, row)) = Len(old) + 1
      BY <1>1
    <3>3. \A i \in 1..Len(old) : Append(old, row)[i] = old[i]
      BY <1>1
    <3>. QED
      BY <1>9, <3>1, <3>2, <3>3 DEF SavedBy
  <2>. DEFINE more == SavedBy(m, "read") \cup {Len(old) + 1}
  <2>4. IsFiniteSet(more) /\ Cardinality(more) <= Cardinality(SavedBy(m, "read")) + 1
    BY ReadsFinite, OneMore
  <2>5. /\ Cardinality(SavedBy(m, "read")') <= Cardinality(more)
        /\ Cardinality(SavedBy(m, "read")') \in Nat /\ Cardinality(more) \in Nat
    BY <2>3, <2>4, FS_Subset, FS_CardinalityType
  <2>. HIDE DEF more
  <2>. QED
    BY <1>2, <1>6, <2>2, <2>4, <2>5, ReadsFinite
<1>. QED
  BY <1>8, <1>9

LEMMA PredStepReads ==
  ASSUME TypeInv, ReadsInv, PredNext
  PROVE  ReadsInv'
<1>. USE DEF ReadsInv
<1>0. /\ \A p \in Predictors : req[p] \in Request
      /\ Poller \in Predictors /\ Poller \notin Readers /\ Readers \subseteq Predictors
  BY PredictionsAssumption DEF Predictors, TypeInv, TypeOK, PredTypeOK
<1>1. ASSUME NEW p \in Predictors, NEW r, req' = [req EXCEPT ![p] = r],
             preds' = preds, misreads' = misreads,
             p = Poller /\ r.pc # "idle" => r.by = "poll",
             r.by = "read" /\ r.pc \in {"match", "save"}
               => r.m = req[p].m /\ req[p].by = "read" /\ req[p].pc \in {"match", "save"}
      PROVE  ReadsInv'
  <2>1. req'[p] = r /\ \A q \in Predictors : q # p => req'[q] = req[q]
    BY <1>1 DEF TypeInv, TypeOK, PredTypeOK
  <2>2. PollerPolls'
    BY <1>0, <1>1, <2>1 DEF PollerPolls
  <2>3. ASSUME NEW m \in Matches, NEW q \in Readers, q \in Computing(m)'
        PROVE  q \in Computing(m)
    BY <1>0, <1>1, <2>1, <2>3 DEF Computing
  <2>4. ReadsAreFew'
    BY <1>1, <2>3, NoMoreReads DEF ReadsAreFew
  <2>. QED
    BY <2>2, <2>4
<1>2. ASSUME UNCHANGED <<req, misreads, preds>>
      PROVE  ReadsInv'
  BY <1>2 DEF PollerPolls, ReadsAreFew, Computing, SavedBy
<1>3. ASSUME NEW p \in Predictors, Done(p), preds' = preds, misreads' = misreads
      PROVE  ReadsInv'
  <2>1. NoRequest.pc = "idle" /\ req' = [req EXCEPT ![p] = NoRequest]
    BY <1>3 DEF Done, NoRequest
  <2>. QED
    BY <1>1, <1>3, <2>1
<1>4. ASSUME NEW p \in Predictors, NEW s, NEW m, NEW by, Begin(p, s, m, by),
             preds' = preds, misreads' = misreads,
             p = Poller => by = "poll", by = "read" => s = "look"
      PROVE  ReadsInv'
  <2>. DEFINE r == [NoRequest EXCEPT !.pc = s, !.m = m, !.by = by]
  <2>1. req' = [req EXCEPT ![p] = r] /\ r.pc = s /\ r.by = by
    BY <1>4 DEF Begin, NoRequest
  <2>. HIDE DEF r
  <2>. QED
    BY <1>1, <1>4, <2>1
<1>5. ASSUME NEW p \in Readers, NEW m \in Matches, Ask(p, m) \/ Analyze(p, m)
      PROVE  ReadsInv'
  BY <1>0, <1>4, <1>5 DEF Ask, Analyze, dataVars, counts
<1>6. ASSUME NEW p \in Readers, CacheHit(p) \/ TableHit(p)
      PROVE  ReadsInv'
  BY <1>0, <1>3, <1>6 DEF CacheHit, TableHit, dataVars, counts
<1>7. ASSUME NEW p \in Readers, CacheMiss(p)
      PROVE  ReadsInv'
  <2>. DEFINE r == [req[p] EXCEPT !.pc = "latest"]
  <2>1. req' = [req EXCEPT ![p] = r] /\ r.pc = "latest"
    BY <1>0, <1>7 DEF CacheMiss, Advance, Request
  <2>2. preds' = preds /\ misreads' = misreads
    BY <1>7 DEF CacheMiss, dataVars, counts
  <2>. HIDE DEF r
  <2>. QED
    BY <1>0, <1>1, <2>1, <2>2
<1>8. ASSUME NEW p \in Readers, TableMiss(p) \/ TableMisread(p)
      PROVE  ReadsInv'
  <2>1. req'[Poller] = req[Poller]
    BY <1>0, <1>8 DEF TableMiss, TableMisread, Advance, TypeInv, TypeOK, PredTypeOK
  <2>2. PollerPolls'
    BY <2>1 DEF PollerPolls
  <2>3. ReadsAreFew'
    BY <1>8, MissReads, MisreadReads DEF ReadsAreFew
  <2>. QED
    BY <2>2, <2>3
<1>9. CASE Poll \/ \E m \in Matches : ExpirePrediction(m)
  BY <1>2, <1>9 DEF Poll, ExpirePrediction, dataVars, predVars, counts
<1>10. ASSUME NEW m \in Matches, PollMatch(m)
       PROVE  ReadsInv'
  BY <1>0, <1>4, <1>10 DEF PollMatch, dataVars, counts
<1>11. ASSUME NEW p \in Predictors, ReadMatch(p)
       PROVE  ReadsInv'
  <2>. DEFINE r == [req[p] EXCEPT !.pc = "save", !.basis = status[req[p].m]]
  <2>1. req' = [req EXCEPT ![p] = r] /\ r.by = req[p].by /\ r.m = req[p].m
    BY <1>0, <1>11 DEF ReadMatch, Request
  <2>2. preds' = preds /\ misreads' = misreads /\ req[p].pc = "match"
    BY <1>11 DEF ReadMatch, dataVars
  <2>. HIDE DEF r
  <2>. QED
    BY <1>1, <2>1, <2>2 DEF PollerPolls
<1>12. ASSUME NEW p \in Predictors, NoMatch(p) \/ Fail(p) \/ CacheSaved(p)
       PROVE  ReadsInv'
  BY <1>3, <1>12 DEF NoMatch, Fail, CacheSaved, dataVars, counts
<1>13. ASSUME NEW p \in Predictors, Save(p)
       PROVE  ReadsInv'
  <2>1. req'[Poller].by = req[Poller].by /\ (p # Poller => req'[Poller] = req[Poller])
    BY <1>0, <1>13 DEF Save, TypeInv, TypeOK, PredTypeOK, Request
  <2>2. PollerPolls'
    BY <1>13, <2>1 DEF PollerPolls, Save
  <2>3. ReadsAreFew'
    BY <1>13, SaveReads DEF ReadsAreFew
  <2>. QED
    BY <2>2, <2>3
<1>. QED
  BY <1>5, <1>6, <1>7, <1>8, <1>9, <1>10, <1>11, <1>12, <1>13
     DEF PredNext, LookUp, RunPrediction

LEMMA ReadsStep == TypeInv /\ ReadsInv /\ [Next]_vars => ReadsInv'
<1>. SUFFICES ASSUME TypeInv, ReadsInv, [Next]_vars PROVE ReadsInv'
  OBVIOUS
<1>1. ASSUME UNCHANGED <<req, misreads, preds>>
      PROVE  ReadsInv'
  BY <1>1 DEF ReadsInv, PollerPolls, ReadsAreFew, Computing, SavedBy
<1>2. CASE Collect
  BY <1>1, <1>2, SyncStepCache DEF Collect, predVars, counts
<1>3. CASE PredNext /\ UNCHANGED syncVars
  BY <1>3, PredStepReads
<1>4. CASE UNCHANGED vars
  BY <1>1, <1>4 DEF vars, dataVars, predVars, counts
<1>. QED
  BY <1>2, <1>3, <1>4 DEF Next

-----------------------------------------------------------------------------
\* Every run of the model for a read is accounted for: its row is saved, its result
\* is lost or the read is about to save it.

Saving(m) == {r \in Readers : req[r].by = "read" /\ req[r].m = m /\ req[r].pc = "save"}

Accounted ==
  \A m \in Matches :
    readRuns[m] <= Cardinality(SavedBy(m, "read")) + Cardinality(Saving(m)) + lost[m]

LEMMA SavingFinite ==
  ASSUME NEW m \in Matches
  PROVE  /\ IsFiniteSet(Saving(m)) /\ Cardinality(Saving(m)) \in Nat
         /\ IsFiniteSet(Saving(m)') /\ Cardinality(Saving(m)') \in Nat
<1>1. Saving(m) \subseteq Readers /\ Saving(m)' \subseteq Readers
  BY DEF Saving
<1>. QED
  BY <1>1, FS_Subset, FS_CardinalityType, PredictionsAssumption

\* Nobody begins or ends saving for m.
LEMMA SameAccount ==
  ASSUME Accounted, NEW m \in Matches, preds' = preds, Saving(m)' = Saving(m),
         readRuns'[m] = readRuns[m], lost'[m] = lost[m]
  PROVE  readRuns'[m] <= Cardinality(SavedBy(m, "read"))' + Cardinality(Saving(m))' + lost'[m]
<1>1. SavedBy(m, "read")' = SavedBy(m, "read")
  BY DEF SavedBy
<1>. QED
  BY <1>1 DEF Accounted

\* One request changes, from a step other than saving to another such step.
LEMMA SameSaving ==
  ASSUME TypeInv, NEW p \in Predictors, NEW r, req' = [req EXCEPT ![p] = r],
         req[p].pc # "save", r.pc # "save"
  PROVE  \A m \in Matches : Saving(m)' = Saving(m)
<1>1. \A q \in Predictors : req'[q] = IF q = p THEN r ELSE req[q]
  BY DEF TypeInv, TypeOK, PredTypeOK
<1>. QED
  BY <1>1 DEF Saving, Predictors

\* The model runs for p: if p reads, its match has one more run and one more saver.
LEMMA ReadMatchAccount ==
  ASSUME TypeInv, PollerPolls, Accounted, NEW p \in Predictors, ReadMatch(p)
  PROVE  Accounted'
<1>. DEFINE r == [req[p] EXCEPT !.pc = "save", !.basis = status[req[p].m]]
<1>0. req[p] \in Request /\ req[p].m \in Matches
  BY DEF TypeInv, TypeOK, PredTypeOK, Request
<1>1. /\ \A q \in Predictors : req'[q] = IF q = p THEN r ELSE req[q]
      /\ r.pc = "save" /\ r.by = req[p].by /\ r.m = req[p].m /\ req[p].pc = "match"
  BY <1>0 DEF ReadMatch, TypeInv, TypeOK, PredTypeOK, Request
<1>2. preds' = preds /\ lost' = lost /\ readRuns' = Noted(p, readRuns)
  BY DEF ReadMatch, dataVars
<1>. HIDE DEF r
<1>3. SUFFICES ASSUME NEW m \in Matches
               PROVE  readRuns'[m] <= Cardinality(SavedBy(m, "read"))' + Cardinality(Saving(m))'
                                        + lost'[m]
  BY DEF Accounted
<1>4. CASE req[p].by # "read" \/ req[p].m # m
  <2>1. Saving(m)' = Saving(m)
    BY <1>1, <1>4 DEF Saving, Predictors
  <2>2. readRuns'[m] = readRuns[m]
    BY <1>2, <1>4 DEF Noted, TypeInv, TypeOK, PredTypeOK
  <2>. QED
    BY <1>2, <2>1, <2>2, SameAccount
<1>5. CASE req[p].by = "read" /\ req[p].m = m
  <2>1. p \in Readers
    BY <1>1, <1>5 DEF PollerPolls, Predictors
  <2>2. p \notin Saving(m) /\ Saving(m)' = Saving(m) \cup {p}
    BY <1>1, <1>5, <2>1 DEF Saving, Predictors
  <2>3. Cardinality(Saving(m)') = Cardinality(Saving(m)) + 1
    BY <2>2, SavingFinite, FS_AddElement
  <2>4. readRuns'[m] = readRuns[m] + 1 /\ readRuns[m] \in Nat /\ lost[m] \in Nat
    BY <1>2, <1>5 DEF Noted, TypeInv, TypeOK, PredTypeOK
  <2>5. SavedBy(m, "read")' = SavedBy(m, "read")
    BY <1>2 DEF SavedBy
  <2>. QED
    BY <1>2, <2>3, <2>4, <2>5, SavingFinite, ReadsFinite DEF Accounted
<1>. QED
  BY <1>4, <1>5

\* The result is lost: one saver less, one lost run more.
LEMMA FailAccount ==
  ASSUME TypeInv, Accounted, NEW p \in Predictors, Fail(p)
  PROVE  Accounted'
<1>0. req[p] \in Request /\ req[p].m \in Matches
  BY DEF TypeInv, TypeOK, PredTypeOK, Request
<1>1. /\ \A q \in Predictors : req'[q] = IF q = p THEN NoRequest ELSE req[q]
      /\ NoRequest.pc = "idle" /\ req[p].pc = "save"
  BY <1>0 DEF Fail, Done, NoRequest, TypeInv, TypeOK, PredTypeOK
<1>2. preds' = preds /\ readRuns' = readRuns /\ lost' = Noted(p, lost)
  BY DEF Fail, dataVars
<1>3. SUFFICES ASSUME NEW m \in Matches
               PROVE  readRuns'[m] <= Cardinality(SavedBy(m, "read"))' + Cardinality(Saving(m))'
                                        + lost'[m]
  BY DEF Accounted
<1>4. CASE req[p].by # "read" \/ req[p].m # m
  <2>1. Saving(m)' = Saving(m)
    BY <1>1, <1>4 DEF Saving, Predictors
  <2>2. lost'[m] = lost[m]
    BY <1>2, <1>4 DEF Noted, TypeInv, TypeOK, PredTypeOK
  <2>. QED
    BY <1>2, <2>1, <2>2, SameAccount
<1>5. CASE req[p].by = "read" /\ req[p].m = m
  <2>1. Saving(m)' = Saving(m) \ {p}
    BY <1>1, <1>5 DEF Saving, Predictors
  <2>2. Cardinality(Saving(m)') >= Cardinality(Saving(m)) - 1
    BY <2>1, SavingFinite, FS_RemoveElement
  <2>3. lost'[m] = lost[m] + 1 /\ readRuns[m] \in Nat /\ lost[m] \in Nat
    BY <1>2, <1>5 DEF Noted, TypeInv, TypeOK, PredTypeOK
  <2>4. SavedBy(m, "read")' = SavedBy(m, "read")
    BY <1>2 DEF SavedBy
  <2>. QED
    BY <1>2, <2>2, <2>3, <2>4, SavingFinite, ReadsFinite DEF Accounted
<1>. QED
  BY <1>4, <1>5

\* The row is saved: one saver less, one row of a read more.
LEMMA SaveAccount ==
  ASSUME TypeInv, Accounted, NEW p \in Predictors, Save(p)
  PROVE  Accounted'
<1>. DEFINE n   == req[p].m
            row == [basis |-> req[p].basis, by |-> req[p].by]
            old == preds[n]
            r   == [req[p] EXCEPT !.pc = "cache", !.id = Len(preds[n]) + 1]
<1>0. n \in Matches /\ req[p] \in Request /\ old \in Seq(Prediction)
  BY DEF TypeInv, TypeOK, PredTypeOK, DataTypeOK, Request
<1>1. /\ \A q \in Predictors : req'[q] = IF q = p THEN r ELSE req[q]
      /\ r.pc = "cache" /\ req[p].pc = "save"
  BY <1>0 DEF Save, TypeInv, TypeOK, PredTypeOK, Request
<1>2. /\ preds' = [preds EXCEPT ![n] = Append(old, row)]
      /\ readRuns' = readRuns /\ lost' = lost
  BY DEF Save, SavePrediction, counts
<1>. HIDE DEF r
<1>3. SUFFICES ASSUME NEW m \in Matches
               PROVE  readRuns'[m] <= Cardinality(SavedBy(m, "read"))' + Cardinality(Saving(m))'
                                        + lost'[m]
  BY DEF Accounted
<1>4. IsFiniteSet(SavedBy(m, "read")') /\ Cardinality(SavedBy(m, "read")') \in Nat
  <2>1. Len(preds'[m]) \in Nat
    BY <1>0, <1>2, <1>3 DEF TypeInv, TypeOK, DataTypeOK, Prediction, Request
  <2>2. SavedBy(m, "read")' \subseteq 1..Len(preds'[m])
    BY DEF SavedBy
  <2>3. IsFiniteSet(1..Len(preds'[m]))
    BY <2>1, FS_Interval
  <2>4. IsFiniteSet(SavedBy(m, "read")')
    BY <2>2, <2>3, FS_Subset
  <2>. QED
    BY <2>4, FS_CardinalityType
<1>5. readRuns[m] \in Nat /\ lost[m] \in Nat
  BY <1>3 DEF TypeInv, TypeOK, PredTypeOK
<1>6. CASE m # n
  <2>1. SavedBy(m, "read")' = SavedBy(m, "read")
    <3>1. preds'[m] = preds[m]
      BY <1>2, <1>3, <1>6 DEF TypeInv, TypeOK, DataTypeOK
    <3>. QED
      BY <3>1 DEF SavedBy
  <2>2. Saving(m)' = Saving(m)
    <3>1. ASSUME NEW q \in Readers
          PROVE  q \in Saving(m)' <=> q \in Saving(m)
      BY <1>1, <1>6 DEF Saving, Predictors
    <3>. QED
      BY <3>1 DEF Saving
  <2>. QED
    BY <1>2, <1>3, <2>1, <2>2 DEF Accounted
<1>7. CASE m = n
  <2>1. Len(old) \in Nat /\ preds'[m] = Append(old, row)
    BY <1>0, <1>2, <1>7 DEF TypeInv, TypeOK, DataTypeOK
  <2>2. /\ Len(preds'[m]) = Len(old) + 1
        /\ \A i \in 1..Len(old) : preds'[m][i] = old[i]
        /\ preds'[m][Len(old) + 1] = row
    BY <1>0, <2>1
  <2>3. CASE req[p].by # "read"
    <3>1. SavedBy(m, "read") \subseteq SavedBy(m, "read")'
      BY <1>7, <2>1, <2>2 DEF SavedBy
    <3>2. Cardinality(SavedBy(m, "read")) <= Cardinality(SavedBy(m, "read")')
      BY <1>4, <3>1, FS_Subset
    <3>3. Saving(m)' = Saving(m)
      BY <1>1, <2>3 DEF Saving, Predictors
    <3>. QED
      BY <1>2, <1>3, <1>4, <1>5, <3>2, <3>3, SavingFinite, ReadsFinite DEF Accounted
  <2>4. CASE req[p].by = "read"
    <3>1. Saving(m)' = Saving(m) \ {p}
      BY <1>1 DEF Saving, Predictors
    <3>2. Cardinality(Saving(m)') >= Cardinality(Saving(m)) - 1
      BY <1>3, <3>1, SavingFinite, FS_RemoveElement
    <3>. DEFINE more == SavedBy(m, "read") \cup {Len(old) + 1}
    <3>3. row.by = "read"
      BY <2>4
    <3>4. more \subseteq SavedBy(m, "read")'
      BY <1>7, <2>1, <2>2, <3>3 DEF SavedBy
    <3>5. Len(old) + 1 \notin SavedBy(m, "read")
      BY <1>7, <2>1 DEF SavedBy
    <3>6. Cardinality(more) = Cardinality(SavedBy(m, "read")) + 1
      BY <1>3, <3>5, ReadsFinite, FS_AddElement
    <3>7. Cardinality(more) <= Cardinality(SavedBy(m, "read")')
      BY <1>4, <3>4, FS_Subset
    <3>. HIDE DEF more
    <3>. QED
      BY <1>2, <1>3, <1>4, <1>5, <3>2, <3>6, <3>7, SavingFinite, ReadsFinite DEF Accounted
  <2>. QED
    BY <2>3, <2>4
<1>. QED
  BY <1>6, <1>7

LEMMA AccountInit == Init => Accounted
<1>. SUFFICES ASSUME Init, NEW m \in Matches
              PROVE  readRuns[m] <= Cardinality(SavedBy(m, "read")) + Cardinality(Saving(m)) + lost[m]
  BY DEF Accounted
<1>1. SavedBy(m, "read") = {} /\ Saving(m) = {} /\ readRuns[m] = 0 /\ lost[m] = 0
  BY DEF Init, DataInit, PredInit, NoRequest, Predictors, SavedBy, Saving
<1>. QED
  BY <1>1, FS_EmptySet

LEMMA AccountStep == TypeInv /\ PollerPolls /\ Accounted /\ [Next]_vars => Accounted'
<1>. SUFFICES ASSUME TypeInv, PollerPolls, Accounted, [Next]_vars PROVE Accounted'
  OBVIOUS
<1>0. \A p \in Predictors : req[p] \in Request
  BY DEF TypeInv, TypeOK, PredTypeOK
<1>1. ASSUME UNCHANGED <<req, preds, readRuns, lost>>
      PROVE  Accounted'
  BY <1>1 DEF Accounted, SavedBy, Saving
<1>2. ASSUME NEW p \in Predictors, NEW r, req' = [req EXCEPT ![p] = r],
             req[p].pc # "save", r.pc # "save", UNCHANGED <<preds, readRuns, lost>>
      PROVE  Accounted'
  BY <1>2, SameSaving, SameAccount DEF Accounted
<1>3. ASSUME NEW p \in Predictors, NEW s, NEW m, NEW by, Begin(p, s, m, by), s # "save",
             UNCHANGED <<preds, readRuns, lost>>
      PROVE  Accounted'
  <2>. DEFINE r == [NoRequest EXCEPT !.pc = s, !.m = m, !.by = by]
  <2>1. req' = [req EXCEPT ![p] = r] /\ r.pc = s /\ req[p].pc = "idle"
    BY <1>3 DEF Begin, NoRequest
  <2>. HIDE DEF r
  <2>. QED
    BY <1>2, <1>3, <2>1
<1>4. ASSUME NEW p \in Predictors, Done(p), req[p].pc # "save", UNCHANGED <<preds, readRuns, lost>>
      PROVE  Accounted'
  <2>1. NoRequest.pc = "idle" /\ req' = [req EXCEPT ![p] = NoRequest]
    BY <1>4 DEF Done, NoRequest
  <2>. QED
    BY <1>2, <1>4, <2>1
<1>5. ASSUME NEW p \in Predictors, NEW s, Advance(p, s), s # "save", req[p].pc # "save",
             UNCHANGED <<preds, readRuns, lost>>
      PROVE  Accounted'
  <2>. DEFINE r == [req[p] EXCEPT !.pc = s]
  <2>1. req' = [req EXCEPT ![p] = r] /\ r.pc = s
    BY <1>0, <1>5 DEF Advance, Request
  <2>. HIDE DEF r
  <2>. QED
    BY <1>2, <1>5, <2>1
<1>6. CASE Collect
  BY <1>1, <1>6, SyncStepCache DEF Collect, predVars, counts
<1>7. ASSUME NEW p \in Readers, (\E m \in Matches : Ask(p, m) \/ Analyze(p, m)) \/ LookUp(p)
      PROVE  Accounted'
  <2>1. p \in Predictors
    BY DEF Predictors
  <2>2. CASE \E m \in Matches : Ask(p, m) \/ Analyze(p, m)
    BY <1>3, <2>1, <2>2 DEF Ask, Analyze, dataVars, counts
  <2>3. CASE CacheHit(p) \/ TableHit(p)
    BY <1>4, <2>1, <2>3 DEF CacheHit, TableHit, dataVars, counts
  <2>4. CASE CacheMiss(p) \/ TableMiss(p) \/ TableMisread(p)
    BY <1>5, <2>1, <2>4 DEF CacheMiss, TableMiss, TableMisread, dataVars, counts
  <2>. QED
    BY <1>7, <2>2, <2>3, <2>4 DEF LookUp
<1>8. CASE Poll \/ \E m \in Matches : ExpirePrediction(m)
  BY <1>1, <1>8 DEF Poll, ExpirePrediction, dataVars, predVars, counts
<1>9. ASSUME NEW m \in Matches, PollMatch(m)
      PROVE  Accounted'
  <2>1. Poller \in Predictors
    BY DEF Predictors
  <2>. QED
    BY <1>3, <1>9, <2>1 DEF PollMatch, dataVars, counts
<1>10. ASSUME NEW p \in Predictors, NoMatch(p) \/ CacheSaved(p)
       PROVE  Accounted'
  BY <1>4, <1>10 DEF NoMatch, CacheSaved, dataVars, counts
<1>11. CASE UNCHANGED vars
  BY <1>1, <1>11 DEF vars, dataVars, predVars, counts
<1>. QED
  BY <1>6, <1>7, <1>8, <1>9, <1>10, <1>11, ReadMatchAccount, FailAccount, SaveAccount
     DEF Next, PredNext, RunPrediction

\* However many requests read the prediction of a match at once, and whatever the
\* collector deletes from the cache meanwhile, each of them makes the model run at most
\* once, plus once for every read of the table that failed and for every run whose
\* result was lost.
THEOREM ReadsComputeOnce == Spec => []ReadsRunModelOnce
<1>1. TypeInv /\ ReadsInv /\ Accounted => ReadsRunModelOnce
  <2>. SUFFICES ASSUME TypeInv, ReadsInv, Accounted, NEW m \in Matches
                PROVE  readRuns[m] <= Cardinality(Readers) + misreads + lost[m]
    BY DEF ReadsRunModelOnce
  <2>1. Cardinality(SavedBy(m, "read")) + Cardinality(Computing(m))
          <= Cardinality(Readers) + misreads
    BY DEF ReadsInv, ReadsAreFew
  <2>2. Saving(m) \subseteq Computing(m)
    BY DEF Saving, Computing
  <2>3. Cardinality(Saving(m)) <= Cardinality(Computing(m))
    BY <2>2, ReadsFinite, FS_Subset
  <2>4. readRuns[m] <= Cardinality(SavedBy(m, "read")) + Cardinality(Saving(m)) + lost[m]
    BY DEF Accounted
  <2>5. readRuns[m] \in Nat /\ lost[m] \in Nat
    BY DEF TypeInv, TypeOK, PredTypeOK
  <2>. QED
    BY <2>1, <2>3, <2>4, <2>5, ReadsFinite, SavingFinite
<1>2. ReadsInv => PollerPolls
  BY DEF ReadsInv
<1>. QED
  BY TypeInit, TypeStep, ReadsInit, ReadsStep, AccountInit, AccountStep, <1>1, <1>2, PTL DEF Spec
=============================================================================
