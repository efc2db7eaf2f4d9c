----------------------------- MODULE Predictions -----------------------------
(***************************************************************************)
(* The backend's predictions: readers that ask for one or press Analyze,   *)
(* and the live service's poller that recomputes one for every match it    *)
(* finds live.  A request reads the cache, then the table, then runs the   *)
(* model; it saves the new row first and caches it afterwards.             *)
(***************************************************************************)
EXTENDS MatchData

CONSTANTS
  Readers,         \* concurrent HTTP requests
  Poller,          \* the goroutine of StartPolling
  MaxSaved,        \* bound: saved rows per match, for each origin
  MaxMisreads,     \* bound: failed reads of the predictions table
  MaxLost          \* bound: runs for reads of a match whose result is lost

Predictors == Readers \cup {Poller}

ASSUME PredictionsAssumption ==
  /\ Poller \notin Readers
  /\ IsFiniteSet(Readers)
  /\ MaxSaved \in [Origins -> Nat]
  /\ MaxMisreads \in Nat
  /\ MaxLost \in Nat

VARIABLES
  req,       \* req[p]   the request predictor p is serving
  pollTodo,  \* the live matches of the current poll not handled yet
  misreads,
  readRuns,  \* history: readRuns[m] times a read had the model run for m
  lost       \* history: lost[m] of them came to nothing, the run or the insert failed

counts == <<misreads, readRuns, lost>>
predVars == <<req, pollTodo, counts>>

RequestSteps == {"idle", "look", "latest", "match", "save", "cache"}

\* A request: its next step, the match, the status its features came from, on
\* whose behalf it runs and the row it saved.
Request ==
  [pc : RequestSteps, m : Matches, basis : RowStatus,
   by : Origins, id : Nat]

NoRequest ==
  [pc |-> "idle", m |-> CHOOSE m \in Matches : TRUE, basis |-> "scheduled",
   by |-> "read", id |-> 0]

PredTypeOK ==
  /\ req \in [Predictors -> Request]
  /\ pollTodo \in SUBSET Matches
  /\ misreads \in Nat
  /\ readRuns \in [Matches -> Nat]
  /\ lost \in [Matches -> Nat]

PredInit ==
  /\ req = [p \in Predictors |-> NoRequest]
  /\ pollTodo = {}
  /\ misreads = 0
  /\ readRuns = [m \in Matches |-> 0]
  /\ lost = [m \in Matches |-> 0]

Begin(p, s, m, by) ==
  /\ req[p].pc = "idle"
  /\ req' = [req EXCEPT ![p] = [NoRequest EXCEPT !.pc = s, !.m = m, !.by = by]]

Advance(p, s) == req' = [req EXCEPT ![p].pc = s]

Done(p) == req' = [req EXCEPT ![p] = NoRequest]

-----------------------------------------------------------------------------
\* GetPrediction and GetOrCreatePrediction (coupons and the pre-warm hook).

Ask(p, m) ==
  /\ Begin(p, "look", m, "read")
  /\ UNCHANGED <<pollTodo, counts, dataVars>>

CacheHit(p) ==
  /\ req[p].pc = "look"
  /\ predCache[req[p].m] # 0
  /\ Done(p)
  /\ UNCHANGED <<pollTodo, counts, dataVars>>

\* No entry, or Redis does not answer.
CacheMiss(p) ==
  /\ req[p].pc = "look"
  /\ Advance(p, "latest")
  /\ UNCHANGED <<pollTodo, counts, dataVars>>

\* The newest row answers, whatever its age and whether or not it is a live one.
TableHit(p) ==
  /\ req[p].pc = "latest"
  /\ GetLatestPrediction(req[p].m) # 0
  /\ Done(p)
  /\ UNCHANGED <<pollTodo, counts, dataVars>>

\* A variant that asks the table for live rows only.
TableMiss_WantsLive(p) ==
  /\ req[p].pc = "latest"
  /\ \A i \in 1..Len(preds[req[p].m]) : ~IsLive(preds[req[p].m][i])
  /\ Advance(p, "match")
  /\ UNCHANGED <<pollTodo, counts, dataVars>>

TableMiss(p) ==
  /\ req[p].pc = "latest"
  /\ GetLatestPrediction(req[p].m) = 0
  /\ Advance(p, "match")
  /\ UNCHANGED <<pollTodo, counts, dataVars>>

\* Any error counts as "no prediction yet".
TableMisread(p) ==
  /\ req[p].pc = "latest"
  /\ misreads < MaxMisreads
  /\ misreads' = misreads + 1
  /\ Advance(p, "match")
  /\ UNCHANGED <<pollTodo, readRuns, lost, dataVars>>

-----------------------------------------------------------------------------
\* AnalyzeMatch always runs the model.

Analyze(p, m) ==
  /\ Begin(p, "match", m, "analyze")
  /\ UNCHANGED <<pollTodo, counts, dataVars>>

-----------------------------------------------------------------------------
\* pollLiveMatches: one snapshot of the live matches, then one after the other.

\* A variant that trusts the live keys instead of the rows.
Poll_OnlyMarked ==
  /\ req[Poller].pc = "idle"
  /\ pollTodo = {}
  /\ pollTodo' = {m \in Matches : liveKey[m]}
  /\ UNCHANGED <<req, counts, dataVars>>

Poll ==
  /\ req[Poller].pc = "idle"
  /\ pollTodo = {}
  /\ pollTodo' = {m \in Matches : status[m] = "live"}
  /\ UNCHANGED <<req, counts, dataVars>>

PollMatch(m) ==
  /\ m \in pollTodo
  /\ Begin(Poller, "match", m, "poll")
  /\ pollTodo' = pollTodo \ {m}
  /\ UNCHANGED <<counts, dataVars>>

-----------------------------------------------------------------------------
\* runPrediction.

\* One more in history h for p's match, if p is a read.
Noted(p, h) == IF req[p].by = "read" THEN [h EXCEPT ![req[p].m] = @ + 1] ELSE h

\* GetMatchByID: the status read here decides IsLive and the live features.  The
\* features follow, and the model runs.
ReadMatch(p) ==
  /\ req[p].pc = "match"
  /\ status[req[p].m] # "none"
  /\ req' = [req EXCEPT ![p] = [@ EXCEPT !.pc = "save", !.basis = status[req[p].m]]]
  /\ readRuns' = Noted(p, readRuns)
  /\ UNCHANGED <<pollTodo, misreads, lost, dataVars>>

\* No such match.
NoMatch(p) ==
  /\ req[p].pc = "match"
  /\ Done(p)
  /\ UNCHANGED <<pollTodo, counts, dataVars>>

\* A feature query or the ML service fails, or the insert does.
Fail(p) ==
  /\ req[p].pc = "save"
  /\ req[p].by = "read" => lost[req[p].m] < MaxLost
  /\ lost' = Noted(p, lost)
  /\ Done(p)
  /\ UNCHANGED <<pollTodo, misreads, readRuns, dataVars>>

SavedBy(m, by) == {i \in 1..Len(preds[m]) : preds[m][i].by = by}

\* A variant that caches a prediction whose insert failed.
Save_IgnoresError(p) ==
  LET r == req[p]
  IN  /\ r.pc = "save"
      /\ req' = [req EXCEPT ![p] = [@ EXCEPT !.pc = "cache", !.id = Len(preds[r.m]) + 1]]
      /\ UNCHANGED <<pollTodo, counts, dataVars>>

\* A variant that marks as live whatever was not asked for by a plain read.
Save_AnalysisIsLive(p) ==
  LET r == req[p]
  IN  /\ r.pc = "save"
      /\ Cardinality(SavedBy(r.m, r.by)) < MaxSaved[r.by]
      /\ SavePrediction(r.m, [basis |-> IF r.by = "read" THEN r.basis ELSE "live", by |-> r.by])
      /\ req' = [req EXCEPT ![p] = [@ EXCEPT !.pc = "cache", !.id = Len(preds[r.m]) + 1]]
      /\ UNCHANGED <<pollTodo, counts, status, liveKey, predCache>>

\* The model has answered (and for Analyze the AI agent has, or has failed).
Save(p) ==
  LET r == req[p]
  IN  /\ r.pc = "save"
      /\ Cardinality(SavedBy(r.m, r.by)) < MaxSaved[r.by]
      /\ SavePrediction(r.m, [basis |-> r.basis, by |-> r.by])
      /\ req' = [req EXCEPT ![p] = [@ EXCEPT !.pc = "cache", !.id = Len(preds[r.m]) + 1]]
      /\ UNCHANGED <<pollTodo, counts, status, liveKey, predCache>>

CacheSaved(p) ==
  /\ req[p].pc = "cache"
  /\ SetPrediction(req[p].m, req[p].id)
  /\ Done(p)
  /\ UNCHANGED <<pollTodo, counts, status, liveKey, preds>>

\* The one hour lifetime of a cached prediction.
ExpirePrediction(m) ==
  /\ predCache[m] # 0
  /\ predCache' = [predCache EXCEPT ![m] = 0]
  /\ UNCHANGED <<predVars, status, liveKey, preds>>

-----------------------------------------------------------------------------
RunPrediction(p) == ReadMatch(p) \/ NoMatch(p) \/ Fail(p) \/ Save(p) \/ CacheSaved(p)

LookUp(p) ==
  CacheHit(p) \/ CacheMiss(p) \/ TableHit(p) \/ TableMiss(p) \/ TableMisread(p)

PredNext ==
  \/ \E r \in Readers : (\E m \in Matches : Ask(r, m) \/ Analyze(r, m)) \/ LookUp(r)
  \/ Poll
  \/ \E m \in Matches : PollMatch(m) \/ ExpirePrediction(m)
  \/ \E p \in Predictors : RunPrediction(p)
=============================================================================
